SPECIFICATION FairSpec
CONSTANTS
    Starts = {s1}
    Retries = {r1, r2}
    None = None
    NumSources = 2
    Modes = {"failed", "incomplete"}
    Raising = {"event", "create", "save", "load"}
    Crashes = 1
CHECK_DEADLOCK FALSE
INVARIANTS
    CompletedMeansAll
PROPERTIES
    CompletedStays
    ScanEnds
