SPECIFICATION Spec
CONSTANTS
    Requests = {}
    Cancels = {d1, d2}
    Nobody = Nobody
    Artifacts = {report, draft}
    Optional = {draft}
    NodeCount = 3
    SaveNode = 1
    DbFaults = TRUE
    MinioFaults = FALSE
    Crashes = 1
CHECK_DEADLOCK FALSE
SYMMETRY Calls
INVARIANTS
    CompletedHasReport
PROPERTIES
    ToldTerminalStays
    JobLifecycle
