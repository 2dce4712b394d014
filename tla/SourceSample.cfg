SPECIFICATION FairSourceSpec
CONSTANTS
    PageSize = 2
    SampleTarget = 5
    MaxPages = 4
    MaxRows = 9
    MaxRuns = 4
CHECK_DEADLOCK FALSE
INVARIANTS
    CompletedHasSample
    SampleIsBounded
PROPERTIES
    RunReturns
