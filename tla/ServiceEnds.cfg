SPECIFICATION FairSpec
CONSTANTS
    Requests = {c1}
    Cancels = {d1}
    Nobody = Nobody
    Pipeline = Pipeline
    Artifacts = {report}
    Optional = {}
    NodeCount = 2
    SaveNode = 0
    DbFaults = FALSE
    MinioFaults = FALSE
    Crashes = 1
CHECK_DEADLOCK FALSE
INVARIANTS
    InFlightIsOwned
PROPERTIES
    EveryJobEnds
    ApprovalPublishes
