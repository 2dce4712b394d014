SPECIFICATION Spec
CONSTANTS
    Requests = {c1, c2}
    Cancels = {}
    Nobody = Nobody
    Pipeline = Pipeline
    Artifacts = {report, draft}
    Optional = {draft}
    NodeCount = 3
    DbFaults = FALSE
    MinioFaults = FALSE
    Crashes = 0
CHECK_DEADLOCK FALSE
SYMMETRY Calls
INVARIANTS
    RejectionNeverPublishes
