SPECIFICATION Spec
CONSTANTS
    Requests = {c1, c2}
    Cancels = {}
    Nobody = Nobody
    Pipeline = Pipeline
    Artifacts = {report, draft}
    Optional = {draft}
    NodeCount = 3
    DbFaults = TRUE
    MinioFaults = TRUE
    Crashes = 1
CHECK_DEADLOCK FALSE
SYMMETRY Calls
INVARIANTS
    ReviewTypeOK
    PublishedOnlyWithApproval
    OverrideAudited
    
PROPERTIES
    FinalLocked
