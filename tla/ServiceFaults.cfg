SPECIFICATION Spec
CONSTANTS
    Requests = {c1}
    Cancels = {d1}
    Nobody = Nobody
    Pipeline = Pipeline
    Artifacts = {report, draft}
    Optional = {draft}
    NodeCount = 2
    SaveNode = 0
    DbFaults = TRUE
    MinioFaults = FALSE
    Crashes = 1
CHECK_DEADLOCK FALSE
SYMMETRY Calls

    
PROPERTIES
    ServiceLifecycle
