SPECIFICATION Spec
CONSTANTS
    p1 = p1
    o7 = o7
    s1 = s1
    s2 = s2
    m1 = m1
    s3 = s3
    Calls = {c1, c2, c3}
    Verified = {p1}
    Synced = {o7}
    Sites = {s1, s2, s3}
    Mailboxes = {m1}
    Placeholders = {"example-site"}
    OwnCloudConfigured = FALSE
    TopCandidates = 2
    FileSite <- SmallFileSite
    FileMailbox = m1
    Bodies <- SmallBodies
    DbFaults = TRUE
    Restarts = 1
CHECK_DEADLOCK FALSE
SYMMETRY CallSymmetry
INVARIANTS
    StoredStatusIsComputed
    RescanPicksUnique
PROPERTIES
    ChangesAudited
    ConfirmKeepsSite
    SyncTakesFreeSites
    EnrichmentKeepsEntries
