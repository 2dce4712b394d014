SPECIFICATION Spec
CONSTANTS
    k1 = k1
    k2 = k2
    k3 = k3
    t1 = t1
    n1 = n1
    n2 = n2
    NoTitle = NoTitle
    NoProject = NoProject
    NoName = NoName
    Names <- MCNames
    Projects <- MCProjects
    Roles <- MCRoles
    Queries <- MCQueries
    KeysOf <- MCKeysOf
    TitlesOf <- MCTitlesOf
    TermLimit = 2
    FinancialTermLimit = 3
    Extended <- MCExtended
    Budget = 7
    ProjectCap = 3
    CostCap = 2
    ExtendedCap = 1
    Backoff = 1
    Margin = 1
CHECK_DEADLOCK FALSE
INVARIANTS
    CoverageIsTrue
    RetryFits
    RefusedGivesNothing
    OnlyAllowedIsRead
PROPERTIES
    NormalizeKeepsBest
