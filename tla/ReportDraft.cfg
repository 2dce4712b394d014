SPECIFICATION Spec
CONSTANTS
    proj = proj
    line = line
    pay = pay
    doc = doc
    doc2 = doc2
    mail = mail
    Unknown = Unknown
    Alias = Alias
    NoId = NoId
    Evidence <- MCEvidence
    KindOf <- MCKindOf
    Quotable <- MCQuotable
    Tagged <- MCTagged
    Financial <- MCFinancial
    Types <- MCTypes
    Packs <- MCPacks
    Coverages <- MCCoverages
    Drafts <- MCDrafts
    Salary <- MCSalary
CHECK_DEADLOCK FALSE
INVARIANTS
    ReleasedIsBacked
    
    FallbackIsReviewed
    OdooFiguresWin
