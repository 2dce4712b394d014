SPECIFICATION Spec
CONSTANTS
    Tasks = {t1, t2, t3}
    Estimates = {1, 2, 3}
    Overrun = 1
    DailyCap = 6
    Days = 2
    Restarts = 1
SYMMETRY Jobs
INVARIANTS
    OvershootBounded
    CapExplained
    LedgersAgree
