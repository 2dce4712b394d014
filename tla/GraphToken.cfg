SPECIFICATION TokenSpec
CONSTANTS
    Callers = {c1, c2, c3}
    Lifetimes = {1, 4}
    Buffer = 2
    EndOfTime = 6
CHECK_DEADLOCK FALSE
INVARIANTS
    CachedTokenLives
PROPERTIES
    EveryCallerEnds
    NoRepeatedRequest
