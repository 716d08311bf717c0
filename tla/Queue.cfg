SPECIFICATION Spec
CONSTANTS
    Task = {t1, t2, t3, t4, t5}
    MaxConcurrent = 2
    MaxConsecutiveErrors = 2
INVARIANTS
    TypeOK
    SlotsCounted
    FirstComeFirstServed
PROPERTIES
    BreakerOpensAfterStreak
    ImplementsServer
CHECK_DEADLOCK FALSE
