SPECIFICATION RenderFairSpec
CONSTANTS
    Task = {t1, t2, t3}
    MaxConcurrent = 2
    MaxConsecutiveErrors = 2
    MaxAttempts = 3
INVARIANTS
    BrowsersWithinSlots
PROPERTIES
    AcceptedTasksFinish
CHECK_DEADLOCK FALSE
