SPECIFICATION FairSpec
CONSTANTS
    Call = {c1, c2, c3}
    MAX_RETRIES = 2
    SUBMIT_MAX_RETRIES = 2
    Outputs = 2
INVARIANTS
    TypeOK
    MutualExclusion
    OneTokenPerCall
    BoundedAttempts
    NoConflictingInputs
PROPERTIES
    CallsAnswer
CHECK_DEADLOCK FALSE
