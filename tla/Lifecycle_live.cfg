SPECIFICATION BulkSpec
CONSTANTS
    None = None
    a1 = a1
    a2 = a2
    Inspection = {i1, i2}
    Request = {a1, a2, r1, r2}
    LegacyRows = {i2}
    LegacyReported = {i2}
    ShortHash <- CollidingHashes
    Items <- TwoItems
    Ops = {"approve", "archive", "rollback", "revert", "delete", "confirm"}
    Bodies <- OneBody
    Faults = {"environment"}
    MaxCrashes = 0
INVARIANTS
    SummaryIsTrue
PROPERTIES
    TemporaryApprovalEnds
    HandlersEnd
    BulkAnswers
CHECK_DEADLOCK FALSE
