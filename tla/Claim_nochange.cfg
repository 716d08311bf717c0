SPECIFICATION EditingSpec
CONSTANTS
    None = None
    Inspection = {i1}
    Request = {r1}
    LegacyRows = {}
    LegacyReported = {}
    ShortHash <- DistinctHashes
    Ops = {"approve"}
    Bodies = {}
    Faults = {}
    MaxCrashes = 0
    Edit = {e1, e2}
    User = {u1, u2}
    SubKey = {a}
    Val = {v, w}
    Dtos <- SmallDtos
    LegacyData = {}
PROPERTIES
    NoChangeNeeded
CHECK_DEADLOCK FALSE
