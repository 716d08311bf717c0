SPECIFICATION EditingSpec
CONSTANTS
    None = None
    Inspection = {i1}
    Request = {r1, r2, r3}
    LegacyRows = {}
    LegacyReported = {}
    ShortHash <- DistinctHashes
    Ops = {"approve", "delete"}
    Bodies = {}
    Faults = {}
    MaxCrashes = 1
    Edit = {e1, e2, e3}
    User = {u1, u2}
    SubKey = {a}
    Val = {v, w}
    Dtos <- SmallDtos
    LegacyData = {i1}
SYMMETRY EditSymmetry
INVARIANTS
    EditingTypeOK
    InspectorNamed
PROPERTIES
    LatestChangesApplied
CHECK_DEADLOCK FALSE
