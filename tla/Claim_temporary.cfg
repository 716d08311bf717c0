SPECIFICATION FairSpec
CONSTANTS
    None = None
    Inspection = {i1}
    Request = {r1, r2}
    LegacyRows = {}
    LegacyReported = {}
    ShortHash <- DistinctHashes
    Ops = {"approve"}
    Bodies = {}
    Faults = {"database", "environment"}
    MaxCrashes = 1
PROPERTIES
    ApprovedIsTemporary
CHECK_DEADLOCK FALSE
