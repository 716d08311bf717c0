SPECIFICATION Spec
CONSTANTS
    None = None
    Inspection = {i1}
    Request = {r1, r2, r3}
    LegacyRows = {}
    LegacyReported = {}
    ShortHash <- DistinctHashes
    Ops = {"approve", "archive"}
    Bodies = {}
    Faults = {}
    MaxCrashes = 0
SYMMETRY Symmetry
INVARIANTS
    AssetMintedOnce
CHECK_DEADLOCK FALSE
