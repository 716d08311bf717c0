SPECIFICATION Spec
CONSTANTS
    None = None
    Inspection = {i1, i2}
    Request = {r1, r2, r3}
    LegacyRows = {}
    LegacyReported = {}
    ShortHash <- DistinctHashes
    Ops = {"approve", "clientMint", "confirm"}
    Bodies <- TwinBodies
    Faults = {}
    MaxCrashes = 0
SYMMETRY Symmetry
INVARIANTS
    ConfirmedTxSubmitted
CHECK_DEADLOCK FALSE
