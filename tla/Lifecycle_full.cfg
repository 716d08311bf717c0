SPECIFICATION Spec
CONSTANTS
    None = None
    Inspection = {i1, i2}
    Request = {r1, r2, r3, r4}
    LegacyRows = {i2}
    LegacyReported = {i2}
    ShortHash <- TwinHashes
    Ops <- AllOps
    Bodies <- TwinBodies
    Faults = {"database", "disk", "environment"}
    MaxCrashes = 1
SYMMETRY Symmetry
INVARIANTS
    TypeOK
    ApprovalsBoundedByRollbacks
    ArchivedHasEvidence
    AssetMintedByTx
    ReportMatchesReviewer
    MintedReportIsCurrent
    ReportOnDisk
PROPERTIES
    ReportIsFinal
    ReviewedBeforePublished
CHECK_DEADLOCK FALSE
