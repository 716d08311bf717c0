------------------------ MODULE MCInspectionLifecycle ------------------------
(***************************************************************************)
(* Instances of InspectionLifecycle for TLC.                               *)
(***************************************************************************)
EXTENDS InspectionLifecycle, TLC

\* Every report has a short hash of its own.
DistinctHashes == [report \in Report |-> report]

\* ... except that a legacy report shares its own with the report of Twin.
Twin == CHOOSE r \in Request : TRUE
TwinHashes == [report \in Report |-> IF report \in LegacyReported THEN Twin ELSE report]

\* Confirmations name the transaction and an asset of Twin: what its client
\* submitted, what the server may have minted for it, or nothing at all.
TwinBodies == {<<Twin, AikenAsset(Twin)>>, <<Twin, NativeAsset(Twin)>>}

\* The other requests are interchangeable (safety only).
Symmetry == Permutations(Request \ {Twin})
=============================================================================
