--------------------------- MODULE MCBulkApproval ---------------------------
(***************************************************************************)
(* An instance of BulkApproval for TLC.                                    *)
(***************************************************************************)
EXTENDS BulkApproval, TLC

CONSTANTS a1, a2    \* the two items of the bulk request

TwoItems == <<a1, a2>>

\* All reports share the first 8 characters of their hashes.
CollidingHashes == [report \in Report |-> CHOOSE i \in Inspection : TRUE]

\* A confirmation of a transaction nobody sends.
OneBody == {<<a1, AikenAsset(a1)>>}
=============================================================================
