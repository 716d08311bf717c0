--------------------------- MODULE LifecycleClaims ---------------------------
(***************************************************************************)
(* What comments of the repository say about the life of an inspection and *)
(* the code does not do.  Each is refuted by a run; the properties of      *)
(* InspectionLifecycle state what holds instead.                           *)
(***************************************************************************)
EXTENDS MCInspectionLifecycle

\* inspections.service.ts:2398: "if minting fails, keep the inspection as
\* APPROVED": the update after a failed mint leaves the status alone.
FailedMintKeepsStatus ==
    [][\A r \in Request :
          pc[r] = "mintFailed" /\ pc'[r] = "done" =>
              db'[on[r]].status = db[on[r]].status]_vars

\* inspections.service.ts:2345: the asset name is "unique to avoid assetId
\* collisions": no asset id is minted twice.
AssetMintedOnce ==
    \A m, n \in chain : m[2] = n[2] => m = n

\* inspections.service.ts:1652: "Temporary status during processing": APPROVED
\* without a report does not last.
ApprovedIsTemporary ==
    \A i \in Inspection : Processing(i) ~> ~Processing(i)

\* confirm-mint.dto.ts:11: "Hash dari transaksi minting yang telah berhasil
\* disubmit ke blockchain": the transaction of a row was submitted, and for
\* this inspection.
ConfirmedTxSubmitted ==
    \A i \in live :
        LET tx == db[i].blockchainTxHash IN
        tx # None => on[tx] = i /\ \E asset \in AssetId : <<tx, asset>> \in chain
=============================================================================
