------------------------- MODULE InspectionLifecycle -------------------------
(***************************************************************************)
(* The life of an inspection row in InspectionsService                     *)
(* (src/inspections/inspections.service.ts): review, approval with PDF     *)
(* generation, archiving with NFT minting, the client-signed archive path, *)
(* soft deletion, the superadmin rollbacks and permanent deletion.         *)
(*                                                                         *)
(* Every HTTP request is a process.  A handler is cut into steps at the    *)
(* awaits after which it acts on what it read before: each database        *)
(* statement or transaction, the PDF generation and the mint are steps of  *)
(* their own, and the steps of all requests interleave.                    *)
(*                                                                         *)
(* Database: a Serializable transaction is one step (it commits only if    *)
(* nobody wrote the row since its snapshot, otherwise it aborts without    *)
(* effect); a default (READ COMMITTED) transaction that reads and then     *)
(* updates by id is a read step and a write step; an update by id of a     *)
(* deleted row fails.                                                      *)
(*                                                                         *)
(* Data: a report is named by the approval request that generated it (its  *)
(* file name and hash contain a timestamp), an on-chain transaction by the *)
(* request that submitted it, a reviewer by the approval request.  Both    *)
(* PDFs (full and without documents) are written together, so one field    *)
(* stands for url, hash and ipfs of both.  archivedAt and deactivatedAt    *)
(* are kept as "is set".  Requests rejected by a guard change nothing and  *)
(* are not represented.                                                    *)
(***************************************************************************)
EXTENDS Naturals, FiniteSets

CONSTANTS
    Inspection,     \* the inspection ids
    Request,        \* the HTTP requests of a behaviour, each served once
    LegacyRows,     \* inspections found in FAIL_ARCHIVE, written by an older release
    LegacyReported, \* ... those of them that already have a report
    ShortHash,      \* the first 8 characters of a report's hash, as a function
    Ops,            \* the operations clients call in this instance
    Bodies,         \* <<txHash, nftAssetId>> pairs confirmations may carry
    Faults,         \* what may fail: a database write, a file deletion on
                    \* the disk, the lookup of an environment variable
    MaxCrashes,     \* bound: how often the server process restarts
    None            \* SQL NULL

\* A report is named by its approval request, a legacy report by its inspection.
Report == Request \cup Inspection

AllOps == {"approve", "archive", "clientMint", "confirm", "deactivate",
           "activate", "rollback", "revert", "delete"}

ASSUME LifecycleAssumption ==
    /\ IsFiniteSet(Request)
    /\ LegacyRows \subseteq Inspection
    /\ LegacyReported \subseteq LegacyRows
    /\ ShortHash \in [Report -> Report]
    /\ Ops \subseteq AllOps
    /\ Bodies \subseteq Request \X ({"native", "aiken"} \X Report)
    /\ Faults \subseteq {"database", "disk", "environment"}
    /\ MaxCrashes \in Nat
    /\ Request \cap Inspection = {}
    /\ None \notin Report
    /\ None \notin {"native", "aiken"} \X Report

VARIABLES
    live,     \* ids of the rows that exist
    db,       \* the inspection table, read at the ids in live
    chain,    \* <<transaction, asset>> pairs on the Cardano ledger
    files,    \* the reports on disk in ./pdfarchived
    pc,       \* where the handler of each request stands
    on,       \* the inspection a request is about
    snap,     \* the row a handler read and still holds
    crashes   \* restarts of the server process so far

vars == <<live, db, chain, files, pc, on, snap, crashes>>

-----------------------------------------------------------------------------
(* Rows, assets and handler states.                                        *)

Status == {"NEED_REVIEW", "APPROVED", "ARCHIVING", "ARCHIVED", "FAIL_ARCHIVE",
           "DEACTIVATED"}

\* The statuses approveInspection accepts.
Approvable == {"NEED_REVIEW", "FAIL_ARCHIVE"}

\* Asset ids: the server's own one-signature policy with a name derived from
\* the report hash, or a policy parameterised by the client's UTxO.
NativeAsset(report) == <<"native", ShortHash[report]>>
AikenAsset(r) == <<"aiken", r>>
AssetId == {"native", "aiken"} \X Report

Row == [status: Status,
        reviewerId: Report \cup {None},
        pdfFileHash: Report \cup {None},
        nftAssetId: AssetId \cup {None},
        blockchainTxHash: Request \cup {None},
        archivedAt: BOOLEAN,
        deactivatedAt: BOOLEAN]

Generating == {"generating", "generated"}
InHandler == Generating \cup
    {"undoing", "minting", "minted", "mintFailed", "conflict", "rollingBack",
     "reverting", "unlinking", "deleting"}
AtClient == {"built", "submitted", "confirmed"}
Ended == {"done", "approvalFailed", "stranded", "unfounded", "rolledBack",
          "deleteFailed", "failed", "lost"}

\* A row as create() leaves it, or as an older release left it after a
\* failed archive.
InitialRow(i) ==
    [status           |-> IF i \in LegacyRows THEN "FAIL_ARCHIVE" ELSE "NEED_REVIEW",
     reviewerId       |-> IF i \in LegacyRows THEN i ELSE None,
     pdfFileHash      |-> IF i \in LegacyReported THEN i ELSE None,
     nftAssetId       |-> None,
     blockchainTxHash |-> None,
     archivedAt       |-> FALSE,
     deactivatedAt    |-> FALSE]

Init ==
    /\ live = Inspection
    /\ db = [i \in Inspection |-> InitialRow(i)]
    /\ chain = {}
    /\ files = LegacyReported
    /\ pc = [r \in Request |-> "idle"]
    /\ on \in [Request -> Inspection]
    /\ snap = [r \in Request |-> InitialRow(on[r])]
    /\ crashes = 0

\* A new request calls operation o on an existing inspection.
Calls(r, o) == o \in Ops /\ pc[r] = "idle" /\ on[r] \in live

\* The row request r is about, now.
Current(r) == db[on[r]]

Goto(r, l) == pc' = [pc EXCEPT ![r] = l]

\* The handler answers; what it had read is gone.
Ends(r, l) == Goto(r, l) /\ snap' = [snap EXCEPT ![r] = InitialRow(on[r])]

\* The handler keeps the row it read.
Reads(r) == snap' = [snap EXCEPT ![r] = Current(r)]

\* prisma.inspection.update by id: the row must still exist.
Writes(r, row) == on[r] \in live /\ db' = [db EXCEPT ![on[r]] = row]

\* The unique constraint on nft_asset_id: another row has this asset id.
AssetTaken(r, asset) ==
    \E j \in live \ {on[r]} : asset # None /\ db[j].nftAssetId = asset

-----------------------------------------------------------------------------
(* Faulty variants of the actions below, for mutation runs: each is a      *)
(* plausible bug that one of the properties has to catch.  None of them is *)
(* part of the model.                                                      *)

\* The transaction does not check the status.
ApproveTransactionUnguarded(r) ==
    /\ Calls(r, "approve")
    /\ Reads(r)
    /\ Writes(r, [Current(r) EXCEPT !.status = "APPROVED", !.reviewerId = r])
    /\ Goto(r, "generating")
    /\ UNCHANGED <<live, chain, files, on, crashes>>

\* The transaction does not claim the status.
ApproveTransactionUnclaimed(r) ==
    /\ Calls(r, "approve")
    /\ Current(r).status \in Approvable
    /\ Reads(r)
    /\ Writes(r, [Current(r) EXCEPT !.reviewerId = r])
    /\ Goto(r, "generating")
    /\ UNCHANGED <<live, chain, files, on, crashes>>

\* Promise.allSettled in place of Promise.all: the approval goes on without
\* one of its PDFs.
GenerationFailureIgnored(r) ==
    /\ pc[r] = "generating"
    /\ files' \in {files, files \cup {r}}
    /\ Goto(r, "generated")
    /\ UNCHANGED <<live, db, chain, on, snap, crashes>>

\* An update of a deleted row is taken to be impossible.
SaveReportFailsOnlyByFault(r) ==
    /\ pc[r] = "generated"
    /\ "database" \in Faults
    /\ Goto(r, "undoing")
    /\ UNCHANGED <<live, db, chain, files, on, snap, crashes>>

\* The rollback clears the reviewer and forgets the status.
RollbackAfterErrorKeepsStatus(r) ==
    /\ pc[r] = "undoing"
    /\ Writes(r, [Current(r) EXCEPT !.reviewerId = None])
    /\ Ends(r, "approvalFailed")
    /\ UNCHANGED <<live, chain, files, on, crashes>>

\* The retry after P2002 leaves out the whole NFT result.
ArchiveSaveWithoutResult(r) ==
    /\ pc[r] = "conflict"
    /\ Writes(r, [Current(r) EXCEPT !.status = "ARCHIVED", !.archivedAt = TRUE])
    /\ Ends(r, "done")
    /\ UNCHANGED <<live, chain, files, on, crashes>>

\* The update after a failed mint relies on the status still being APPROVED.
FailedMintSaveWithoutStatus(r) ==
    /\ pc[r] = "mintFailed"
    /\ Writes(r, [Current(r) EXCEPT !.archivedAt = FALSE])
    /\ Ends(r, "done")
    /\ UNCHANGED <<live, chain, files, on, crashes>>

\* A failed mint is recorded as FAIL_ARCHIVE.
FailedMintSaveAsFailArchive(r) ==
    /\ pc[r] = "mintFailed"
    /\ Writes(r, [Current(r) EXCEPT !.status = "FAIL_ARCHIVE", !.archivedAt = FALSE])
    /\ Ends(r, "done")
    /\ UNCHANGED <<live, chain, files, on, crashes>>

\* The client may build its transaction before the report is there.
BuildArchiveTransactionEarly(r) ==
    /\ Calls(r, "clientMint")
    /\ Current(r).status = "APPROVED"
    /\ Goto(r, "built")
    /\ UNCHANGED <<live, db, chain, files, on, snap, crashes>>

\* A status that is not in the enum.
DeactivateArchiveOffEnum(r) ==
    /\ Calls(r, "deactivate")
    /\ Current(r).status = "ARCHIVED"
    /\ Writes(r, [Current(r) EXCEPT !.status = "INACTIVE", !.deactivatedAt = TRUE])
    /\ Ends(r, "done")
    /\ UNCHANGED <<live, chain, files, on, crashes>>

\* The revert clears the asset and forgets the transaction.
RevertedRowKeepsTx(r) ==
    [Current(r) EXCEPT !.status = "APPROVED", !.archivedAt = FALSE, !.nftAssetId = None]

\* The revert goes all the way back to the review and keeps the asset.
RevertedRowToReview(r) ==
    [Current(r) EXCEPT !.status = "NEED_REVIEW", !.archivedAt = FALSE]

\* The revert also drops the report.
RevertedRowDropsReport(r) ==
    [Current(r) EXCEPT !.status = "APPROVED", !.archivedAt = FALSE, !.nftAssetId = None,
                       !.blockchainTxHash = None, !.pdfFileHash = None]

-----------------------------------------------------------------------------
(* approveInspection                                                       *)

\* The Serializable transaction: claim the row for this approval.
ApproveTransaction(r) ==
    /\ Calls(r, "approve")
    /\ Current(r).status \in Approvable
    /\ Reads(r)
    /\ Writes(r, [Current(r) EXCEPT !.status = "APPROVED", !.reviewerId = r])
    /\ Goto(r, "generating")
    /\ UNCHANGED <<live, chain, files, on, crashes>>

\* Both PDFs are rendered, pinned on IPFS and written to disk.
GenerateReports(r) ==
    /\ pc[r] = "generating"
    /\ files' = files \cup {r}
    /\ Goto(r, "generated")
    /\ UNCHANGED <<live, db, chain, on, snap, crashes>>

\* Promise.all rejects with the first failure; the other PDF may be on disk.
GenerationFails(r) ==
    /\ pc[r] = "generating"
    /\ files' \in {files, files \cup {r}}
    /\ Goto(r, "undoing")
    /\ UNCHANGED <<live, db, chain, on, snap, crashes>>

\* The final update, by id and without looking at the status.
SaveReport(r) ==
    /\ pc[r] = "generated"
    /\ Writes(r, [Current(r) EXCEPT !.status = "APPROVED", !.pdfFileHash = r])
    /\ Ends(r, "done")
    /\ UNCHANGED <<live, chain, files, on, crashes>>

SaveReportFails(r) ==
    /\ pc[r] = "generated"
    /\ "database" \in Faults \/ on[r] \notin live
    /\ Goto(r, "undoing")
    /\ UNCHANGED <<live, db, chain, files, on, snap, crashes>>

\* rollbackInspectionStatusAfterError: the status found by the transaction is
\* restored, whatever the status is by now.
RollbackStatusAfterError(r) ==
    LET undone == IF snap[r].status = "FAIL_ARCHIVE"
                  THEN [Current(r) EXCEPT !.status = "FAIL_ARCHIVE"]
                  ELSE [Current(r) EXCEPT !.status = "NEED_REVIEW",
                                          !.reviewerId = None]
    IN /\ pc[r] = "undoing"
       /\ Writes(r, undone)
       /\ Ends(r, "approvalFailed")
       /\ UNCHANGED <<live, chain, files, on, crashes>>

\* An approval that fails and leaves the row as its transaction left it:
\* config.getOrThrow has no CLIENT_BASE_URL_PDF, an error only the outer catch
\* block sees, which restores nothing; or the rollback itself fails, which is
\* only logged.
ApprovalStranded(r) ==
    /\ \/ pc[r] = "generating" /\ "environment" \in Faults
       \/ pc[r] = "undoing" /\ ("database" \in Faults \/ on[r] \notin live)
    /\ Ends(r, "stranded")
    /\ UNCHANGED <<live, db, chain, files, on, crashes>>

-----------------------------------------------------------------------------
(* processToArchive                                                        *)

ArchiveRead(r) ==
    /\ Calls(r, "archive")
    /\ Current(r).status = "APPROVED"
    /\ Current(r).pdfFileHash # None
    /\ Reads(r)
    /\ Goto(r, "minting")
    /\ UNCHANGED <<live, db, chain, files, on, crashes>>

\* The ledger after request r minted the asset of the report it read.
Minted(r) == chain \cup {<<r, NativeAsset(snap[r].pdfFileHash)>>}

MintSucceeds(r) ==
    /\ pc[r] = "minting"
    /\ chain' = Minted(r)
    /\ Goto(r, "minted")
    /\ UNCHANGED <<live, db, files, on, snap, crashes>>

\* The mint is reported as failed; when only the answer of the node was lost
\* the transaction is on chain all the same.
MintFails(r) ==
    /\ pc[r] = "minting"
    /\ chain' \in {chain, Minted(r)}
    /\ Goto(r, "mintFailed")
    /\ UNCHANGED <<live, db, files, on, snap, crashes>>

\* The row after a successful mint, as the final update writes it.
ArchivedRow(r, tx, asset) ==
    [Current(r) EXCEPT !.status = "ARCHIVED", !.archivedAt = TRUE,
                       !.nftAssetId = asset, !.blockchainTxHash = tx]

ArchiveSave(r) ==
    LET asset == NativeAsset(snap[r].pdfFileHash)
    IN /\ pc[r] = "minted"
       /\ ~AssetTaken(r, asset)
       /\ Writes(r, ArchivedRow(r, r, asset))
       /\ Ends(r, "done")
       /\ UNCHANGED <<live, chain, files, on, crashes>>

\* P2002 on nft_asset_id: the update is tried again without the asset id.
ArchiveSaveConflict(r) ==
    /\ pc[r] = "minted"
    /\ on[r] \in live
    /\ AssetTaken(r, NativeAsset(snap[r].pdfFileHash))
    /\ Goto(r, "conflict")
    /\ UNCHANGED <<live, db, chain, files, on, snap, crashes>>

ArchiveSaveWithoutAsset(r) ==
    /\ pc[r] = "conflict"
    /\ Writes(r, ArchivedRow(r, r, Current(r).nftAssetId))
    /\ Ends(r, "done")
    /\ UNCHANGED <<live, chain, files, on, crashes>>

\* The final update after a failed mint, by id: "keep" the row APPROVED.
FailedMintSave(r) ==
    /\ pc[r] = "mintFailed"
    /\ Writes(r, [Current(r) EXCEPT !.status = "APPROVED", !.archivedAt = FALSE])
    /\ Ends(r, "done")
    /\ UNCHANGED <<live, chain, files, on, crashes>>

\* A final update fails: the catch block only resets rows in ARCHIVING.
ArchiveSaveFails(r) ==
    /\ pc[r] \in {"minted", "mintFailed", "conflict"}
    /\ "database" \in Faults \/ on[r] \notin live
    /\ db' = [db EXCEPT ![on[r]].status = IF @ = "ARCHIVING" THEN "APPROVED" ELSE @]
    /\ Ends(r, "failed")
    /\ UNCHANGED <<live, chain, files, on, crashes>>

-----------------------------------------------------------------------------
(* buildArchiveTransaction, the client's wallet, confirmArchive            *)

BuildArchiveTransaction(r) ==
    /\ Calls(r, "clientMint")
    /\ Current(r).status = "APPROVED"
    /\ Current(r).pdfFileHash # None
    /\ Goto(r, "built")
    /\ UNCHANGED <<live, db, chain, files, on, snap, crashes>>

\* External: the client signs the transaction and submits it, then confirms.
ClientSubmits(r) ==
    /\ pc[r] = "built"
    /\ chain' = chain \cup {<<r, AikenAsset(r)>>}
    /\ Goto(r, "submitted")
    /\ UNCHANGED <<live, db, files, on, snap, crashes>>

\* confirmArchive checks that the row exists, in whatever status, and stores
\* the transaction and the asset of the body; an asset id that another row has
\* is rejected by the unique constraint.
ConfirmsWith(r, tx, asset) ==
    /\ ~AssetTaken(r, asset)
    /\ Writes(r, ArchivedRow(r, tx, asset))

\* A client confirms what it built and submitted.  It may send its
\* confirmation again when the answer to the first one is lost.
ConfirmArchive(r) ==
    /\ pc[r] \in {"submitted", "confirmed"}
    /\ ConfirmsWith(r, r, AikenAsset(r))
    /\ Goto(r, "confirmed")
    /\ UNCHANGED <<live, chain, files, on, snap, crashes>>

\* What clients submitted for inspection i.
SubmittedFor(i) ==
    {<<r, AikenAsset(r)>> : r \in {r \in Request : on[r] = i /\ pc[r] \in {"submitted", "confirmed"}}}

\* A confirmation of anything else: nothing was built for this inspection or
\* nothing was submitted.
ConfirmUnfounded(r) ==
    /\ Calls(r, "confirm")
    /\ \E body \in Bodies \ SubmittedFor(on[r]) : ConfirmsWith(r, body[1], body[2])
    /\ Ends(r, "unfounded")
    /\ UNCHANGED <<live, chain, files, on, crashes>>

-----------------------------------------------------------------------------
(* deactivateArchive and activateArchive: one guarded updateMany each      *)

DeactivateArchive(r) ==
    /\ Calls(r, "deactivate")
    /\ Current(r).status = "ARCHIVED"
    /\ Writes(r, [Current(r) EXCEPT !.status = "DEACTIVATED", !.deactivatedAt = TRUE])
    /\ Ends(r, "done")
    /\ UNCHANGED <<live, chain, files, on, crashes>>

ActivateArchive(r) ==
    /\ Calls(r, "activate")
    /\ Current(r).status = "DEACTIVATED"
    /\ Writes(r, [Current(r) EXCEPT !.status = "ARCHIVED", !.deactivatedAt = FALSE])
    /\ Ends(r, "done")
    /\ UNCHANGED <<live, chain, files, on, crashes>>

-----------------------------------------------------------------------------
(* rollbackInspectionStatus and revertInspectionToApproved (superadmin)    *)

RollbackRead(r) ==
    /\ Calls(r, "rollback")
    /\ Current(r).status # "NEED_REVIEW"
    /\ Goto(r, "rollingBack")
    /\ UNCHANGED <<live, db, chain, files, on, snap, crashes>>

\* Only the status is written: report, asset and timestamps stay.
RollbackWrite(r) ==
    /\ pc[r] = "rollingBack"
    /\ Writes(r, [Current(r) EXCEPT !.status = "NEED_REVIEW"])
    /\ Ends(r, "rolledBack")
    /\ UNCHANGED <<live, chain, files, on, crashes>>

RevertRead(r) ==
    /\ Calls(r, "revert")
    /\ Current(r).status \in {"ARCHIVED", "FAIL_ARCHIVE"}
    /\ Reads(r)
    /\ Goto(r, "reverting")
    /\ UNCHANGED <<live, db, chain, files, on, crashes>>

\* The archive evidence is cleared if the row was read as ARCHIVED, otherwise
\* it is written back as it was read.
RevertedRow(r) ==
    LET old  == snap[r]
        keep == old.status # "ARCHIVED"
    IN [Current(r) EXCEPT
            !.status           = "APPROVED",
            !.archivedAt       = keep /\ old.archivedAt,
            !.nftAssetId       = IF keep THEN old.nftAssetId ELSE None,
            !.blockchainTxHash = IF keep THEN old.blockchainTxHash ELSE None]

RevertWrite(r) ==
    /\ pc[r] = "reverting"
    /\ ~AssetTaken(r, RevertedRow(r).nftAssetId)
    /\ Writes(r, RevertedRow(r))
    /\ Ends(r, "done")
    /\ UNCHANGED <<live, chain, files, on, crashes>>

\* The transaction of a rollback or revert is aborted.
SuperadminAborts(r) ==
    /\ pc[r] \in {"rollingBack", "reverting"}
    /\ \/ "database" \in Faults
       \/ on[r] \notin live
       \/ pc[r] = "reverting" /\ AssetTaken(r, RevertedRow(r).nftAssetId)
    /\ Ends(r, "failed")
    /\ UNCHANGED <<live, db, chain, files, on, crashes>>

-----------------------------------------------------------------------------
(* deleteInspectionPermanently                                             *)

DeleteRead(r) ==
    /\ Calls(r, "delete")
    /\ Reads(r)
    /\ Goto(r, "unlinking")
    /\ UNCHANGED <<live, db, chain, files, on, crashes>>

\* The files named by the row that was read; an unlink error is only logged.
DeleteUnlink(r) ==
    /\ pc[r] = "unlinking"
    /\ \/ files' = files \ {snap[r].pdfFileHash}
       \/ "disk" \in Faults /\ files' = files
    /\ Goto(r, "deleting")
    /\ UNCHANGED <<live, db, chain, on, snap, crashes>>

DeleteCommit(r) ==
    /\ pc[r] = "deleting"
    /\ on[r] \in live
    /\ live' = live \ {on[r]}
    /\ Ends(r, "done")
    /\ UNCHANGED <<db, chain, files, on, crashes>>

DeleteFails(r) ==
    /\ pc[r] = "deleting"
    /\ "database" \in Faults \/ on[r] \notin live
    /\ Ends(r, "deleteFailed")
    /\ UNCHANGED <<live, db, chain, files, on, crashes>>

-----------------------------------------------------------------------------
(* The system                                                              *)

\* The server restarts: every handler is gone, the table, the disk, the
\* ledger and the clients remain.  Nothing is repaired on startup.
Crash ==
    /\ crashes < MaxCrashes
    /\ crashes' = crashes + 1
    /\ \E r \in Request : pc[r] \in InHandler
    /\ pc' = [r \in Request |-> IF pc[r] \in InHandler THEN "lost" ELSE pc[r]]
    /\ snap' = [r \in Request |-> InitialRow(on[r])]
    /\ UNCHANGED <<live, db, chain, files, on>>

\* A request arrives.
Arrive(r) ==
    \/ ApproveTransaction(r)
    \/ ArchiveRead(r)
    \/ BuildArchiveTransaction(r)
    \/ ConfirmUnfounded(r)
    \/ DeactivateArchive(r)
    \/ ActivateArchive(r)
    \/ RollbackRead(r)
    \/ RevertRead(r)
    \/ DeleteRead(r)

\* A handler goes on.
Continue(r) ==
    \/ GenerateReports(r)
    \/ GenerationFails(r)
    \/ SaveReport(r)
    \/ SaveReportFails(r)
    \/ RollbackStatusAfterError(r)
    \/ ApprovalStranded(r)
    \/ MintSucceeds(r)
    \/ MintFails(r)
    \/ ArchiveSave(r)
    \/ ArchiveSaveConflict(r)
    \/ ArchiveSaveWithoutAsset(r)
    \/ FailedMintSave(r)
    \/ ArchiveSaveFails(r)
    \/ RollbackWrite(r)
    \/ RevertWrite(r)
    \/ SuperadminAborts(r)
    \/ DeleteUnlink(r)
    \/ DeleteCommit(r)
    \/ DeleteFails(r)

\* A client goes on.
ClientStep(r) == ClientSubmits(r) \/ ConfirmArchive(r)

Next ==
    \/ \E r \in Request : Arrive(r) \/ Continue(r) \/ ClientStep(r)
    \/ Crash

Spec == Init /\ [][Next]_vars

\* Handlers run to their end: the event loop resumes a handler whose awaited
\* call has settled, and every awaited call settles (page and transaction
\* timeouts).  Nothing makes a client call or confirm.
Fairness == \A r \in Request : WF_vars(Continue(r))

FairSpec == Spec /\ Fairness

-----------------------------------------------------------------------------
(* Safety                                                                  *)

TypeOK ==
    /\ live \subseteq Inspection
    /\ db \in [Inspection -> Row]
    /\ chain \subseteq Request \X AssetId
    /\ files \subseteq Report
    /\ pc \in [Request -> {"idle"} \cup InHandler \cup AtClient \cup Ended]
    /\ on \in [Request -> Inspection]
    /\ snap \in [Request -> Row]
    /\ crashes \in 0..MaxCrashes

\* The superadmin rollbacks of i that took effect.
Rollbacks(i) == {r \in Request : on[r] = i /\ pc[r] = "rolledBack"}

Undisturbed(i) == Rollbacks(i) = {}

\* Nobody confirmed for i a transaction that no client submitted for it: the
\* server would take it for one that was (ConfirmMintDto).
Founded(i) == \A r \in Request : on[r] = i => pc[r] # "unfounded"

\* The approvals of i between their transaction and their last write.
ApprovalsInFlight(i) ==
    {r \in Request : on[r] = i /\ pc[r] \in Generating \cup {"undoing"}}

\* "Set status to processing to prevent concurrent approvals": a second
\* approval of an inspection runs concurrently only if a superadmin rollback
\* let it in, one for each rollback, whatever archives, confirmations,
\* reverts, failed approvals and crashes do in between.
ApprovalsBoundedByRollbacks ==
    \A i \in live :
        Cardinality(ApprovalsInFlight(i)) + (IF db[i].status \in Approvable THEN 1 ELSE 0)
            <= 1 + Cardinality(Rollbacks(i))

\* An inspection shown as ARCHIVED, or hidden after that, always carries the
\* archiving time and the transaction that recorded it, and a hidden one its
\* deactivation time: no late write of a failed archive, a failed approval
\* or a revert takes them away and leaves the status behind.
ArchivedHasEvidence ==
    \A i \in live :
        /\ db[i].status \in {"ARCHIVED", "DEACTIVATED"} =>
              db[i].archivedAt /\ db[i].blockchainTxHash # None
        /\ db[i].status = "DEACTIVATED" => db[i].deactivatedAt

\* The asset and the transaction of a row that no unfounded confirmation
\* reached are both on the ledger and were sent for this inspection, and that
\* transaction minted that asset; unless it minted one whose name another
\* inspection had, by a collision or by an unfounded confirmation, after which
\* the row keeps the asset it had, or none.
AssetMintedByTx ==
    \A i \in {i \in live : Founded(i)} :
        LET row == db[i] IN
        /\ row.nftAssetId # None =>
              /\ row.blockchainTxHash # None
              /\ \E r \in Request : on[r] = i /\ <<r, row.nftAssetId>> \in chain
        /\ row.blockchainTxHash # None =>
              /\ on[row.blockchainTxHash] = i
              /\ \/ <<row.blockchainTxHash, row.nftAssetId>> \in chain
                 \/ \E asset \in AssetId, other \in Request :
                        /\ on[other] # i
                        /\ <<row.blockchainTxHash, asset>> \in chain
                        /\ <<other, asset>> \in chain \/ pc[other] = "unfounded"

\* Until a superadmin rolls an inspection back, its report was generated by
\* the approval of the reviewer it names.
ReportMatchesReviewer ==
    \A i \in live \ LegacyRows :
        Undisturbed(i) /\ db[i].pdfFileHash # None => db[i].reviewerId = db[i].pdfFileHash

\* Until a superadmin rolls an inspection back or an unfounded confirmation
\* overwrites it, the asset minted by the server names the report the row
\* holds, although the hash is read long before the mint and the final update.
MintedReportIsCurrent ==
    \A i \in live \ LegacyRows :
        Undisturbed(i) /\ Founded(i)
        /\ db[i].nftAssetId # None /\ db[i].nftAssetId[1] = "native" =>
            /\ db[i].pdfFileHash # None
            /\ db[i].nftAssetId = NativeAsset(db[i].pdfFileHash)

\* A deletion that removed, or may have removed, files of i without the row.
HalfDeleted(i) ==
    \E r \in Request :
        on[r] = i /\ pc[r] \in {"unlinking", "deleting", "deleteFailed", "lost"}

\* The report a row points to is on disk.
ReportOnDisk ==
    \A i \in live :
        db[i].pdfFileHash # None /\ ~HalfDeleted(i) => db[i].pdfFileHash \in files

-----------------------------------------------------------------------------
(* Steps                                                                   *)

\* The report of an inspection that was never rolled back is not replaced:
\* what was approved, shown and minted stays what is stored.
ReportIsFinal ==
    [][\A i \in live \ LegacyRows :
          Undisturbed(i) /\ db[i].pdfFileHash # None =>
              db'[i].pdfFileHash = db[i].pdfFileHash]_vars

\* An inspection that was never rolled back leaves NEED_REVIEW only through
\* an approval, which names its reviewer: no archive, revert or confirmation of
\* a submitted transaction that goes back to an earlier state of the row
\* publishes it unreviewed.  Unfounded confirmations do, in one step.
ReviewedBeforePublished ==
    [][\A i \in live \ LegacyRows :
          Undisturbed(i) /\ Founded(i)'
          /\ db[i].status = "NEED_REVIEW" /\ db'[i].status # "NEED_REVIEW" =>
              db'[i].status = "APPROVED" /\ db'[i].reviewerId # None]_vars

-----------------------------------------------------------------------------
(* Liveness                                                                *)

\* APPROVED without a report, the "temporary status during processing".
Processing(i) == i \in live /\ db[i].status = "APPROVED" /\ db[i].pdfFileHash = None

\* What may leave it for good: an approval that could not be undone or was
\* lost, and a revert of what an unfounded confirmation archived.
Stranded(i) ==
    \E r \in Request : on[r] = i /\ pc[r] \in {"stranded", "lost", "unfounded"}

\* The processing of an approval ends, with a report or with the review open
\* again, whatever rollbacks, reverts and other approvals do meanwhile.
TemporaryApprovalEnds ==
    \A i \in Inspection : Processing(i) ~> ~Processing(i) \/ Stranded(i)

\* Every handler answers.
HandlersEnd ==
    \A r \in Request : pc[r] \in InHandler ~> pc[r] \in Ended
=============================================================================
