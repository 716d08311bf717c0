---------------------------- MODULE ReviewProofs -----------------------------
(***************************************************************************)
(* Proofs about approvals and what follows them.                           *)
(*                                                                         *)
(* Overlapping approvals of one inspection are bounded by the superadmin   *)
(* rollbacks that let them in.  The bound is inductive: every step that    *)
(* adds an approval uses up an approvable status, and a status becomes     *)
(* approvable only when an approval leaves or a rollback is counted.       *)
(*                                                                         *)
(* On top of it: what approvals, archives and their clients agree on, the  *)
(* reviewer, the report and the asset of an inspection that no superadmin  *)
(* has rolled back.  These properties are not inductive.  ReviewInv adds   *)
(* what each handler in progress may rely on: an approval owns a row that  *)
(* is no longer under review, has no report and names it as reviewer (so   *)
(* there is one at most), and archives, clients and reverts only ever run  *)
(* on a row that already has its report, the one they read; an unfounded   *)
(* confirmation takes that away from reverts.                              *)
(***************************************************************************)
EXTENDS InspectionLifecycleProofs, BulkApproval

-----------------------------------------------------------------------------
(* Overlapping approvals                                                   *)

Busy == Generating \cup {"undoing"}

\* 1 if the status of inspection i admits an approval, 0 otherwise.
Open(i) == IF db[i].status \in Approvable THEN 1 ELSE 0

LEMMA BoundShape ==
    ApprovalsBoundedByRollbacks =
    \A i \in live :
        Cardinality(ApprovalsInFlight(i)) + Open(i) <= 1 + Cardinality(Rollbacks(i))
BY DEF ApprovalsBoundedByRollbacks, Open

LEMMA FiniteRequests ==
    ASSUME NEW S, S \subseteq Request
    PROVE  IsFiniteSet(S) /\ Cardinality(S) \in Nat
BY LifecycleAssumption, FS_Subset, FS_CardinalityType

LEMMA AddRequest ==
    ASSUME NEW S, S \subseteq Request, NEW r \in Request, r \notin S
    PROVE  Cardinality(S \cup {r}) = Cardinality(S) + 1
BY FiniteRequests, FS_AddElement

LEMMA RemoveRequest ==
    ASSUME NEW S, S \subseteq Request, NEW r \in S
    PROVE  Cardinality(S \ {r}) = Cardinality(S) - 1
BY FiniteRequests, FS_RemoveElement

LEMMA FewerRequests ==
    ASSUME NEW S, S \subseteq Request, NEW T, T \subseteq S
    PROVE  Cardinality(T) <= Cardinality(S)
BY FiniteRequests, FS_Subset

\* The two sets of requests after request r moves to l.
LEMMA MovedSets ==
    ASSUME TypeOK, NEW r \in Request, NEW l, Goto(r, l), on' = on, NEW i
    PROVE  /\ ApprovalsInFlight(i)' =
                 IF on[r] = i /\ l \in Busy THEN ApprovalsInFlight(i) \cup {r}
                                            ELSE ApprovalsInFlight(i) \ {r}
           /\ Rollbacks(i)' = IF on[r] = i /\ l = "rolledBack" THEN Rollbacks(i) \cup {r}
                                                               ELSE Rollbacks(i) \ {r}
BY DEF Goto, TypeOK, ApprovalsInFlight, Rollbacks, Busy

\* A step that adds no approval, forgets no rollback and opens no status keeps
\* the bound.
LEMMA RelaxingStep ==
    ASSUME ApprovalsBoundedByRollbacks, live' \subseteq live,
           \A i \in live' :
              /\ ApprovalsInFlight(i)' \subseteq ApprovalsInFlight(i)
              /\ Rollbacks(i) \subseteq Rollbacks(i)'
              /\ db'[i].status \in Approvable => db[i].status \in Approvable
    PROVE  ApprovalsBoundedByRollbacks'
<1> SUFFICES ASSUME NEW i \in live'
             PROVE  Cardinality(ApprovalsInFlight(i)') + Open(i)'
                        <= 1 + Cardinality(Rollbacks(i)')
  BY DEF ApprovalsBoundedByRollbacks, Open
<1>1. /\ ApprovalsInFlight(i) \subseteq Request
      /\ Rollbacks(i) \subseteq Request
      /\ Rollbacks(i)' \subseteq Request
  BY DEF ApprovalsInFlight, Rollbacks
<1>2. Cardinality(ApprovalsInFlight(i)') <= Cardinality(ApprovalsInFlight(i))
  BY <1>1, FewerRequests
<1>3. Cardinality(Rollbacks(i)) <= Cardinality(Rollbacks(i)')
  BY <1>1, FewerRequests
<1>4. Open(i)' \in Nat /\ Open(i) \in Nat /\ Open(i)' <= Open(i)
  BY DEF Open
<1>5. Cardinality(ApprovalsInFlight(i)) + Open(i) <= 1 + Cardinality(Rollbacks(i))
  BY DEF ApprovalsBoundedByRollbacks, Open
<1>6. /\ Cardinality(ApprovalsInFlight(i)) \in Nat
      /\ Cardinality(ApprovalsInFlight(i)') \in Nat
      /\ Cardinality(Rollbacks(i)) \in Nat
      /\ Cardinality(Rollbacks(i)') \in Nat
  <2>1. ApprovalsInFlight(i)' \subseteq Request
    BY <1>1
  <2> QED BY <1>1, <2>1, FiniteRequests
<1> QED
  BY <1>2, <1>3, <1>4, <1>5, <1>6

-----------------------------------------------------------------------------
\* The steps that may add to the left side of the bound.
Charged(r) ==
    ApproveTransaction(r) \/ RollbackStatusAfterError(r) \/ RollbackWrite(r)

LEMMA ApproveStep ==
    ASSUME TypeOK, ApprovalsBoundedByRollbacks,
           NEW r \in Request, ApproveTransaction(r), NEW i \in live'
    PROVE  Cardinality(ApprovalsInFlight(i)') + Open(i)' <= 1 + Cardinality(Rollbacks(i)')
<1>1. /\ Goto(r, "generating") /\ on' = on /\ live' = live /\ pc[r] = "idle"
      /\ on[r] \in live /\ on[r] \in Inspection /\ Current(r).status \in Approvable
      /\ db' = [db EXCEPT ![on[r]] = [Current(r) EXCEPT !.status = "APPROVED", !.reviewerId = r]]
  BY CurrentType DEF ApproveTransaction, Calls, Writes
<1>2. r \notin ApprovalsInFlight(i) /\ r \notin Rollbacks(i)
  BY <1>1 DEF ApprovalsInFlight, Rollbacks, Generating
<1>3. Rollbacks(i)' = Rollbacks(i)
  BY <1>1, <1>2, MovedSets
<1>4. Cardinality(ApprovalsInFlight(i)) + Open(i) <= 1 + Cardinality(Rollbacks(i))
  BY <1>1, BoundShape
<1>5. /\ ApprovalsInFlight(i) \subseteq Request
      /\ Cardinality(ApprovalsInFlight(i)) \in Nat
      /\ Cardinality(Rollbacks(i)) \in Nat
  BY FiniteRequests DEF ApprovalsInFlight, Rollbacks
<1>6. CASE on[r] = i
  <2>1. ApprovalsInFlight(i)' = ApprovalsInFlight(i) \cup {r}
    BY <1>1, <1>6, MovedSets DEF Busy, Generating
  <2>2. Cardinality(ApprovalsInFlight(i)') = Cardinality(ApprovalsInFlight(i)) + 1
    BY <1>2, <1>5, <2>1, AddRequest
  <2>3. Open(i) = 1 /\ Open(i)' = 0
    BY <1>1, <1>6 DEF Open, Current, Approvable, TypeOK, Row
  <2> QED
    BY <1>3, <1>4, <1>5, <2>2, <2>3
<1>7. CASE on[r] # i
  <2>1. ApprovalsInFlight(i)' = ApprovalsInFlight(i)
    BY <1>1, <1>2, <1>7, MovedSets
  <2>2. Open(i)' = Open(i)
    BY <1>1, <1>7 DEF Open, TypeOK
  <2> QED
    BY <1>3, <1>4, <1>5, <2>1, <2>2
<1> QED
  BY <1>6, <1>7

LEMMA FailedApprovalStep ==
    ASSUME TypeOK, ApprovalsBoundedByRollbacks,
           NEW r \in Request, RollbackStatusAfterError(r), NEW i \in live'
    PROVE  Cardinality(ApprovalsInFlight(i)') + Open(i)' <= 1 + Cardinality(Rollbacks(i)')
<1>1. /\ Goto(r, "approvalFailed") /\ on' = on /\ live' = live /\ pc[r] = "undoing"
      /\ on[r] \in live /\ \A j \in Inspection \ {on[r]} : db'[j] = db[j]
  BY DEF RollbackStatusAfterError, Writes, Ends, TypeOK
<1>2. r \notin Rollbacks(i)
  BY <1>1 DEF Rollbacks
<1>3. /\ Rollbacks(i)' = Rollbacks(i)
      /\ ApprovalsInFlight(i)' = ApprovalsInFlight(i) \ {r}
  BY <1>1, <1>2, MovedSets DEF Busy, Generating
<1>4. Cardinality(ApprovalsInFlight(i)) + Open(i) <= 1 + Cardinality(Rollbacks(i))
  BY <1>1, BoundShape
<1>5. /\ ApprovalsInFlight(i) \subseteq Request
      /\ Cardinality(ApprovalsInFlight(i)) \in Nat
      /\ Cardinality(Rollbacks(i)) \in Nat
  BY FiniteRequests DEF ApprovalsInFlight, Rollbacks
<1>6. Open(i) \in {0, 1} /\ Open(i)' \in {0, 1}
  BY DEF Open
<1>7. CASE on[r] = i
  <2>1. r \in ApprovalsInFlight(i)
    BY <1>1, <1>7 DEF ApprovalsInFlight
  <2>2. Cardinality(ApprovalsInFlight(i)') = Cardinality(ApprovalsInFlight(i)) - 1
    BY <1>3, <1>5, <2>1, RemoveRequest
  <2> QED
    BY <1>3, <1>4, <1>5, <1>6, <2>2
<1>8. CASE on[r] # i
  <2>1. ApprovalsInFlight(i)' = ApprovalsInFlight(i)
    BY <1>3, <1>8 DEF ApprovalsInFlight
  <2>2. Open(i)' = Open(i)
    BY <1>1, <1>8 DEF Open, TypeOK
  <2> QED
    BY <1>3, <1>4, <1>5, <2>1, <2>2
<1> QED
  BY <1>7, <1>8

LEMMA SuperadminStep ==
    ASSUME TypeOK, ApprovalsBoundedByRollbacks,
           NEW r \in Request, RollbackWrite(r), NEW i \in live'
    PROVE  Cardinality(ApprovalsInFlight(i)') + Open(i)' <= 1 + Cardinality(Rollbacks(i)')
<1>1. /\ Goto(r, "rolledBack") /\ on' = on /\ live' = live /\ pc[r] = "rollingBack"
      /\ on[r] \in live /\ \A j \in Inspection \ {on[r]} : db'[j] = db[j]
  BY DEF RollbackWrite, Writes, Ends, TypeOK
<1>2. r \notin ApprovalsInFlight(i) /\ r \notin Rollbacks(i)
  BY <1>1 DEF ApprovalsInFlight, Rollbacks, Generating
<1>3. ApprovalsInFlight(i)' = ApprovalsInFlight(i)
  BY <1>1, <1>2, MovedSets DEF Busy, Generating
<1>4. Cardinality(ApprovalsInFlight(i)) + Open(i) <= 1 + Cardinality(Rollbacks(i))
  BY <1>1, BoundShape
<1>5. /\ Rollbacks(i) \subseteq Request
      /\ Cardinality(ApprovalsInFlight(i)) \in Nat
      /\ Cardinality(Rollbacks(i)) \in Nat
  BY FiniteRequests DEF ApprovalsInFlight, Rollbacks
<1>6. Open(i) \in {0, 1} /\ Open(i)' \in {0, 1}
  BY DEF Open
<1>7. CASE on[r] = i
  <2>1. Rollbacks(i)' = Rollbacks(i) \cup {r}
    BY <1>1, <1>7, MovedSets
  <2>2. Cardinality(Rollbacks(i)') = Cardinality(Rollbacks(i)) + 1
    BY <1>2, <1>5, <2>1, AddRequest
  <2> QED
    BY <1>3, <1>4, <1>5, <1>6, <2>2
<1>8. CASE on[r] # i
  <2>1. Rollbacks(i)' = Rollbacks(i)
    BY <1>1, <1>2, <1>8, MovedSets
  <2>2. Open(i)' = Open(i)
    BY <1>1, <1>8 DEF Open, TypeOK
  <2> QED
    BY <1>3, <1>4, <1>5, <2>1, <2>2
<1> QED
  BY <1>7, <1>8

-----------------------------------------------------------------------------
\* Where a request stands after one of the other steps.
LEMMA OtherMoves ==
    ASSUME TypeOK, NEW r \in Request,
           QuietStep(r) \/ WritingStep(r) \/ DeleteCommit(r), ~Charged(r)
    PROVE  /\ on' = on /\ live' \subseteq live
           /\ \E l : Goto(r, l) /\ (l \in Busy => pc[r] \in Busy)
           /\ pc[r] # "rolledBack"
<1> USE DEF Busy, Generating, Ends, Writes, Calls
<1>1. CASE QuietStep(r)
  BY <1>1 DEF QuietStep, GenerateReports, GenerationFails, SaveReportFails,
       ApprovalStranded, ArchiveRead, MintSucceeds, MintFails, ArchiveSaveConflict,
       BuildArchiveTransaction, ClientSubmits, RollbackRead, RevertRead, SuperadminAborts,
       DeleteRead, DeleteUnlink, DeleteFails
<1>2. CASE WritingStep(r)
  BY <1>2 DEF WritingStep, Charged, SaveReport, ArchiveSave, ArchiveSaveWithoutAsset,
       FailedMintSave, ArchiveSaveFails, ConfirmArchive, ConfirmsWith, ConfirmUnfounded,
       DeactivateArchive, ActivateArchive, RevertWrite
<1>3. CASE DeleteCommit(r)
  BY <1>3 DEF DeleteCommit
<1> QED
  BY <1>1, <1>2, <1>3

\* ... and none of them makes a status approvable.
LEMMA OtherStatuses ==
    ASSUME TypeOK, NEW r \in Request,
           QuietStep(r) \/ WritingStep(r) \/ DeleteCommit(r), ~Charged(r),
           NEW i \in Inspection, db'[i].status \in Approvable
    PROVE  db[i].status \in Approvable
<1> USE DEF Approvable
<1>1. CASE QuietStep(r)
  BY <1>1, QuietStepFrame
<1>2. CASE WritingStep(r)
  <2> USE CurrentType DEF Writes, Current, Row, TypeOK
  <2>1. CASE SaveReport(r)
    BY <2>1 DEF SaveReport
  <2>2. CASE ArchiveSave(r)
    BY <2>2 DEF ArchiveSave, ArchivedRow
  <2>3. CASE ArchiveSaveWithoutAsset(r)
    BY <2>3 DEF ArchiveSaveWithoutAsset, ArchivedRow
  <2>4. CASE FailedMintSave(r)
    BY <2>4 DEF FailedMintSave
  <2>5. CASE ArchiveSaveFails(r)
    BY <2>5 DEF ArchiveSaveFails
  <2>6. CASE ConfirmArchive(r) \/ ConfirmUnfounded(r)
    <3>1. PICK tx, asset : Writes(r, ArchivedRow(r, tx, asset))
      BY <2>6 DEF ConfirmArchive, ConfirmUnfounded, ConfirmsWith
    <3> QED
      BY <3>1 DEF ArchivedRow
  <2>7. CASE DeactivateArchive(r)
    BY <2>7 DEF DeactivateArchive
  <2>8. CASE ActivateArchive(r)
    BY <2>8 DEF ActivateArchive
  <2>9. CASE RevertWrite(r)
    BY <2>9 DEF RevertWrite, RevertedRow
  <2> QED
    BY <1>2, <2>1, <2>2, <2>3, <2>4, <2>5, <2>6, <2>7, <2>8, <2>9
       DEF WritingStep, Charged
<1>3. CASE DeleteCommit(r)
  BY <1>3 DEF DeleteCommit
<1> QED
  BY <1>1, <1>2, <1>3

LEMMA ApprovalsStep ==
    TypeOK /\ ApprovalsBoundedByRollbacks /\ [Next]_vars => ApprovalsBoundedByRollbacks'
<1> SUFFICES ASSUME TypeOK, ApprovalsBoundedByRollbacks, [Next]_vars
             PROVE  ApprovalsBoundedByRollbacks'
  OBVIOUS
<1>1. ASSUME NEW r \in Request, Charged(r) PROVE ApprovalsBoundedByRollbacks'
  BY <1>1, ApproveStep, FailedApprovalStep, SuperadminStep
     DEF Charged, ApprovalsBoundedByRollbacks, Open
<1>2. ASSUME NEW r \in Request, ~Charged(r),
             QuietStep(r) \/ WritingStep(r) \/ DeleteCommit(r)
      PROVE  ApprovalsBoundedByRollbacks'
  <2>1. PICK l : Goto(r, l) /\ (l \in Busy => pc[r] \in Busy)
    BY <1>2, OtherMoves
  <2>2. on' = on /\ live' \subseteq live /\ pc[r] # "rolledBack"
    BY <1>2, OtherMoves
  <2>3. ASSUME NEW i \in live'
        PROVE  /\ ApprovalsInFlight(i)' \subseteq ApprovalsInFlight(i)
               /\ Rollbacks(i) \subseteq Rollbacks(i)'
    BY <2>1, <2>2 DEF Goto, ApprovalsInFlight, Rollbacks, Busy, TypeOK
  <2>4. ASSUME NEW i \in live'
        PROVE  db'[i].status \in Approvable => db[i].status \in Approvable
    BY <1>2, <2>2, OtherStatuses DEF TypeOK
  <2> QED
    BY <2>2, <2>3, <2>4, RelaxingStep
<1>3. CASE Crash
  <2>1. ASSUME NEW i \in live'
        PROVE  /\ ApprovalsInFlight(i)' \subseteq ApprovalsInFlight(i)
               /\ Rollbacks(i) \subseteq Rollbacks(i)'
    BY <1>3 DEF Crash, ApprovalsInFlight, Rollbacks, InHandler, Generating, TypeOK
  <2> QED
    BY <1>3, <2>1, RelaxingStep DEF Crash
<1>4. CASE UNCHANGED vars
  BY <1>4, RelaxingStep DEF vars, ApprovalsInFlight, Rollbacks
<1> QED
  BY <1>1, <1>2, <1>3, <1>4, StepKinds

\* "Set status to processing to prevent concurrent approvals": at any time an
\* inspection has at most one approval in progress, plus one for each
\* superadmin rollback, for any number of requests, faults and restarts.
THEOREM ApprovalsAreBounded == Spec => []ApprovalsBoundedByRollbacks
<1>1. Init => ApprovalsBoundedByRollbacks
  <2> SUFFICES ASSUME Init, NEW i \in live
               PROVE  Cardinality(ApprovalsInFlight(i)) + Open(i) <= 1 + Cardinality(Rollbacks(i))
    BY BoundShape
  <2>1. ApprovalsInFlight(i) = {} /\ Rollbacks(i) = {}
    BY DEF Init, ApprovalsInFlight, Rollbacks, Generating
  <2> QED
    BY <2>1, FS_EmptySet DEF Open
<1>2. TypeInv => TypeOK
  BY DEF TypeInv
<1> QED
  BY <1>1, <1>2, InitTypeInv, TypeInvStep, ApprovalsStep, PTL DEF Spec

\* Without a superadmin rollback approvals of one inspection never overlap:
\* the second of two approvals finds the status the first one has set.
COROLLARY ApprovalsSerialized ==
    Spec => [](\A i \in live : Undisturbed(i) =>
                  \A r, s \in ApprovalsInFlight(i) : r = s)
<1>1. ASSUME ApprovalsBoundedByRollbacks, NEW i \in live, Undisturbed(i),
             NEW r \in ApprovalsInFlight(i), NEW s \in ApprovalsInFlight(i), r # s
      PROVE  FALSE
  <2>1. /\ {r} \subseteq Request /\ s \in Request
        /\ {r} \cup {s} \subseteq ApprovalsInFlight(i)
        /\ ApprovalsInFlight(i) \subseteq Request
    BY DEF ApprovalsInFlight
  <2>2. Cardinality({r}) = 1
    BY FS_Singleton
  <2>3. Cardinality({r} \cup {s}) = 2
    BY <1>1, <2>1, <2>2, AddRequest
  <2>4. 2 <= Cardinality(ApprovalsInFlight(i)) /\ Cardinality(ApprovalsInFlight(i)) \in Nat
    BY <2>1, <2>3, FewerRequests, FiniteRequests
  <2>5. Cardinality(Rollbacks(i)) = 0
    BY <1>1, FS_EmptySet DEF Undisturbed
  <2>6. Cardinality(ApprovalsInFlight(i)) + Open(i) <= 1 + Cardinality(Rollbacks(i))
    BY <1>1, BoundShape
  <2>7. Open(i) \in {0, 1}
    BY DEF Open
  <2> QED
    BY <2>4, <2>5, <2>6, <2>7
<1>2. ApprovalsBoundedByRollbacks =>
         \A i \in live : Undisturbed(i) => \A r, s \in ApprovalsInFlight(i) : r = s
  BY <1>1
<1> QED
  BY <1>2, ApprovalsAreBounded, PTL

-----------------------------------------------------------------------------
(* The review                                                              *)

\* With an unfounded confirmation an inspection may be published without a
\* report, and show any asset.
ReviewedRow(i) ==
    /\ db[i].status # "FAIL_ARCHIVE"
    /\ db[i].status = "NEED_REVIEW" => db[i].pdfFileHash = None
    /\ db[i].pdfFileHash # None => db[i].reviewerId = db[i].pdfFileHash
    /\ Founded(i) =>
          /\ db[i].status \in {"ARCHIVING", "ARCHIVED", "DEACTIVATED"} =>
                db[i].pdfFileHash # None
          /\ db[i].pdfFileHash = None => db[i].nftAssetId = None
          /\ db[i].nftAssetId # None /\ db[i].nftAssetId[1] = "native" =>
                db[i].nftAssetId = NativeAsset(db[i].pdfFileHash)

\* What request q, on inspection i, relies on.
HandlerOwns(q, i) ==
    /\ pc[q] \in Busy =>
          /\ db[i].status # "NEED_REVIEW"
          /\ db[i].pdfFileHash = None
          /\ db[i].reviewerId = q
          /\ snap[q].status = "NEED_REVIEW"
    /\ pc[q] \in Archiving =>
          db[i].pdfFileHash # None /\ snap[q].pdfFileHash = db[i].pdfFileHash
    /\ pc[q] \in AtClient => db[i].pdfFileHash # None
    /\ pc[q] = "reverting" =>
          snap[q].status = "ARCHIVED" /\ (Founded(i) => db[i].pdfFileHash # None)

Reviewed(i) ==
    /\ ReviewedRow(i)
    /\ \A q \in Request : on[q] = i => HandlerOwns(q, i)

ReviewInv == \A i \in live \ LegacyRows : Undisturbed(i) => Reviewed(i)

-----------------------------------------------------------------------------
\* Only SaveReport writes the report column ...
LEMMA ReportColumn ==
    ASSUME TypeOK, NEW r \in Request, WritingStep(r), pc[r] # "generated"
    PROVE  db'[on[r]].pdfFileHash = db[on[r]].pdfFileHash
<1> USE CurrentType DEF Writes, Current, TypeOK, Row
<1>1. CASE ApproveTransaction(r)
  BY <1>1 DEF ApproveTransaction
<1>2. CASE RollbackStatusAfterError(r)
  BY <1>2 DEF RollbackStatusAfterError
<1>3. CASE ArchiveSave(r)
  BY <1>3 DEF ArchiveSave, ArchivedRow
<1>4. CASE ArchiveSaveWithoutAsset(r)
  BY <1>4 DEF ArchiveSaveWithoutAsset, ArchivedRow
<1>5. CASE FailedMintSave(r)
  BY <1>5 DEF FailedMintSave
<1>6. CASE ArchiveSaveFails(r)
  BY <1>6 DEF ArchiveSaveFails
<1>7. CASE ConfirmArchive(r) \/ ConfirmUnfounded(r)
  <2>1. PICK tx, asset : Writes(r, ArchivedRow(r, tx, asset))
    BY <1>7 DEF ConfirmArchive, ConfirmUnfounded, ConfirmsWith
  <2> QED
    BY <2>1 DEF ArchivedRow
<1>8. CASE DeactivateArchive(r)
  BY <1>8 DEF DeactivateArchive
<1>9. CASE ActivateArchive(r)
  BY <1>9 DEF ActivateArchive
<1>10. CASE RollbackWrite(r)
  BY <1>10 DEF RollbackWrite
<1>11. CASE RevertWrite(r)
  BY <1>11 DEF RevertWrite, RevertedRow
<1> QED
  BY <1>1, <1>2, <1>3, <1>4, <1>5, <1>6, <1>7, <1>8, <1>9, <1>10, <1>11
     DEF WritingStep, SaveReport

\* ... and only an approval, a handler in progress or an unfounded
\* confirmation takes an inspection out of the review.
LEMMA LeavesReview ==
    ASSUME TypeOK, NEW r \in Request, WritingStep(r), db[on[r]].status = "NEED_REVIEW",
           pc[r] \notin Busy \cup Archiving \cup AtClient \cup {"reverting"},
           ~ConfirmUnfounded(r), db'[on[r]].status # "NEED_REVIEW"
    PROVE  db'[on[r]].status = "APPROVED" /\ db'[on[r]].reviewerId # None
<1> USE CurrentType, LifecycleAssumption
    DEF Writes, Current, TypeOK, Row, Busy, Generating, Archiving, AtClient, Report
<1>1. CASE ApproveTransaction(r)
  BY <1>1 DEF ApproveTransaction
<1>2. CASE RollbackWrite(r)
  BY <1>2 DEF RollbackWrite
<1>3. CASE ~ApproveTransaction(r) /\ ~RollbackWrite(r)
  BY <1>3 DEF WritingStep, SaveReport, RollbackStatusAfterError, ArchiveSave,
       ArchiveSaveWithoutAsset, FailedMintSave, ArchiveSaveFails, ConfirmArchive,
       DeactivateArchive, ActivateArchive, RevertWrite
<1> QED
  BY <1>1, <1>2, <1>3

\* A step that leaves the row and the requests of i alone.
LEMMA ReviewFrame ==
    ASSUME NEW i \in Inspection, Reviewed(i), on' = on, db'[i] = db[i],
           \A q \in Request : on[q] = i => pc'[q] = pc[q] /\ snap'[q] = snap[q]
    PROVE  Reviewed(i)'
BY DEF Reviewed, ReviewedRow, HandlerOwns, Founded

\* A rollback is never forgotten, and the step that is one is not Undisturbed.
LEMMA UndisturbedBefore ==
    ASSUME TypeOK, [Next]_vars, NEW i \in live', Undisturbed(i)'
    PROVE  /\ i \in live /\ Undisturbed(i)
           /\ \A r \in Request : on[r] = i => ~RollbackWrite(r)
<1>1. ASSUME NEW r \in Request, RollbackWrite(r) PROVE on[r] # i /\ i \in live /\ Undisturbed(i)
  <2>1. Goto(r, "rolledBack") /\ on' = on /\ live' = live /\ pc[r] # "rolledBack"
    BY <1>1 DEF RollbackWrite, Ends, Goto
  <2>2. Rollbacks(i)' = IF on[r] = i THEN Rollbacks(i) \cup {r} ELSE Rollbacks(i) \ {r}
    BY <2>1, MovedSets
  <2>3. r \notin Rollbacks(i)
    BY <2>1 DEF Rollbacks
  <2> QED
    BY <2>1, <2>2, <2>3 DEF Undisturbed
<1>2. ASSUME NEW r \in Request, ~RollbackWrite(r),
             QuietStep(r) \/ WritingStep(r) \/ DeleteCommit(r)
      PROVE  i \in live /\ Undisturbed(i)
  <2>1. on' = on /\ live' \subseteq live
    BY <1>2, OtherMoves DEF Charged, ApproveTransaction, RollbackStatusAfterError
  <2>2. \E l : Goto(r, l)
    BY <1>2, OtherMoves DEF Charged, ApproveTransaction, RollbackStatusAfterError, Ends
  <2>3. pc[r] # "rolledBack"
    BY <1>2, OtherMoves DEF Charged, ApproveTransaction, RollbackStatusAfterError, Calls
  <2> QED
    BY <2>1, <2>2, <2>3 DEF Goto, Undisturbed, Rollbacks, TypeOK
<1>3. CASE Crash
  BY <1>1, <1>3 DEF Crash, Undisturbed, Rollbacks, InHandler, Generating, TypeOK
<1>4. CASE UNCHANGED vars
  BY <1>1, <1>4 DEF vars, Undisturbed, Rollbacks
<1> QED
  BY <1>1, <1>2, <1>3, <1>4, StepKinds

-----------------------------------------------------------------------------
\* Each step keeps Reviewed for the inspection it is about.
LEMMA QuietReviewed ==
    ASSUME TypeOK, NEW r \in Request, QuietStep(r), NEW i \in live \ LegacyRows,
           on[r] = i, Undisturbed(i), Reviewed(i),
           Founded(i)' => Founded(i)
    PROVE  Reviewed(i)'
<1> SUFFICES ASSUME NEW q \in Request, on[q] = i PROVE HandlerOwns(q, i)'
  BY QuietStepFrame DEF Reviewed, ReviewedRow
<1>1. HandlerOwns(q, i) /\ ReviewedRow(i)
  BY DEF Reviewed
<1>2. UNCHANGED <<live, db, on>>
  BY QuietStepFrame
<1>3. CASE q # r
  BY <1>1, <1>2, <1>3 DEF HandlerOwns, QuietStep, GenerateReports, GenerationFails,
       SaveReportFails, ApprovalStranded, ArchiveRead, MintSucceeds, MintFails,
       ArchiveSaveConflict, BuildArchiveTransaction, ClientSubmits, RollbackRead,
       RevertRead, SuperadminAborts, DeleteRead, DeleteUnlink, DeleteFails,
       Goto, Ends, Reads, TypeOK
<1>4. CASE q = r
  BY <1>1, <1>2, <1>4 DEF HandlerOwns, ReviewedRow, QuietStep, GenerateReports,
       GenerationFails, SaveReportFails, ApprovalStranded, ArchiveRead, MintSucceeds,
       MintFails, ArchiveSaveConflict, BuildArchiveTransaction, ClientSubmits, RollbackRead,
       RevertRead, SuperadminAborts, DeleteRead, DeleteUnlink, DeleteFails,
       Calls, Goto, Ends, Reads, Current, TypeOK, Busy, Generating, Archiving, AtClient
<1> QED
  BY <1>3, <1>4

LEMMA WritingReviewed ==
    ASSUME TypeOK, NEW r \in Request, WritingStep(r), ~RollbackWrite(r),
           NEW i \in live \ LegacyRows, on[r] = i, Undisturbed(i), Reviewed(i),
           Founded(i)' => Founded(i)
    PROVE  Reviewed(i)'
<1>1. ReviewedRow(i) /\ \A q \in Request : on[q] = i => HandlerOwns(q, i)
  BY DEF Reviewed
<1>2. i \in Inspection /\ db[i] \in Row /\ Current(r) = db[i]
  BY DEF TypeOK, Current
<1> USE DEF Writes, Goto, Busy, Generating, Archiving, AtClient
<1>3. CASE ApproveTransaction(r)
  <2>1. ReviewedRow(i)'
    BY <1>1, <1>2, <1>3, LifecycleAssumption
       DEF ApproveTransaction, Calls, Reads, ReviewedRow, HandlerOwns, Approvable, TypeOK, Row, Report
  <2>2. ASSUME NEW q \in Request, on'[q] = i PROVE HandlerOwns(q, i)'
    BY <1>1, <1>2, <1>3, <2>2
       DEF ApproveTransaction, Calls, Reads, ReviewedRow, HandlerOwns, Approvable, TypeOK, Row
  <2> QED
    BY <2>1, <2>2 DEF Reviewed
<1>4. CASE SaveReport(r)
  <2>1. ReviewedRow(i)'
    BY <1>1, <1>2, <1>4, LifecycleAssumption
       DEF SaveReport, Ends, ReviewedRow, HandlerOwns, Approvable, TypeOK, Row, Report
  <2>2. ASSUME NEW q \in Request, on'[q] = i PROVE HandlerOwns(q, i)'
    BY <1>1, <1>2, <1>4, <2>2
       DEF SaveReport, Ends, ReviewedRow, HandlerOwns, Approvable, TypeOK, Row
  <2> QED
    BY <2>1, <2>2 DEF Reviewed
<1>5. CASE RollbackStatusAfterError(r)
  <2>1. ReviewedRow(i)'
    BY <1>1, <1>2, <1>5, LifecycleAssumption
       DEF RollbackStatusAfterError, Ends, ReviewedRow, HandlerOwns, Approvable, TypeOK, Row, Report
  <2>2. ASSUME NEW q \in Request, on'[q] = i PROVE HandlerOwns(q, i)'
    BY <1>1, <1>2, <1>5, <2>2
       DEF RollbackStatusAfterError, Ends, ReviewedRow, HandlerOwns, Approvable, TypeOK, Row
  <2> QED
    BY <2>1, <2>2 DEF Reviewed
<1>6. CASE ArchiveSave(r)
  <2>1. ReviewedRow(i)'
    BY <1>1, <1>2, <1>6, LifecycleAssumption
       DEF ArchiveSave, Ends, ArchivedRow, NativeAsset, ReviewedRow, HandlerOwns, Approvable, TypeOK, Row, Report
  <2>2. ASSUME NEW q \in Request, on'[q] = i PROVE HandlerOwns(q, i)'
    BY <1>1, <1>2, <1>6, <2>2
       DEF ArchiveSave, Ends, ArchivedRow, NativeAsset, ReviewedRow, HandlerOwns, Approvable, TypeOK, Row
  <2> QED
    BY <2>1, <2>2 DEF Reviewed
<1>7. CASE ArchiveSaveWithoutAsset(r)
  <2>1. ReviewedRow(i)'
    BY <1>1, <1>2, <1>7, LifecycleAssumption
       DEF ArchiveSaveWithoutAsset, Ends, ArchivedRow, ReviewedRow, HandlerOwns, Approvable, TypeOK, Row, Report
  <2>2. ASSUME NEW q \in Request, on'[q] = i PROVE HandlerOwns(q, i)'
    BY <1>1, <1>2, <1>7, <2>2
       DEF ArchiveSaveWithoutAsset, Ends, ArchivedRow, ReviewedRow, HandlerOwns, Approvable, TypeOK, Row
  <2> QED
    BY <2>1, <2>2 DEF Reviewed
<1>8. CASE FailedMintSave(r)
  <2>1. ReviewedRow(i)'
    BY <1>1, <1>2, <1>8, LifecycleAssumption
       DEF FailedMintSave, Ends, ReviewedRow, HandlerOwns, Approvable, TypeOK, Row, Report
  <2>2. ASSUME NEW q \in Request, on'[q] = i PROVE HandlerOwns(q, i)'
    BY <1>1, <1>2, <1>8, <2>2
       DEF FailedMintSave, Ends, ReviewedRow, HandlerOwns, Approvable, TypeOK, Row
  <2> QED
    BY <2>1, <2>2 DEF Reviewed
<1>9. CASE ArchiveSaveFails(r)
  <2>1. ReviewedRow(i)'
    BY <1>1, <1>2, <1>9, LifecycleAssumption
       DEF ArchiveSaveFails, Ends, ReviewedRow, HandlerOwns, Approvable, TypeOK, Row, Report
  <2>2. ASSUME NEW q \in Request, on'[q] = i PROVE HandlerOwns(q, i)'
    BY <1>1, <1>2, <1>9, <2>2
       DEF ArchiveSaveFails, Ends, ReviewedRow, HandlerOwns, Approvable, TypeOK, Row
  <2> QED
    BY <2>1, <2>2 DEF Reviewed
<1>14. CASE ConfirmUnfounded(r)
  <2>1. PICK body \in Bodies : Writes(r, ArchivedRow(r, body[1], body[2]))
    BY <1>14 DEF ConfirmUnfounded, ConfirmsWith
  <2>2. ~Founded(i)'
    BY <1>14 DEF ConfirmUnfounded, Ends, Founded, TypeOK
  <2>3. ReviewedRow(i)'
    BY <1>1, <1>2, <2>1, <2>2 DEF ArchivedRow, ReviewedRow, TypeOK, Row
  <2>4. ASSUME NEW q \in Request, on'[q] = i PROVE HandlerOwns(q, i)'
    BY <1>1, <1>2, <1>14, <2>1, <2>2, <2>4
       DEF ConfirmUnfounded, Calls, Ends, ArchivedRow, HandlerOwns, TypeOK, Row
  <2> QED
    BY <2>3, <2>4 DEF Reviewed
<1>10. CASE ConfirmArchive(r)
  <2>1. ReviewedRow(i)'
    BY <1>1, <1>2, <1>10, LifecycleAssumption
       DEF ConfirmArchive, ConfirmsWith, ArchivedRow, AikenAsset, ReviewedRow, HandlerOwns, Approvable, TypeOK, Row, Report
  <2>2. ASSUME NEW q \in Request, on'[q] = i PROVE HandlerOwns(q, i)'
    BY <1>1, <1>2, <1>10, <2>2
       DEF ConfirmArchive, ConfirmsWith, ArchivedRow, AikenAsset, ReviewedRow, HandlerOwns, Approvable, TypeOK, Row
  <2> QED
    BY <2>1, <2>2 DEF Reviewed
<1>11. CASE DeactivateArchive(r)
  <2>1. ReviewedRow(i)'
    BY <1>1, <1>2, <1>11, LifecycleAssumption
       DEF DeactivateArchive, Calls, Ends, ReviewedRow, HandlerOwns, Approvable, TypeOK, Row, Report
  <2>2. ASSUME NEW q \in Request, on'[q] = i PROVE HandlerOwns(q, i)'
    BY <1>1, <1>2, <1>11, <2>2
       DEF DeactivateArchive, Calls, Ends, ReviewedRow, HandlerOwns, Approvable, TypeOK, Row
  <2> QED
    BY <2>1, <2>2 DEF Reviewed
<1>12. CASE ActivateArchive(r)
  <2>1. ReviewedRow(i)'
    BY <1>1, <1>2, <1>12, LifecycleAssumption
       DEF ActivateArchive, Calls, Ends, ReviewedRow, HandlerOwns, Approvable, TypeOK, Row, Report
  <2>2. ASSUME NEW q \in Request, on'[q] = i PROVE HandlerOwns(q, i)'
    BY <1>1, <1>2, <1>12, <2>2
       DEF ActivateArchive, Calls, Ends, ReviewedRow, HandlerOwns, Approvable, TypeOK, Row
  <2> QED
    BY <2>1, <2>2 DEF Reviewed
<1>13. CASE RevertWrite(r)
  <2>1. ReviewedRow(i)'
    BY <1>1, <1>2, <1>13, LifecycleAssumption
       DEF RevertWrite, Ends, RevertedRow, ReviewedRow, HandlerOwns, Approvable, TypeOK, Row, Report
  <2>2. ASSUME NEW q \in Request, on'[q] = i PROVE HandlerOwns(q, i)'
    BY <1>1, <1>2, <1>13, <2>2
       DEF RevertWrite, Ends, RevertedRow, ReviewedRow, HandlerOwns, Approvable, TypeOK, Row
  <2> QED
    BY <2>1, <2>2 DEF Reviewed
<1> QED
  BY <1>3, <1>4, <1>5, <1>6, <1>7, <1>8, <1>9, <1>10, <1>11, <1>12, <1>13, <1>14
     DEF WritingStep

\* Requests about other inspections do not reach i.
LEMMA OthersReviewed ==
    ASSUME TypeOK, NEW r \in Request, QuietStep(r) \/ WritingStep(r) \/ DeleteCommit(r),
           NEW i \in live, on[r] # i, Reviewed(i)
    PROVE  Reviewed(i)'
<1>1. /\ on' = on /\ i \in Inspection
      /\ \A q \in Request \ {r} : pc'[q] = pc[q] /\ snap'[q] = snap[q]
  <2> USE DEF TypeOK, Goto, Ends, Reads
  <2>1. CASE QuietStep(r)
    BY <2>1 DEF QuietStep, GenerateReports, GenerationFails, SaveReportFails,
       ApprovalStranded, ArchiveRead, MintSucceeds, MintFails, ArchiveSaveConflict,
       BuildArchiveTransaction, ClientSubmits, RollbackRead, RevertRead, SuperadminAborts,
       DeleteRead, DeleteUnlink, DeleteFails
  <2>2. CASE WritingStep(r)
    BY <2>2 DEF WritingStep, ApproveTransaction, SaveReport, RollbackStatusAfterError,
       ArchiveSave, ArchiveSaveWithoutAsset, FailedMintSave, ArchiveSaveFails,
       ConfirmArchive, ConfirmUnfounded, DeactivateArchive, ActivateArchive,
       RollbackWrite, RevertWrite
  <2>3. CASE DeleteCommit(r)
    BY <2>3 DEF DeleteCommit
  <2> QED
    BY <2>1, <2>2, <2>3
<1>2. db'[i] = db[i]
  BY <1>1, QuietStepFrame, WritesOwnRow DEF DeleteCommit
<1>3. \A q \in Request : on[q] = i => pc'[q] = pc[q] /\ snap'[q] = snap[q]
  BY <1>1
<1> QED
  BY <1>1, <1>2, <1>3, ReviewFrame

LEMMA ReviewStep == TypeInv /\ ReviewInv /\ [Next]_vars => ReviewInv'
<1> SUFFICES ASSUME TypeOK, ReviewInv, [Next]_vars,
                    NEW i \in live' \ LegacyRows, Undisturbed(i)'
             PROVE  Reviewed(i)'
  BY DEF TypeInv, ReviewInv
<1>1. /\ i \in live /\ Undisturbed(i) /\ Reviewed(i)
      /\ \A r \in Request : on[r] = i => ~RollbackWrite(r)
      /\ Founded(i)' => Founded(i)
  BY UndisturbedBefore, UnfoundedStays DEF ReviewInv, TypeOK
<1>2. ASSUME NEW r \in Request, QuietStep(r) \/ WritingStep(r) \/ DeleteCommit(r)
      PROVE  Reviewed(i)'
  <2>1. CASE on[r] # i
    BY <1>1, <1>2, <2>1, OthersReviewed
  <2>2. CASE on[r] = i /\ QuietStep(r)
    BY <1>1, <2>2, QuietReviewed
  <2>3. CASE on[r] = i /\ WritingStep(r)
    BY <1>1, <2>3, WritingReviewed
  <2>4. CASE on[r] = i /\ DeleteCommit(r)
    BY <1>1, <2>4 DEF DeleteCommit, TypeOK
  <2> QED
    BY <1>2, <2>1, <2>2, <2>3, <2>4
<1>3. CASE Crash
  BY <1>1, <1>3 DEF Crash, Reviewed, ReviewedRow, HandlerOwns, InHandler, Generating, AtClient,
                    Busy, Archiving, TypeOK
<1>4. CASE UNCHANGED vars
  BY <1>1, <1>4, ReviewFrame DEF vars, TypeOK
<1> QED
  BY <1>2, <1>3, <1>4, StepKinds

LEMMA InitReviewInv == Init => ReviewInv
BY LifecycleAssumption DEF Init, ReviewInv, Reviewed, ReviewedRow, HandlerOwns, InitialRow,
   Busy, Generating, Archiving, AtClient

LEMMA ReviewInvariant == Spec => [](TypeInv /\ ReviewInv)
BY InitTypeInv, TypeInvStep, InitReviewInv, ReviewStep, PTL DEF Spec

-----------------------------------------------------------------------------
\* The report of an inspection was generated by the approval of the reviewer
\* it names, as long as no superadmin rolled it back: approvals that overlap,
\* fail late or are retried never mix one reviewer with another's report.
THEOREM ReportNamesItsReviewer == Spec => []ReportMatchesReviewer
<1>1. ReviewInv => ReportMatchesReviewer
  BY DEF ReviewInv, Reviewed, ReviewedRow, ReportMatchesReviewer
<1> QED
  BY <1>1, ReviewInvariant, PTL

\* The asset the server minted for an inspection names the report the row
\* holds, although the hash is read long before the mint and the last write,
\* as long as no superadmin rolled it back and no unfounded confirmation
\* overwrote it.
THEOREM MintedReportStaysCurrent == Spec => []MintedReportIsCurrent
<1>1. ReviewInv => MintedReportIsCurrent
  BY DEF ReviewInv, Reviewed, ReviewedRow, MintedReportIsCurrent
<1> QED
  BY <1>1, ReviewInvariant, PTL

LEMMA ReportStays ==
    ASSUME TypeInv, ReviewInv, [Next]_vars,
           NEW i \in live \ LegacyRows, Undisturbed(i), db[i].pdfFileHash # None
    PROVE  db'[i].pdfFileHash = db[i].pdfFileHash
<1>1. /\ TypeOK /\ i \in Inspection /\ db[i] \in Row
      /\ \A r \in Request : on[r] = i => pc[r] # "generated"
  BY DEF TypeInv, TypeOK, ReviewInv, Reviewed, HandlerOwns, Busy, Generating
<1>2. ASSUME NEW r \in Request, WritingStep(r)
      PROVE  db'[i].pdfFileHash = db[i].pdfFileHash
  BY <1>1, <1>2, WritesOwnRow, ReportColumn
<1>3. ASSUME NEW r \in Request, QuietStep(r) \/ DeleteCommit(r)
      PROVE  db'[i].pdfFileHash = db[i].pdfFileHash
  BY <1>3, QuietStepFrame DEF DeleteCommit
<1> QED
  BY <1>2, <1>3, StepKinds DEF Crash, vars

\* A stored report is never replaced unless a superadmin rolled the inspection
\* back: the only writer of the column is an approval, and one that is still
\* running owns a row without a report.
THEOREM ReportsAreFinal == Spec => ReportIsFinal
<1> DEFINE Final == \A i \in live \ LegacyRows :
                       Undisturbed(i) /\ db[i].pdfFileHash # None =>
                           db'[i].pdfFileHash = db[i].pdfFileHash
<1>1. TypeInv /\ ReviewInv /\ [Next]_vars => [Final]_vars
  BY ReportStays
<1> QED
  BY <1>1, ReviewInvariant, PTL DEF Spec, ReportIsFinal

\* An inspection leaves NEED_REVIEW only through an approval that names its
\* reviewer or through an unfounded confirmation, as long as no superadmin
\* rolled it back: no archive, revert or confirmation of a submitted
\* transaction that saw the row in a later state is still under way.
THEOREM NothingPublishedUnreviewed == Spec => ReviewedBeforePublished
<1> DEFINE Reviewing == \A i \in live \ LegacyRows :
                  Undisturbed(i) /\ Founded(i)'
                  /\ db[i].status = "NEED_REVIEW" /\ db'[i].status # "NEED_REVIEW" =>
                      db'[i].status = "APPROVED" /\ db'[i].reviewerId # None
<1>1. ASSUME TypeInv, ReviewInv, [Next]_vars PROVE Reviewing
  <2> SUFFICES ASSUME NEW i \in live \ LegacyRows, Undisturbed(i), Founded(i)',
                      db[i].status = "NEED_REVIEW", db'[i].status # "NEED_REVIEW"
               PROVE  db'[i].status = "APPROVED" /\ db'[i].reviewerId # None
    OBVIOUS
  <2>1. /\ TypeOK /\ i \in Inspection /\ db[i] \in Row
        /\ \A r \in Request : on[r] = i =>
              pc[r] \notin Busy \cup Archiving \cup AtClient \cup {"reverting"}
    <3>1. TypeOK /\ i \in Inspection /\ Reviewed(i) /\ Founded(i)
      BY <1>1, UnfoundedStays DEF TypeInv, TypeOK, ReviewInv
    <3> QED
      BY <3>1 DEF TypeOK, Reviewed, ReviewedRow, HandlerOwns
  <2>2. ASSUME NEW r \in Request, WritingStep(r)
        PROVE  db'[i].status = "APPROVED" /\ db'[i].reviewerId # None
    <3>1. CASE on[r] = i
      <4>1. ~ConfirmUnfounded(r)
        BY <2>1, <3>1 DEF ConfirmUnfounded, Ends, Goto, Founded, TypeOK
      <4> QED
        BY <2>1, <2>2, <3>1, <4>1, LeavesReview
    <3>2. CASE on[r] # i
      BY <2>1, <2>2, <3>2, WritesOwnRow
    <3> QED
      BY <3>1, <3>2
  <2>3. ASSUME NEW r \in Request, QuietStep(r) \/ DeleteCommit(r)
        PROVE  FALSE
    BY <2>3, QuietStepFrame DEF DeleteCommit
  <2> QED
    BY <1>1, <2>2, <2>3, StepKinds DEF Crash, vars
<1>2. TypeInv /\ ReviewInv /\ [Next]_vars => [Reviewing]_vars
  BY <1>1
<1> QED
  BY <1>2, ReviewInvariant, PTL DEF Spec, ReviewedBeforePublished

-----------------------------------------------------------------------------
(* Bulk approval                                                           *)

\* Every behaviour of BulkApproval is one of the lifecycle.
LEMMA BulkStepIsLifecycleStep == [BulkNext]_bulkVars => [Next]_vars
<1>1. ASSUME NEW a \in ItemSet, ItemStarts(a) PROVE Next
  BY <1>1, BulkAssumption DEF ItemStarts, ItemSet, Next, Arrive
<1>2. ASSUME NEW a \in ItemSet, ItemRejected(a) \/ ItemSucceeds(a) \/ ItemFails(a)
      PROVE  UNCHANGED vars
  BY <1>2 DEF ItemRejected, ItemSucceeds, ItemFails
<1>3. LifecycleStep => Next
  BY DEF LifecycleStep, Next
<1> QED
  BY <1>1, <1>2, <1>3 DEF BulkNext, BulkContinue, bulkVars

\* Bulk approvals change nothing of the life of a row: whatever holds of
\* InspectionLifecycle holds while they are under way.
THEOREM BulkRefinesLifecycle == BulkSpec => Spec
<1>1. BulkInit => Init
  BY DEF BulkInit
<1> QED
  BY <1>1, BulkStepIsLifecycleStep, PTL DEF BulkSpec, Spec

\* A request that has ended with success takes no further step.
LEMMA DoneIsFinal ==
    ASSUME TypeOK, NEW r \in Request, QuietStep(r) \/ WritingStep(r) \/ DeleteCommit(r)
    PROVE  /\ on' = on
           /\ pc[r] # "done"
           /\ \A q \in Request \ {r} : pc'[q] = pc[q]
<1> USE DEF TypeOK, Goto, Ends
<1>1. CASE QuietStep(r)
  BY <1>1 DEF QuietStep, GenerateReports, GenerationFails, SaveReportFails,
     ApprovalStranded, ArchiveRead, MintSucceeds, MintFails, ArchiveSaveConflict,
     BuildArchiveTransaction, ClientSubmits, RollbackRead, RevertRead, SuperadminAborts,
     DeleteRead, DeleteUnlink, DeleteFails, Calls
<1>2. CASE WritingStep(r)
  BY <1>2 DEF WritingStep, ApproveTransaction, SaveReport, RollbackStatusAfterError,
     ArchiveSave, ArchiveSaveWithoutAsset, FailedMintSave, ArchiveSaveFails,
     ConfirmArchive, ConfirmUnfounded, DeactivateArchive, ActivateArchive, RollbackWrite,
     RevertWrite, Calls
<1>3. CASE DeleteCommit(r)
  BY <1>3 DEF DeleteCommit
<1> QED
  BY <1>1, <1>2, <1>3

\* A report is in the table only if its approval has ended with success.
ReportsStored ==
    \A i \in Inspection, r \in Request : db[i].pdfFileHash = r => pc[r] = "done"

LEMMA ReportsStoredStep == TypeOK /\ ReportsStored /\ [Next]_vars => ReportsStored' /\ on' = on
<1> SUFFICES ASSUME TypeOK, ReportsStored, [Next]_vars PROVE ReportsStored' /\ on' = on
  OBVIOUS
<1>1. ASSUME NEW r \in Request, QuietStep(r) \/ WritingStep(r) \/ DeleteCommit(r)
      PROVE  ReportsStored' /\ on' = on
  <2>1. /\ on' = on /\ pc[r] # "done"
        /\ \A q \in Request \ {r} : pc'[q] = pc[q]
    BY <1>1, DoneIsFinal
  <2>2. CASE WritingStep(r) /\ pc[r] = "generated"
    <3>1. SaveReport(r)
      BY <2>2 DEF WritingStep, ApproveTransaction, RollbackStatusAfterError, ArchiveSave,
         ArchiveSaveWithoutAsset, FailedMintSave, ArchiveSaveFails, ConfirmArchive,
         ConfirmUnfounded, DeactivateArchive, ActivateArchive, RollbackWrite, RevertWrite, Calls
    <3>2. pc'[r] = "done" /\ db'[on[r]].pdfFileHash = r
      BY <3>1, CurrentType DEF SaveReport, Writes, Ends, Goto, TypeOK, Row, Current
    <3> QED
      BY <2>1, <2>2, <3>2, WritesOwnRow DEF ReportsStored
  <2>3. CASE WritingStep(r) /\ pc[r] # "generated"
    <3>1. \A i \in Inspection : db'[i].pdfFileHash = db[i].pdfFileHash
      BY <2>3, WritesOwnRow, ReportColumn
    <3> QED
      BY <2>1, <3>1 DEF ReportsStored
  <2>4. CASE QuietStep(r) \/ DeleteCommit(r)
    BY <2>1, <2>4, QuietStepFrame DEF ReportsStored, DeleteCommit
  <2> QED
    BY <1>1, <2>2, <2>3, <2>4
<1>2. CASE Crash
  BY <1>2 DEF Crash, ReportsStored, InHandler, Generating, TypeOK
<1>3. CASE UNCHANGED vars
  BY <1>3 DEF vars, ReportsStored
<1> QED
  BY <1>1, <1>2, <1>3, StepKinds

LEMMA ReportsStoredInvariant == Spec => [](TypeInv /\ ReviewInv /\ ReportsStored)
<1>1. Init => ReportsStored
  BY LifecycleAssumption DEF Init, InitialRow, ReportsStored, Report
<1>2. TypeInv => TypeOK
  BY DEF TypeInv
<1> QED
  BY <1>1, <1>2, ReviewInvariant, ReportsStoredStep, PTL DEF Spec

\* What the loop of bulkApproveInspections relies on: an item that has been
\* passed stays as it was reported, because it is in the list once.
Passed == {Items[k] : k \in {k \in DOMAIN Items : k < item}}

ItemLabel == {"idle", "done", "approvalFailed", "stranded"} \cup Busy

\* The inspection of item a shows the report of this approval.
Shown(a) ==
    on[a] \in live /\ on[a] \notin LegacyRows /\ Undisturbed(on[a]) => db[on[a]].pdfFileHash = a

ItemsInv ==
    \A a \in ItemSet : pc[a] \in ItemLabel /\ (pc[a] = "done" => Shown(a))

SummaryInv ==
    /\ item \in Nat
    /\ successful \cap failed = {}
    /\ successful \cup failed = Passed
    /\ \A a \in successful : pc[a] = "done"
    /\ \A a \in failed : pc[a] \in {"idle", "approvalFailed", "stranded"}

\* What was shown stays.
LEMMA ShownStays ==
    ASSUME TypeInv, ReviewInv, ReportsStored, [Next]_vars, NEW a \in Request, Shown(a)
    PROVE  Shown(a)'
<1>1. on' = on /\ TypeOK
  BY ReportsStoredStep DEF TypeInv
<1>2. PICK i \in Inspection : i = on[a]
  BY <1>1 DEF TypeOK
<1>3. ASSUME i \in live', i \notin LegacyRows, Undisturbed(i)'
      PROVE  db'[i].pdfFileHash = a
  <2>1. i \in live /\ Undisturbed(i)
    BY <1>1, <1>3, UndisturbedBefore
  <2>2. db[i].pdfFileHash = a /\ a # None
    BY <1>2, <1>3, <2>1, LifecycleAssumption DEF Shown, Report
  <2> QED
    BY <1>3, <2>1, <2>2, ReportStays
<1> QED
  BY <1>1, <1>2, <1>3 DEF Shown, Undisturbed, Rollbacks

\* The handler of an approval goes on.
LEMMA ItemContinues ==
    ASSUME TypeOK, NEW a \in Request, pc[a] \in ItemLabel, Continue(a)
    PROVE  /\ pc[a] \in Busy
           /\ pc'[a] \in ItemLabel
           /\ pc'[a] = "done" => db'[on[a]].pdfFileHash = a
<1> USE DEF ItemLabel, Busy, Generating, TypeOK, Goto, Ends
<1>1. CASE SaveReport(a)
  <2>1. db[on[a]] \in Row
    OBVIOUS
  <2> QED
    BY <1>1, <2>1 DEF SaveReport, Writes, Current, Row
<1>2. CASE ~SaveReport(a)
  BY <1>2 DEF Continue, GenerateReports, GenerationFails, SaveReportFails,
     RollbackStatusAfterError, ApprovalStranded, MintSucceeds, MintFails, ArchiveSave,
     ArchiveSaveConflict, ArchiveSaveWithoutAsset, FailedMintSave, ArchiveSaveFails,
     RollbackWrite, RevertWrite, SuperadminAborts, DeleteUnlink, DeleteCommit, DeleteFails
<1> QED
  BY <1>1, <1>2

\* What the steps of BulkApproval do to the items.
LEMMA ItemMoves ==
    ASSUME TypeOK, ItemsInv, [BulkNext]_bulkVars, NEW a \in ItemSet
    PROVE  \/ pc'[a] = pc[a]
           \/ AtItem(a) /\ item' = item /\ pc'[a] = "generating"
           \/ /\ pc[a] \in Busy
              /\ pc'[a] \in ItemLabel
              /\ pc'[a] = "done" => db'[on[a]].pdfFileHash = a
<1>1. ItemSet \subseteq Request
  BY BulkAssumption DEF ItemSet
<1>2. ASSUME NEW b \in ItemSet, ItemStarts(b)
      PROVE  pc'[a] = pc[a] \/ (AtItem(a) /\ item' = item /\ pc'[a] = "generating")
  BY <1>1, <1>2 DEF ItemStarts, ApproveTransaction, Goto, TypeOK
<1>3. ASSUME NEW b \in ItemSet, ItemRejected(b) \/ ItemSucceeds(b) \/ ItemFails(b)
      PROVE  pc' = pc
  BY <1>3 DEF ItemRejected, ItemSucceeds, ItemFails, vars
<1>4. ASSUME NEW r \in Request, r # a,
             QuietStep(r) \/ WritingStep(r) \/ DeleteCommit(r)
      PROVE  pc'[a] = pc[a]
  BY <1>1, <1>4, DoneIsFinal
<1>5. ASSUME NEW r \in Request \ ItemSet, Arrive(r) \/ ClientStep(r)
      PROVE  pc'[a] = pc[a]
  BY <1>4, <1>5 DEF Arrive, ClientStep, QuietStep, WritingStep
<1>6. ASSUME NEW r \in Request, r # a, Continue(r)
      PROVE  pc'[a] = pc[a]
  BY <1>4, <1>6 DEF Continue, QuietStep, WritingStep
<1>7. ASSUME Continue(a)
      PROVE  /\ pc[a] \in Busy
             /\ pc'[a] \in ItemLabel
             /\ pc'[a] = "done" => db'[on[a]].pdfFileHash = a
  BY <1>1, <1>7, ItemContinues DEF ItemsInv
<1> QED
  BY <1>2, <1>3, <1>5, <1>6, <1>7
     DEF BulkNext, BulkContinue, LifecycleStep, bulkVars, vars

LEMMA ItemsStep ==
    ASSUME TypeInv, ReviewInv, ReportsStored, ItemsInv, [BulkNext]_bulkVars
    PROVE  ItemsInv'
<1> SUFFICES ASSUME NEW a \in ItemSet
             PROVE  pc'[a] \in ItemLabel /\ (pc'[a] = "done" => Shown(a)')
  BY DEF ItemsInv, ItemSet
<1>1. a \in Request /\ TypeOK /\ [Next]_vars /\ on' = on
  BY BulkAssumption, BulkStepIsLifecycleStep, ReportsStoredStep DEF ItemSet, TypeInv
<1>2. pc[a] \in ItemLabel /\ (pc[a] = "done" => Shown(a)')
  BY <1>1, ShownStays DEF ItemsInv
<1>3. db'[on[a]].pdfFileHash = a => Shown(a)'
  BY <1>1 DEF Shown
<1> QED
  BY <1>1, <1>2, <1>3, ItemMoves DEF ItemLabel, Busy, Generating

\* The loop reports the item under way, or leaves the summary alone.
LEMMA ReportsOne ==
    ASSUME NEW a \in ItemSet, ItemRejected(a) \/ ItemSucceeds(a) \/ ItemFails(a), SummaryInv
    PROVE  /\ Passed' = Passed \cup {a}
           /\ a \notin Passed
           /\ item' \in Nat
BY BulkAssumption DEF ItemRejected, ItemSucceeds, ItemFails, AtItem, SummaryInv, Passed

LEMMA SummaryStep ==
    ASSUME TypeOK, ItemsInv, SummaryInv, [BulkNext]_bulkVars
    PROVE  SummaryInv'
<1>1. CASE \E a \in ItemSet : ItemRejected(a) \/ ItemSucceeds(a) \/ ItemFails(a)
  <2>1. PICK a \in ItemSet : ItemRejected(a) \/ ItemSucceeds(a) \/ ItemFails(a)
    BY <1>1
  <2>2. Passed' = Passed \cup {a} /\ a \notin Passed /\ item' \in Nat /\ pc' = pc
    BY <2>1, ReportsOne DEF ItemRejected, ItemSucceeds, ItemFails, vars
  <2>3. CASE ItemSucceeds(a)
    BY <2>2, <2>3 DEF ItemSucceeds, SummaryInv
  <2>4. CASE ItemRejected(a) \/ ItemFails(a)
    BY <2>2, <2>4 DEF ItemRejected, ItemFails, SummaryInv
  <2> QED
    BY <2>1, <2>3, <2>4
<1>2. CASE UNCHANGED <<item, successful, failed>>
  <2>1. Passed' = Passed
    BY <1>2 DEF Passed
  <2>2. ASSUME NEW a \in Passed PROVE ~AtItem(a) /\ a \in ItemSet
    BY <2>2, BulkAssumption DEF Passed, AtItem, ItemSet, SummaryInv
  <2>3. ASSUME NEW a \in Passed, pc[a] \notin Busy PROVE pc'[a] = pc[a]
    BY <2>2, <2>3, ItemMoves
  <2> QED
    BY <1>2, <2>1, <2>3 DEF SummaryInv, Busy, Generating
<1> QED
  BY <1>1, <1>2
     DEF BulkNext, BulkContinue, ItemStarts, LifecycleStep, bulkVars

\* The summary of a bulk approval tells the truth for lists of any length:
\* every item is counted once, as approved only if its report is stored and
\* (unless rolled back) still shown, as failed only if none was stored.
THEOREM SummariesAreTrue == BulkSpec => []SummaryIsTrue
<1>1. BulkInit => ItemsInv /\ SummaryInv
  <2> SUFFICES ASSUME BulkInit PROVE ItemsInv /\ SummaryInv
    OBVIOUS
  <2>1. \A a \in ItemSet : pc[a] = "idle"
    BY BulkAssumption DEF BulkInit, Init, ItemSet
  <2>2. Passed = {} /\ item = 1 /\ successful = {} /\ failed = {}
    BY BulkAssumption DEF BulkInit, Passed
  <2> QED
    BY <2>1, <2>2 DEF ItemsInv, ItemLabel, SummaryInv
<1>2. /\ TypeInv /\ ReviewInv /\ ReportsStored /\ ItemsInv /\ SummaryInv
      /\ [BulkNext]_bulkVars
      => ItemsInv' /\ SummaryInv'
  BY ItemsStep, SummaryStep DEF TypeInv
<1>3. TypeInv /\ ReportsStored /\ ItemsInv /\ SummaryInv => SummaryIsTrue
  <2> SUFFICES ASSUME TypeInv, ReportsStored, ItemsInv, SummaryInv
               PROVE  SummaryIsTrue
    OBVIOUS
  <2>1. Passed \subseteq ItemSet /\ ItemSet \subseteq Request
    BY BulkAssumption DEF Passed, ItemSet
  <2>2. \A a \in successful : Shown(a)
    BY <2>1 DEF SummaryInv, ItemsInv
  <2>3. \A a \in failed : \A i \in live : db[i].pdfFileHash # a
    BY <2>1 DEF SummaryInv, ReportsStored, TypeInv, TypeOK
  <2> QED
    BY <2>2, <2>3 DEF SummaryInv, SummaryIsTrue, Passed, Shown
<1>4. BulkSpec => [](TypeInv /\ ReviewInv /\ ReportsStored)
  BY BulkRefinesLifecycle, ReportsStoredInvariant, PTL
<1> QED
  BY <1>1, <1>2, <1>3, <1>4, PTL DEF BulkSpec
=============================================================================
