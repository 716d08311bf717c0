---------------------- MODULE InspectionLifecycleProofs ----------------------
(***************************************************************************)
(* Proofs about InspectionLifecycle: its type invariant and what is an     *)
(* inductive invariant as it stands.                                       *)
(***************************************************************************)
EXTENDS InspectionLifecycle, FiniteSetTheorems, TLAPS

Label == {"idle"} \cup InHandler \cup AtClient \cup Ended

\* The handlers of processToArchive after the read.
Archiving == {"minting", "minted", "mintFailed", "conflict"}

\* They hold a row with a report, so the asset they mint is one.  TypeOK is
\* inductive only together with this.
HoldsReport == \A r \in Request : pc[r] \in Archiving => snap[r].pdfFileHash # None

TypeInv == TypeOK /\ HoldsReport

LEMMA InitialRowType ==
    ASSUME NEW i \in Inspection
    PROVE  InitialRow(i) \in Row
BY LifecycleAssumption DEF InitialRow, Row, Status, Report

LEMMA EndsType ==
    ASSUME TypeOK, NEW r \in Request, NEW l \in Label, Ends(r, l)
    PROVE  /\ pc' \in [Request -> Label]
           /\ snap' \in [Request -> Row]
<1>1. InitialRow(on[r]) \in Row
  BY InitialRowType DEF TypeOK
<1> QED BY <1>1 DEF Ends, Goto, TypeOK, Label

LEMMA WritesType ==
    ASSUME TypeOK, NEW r \in Request, NEW row \in Row, Writes(r, row)
    PROVE  db' \in [Inspection -> Row]
BY DEF Writes, TypeOK

LEMMA CurrentType ==
    ASSUME TypeOK, NEW r \in Request
    PROVE  Current(r) \in Row /\ snap[r] \in Row /\ on[r] \in Inspection
BY DEF Current, TypeOK

LEMMA AssetType ==
    ASSUME TypeOK, NEW r \in Request
    PROVE  /\ AikenAsset(r) \in AssetId
           /\ HoldsReport /\ pc[r] \in Archiving =>
                 NativeAsset(snap[r].pdfFileHash) \in AssetId
<1>1. snap[r].pdfFileHash \in Report \cup {None}
  BY CurrentType DEF Row
<1> QED
  BY <1>1, LifecycleAssumption
     DEF AikenAsset, NativeAsset, AssetId, Report, HoldsReport

LEMMA ArchivedRowType ==
    ASSUME TypeOK, NEW r \in Request, NEW tx \in Request, NEW asset \in AssetId \cup {None}
    PROVE  ArchivedRow(r, tx, asset) \in Row
BY CurrentType DEF ArchivedRow, Row, Status

LEMMA RevertedRowType ==
    ASSUME TypeOK, NEW r \in Request
    PROVE  RevertedRow(r) \in Row
BY CurrentType DEF RevertedRow, Row, Status

-----------------------------------------------------------------------------
\* The rows the handlers write, other than the two above.
LEMMA RowUpdateType ==
    ASSUME NEW row \in Row, NEW r \in Request, NEW s \in Status, NEW b \in BOOLEAN
    PROVE  /\ [row EXCEPT !.status = s] \in Row
           /\ [row EXCEPT !.status = s, !.reviewerId = r] \in Row
           /\ [row EXCEPT !.status = s, !.reviewerId = None] \in Row
           /\ [row EXCEPT !.status = s, !.pdfFileHash = r] \in Row
           /\ [row EXCEPT !.status = s, !.archivedAt = b] \in Row
           /\ [row EXCEPT !.status = s, !.deactivatedAt = b] \in Row
BY DEF Row, Report

LEMMA TypeStep == TypeInv /\ [Next]_vars => TypeOK'
<1> SUFFICES ASSUME TypeOK, HoldsReport, [Next]_vars PROVE TypeOK'
  BY DEF TypeInv
<1> USE DEF Label
<1>1. ASSUME NEW r \in Request, ApproveTransaction(r) PROVE TypeOK'
  BY <1>1, CurrentType, WritesType, RowUpdateType
     DEF ApproveTransaction, TypeOK, Reads, Goto, Status, InHandler, Generating
<1>2. ASSUME NEW r \in Request, GenerateReports(r) PROVE TypeOK'
  BY <1>2
     DEF GenerateReports, TypeOK, Goto, InHandler, Generating, Report
<1>3. ASSUME NEW r \in Request, GenerationFails(r) PROVE TypeOK'
  BY <1>3
     DEF GenerationFails, TypeOK, Goto, InHandler, Generating, Report
<1>4. ASSUME NEW r \in Request, SaveReport(r) PROVE TypeOK'
  BY <1>4, CurrentType, WritesType, EndsType, RowUpdateType
     DEF SaveReport, TypeOK, Status, Ended
<1>5. ASSUME NEW r \in Request, SaveReportFails(r) PROVE TypeOK'
  BY <1>5
     DEF SaveReportFails, TypeOK, Goto, InHandler
<1>6. ASSUME NEW r \in Request, RollbackStatusAfterError(r) PROVE TypeOK'
  BY <1>6, CurrentType, WritesType, EndsType, RowUpdateType
     DEF RollbackStatusAfterError, TypeOK, Status, Ended
<1>7. ASSUME NEW r \in Request, ApprovalStranded(r) PROVE TypeOK'
  BY <1>7, EndsType
     DEF ApprovalStranded, TypeOK, Ended
<1>8. ASSUME NEW r \in Request, ArchiveRead(r) PROVE TypeOK'
  BY <1>8, CurrentType
     DEF ArchiveRead, TypeOK, Reads, Goto, InHandler
<1>9. ASSUME NEW r \in Request, MintSucceeds(r) PROVE TypeOK'
  <2>1. NativeAsset(snap[r].pdfFileHash) \in AssetId
    BY <1>9, AssetType DEF MintSucceeds, Archiving
  <2> QED
    BY <1>9, <2>1 DEF MintSucceeds, Minted, TypeOK, Goto, InHandler
<1>10. ASSUME NEW r \in Request, MintFails(r) PROVE TypeOK'
  <2>1. NativeAsset(snap[r].pdfFileHash) \in AssetId
    BY <1>10, AssetType DEF MintFails, Archiving
  <2> QED
    BY <1>10, <2>1 DEF MintFails, Minted, TypeOK, Goto, InHandler
<1>11. ASSUME NEW r \in Request, ArchiveSave(r) PROVE TypeOK'
  <2> DEFINE row == ArchivedRow(r, r, NativeAsset(snap[r].pdfFileHash))
  <2>1. row \in Row
    BY <1>11, AssetType, ArchivedRowType DEF ArchiveSave, Archiving
  <2>2. Writes(r, row) /\ Ends(r, "done") /\ UNCHANGED <<live, chain, files, on, crashes>>
    BY <1>11 DEF ArchiveSave
  <2>3. db' \in [Inspection -> Row]
    BY <2>1, <2>2, WritesType
  <2> QED
    BY <2>2, <2>3, EndsType DEF TypeOK, Ended
<1>12. ASSUME NEW r \in Request, ArchiveSaveConflict(r) PROVE TypeOK'
  BY <1>12
     DEF ArchiveSaveConflict, TypeOK, Goto, InHandler
<1>13. ASSUME NEW r \in Request, ArchiveSaveWithoutAsset(r) PROVE TypeOK'
  BY <1>13, CurrentType, ArchivedRowType, WritesType, EndsType
     DEF ArchiveSaveWithoutAsset, TypeOK, Ended, Row
<1>14. ASSUME NEW r \in Request, FailedMintSave(r) PROVE TypeOK'
  BY <1>14, CurrentType, WritesType, EndsType, RowUpdateType
     DEF FailedMintSave, TypeOK, Status, Ended
<1>15. ASSUME NEW r \in Request, ArchiveSaveFails(r) PROVE TypeOK'
  <2> DEFINE new == IF db[on[r]].status = "ARCHIVING" THEN "APPROVED" ELSE db[on[r]].status
  <2>1. db[on[r]] \in Row /\ on[r] \in Inspection /\ new \in Status
    BY CurrentType DEF Current, Row, Status
  <2>2. [db[on[r]] EXCEPT !.status = new] \in Row
    BY <2>1, RowUpdateType
  <2>3. db' = [db EXCEPT ![on[r]] = [db[on[r]] EXCEPT !.status = new]]
    BY <1>15, <2>1 DEF ArchiveSaveFails, TypeOK
  <2>4. db' \in [Inspection -> Row]
    BY <2>1, <2>2, <2>3 DEF TypeOK
  <2> QED
    BY <1>15, <2>4, EndsType DEF ArchiveSaveFails, TypeOK, Ended
<1>16. ASSUME NEW r \in Request, BuildArchiveTransaction(r) PROVE TypeOK'
  BY <1>16
     DEF BuildArchiveTransaction, TypeOK, Goto, AtClient
<1>17. ASSUME NEW r \in Request, ClientSubmits(r) PROVE TypeOK'
  BY <1>17, AssetType
     DEF ClientSubmits, TypeOK, Goto, AtClient
<1>18. ASSUME NEW r \in Request, ConfirmArchive(r) PROVE TypeOK'
  BY <1>18, AssetType, ArchivedRowType, WritesType
     DEF ConfirmArchive, ConfirmsWith, TypeOK, Goto, AtClient
<1>32. ASSUME NEW r \in Request, ConfirmUnfounded(r) PROVE TypeOK'
  <2>1. PICK body \in Bodies : ConfirmsWith(r, body[1], body[2])
    BY <1>32 DEF ConfirmUnfounded
  <2>2. body[1] \in Request /\ body[2] \in AssetId
    BY LifecycleAssumption DEF AssetId
  <2> DEFINE row == ArchivedRow(r, body[1], body[2])
  <2>3. row \in Row /\ Writes(r, row)
    BY <2>1, <2>2, ArchivedRowType DEF ConfirmsWith
  <2>4. db' \in [Inspection -> Row]
    BY <2>3, WritesType
  <2> QED
    BY <1>32, <2>4, EndsType DEF ConfirmUnfounded, TypeOK, Ended
<1>19. ASSUME NEW r \in Request, DeactivateArchive(r) PROVE TypeOK'
  BY <1>19, CurrentType, WritesType, EndsType, RowUpdateType
     DEF DeactivateArchive, TypeOK, Status, Ended
<1>20. ASSUME NEW r \in Request, ActivateArchive(r) PROVE TypeOK'
  BY <1>20, CurrentType, WritesType, EndsType, RowUpdateType
     DEF ActivateArchive, TypeOK, Status, Ended
<1>21. ASSUME NEW r \in Request, RollbackRead(r) PROVE TypeOK'
  BY <1>21
     DEF RollbackRead, TypeOK, Goto, InHandler
<1>22. ASSUME NEW r \in Request, RollbackWrite(r) PROVE TypeOK'
  BY <1>22, CurrentType, WritesType, EndsType, RowUpdateType
     DEF RollbackWrite, TypeOK, Status, Ended
<1>23. ASSUME NEW r \in Request, RevertRead(r) PROVE TypeOK'
  BY <1>23, CurrentType
     DEF RevertRead, TypeOK, Reads, Goto, InHandler
<1>24. ASSUME NEW r \in Request, RevertWrite(r) PROVE TypeOK'
  BY <1>24, RevertedRowType, WritesType, EndsType
     DEF RevertWrite, TypeOK, Ended
<1>25. ASSUME NEW r \in Request, SuperadminAborts(r) PROVE TypeOK'
  BY <1>25, EndsType
     DEF SuperadminAborts, TypeOK, Ended
<1>26. ASSUME NEW r \in Request, DeleteRead(r) PROVE TypeOK'
  BY <1>26, CurrentType
     DEF DeleteRead, TypeOK, Reads, Goto, InHandler
<1>27. ASSUME NEW r \in Request, DeleteUnlink(r) PROVE TypeOK'
  BY <1>27
     DEF DeleteUnlink, TypeOK, Goto, InHandler
<1>28. ASSUME NEW r \in Request, DeleteCommit(r) PROVE TypeOK'
  BY <1>28, EndsType
     DEF DeleteCommit, TypeOK, Ended
<1>29. ASSUME NEW r \in Request, DeleteFails(r) PROVE TypeOK'
  BY <1>29, EndsType
     DEF DeleteFails, TypeOK, Ended
<1>30. CASE Crash
  BY <1>30, InitialRowType, LifecycleAssumption DEF Crash, TypeOK, Ended
<1>31. CASE UNCHANGED vars
  BY <1>31 DEF vars, TypeOK
<1> QED
  BY <1>1, <1>2, <1>3, <1>4, <1>5, <1>6, <1>7, <1>8, <1>9, <1>10, <1>11, <1>12, <1>13, <1>14, <1>15, <1>16, <1>17, <1>18, <1>19, <1>20, <1>21, <1>22, <1>23, <1>24, <1>25, <1>26, <1>27, <1>28, <1>29, <1>30, <1>31, <1>32
     DEF Next, Arrive, Continue, ClientStep

LEMMA HoldsReportStep == TypeInv /\ [Next]_vars => HoldsReport'
<1> SUFFICES ASSUME TypeOK, HoldsReport, [Next]_vars,
                    NEW q \in Request, (pc[q] \in Archiving)'
             PROVE  (snap[q].pdfFileHash # None)'
  BY DEF TypeInv, HoldsReport
<1> USE DEF Goto, Ends, HoldsReport, TypeOK, Archiving
<1>1. ASSUME NEW r \in Request, Arrive(r) PROVE (snap[q].pdfFileHash # None)'
  BY <1>1 DEF Arrive, ArchiveRead, ApproveTransaction, BuildArchiveTransaction,
              ConfirmUnfounded, DeactivateArchive, ActivateArchive, RollbackRead, RevertRead, DeleteRead,
              Reads, Current
<1>2. ASSUME NEW r \in Request, Continue(r) PROVE (snap[q].pdfFileHash # None)'
  BY <1>2 DEF Continue, GenerateReports, GenerationFails, SaveReport, SaveReportFails,
              RollbackStatusAfterError, ApprovalStranded, MintSucceeds, MintFails,
              ArchiveSave, ArchiveSaveConflict, ArchiveSaveWithoutAsset, FailedMintSave,
              ArchiveSaveFails, RollbackWrite, RevertWrite, SuperadminAborts,
              DeleteUnlink, DeleteCommit, DeleteFails
<1>3. ASSUME NEW r \in Request, ClientStep(r) PROVE (snap[q].pdfFileHash # None)'
  BY <1>3 DEF ClientStep, ClientSubmits, ConfirmArchive
<1>4. CASE Crash
  BY <1>4 DEF Crash, InHandler
<1>5. CASE UNCHANGED vars
  BY <1>5 DEF vars
<1> QED
  BY <1>1, <1>2, <1>3, <1>4, <1>5 DEF Next

LEMMA InitTypeInv == Init => TypeInv
BY InitialRowType, LifecycleAssumption
   DEF Init, TypeInv, TypeOK, HoldsReport, Report, InHandler, AtClient, Ended, Archiving

LEMMA TypeInvStep == TypeInv /\ [Next]_vars => TypeInv'
BY TypeStep, HoldsReportStep DEF TypeInv

\* Every reachable state is well typed: no handler writes a row, an asset or a
\* snapshot outside its columns' types, although archives mint from a row
\* they read earlier.
THEOREM TypeCorrect == Spec => []TypeOK
<1>1. TypeInv => TypeOK
  BY DEF TypeInv
<1> QED
  BY <1>1, InitTypeInv, TypeInvStep, PTL DEF Spec

-----------------------------------------------------------------------------
(* Archive evidence                                                        *)

Evidence(row) ==
    /\ row.status \in {"ARCHIVED", "DEACTIVATED"} =>
          row.archivedAt /\ row.blockchainTxHash # None
    /\ row.status = "DEACTIVATED" => row.deactivatedAt

\* The steps that leave the table alone.
QuietStep(r) ==
    \/ GenerateReports(r) \/ GenerationFails(r) \/ SaveReportFails(r)
    \/ ApprovalStranded(r) \/ ArchiveRead(r) \/ MintSucceeds(r) \/ MintFails(r)
    \/ ArchiveSaveConflict(r) \/ BuildArchiveTransaction(r) \/ ClientSubmits(r)
    \/ RollbackRead(r) \/ RevertRead(r) \/ SuperadminAborts(r) \/ DeleteRead(r)
    \/ DeleteUnlink(r) \/ DeleteFails(r)

\* The steps that write a row.
WritingStep(r) ==
    \/ ApproveTransaction(r) \/ SaveReport(r) \/ RollbackStatusAfterError(r)
    \/ ArchiveSave(r) \/ ArchiveSaveWithoutAsset(r) \/ FailedMintSave(r)
    \/ ArchiveSaveFails(r) \/ ConfirmArchive(r) \/ ConfirmUnfounded(r)
    \/ DeactivateArchive(r) \/ ActivateArchive(r) \/ RollbackWrite(r) \/ RevertWrite(r)

LEMMA StepKinds ==
    ASSUME [Next]_vars
    PROVE  \/ \E r \in Request : QuietStep(r) \/ WritingStep(r) \/ DeleteCommit(r)
           \/ Crash
           \/ UNCHANGED vars
BY DEF Next, Arrive, Continue, ClientStep, QuietStep, WritingStep

LEMMA QuietStepFrame ==
    ASSUME NEW r \in Request, QuietStep(r)
    PROVE  UNCHANGED <<live, db, on>>
BY DEF QuietStep, GenerateReports, GenerationFails, SaveReportFails, ApprovalStranded,
       ArchiveRead, MintSucceeds, MintFails, ArchiveSaveConflict, BuildArchiveTransaction,
       ClientSubmits, RollbackRead, RevertRead, SuperadminAborts, DeleteRead, DeleteUnlink,
       DeleteFails

\* A writing step writes the row of its own inspection only.
LEMMA WritesOwnRow ==
    ASSUME TypeOK, NEW r \in Request, WritingStep(r), NEW i \in Inspection, i # on[r]
    PROVE  db'[i] = db[i]
BY DEF TypeOK, WritingStep, ApproveTransaction, SaveReport, RollbackStatusAfterError, ArchiveSave,
       ArchiveSaveWithoutAsset, FailedMintSave, ArchiveSaveFails, ConfirmArchive,
       ConfirmsWith, ConfirmUnfounded, DeactivateArchive, ActivateArchive, RollbackWrite, RevertWrite, Writes

\* What a writing step writes satisfies Evidence if what it finds does.
LEMMA EvidenceWritten ==
    ASSUME TypeOK, NEW r \in Request, WritingStep(r), Evidence(Current(r))
    PROVE  /\ Evidence(db'[on[r]])
           /\ \A i \in Inspection \ {on[r]} : db'[i] = db[i]
           /\ live' = live
<1> USE CurrentType, LifecycleAssumption DEF Evidence, Writes, Current, Row, TypeOK, Report
<1>1. CASE ApproveTransaction(r)
  BY <1>1 DEF ApproveTransaction
<1>2. CASE SaveReport(r)
  BY <1>2 DEF SaveReport
<1>3. CASE RollbackStatusAfterError(r)
  BY <1>3 DEF RollbackStatusAfterError
<1>4. CASE ArchiveSave(r)
  BY <1>4 DEF ArchiveSave, ArchivedRow
<1>5. CASE ArchiveSaveWithoutAsset(r)
  BY <1>5 DEF ArchiveSaveWithoutAsset, ArchivedRow
<1>6. CASE FailedMintSave(r)
  BY <1>6 DEF FailedMintSave
<1>7. CASE ArchiveSaveFails(r)
  BY <1>7 DEF ArchiveSaveFails
<1>8. CASE ConfirmArchive(r)
  BY <1>8 DEF ConfirmArchive, ConfirmsWith, ArchivedRow
<1>13. CASE ConfirmUnfounded(r)
  <2>1. PICK body \in Bodies : Writes(r, ArchivedRow(r, body[1], body[2]))
    BY <1>13 DEF ConfirmUnfounded, ConfirmsWith
  <2>2. body[1] \in Request /\ body[1] # None /\ live' = live
    BY <1>13 DEF ConfirmUnfounded
  <2> QED
    BY <2>1, <2>2 DEF ArchivedRow
<1>9. CASE DeactivateArchive(r)
  BY <1>9 DEF DeactivateArchive
<1>10. CASE ActivateArchive(r)
  BY <1>10 DEF ActivateArchive
<1>11. CASE RollbackWrite(r)
  BY <1>11 DEF RollbackWrite
<1>12. CASE RevertWrite(r)
  BY <1>12 DEF RevertWrite, RevertedRow
<1> QED
  BY <1>1, <1>2, <1>3, <1>4, <1>5, <1>6, <1>7, <1>8, <1>9, <1>10, <1>11, <1>12, <1>13
     DEF WritingStep

\* The property is about the rows that exist; the table satisfies it at every
\* id, deleted or not.
EveryRowHasEvidence == \A i \in Inspection : Evidence(db[i])

LEMMA EvidenceStep == TypeInv /\ EveryRowHasEvidence /\ [Next]_vars => EveryRowHasEvidence'
<1> SUFFICES ASSUME TypeInv, EveryRowHasEvidence, [Next]_vars PROVE EveryRowHasEvidence'
  OBVIOUS
<1> USE DEF TypeInv
<1>1. ASSUME NEW r \in Request, QuietStep(r) PROVE EveryRowHasEvidence'
  BY <1>1, QuietStepFrame DEF EveryRowHasEvidence, Evidence
<1>2. ASSUME NEW r \in Request, WritingStep(r) PROVE EveryRowHasEvidence'
  <2>1. on[r] \in Inspection /\ Evidence(Current(r))
    BY CurrentType DEF EveryRowHasEvidence, Current
  <2>2. /\ Evidence(db'[on[r]])
        /\ \A i \in Inspection \ {on[r]} : db'[i] = db[i]
    BY <1>2, <2>1, EvidenceWritten
  <2> QED
    BY <2>1, <2>2 DEF EveryRowHasEvidence, Evidence
<1>3. ASSUME NEW r \in Request, DeleteCommit(r) PROVE EveryRowHasEvidence'
  BY <1>3 DEF DeleteCommit, EveryRowHasEvidence, Evidence
<1>4. CASE Crash
  BY <1>4 DEF Crash, EveryRowHasEvidence, Evidence
<1>5. CASE UNCHANGED vars
  BY <1>5 DEF vars, EveryRowHasEvidence, Evidence
<1> QED
  BY <1>1, <1>2, <1>3, <1>4, <1>5, StepKinds

\* An archived or deactivated inspection always carries its archiving time and
\* transaction, and a deactivated one its deactivation time, whatever late
\* writes of archives, approvals, confirmations and reverts come in between.
THEOREM ArchivedEvidence == Spec => []ArchivedHasEvidence
<1>1. Init => TypeInv /\ EveryRowHasEvidence
  BY InitTypeInv DEF Init, InitialRow, EveryRowHasEvidence, Evidence
<1>2. TypeInv /\ EveryRowHasEvidence /\ [Next]_vars => (TypeInv /\ EveryRowHasEvidence)'
  BY TypeInvStep, EvidenceStep
<1>3. TypeInv /\ EveryRowHasEvidence => ArchivedHasEvidence
  BY DEF TypeInv, TypeOK, EveryRowHasEvidence, Evidence, ArchivedHasEvidence
<1> QED
  BY <1>1, <1>2, <1>3, PTL DEF Spec

-----------------------------------------------------------------------------
(* Assets and transactions                                                 *)

\* The requests that confirmed without foundation.
Unfounded == {r \in Request : pc[r] = "unfounded"}

\* AssetMintedByTx of one row; a ledger that contains this one, and more
\* unfounded confirmations, back it too.
Backed(i, row, ledger, unfounded) ==
    /\ row.nftAssetId # None =>
          /\ row.blockchainTxHash # None
          /\ \E r \in Request : on[r] = i /\ <<r, row.nftAssetId>> \in ledger
    /\ row.blockchainTxHash # None =>
          /\ on[row.blockchainTxHash] = i
          /\ \/ <<row.blockchainTxHash, row.nftAssetId>> \in ledger
             \/ \E asset \in AssetId, other \in Request :
                    /\ on[other] # i
                    /\ <<row.blockchainTxHash, asset>> \in ledger
                    /\ <<other, asset>> \in ledger \/ other \in unfounded

RowsBacked == \A i \in Inspection : Founded(i) => Backed(i, db[i], chain, Unfounded)

\* What a handler still holds is backed: the pair a revert may write back, the
\* asset of a mint that succeeded, the asset it met in another row, the
\* transaction a client sent.
HandlerBacked(r) ==
    LET asset == NativeAsset(snap[r].pdfFileHash) IN
    /\ pc[r] = "reverting" /\ Founded(on[r]) => Backed(on[r], snap[r], chain, Unfounded)
    /\ pc[r] \in {"minted", "conflict"} => <<r, asset>> \in chain
    /\ pc[r] = "conflict" =>
          \E other \in Request :
              on[other] # on[r] /\ (<<other, asset>> \in chain \/ other \in Unfounded)
    /\ pc[r] \in {"submitted", "confirmed"} => <<r, AikenAsset(r)>> \in chain

AssetInv == RowsBacked /\ \A r \in Request : HandlerBacked(r)

\* The ledger only grows, and requests keep their subject.
LEMMA LedgerGrows ==
    ASSUME [Next]_vars
    PROVE  chain \subseteq chain' /\ on' = on
BY DEF Next, Arrive, Continue, ClientStep, vars, ApproveTransaction, GenerateReports,
       GenerationFails, SaveReport, SaveReportFails, RollbackStatusAfterError,
       ApprovalStranded, ArchiveRead, MintSucceeds, MintFails, Minted, ArchiveSave,
       ArchiveSaveConflict, ArchiveSaveWithoutAsset, FailedMintSave, ArchiveSaveFails,
       BuildArchiveTransaction, ClientSubmits, ConfirmArchive, ConfirmUnfounded,
       DeactivateArchive, ActivateArchive, RollbackRead, RollbackWrite, RevertRead, RevertWrite,
       SuperadminAborts, DeleteRead, DeleteUnlink, DeleteCommit, DeleteFails, Crash

LEMMA BackedStays ==
    ASSUME NEW i \in Inspection, NEW row \in Row, NEW ledger, NEW more, ledger \subseteq more,
           NEW unfounded, NEW others, unfounded \subseteq others,
           Backed(i, row, ledger, unfounded)
    PROVE  Backed(i, row, more, others)
BY DEF Backed

\* An unfounded confirmation is not forgotten.
LEMMA UnfoundedStays ==
    ASSUME TypeOK, [Next]_vars
    PROVE  Unfounded \subseteq Unfounded' /\ \A i \in Inspection : Founded(i)' => Founded(i)
<1>1. ASSUME NEW q \in Request, pc[q] = "unfounded" PROVE pc'[q] = "unfounded"
  <2> USE DEF TypeOK, Goto, Ends, Calls
  <2>1. ASSUME NEW r \in Request, QuietStep(r) PROVE pc'[q] = "unfounded"
    BY <1>1, <2>1 DEF QuietStep, GenerateReports, GenerationFails, SaveReportFails,
       ApprovalStranded, ArchiveRead, MintSucceeds, MintFails, ArchiveSaveConflict,
       BuildArchiveTransaction, ClientSubmits, RollbackRead, RevertRead, SuperadminAborts,
       DeleteRead, DeleteUnlink, DeleteFails
  <2>2. ASSUME NEW r \in Request, WritingStep(r) PROVE pc'[q] = "unfounded"
    BY <1>1, <2>2 DEF WritingStep, ApproveTransaction, SaveReport, RollbackStatusAfterError,
       ArchiveSave, ArchiveSaveWithoutAsset, FailedMintSave, ArchiveSaveFails,
       ConfirmArchive, ConfirmUnfounded, DeactivateArchive, ActivateArchive, RollbackWrite,
       RevertWrite
  <2>3. ASSUME NEW r \in Request, DeleteCommit(r) PROVE pc'[q] = "unfounded"
    BY <1>1, <2>3 DEF DeleteCommit
  <2>4. CASE Crash
    BY <1>1, <2>4 DEF Crash, InHandler, Generating
  <2>5. CASE UNCHANGED vars
    BY <1>1, <2>5 DEF vars
  <2> QED
    BY <2>1, <2>2, <2>3, <2>4, <2>5, StepKinds
<1>2. on' = on
  BY LedgerGrows
<1> QED
  BY <1>1, <1>2 DEF Unfounded, Founded

\* Only the two fields of a row matter.
LEMMA BackedByFields ==
    ASSUME NEW i \in Inspection, NEW old \in Row, NEW new \in Row, NEW ledger, NEW unfounded,
           Backed(i, old, ledger, unfounded),
           new.nftAssetId = old.nftAssetId, new.blockchainTxHash = old.blockchainTxHash
    PROVE  Backed(i, new, ledger, unfounded)
BY DEF Backed

\* A row archived with the asset its transaction minted.
LEMMA ArchivedRowBacked ==
    ASSUME TypeOK, NEW r \in Request, NEW asset \in AssetId, <<r, asset>> \in chain
    PROVE  Backed(on[r], ArchivedRow(r, r, asset), chain, Unfounded)
<1>1. ArchivedRow(r, r, asset).nftAssetId = asset /\ ArchivedRow(r, r, asset).blockchainTxHash = r
  BY CurrentType DEF ArchivedRow, Row
<1>2. r # None
  BY LifecycleAssumption DEF Report
<1> QED
  BY <1>1, <1>2 DEF Backed

\* A step that writes a row leaves it backed, unless it is unfounded.
LEMMA WrittenBacked ==
    ASSUME TypeInv, AssetInv, NEW r \in Request, WritingStep(r), ~ConfirmUnfounded(r),
           Founded(on[r])
    PROVE  /\ Backed(on[r], db'[on[r]], chain, Unfounded)
           /\ \A i \in Inspection \ {on[r]} : db'[i] = db[i]
<1> DEFINE old == Current(r)
           asset == NativeAsset(snap[r].pdfFileHash)
<1>1. old \in Row /\ snap[r] \in Row /\ on[r] \in Inspection /\ Backed(on[r], old, chain, Unfounded)
  BY CurrentType DEF TypeInv, AssetInv, RowsBacked, Current
<1>2. HandlerBacked(r)
  BY DEF AssetInv
<1>3. ASSUME NEW row \in Row, Writes(r, row), Backed(on[r], row, chain, Unfounded)
      PROVE  /\ Backed(on[r], db'[on[r]], chain, Unfounded)
             /\ \A i \in Inspection \ {on[r]} : db'[i] = db[i]
  BY <1>1, <1>3 DEF Writes, TypeInv, TypeOK
<1>4. ASSUME NEW row \in Row, Writes(r, row), row.nftAssetId = old.nftAssetId,
             row.blockchainTxHash = old.blockchainTxHash
      PROVE  /\ Backed(on[r], db'[on[r]], chain, Unfounded)
             /\ \A i \in Inspection \ {on[r]} : db'[i] = db[i]
  <2>1. Backed(on[r], row, chain, Unfounded)
    BY <1>1, <1>4, BackedByFields
  <2> QED
    BY <1>3, <1>4, <2>1
<1>5. CASE ApproveTransaction(r)
  <2> DEFINE row == [old EXCEPT !.status = "APPROVED", !.reviewerId = r]
  <2>1. row \in Row /\ row.nftAssetId = old.nftAssetId /\ row.blockchainTxHash = old.blockchainTxHash
    BY <1>1 DEF Row, Status, Report
  <2> QED
    BY <1>4, <1>5, <2>1 DEF ApproveTransaction
<1>6. CASE SaveReport(r)
  <2> DEFINE row == [old EXCEPT !.status = "APPROVED", !.pdfFileHash = r]
  <2>1. row \in Row /\ row.nftAssetId = old.nftAssetId /\ row.blockchainTxHash = old.blockchainTxHash
    BY <1>1 DEF Row, Status, Report
  <2> QED
    BY <1>4, <1>6, <2>1 DEF SaveReport
<1>7. CASE RollbackStatusAfterError(r)
  <2> DEFINE row == IF snap[r].status = "FAIL_ARCHIVE"
                    THEN [old EXCEPT !.status = "FAIL_ARCHIVE"]
                    ELSE [old EXCEPT !.status = "NEED_REVIEW", !.reviewerId = None]
  <2>1. row \in Row /\ row.nftAssetId = old.nftAssetId /\ row.blockchainTxHash = old.blockchainTxHash
    BY <1>1 DEF Row, Status
  <2> QED
    BY <1>4, <1>7, <2>1 DEF RollbackStatusAfterError
<1>8. CASE ArchiveSave(r)
  <2>1. pc[r] = "minted" /\ Writes(r, ArchivedRow(r, r, asset))
    BY <1>8 DEF ArchiveSave
  <2>2. asset \in AssetId /\ <<r, asset>> \in chain
    BY <1>2, <2>1, AssetType DEF TypeInv, Archiving, HandlerBacked
  <2>3. ArchivedRow(r, r, asset) \in Row
    BY <2>2, ArchivedRowType DEF TypeInv
  <2>4. Backed(on[r], ArchivedRow(r, r, asset), chain, Unfounded)
    BY <2>2, ArchivedRowBacked DEF TypeInv
  <2> QED
    BY <1>3, <2>1, <2>3, <2>4
<1>9. CASE ArchiveSaveWithoutAsset(r)
  <2> DEFINE row == ArchivedRow(r, r, old.nftAssetId)
  <2>1. pc[r] = "conflict" /\ Writes(r, row)
    BY <1>9 DEF ArchiveSaveWithoutAsset
  <2>2. /\ asset \in AssetId /\ <<r, asset>> \in chain
        /\ \E other \in Request :
              on[other] # on[r] /\ (<<other, asset>> \in chain \/ other \in Unfounded)
    BY <1>2, <2>1, AssetType DEF TypeInv, Archiving, HandlerBacked
  <2>3. row \in Row
    BY <1>1, ArchivedRowType DEF TypeInv, Row
  <2>4. row.nftAssetId = old.nftAssetId /\ row.blockchainTxHash = r
    BY <1>1 DEF ArchivedRow, Row
  <2>5. r # None
    BY LifecycleAssumption DEF Report
  <2>6. Backed(on[r], row, chain, Unfounded)
    BY <1>1, <2>2, <2>4, <2>5 DEF Backed
  <2> QED
    BY <1>3, <2>1, <2>3, <2>6
<1>10. CASE FailedMintSave(r)
  <2> DEFINE row == [old EXCEPT !.status = "APPROVED", !.archivedAt = FALSE]
  <2>1. row \in Row /\ row.nftAssetId = old.nftAssetId /\ row.blockchainTxHash = old.blockchainTxHash
    BY <1>1 DEF Row, Status
  <2> QED
    BY <1>4, <1>10, <2>1 DEF FailedMintSave
<1>11. CASE ArchiveSaveFails(r)
  <2> DEFINE row == [old EXCEPT !.status = IF @ = "ARCHIVING" THEN "APPROVED" ELSE @]
  <2>1. row \in Row /\ row.nftAssetId = old.nftAssetId /\ row.blockchainTxHash = old.blockchainTxHash
    BY <1>1 DEF Row, Status
  <2>2. db' = [db EXCEPT ![on[r]] = row]
    BY <1>1, <1>11 DEF ArchiveSaveFails, Current, TypeInv, TypeOK
  <2>3. Backed(on[r], row, chain, Unfounded)
    BY <1>1, <2>1, BackedByFields
  <2> QED
    BY <1>1, <2>2, <2>3 DEF TypeInv, TypeOK
<1>12. CASE ConfirmArchive(r)
  <2>1. pc[r] \in {"submitted", "confirmed"} /\ Writes(r, ArchivedRow(r, r, AikenAsset(r)))
    BY <1>12 DEF ConfirmArchive, ConfirmsWith
  <2>2. AikenAsset(r) \in AssetId /\ <<r, AikenAsset(r)>> \in chain
    BY <1>2, <2>1, AssetType DEF TypeInv, HandlerBacked
  <2>3. ArchivedRow(r, r, AikenAsset(r)) \in Row
    BY <2>2, ArchivedRowType DEF TypeInv
  <2>4. Backed(on[r], ArchivedRow(r, r, AikenAsset(r)), chain, Unfounded)
    BY <2>2, ArchivedRowBacked DEF TypeInv
  <2> QED
    BY <1>3, <2>1, <2>3, <2>4
<1>13. CASE DeactivateArchive(r)
  <2> DEFINE row == [old EXCEPT !.status = "DEACTIVATED", !.deactivatedAt = TRUE]
  <2>1. row \in Row /\ row.nftAssetId = old.nftAssetId /\ row.blockchainTxHash = old.blockchainTxHash
    BY <1>1 DEF Row, Status
  <2> QED
    BY <1>4, <1>13, <2>1 DEF DeactivateArchive
<1>14. CASE ActivateArchive(r)
  <2> DEFINE row == [old EXCEPT !.status = "ARCHIVED", !.deactivatedAt = FALSE]
  <2>1. row \in Row /\ row.nftAssetId = old.nftAssetId /\ row.blockchainTxHash = old.blockchainTxHash
    BY <1>1 DEF Row, Status
  <2> QED
    BY <1>4, <1>14, <2>1 DEF ActivateArchive
<1>15. CASE RollbackWrite(r)
  <2> DEFINE row == [old EXCEPT !.status = "NEED_REVIEW"]
  <2>1. row \in Row /\ row.nftAssetId = old.nftAssetId /\ row.blockchainTxHash = old.blockchainTxHash
    BY <1>1 DEF Row, Status
  <2> QED
    BY <1>4, <1>15, <2>1 DEF RollbackWrite
<1>16. CASE RevertWrite(r)
  <2>1. pc[r] = "reverting" /\ Writes(r, RevertedRow(r))
    BY <1>16 DEF RevertWrite
  <2>2. RevertedRow(r) \in Row
    BY RevertedRowType DEF TypeInv
  <2>3. Backed(on[r], snap[r], chain, Unfounded)
    BY <1>2, <2>1 DEF HandlerBacked
  <2>4. CASE snap[r].status # "ARCHIVED"
    <3>1. /\ RevertedRow(r).nftAssetId = snap[r].nftAssetId
          /\ RevertedRow(r).blockchainTxHash = snap[r].blockchainTxHash
      BY <1>1, <2>4 DEF RevertedRow, Row
    <3>2. Backed(on[r], RevertedRow(r), chain, Unfounded)
      BY <1>1, <2>2, <2>3, <3>1, BackedByFields
    <3> QED
      BY <1>3, <2>1, <2>2, <3>2
  <2>5. CASE snap[r].status = "ARCHIVED"
    <3>1. RevertedRow(r).nftAssetId = None /\ RevertedRow(r).blockchainTxHash = None
      BY <1>1, <2>5 DEF RevertedRow, Row
    <3>2. Backed(on[r], RevertedRow(r), chain, Unfounded)
      BY <3>1 DEF Backed
    <3> QED
      BY <1>3, <2>1, <2>2, <3>2
  <2> QED
    BY <2>4, <2>5
<1> QED
  BY <1>5, <1>6, <1>7, <1>8, <1>9, <1>10, <1>11, <1>12, <1>13, <1>14, <1>15, <1>16
     DEF WritingStep

LEMMA RowsBackedStep == TypeInv /\ AssetInv /\ [Next]_vars => RowsBacked'
<1> SUFFICES ASSUME TypeInv, AssetInv, [Next]_vars, NEW i \in Inspection, Founded(i)'
             PROVE  Backed(i, db[i], chain, Unfounded)'
  BY DEF RowsBacked
<1>1. /\ chain \subseteq chain' /\ on' = on
      /\ Unfounded \subseteq Unfounded' /\ Founded(i)
  BY LedgerGrows, UnfoundedStays DEF TypeInv
<1>2. db' \in [Inspection -> Row]
  BY TypeInvStep DEF TypeInv, TypeOK
<1>3. Backed(i, db'[i], chain, Unfounded)
  <2>1. Backed(i, db[i], chain, Unfounded)
    BY <1>1 DEF AssetInv, RowsBacked
  <2>2. CASE db'[i] = db[i]
    BY <2>1, <2>2
  <2>3. ASSUME NEW r \in Request, WritingStep(r), on[r] = i
        PROVE  Backed(i, db'[i], chain, Unfounded)
    <3>1. ~ConfirmUnfounded(r)
      BY <2>3 DEF ConfirmUnfounded, Ends, Goto, Founded, TypeInv, TypeOK
    <3> QED
      BY <1>1, <2>3, <3>1, WrittenBacked
  <2>4. ASSUME NEW r \in Request, WritingStep(r), on[r] # i PROVE db'[i] = db[i]
    BY <2>4, WritesOwnRow DEF TypeInv
  <2>5. ASSUME NEW r \in Request, DeleteCommit(r) PROVE db'[i] = db[i]
    BY <2>5 DEF DeleteCommit
  <2>6. Crash \/ UNCHANGED vars => db'[i] = db[i]
    BY DEF Crash, vars
  <2> QED
    BY <2>2, <2>3, <2>4, <2>5, <2>6, StepKinds, QuietStepFrame
<1>4. Backed(i, db'[i], chain', Unfounded')
  BY <1>1, <1>2, <1>3, BackedStays
<1> QED
  BY <1>1, <1>4 DEF Backed

\* The clauses of HandlerBacked that a step could disturb: a handler reaches
\* a label only through the step that establishes its clause.
LEMMA HandlerBackedStep ==
    ASSUME TypeInv, AssetInv, [Next]_vars, NEW q \in Request
    PROVE  HandlerBacked(q)'
<1> DEFINE asset == NativeAsset(snap[q].pdfFileHash)
<1>1. /\ chain \subseteq chain' /\ on' = on
      /\ Unfounded \subseteq Unfounded'
      /\ \A i \in Inspection : Founded(i)' => Founded(i)
  BY LedgerGrows, UnfoundedStays DEF TypeInv
<1>2. HandlerBacked(q) /\ snap[q] \in Row /\ on[q] \in Inspection
  BY CurrentType DEF AssetInv, TypeInv
<1>3. CASE pc'[q] = pc[q] /\ snap'[q] = snap[q]
  <2>1. pc[q] = "reverting" /\ Founded(on[q])' => Backed(on[q], snap[q], chain', Unfounded')
    BY <1>1, <1>2, BackedStays DEF HandlerBacked
  <2>2. (pc[q] = "reverting" /\ Founded(on[q]) => Backed(on[q], snap[q], chain, Unfounded))'
    BY <1>1, <1>3, <2>1 DEF Backed
  <2>3. /\ pc[q] \in {"minted", "conflict"} => <<q, asset>> \in chain'
        /\ pc[q] = "conflict" =>
              \E other \in Request :
                  on[other] # on[q] /\ (<<other, asset>> \in chain' \/ other \in Unfounded')
        /\ pc[q] \in {"submitted", "confirmed"} => <<q, AikenAsset(q)>> \in chain'
    BY <1>1, <1>2 DEF HandlerBacked
  <2> QED
    BY <1>1, <1>3, <2>2, <2>3 DEF HandlerBacked, NativeAsset, AikenAsset
<1>4. CASE MintSucceeds(q)
  <2>1. pc'[q] = "minted" /\ snap' = snap /\ <<q, asset>> \in chain'
    BY <1>4 DEF MintSucceeds, Minted, Goto, TypeInv, TypeOK
  <2> QED
    BY <2>1 DEF HandlerBacked, NativeAsset
<1>5. CASE ArchiveSaveConflict(q)
  <2>1. pc[q] = "minted" /\ pc'[q] = "conflict" /\ UNCHANGED <<snap, chain, on>>
    BY <1>5 DEF ArchiveSaveConflict, Goto, TypeInv, TypeOK
  <2>2. PICK j \in live \ {on[q]} : asset # None /\ db[j].nftAssetId = asset
    BY <1>5 DEF ArchiveSaveConflict, AssetTaken
  <2>3. Founded(j) => Backed(j, db[j], chain, Unfounded)
    BY <2>2 DEF AssetInv, RowsBacked, TypeInv, TypeOK
  <2>4. \E other \in Request :
           on[other] # on[q] /\ (<<other, asset>> \in chain \/ other \in Unfounded)
    BY <2>2, <2>3 DEF Backed, Founded, Unfounded
  <2>5. <<q, asset>> \in chain
    BY <1>2, <2>1 DEF HandlerBacked
  <2> QED
    BY <1>1, <2>1, <2>4, <2>5 DEF HandlerBacked, NativeAsset
<1>6. CASE RevertRead(q)
  <2>1. pc'[q] = "reverting" /\ snap'[q] = db[on[q]] /\ UNCHANGED <<chain, on>>
    BY <1>6 DEF RevertRead, Reads, Current, Goto, TypeInv, TypeOK
  <2>2. Founded(on[q]) => Backed(on[q], db[on[q]], chain, Unfounded)
    BY <1>2 DEF AssetInv, RowsBacked
  <2>3. Founded(on[q])' => Backed(on[q], snap'[q], chain', Unfounded')
    BY <1>1, <1>2, <2>1, <2>2, BackedStays, CurrentType DEF Current, TypeInv
  <2>4. (Founded(on[q]) => Backed(on[q], snap[q], chain, Unfounded))'
    BY <1>1, <2>3 DEF Backed
  <2> QED
    BY <2>1, <2>4 DEF HandlerBacked
<1>7. CASE ClientSubmits(q)
  <2>1. pc'[q] = "submitted" /\ <<q, AikenAsset(q)>> \in chain'
    BY <1>7 DEF ClientSubmits, Goto, TypeInv, TypeOK
  <2> QED
    BY <2>1 DEF HandlerBacked, AikenAsset
<1>8. CASE {pc[q], pc'[q]} \subseteq {"submitted", "confirmed"}
  BY <1>1, <1>2, <1>8 DEF HandlerBacked, AikenAsset
<1>9. CASE pc'[q] \notin {"reverting", "minted", "conflict", "submitted", "confirmed"}
  BY <1>9 DEF HandlerBacked
<1>10. \/ pc'[q] = pc[q] /\ snap'[q] = snap[q]
       \/ MintSucceeds(q) \/ ArchiveSaveConflict(q) \/ RevertRead(q) \/ ClientSubmits(q)
       \/ {pc[q], pc'[q]} \subseteq {"submitted", "confirmed"}
       \/ pc'[q] \notin {"reverting", "minted", "conflict", "submitted", "confirmed"}
  <2> USE DEF Goto, Reads, Ends, TypeInv, TypeOK
  <2>1. ASSUME NEW r \in Request, Arrive(r) PROVE <1>10!:
    BY <2>1 DEF Arrive, ApproveTransaction, ArchiveRead, BuildArchiveTransaction,
                ConfirmUnfounded, DeactivateArchive, ActivateArchive, RollbackRead, RevertRead, DeleteRead
  <2>2. ASSUME NEW r \in Request, Continue(r) PROVE <1>10!:
    BY <2>2 DEF Continue, GenerateReports, GenerationFails, SaveReport, SaveReportFails,
                RollbackStatusAfterError, ApprovalStranded, MintSucceeds, MintFails,
                ArchiveSave, ArchiveSaveConflict, ArchiveSaveWithoutAsset, FailedMintSave,
                ArchiveSaveFails, RollbackWrite, RevertWrite, SuperadminAborts,
                DeleteUnlink, DeleteCommit, DeleteFails
  <2>3. ASSUME NEW r \in Request, ClientStep(r) PROVE <1>10!:
    BY <2>3 DEF ClientStep, ClientSubmits, ConfirmArchive
  <2>4. CASE Crash
    <3>1. pc'[q] = "lost" \/ (pc'[q] = pc[q] /\ pc[q] \notin InHandler)
      BY <2>4 DEF Crash
    <3> QED
      BY <3>1 DEF InHandler
  <2>5. CASE UNCHANGED vars
    BY <2>5 DEF vars
  <2> QED
    BY <2>1, <2>2, <2>3, <2>4, <2>5 DEF Next
<1> QED
  BY <1>3, <1>4, <1>5, <1>6, <1>7, <1>8, <1>9, <1>10

LEMMA InitAssetInv == Init => AssetInv
BY LifecycleAssumption
   DEF Init, InitialRow, AssetInv, RowsBacked, Backed, HandlerBacked, Report

\* The asset and the transaction of an inspection that no unfounded
\* confirmation reached are on the ledger, were sent for it and belong
\* together, whatever archives, confirmations and reverts write late, unless
\* another inspection had the asset's name: this is what becomes of the retry
\* after P2002.
THEOREM AssetsAreMinted == Spec => []AssetMintedByTx
<1>1. TypeInv /\ AssetInv /\ [Next]_vars => (TypeInv /\ AssetInv)'
  BY TypeInvStep, RowsBackedStep, HandlerBackedStep DEF AssetInv
<1>2. TypeInv /\ AssetInv => AssetMintedByTx
  BY DEF TypeInv, TypeOK, AssetInv, RowsBacked, Backed, Unfounded, AssetMintedByTx
<1> QED
  BY <1>1, <1>2, InitTypeInv, InitAssetInv, PTL DEF Spec

-----------------------------------------------------------------------------
(* Reports on disk                                                         *)

\* A report that inspection i may name: its legacy report, or one that an
\* approval of i generated and saved.
ReportOf(i, report) ==
    \/ report \in {None, i}
    \/ report \in Request /\ on[report] = i /\ pc[report] = "done"

DiskInv ==
    /\ \A i \in Inspection : ReportOf(i, db[i].pdfFileHash)
    /\ \A r \in Request : ReportOf(on[r], snap[r].pdfFileHash)
    /\ \A r \in Request : pc[r] = "generated" => r \in files
    /\ ReportOnDisk

\* Only the final update of an approval writes a report.
LEMMA ReportsWritten ==
    ASSUME TypeInv, [Next]_vars, NEW i \in Inspection
    PROVE  \/ db'[i].pdfFileHash = db[i].pdfFileHash
           \/ \E r \in Request : SaveReport(r) /\ on[r] = i /\ db'[i].pdfFileHash = r
<1>1. ASSUME NEW r \in Request, WritingStep(r), ~SaveReport(r)
      PROVE  db'[i].pdfFileHash = db[i].pdfFileHash
  <2> USE CurrentType DEF Writes, Current, Row, TypeInv, TypeOK
  <2>1. CASE ApproveTransaction(r)
    BY <2>1 DEF ApproveTransaction
  <2>2. CASE RollbackStatusAfterError(r)
    BY <2>2 DEF RollbackStatusAfterError
  <2>3. CASE ArchiveSave(r)
    BY <2>3 DEF ArchiveSave, ArchivedRow
  <2>4. CASE ArchiveSaveWithoutAsset(r)
    BY <2>4 DEF ArchiveSaveWithoutAsset, ArchivedRow
  <2>5. CASE FailedMintSave(r)
    BY <2>5 DEF FailedMintSave
  <2>6. CASE ArchiveSaveFails(r)
    BY <2>6 DEF ArchiveSaveFails
  <2>7. CASE ConfirmArchive(r) \/ ConfirmUnfounded(r)
    <3>1. PICK tx, asset : Writes(r, ArchivedRow(r, tx, asset))
      BY <2>7 DEF ConfirmArchive, ConfirmUnfounded, ConfirmsWith
    <3> QED
      BY <3>1 DEF ArchivedRow
  <2>8. CASE DeactivateArchive(r)
    BY <2>8 DEF DeactivateArchive
  <2>9. CASE ActivateArchive(r)
    BY <2>9 DEF ActivateArchive
  <2>10. CASE RollbackWrite(r)
    BY <2>10 DEF RollbackWrite
  <2>11. CASE RevertWrite(r)
    BY <2>11 DEF RevertWrite, RevertedRow
  <2> QED
    BY <1>1, <2>1, <2>2, <2>3, <2>4, <2>5, <2>6, <2>7, <2>8, <2>9, <2>10, <2>11
       DEF WritingStep
<1>2. ASSUME NEW r \in Request, SaveReport(r)
      PROVE  \/ db'[i].pdfFileHash = db[i].pdfFileHash
             \/ on[r] = i /\ db'[i].pdfFileHash = r
  BY <1>2, CurrentType DEF SaveReport, Writes, Current, Row, TypeInv, TypeOK
<1>3. ASSUME NEW r \in Request, QuietStep(r) \/ DeleteCommit(r) PROVE db' = db
  BY <1>3, QuietStepFrame DEF DeleteCommit
<1>4. Crash \/ UNCHANGED vars => db' = db
  BY DEF Crash, vars
<1> QED
  BY <1>1, <1>2, <1>3, <1>4, StepKinds

\* What else the steps leave in place.
LEMMA DiskFrame ==
    ASSUME TypeInv, [Next]_vars, NEW q \in Request
    PROVE  /\ pc[q] = "done" => pc'[q] = "done"
           /\ snap'[q] \in {snap[q], db[on[q]], InitialRow(on[q])}
           /\ pc'[q] = "generated" => pc[q] = "generated" \/ q \in files'
           /\ live' \subseteq live
           /\ \A r \in Request : SaveReport(r) => pc[r] = "generated" /\ pc'[r] = "done"
           /\ files \subseteq files' \/ \E r \in Request : DeleteUnlink(r)
           /\ pc[q] \in {"unlinking", "deleting", "deleteFailed", "lost"} /\ on[q] \in live' =>
                 pc'[q] \in {"unlinking", "deleting", "deleteFailed", "lost"}
<1> DEFINE Frame ==
           /\ pc[q] = "done" => pc'[q] = "done"
           /\ snap'[q] \in {snap[q], db[on[q]], InitialRow(on[q])}
           /\ pc'[q] = "generated" => pc[q] = "generated" \/ q \in files'
           /\ live' \subseteq live
           /\ files \subseteq files' \/ \E r \in Request : DeleteUnlink(r)
           /\ pc[q] \in {"unlinking", "deleting", "deleteFailed", "lost"} /\ on[q] \in live' =>
                 pc'[q] \in {"unlinking", "deleting", "deleteFailed", "lost"}
<1> USE DEF Goto, Reads, Ends, Current, TypeInv, TypeOK
<1>1. ASSUME NEW r \in Request, SaveReport(r) PROVE pc[r] = "generated" /\ pc'[r] = "done"
  BY <1>1 DEF SaveReport
<1>2. ASSUME NEW r \in Request, Arrive(r) PROVE Frame
  BY <1>2 DEF Arrive, Calls, Writes, ApproveTransaction, ArchiveRead, BuildArchiveTransaction,
              ConfirmUnfounded, ConfirmsWith, DeactivateArchive, ActivateArchive, RollbackRead, RevertRead, DeleteRead
<1>3. ASSUME NEW r \in Request, Continue(r) PROVE Frame
  <2>1. CASE \/ GenerateReports(r) \/ GenerationFails(r) \/ SaveReport(r) \/ SaveReportFails(r)
             \/ RollbackStatusAfterError(r) \/ ApprovalStranded(r)
    BY <2>1 DEF Writes, GenerateReports, GenerationFails, SaveReport, SaveReportFails,
                RollbackStatusAfterError, ApprovalStranded
  <2>2. CASE \/ MintSucceeds(r) \/ MintFails(r) \/ ArchiveSave(r) \/ ArchiveSaveConflict(r)
             \/ ArchiveSaveWithoutAsset(r) \/ FailedMintSave(r) \/ ArchiveSaveFails(r)
    BY <2>2 DEF Writes, MintSucceeds, MintFails, ArchiveSave, ArchiveSaveConflict,
                ArchiveSaveWithoutAsset, FailedMintSave, ArchiveSaveFails
  <2>3. CASE RollbackWrite(r) \/ RevertWrite(r) \/ SuperadminAborts(r)
    BY <2>3 DEF Writes, RollbackWrite, RevertWrite, SuperadminAborts
  <2>4. CASE DeleteUnlink(r) \/ DeleteCommit(r) \/ DeleteFails(r)
    BY <2>4 DEF DeleteUnlink, DeleteCommit, DeleteFails
  <2> QED
    BY <1>3, <2>1, <2>2, <2>3, <2>4 DEF Continue
<1>4. ASSUME NEW r \in Request, ClientStep(r) PROVE Frame
  BY <1>4 DEF ClientStep, ClientSubmits, ConfirmArchive, ConfirmsWith, Writes
<1>5. ASSUME Crash PROVE Frame
  BY <1>5 DEF Crash, InHandler, Generating
<1>6. ASSUME UNCHANGED vars PROVE Frame
  BY <1>6 DEF vars
<1>7. Frame
  BY <1>2, <1>3, <1>4, <1>5, <1>6 DEF Next
<1> QED
  BY <1>1, <1>7

LEMMA ReportOfStays ==
    ASSUME TypeInv, DiskInv, [Next]_vars, NEW i \in Inspection, NEW report, ReportOf(i, report)
    PROVE  report \in {None, i} \/ (report \in Request /\ on'[report] = i /\ pc'[report] = "done")
BY DiskFrame, LedgerGrows DEF ReportOf

LEMMA RowReportsStep ==
    ASSUME TypeInv, DiskInv, [Next]_vars, NEW i \in Inspection
    PROVE  ReportOf(i, db[i].pdfFileHash)'
<1>1. CASE db'[i].pdfFileHash = db[i].pdfFileHash
  BY <1>1, ReportOfStays DEF DiskInv, ReportOf
<1>2. ASSUME NEW r \in Request, SaveReport(r), on[r] = i, db'[i].pdfFileHash = r
      PROVE  ReportOf(i, db[i].pdfFileHash)'
  BY <1>2, DiskFrame, LedgerGrows DEF ReportOf
<1> QED
  BY <1>1, <1>2, ReportsWritten

LEMMA SnapReportsStep ==
    ASSUME TypeInv, DiskInv, [Next]_vars, NEW r \in Request
    PROVE  ReportOf(on[r], snap[r].pdfFileHash)'
<1>1. on' = on /\ on[r] \in Inspection
  BY LedgerGrows DEF TypeInv, TypeOK
<1>2. ReportOf(on[r], snap'[r].pdfFileHash)
  <2>1. ReportOf(on[r], snap[r].pdfFileHash) /\ ReportOf(on[r], db[on[r]].pdfFileHash)
    BY <1>1 DEF DiskInv
  <2>2. ReportOf(on[r], InitialRow(on[r]).pdfFileHash)
    BY DEF ReportOf, InitialRow
  <2> QED
    BY <2>1, <2>2, DiskFrame
<1> QED
  BY <1>1, <1>2, ReportOfStays DEF ReportOf

LEMMA DiskStep ==
    ASSUME TypeInv, DiskInv, [Next]_vars
    PROVE  (\A r \in Request : pc[r] = "generated" => r \in files)' /\ ReportOnDisk'
<1>1. on' = on /\ live' \subseteq live /\ live \subseteq Inspection /\ on \in [Request -> Inspection]
  <2>1. live' \subseteq live
    BY DiskFrame, StepKinds DEF Crash, vars
  <2> QED
    BY <2>1, LedgerGrows DEF TypeInv, TypeOK
<1>2. ASSUME NEW i \in Inspection, HalfDeleted(i), i \in live' PROVE HalfDeleted(i)'
  BY <1>1, <1>2, DiskFrame DEF HalfDeleted
<1>3. CASE files \subseteq files'
  <2>1. (\A r \in Request : pc[r] = "generated" => r \in files)'
    BY <1>3, DiskFrame DEF DiskInv
  <2>2. ASSUME NEW i \in live', db'[i].pdfFileHash # None, ~HalfDeleted(i)'
        PROVE  db'[i].pdfFileHash \in files'
    <3>1. i \in live /\ i \in Inspection /\ ~HalfDeleted(i)
      BY <1>1, <1>2, <2>2
    <3>2. CASE db'[i].pdfFileHash = db[i].pdfFileHash
      BY <1>3, <2>2, <3>1, <3>2 DEF DiskInv, ReportOnDisk
    <3>3. ASSUME NEW r \in Request, SaveReport(r), db'[i].pdfFileHash = r
          PROVE  db'[i].pdfFileHash \in files'
      BY <1>3, <3>3, DiskFrame DEF DiskInv
    <3> QED
      BY <3>1, <3>2, <3>3, ReportsWritten
  <2> QED
    BY <2>1, <2>2 DEF ReportOnDisk
<1>4. ASSUME NEW r \in Request, DeleteUnlink(r), files' = files \ {snap[r].pdfFileHash}
      PROVE  (\A q \in Request : pc[q] = "generated" => q \in files)' /\ ReportOnDisk'
  <2>1. /\ pc[r] = "unlinking" /\ pc' = [pc EXCEPT ![r] = "deleting"]
        /\ db' = db /\ live' = live /\ on' = on
    BY <1>4 DEF DeleteUnlink, Goto
  <2>2. ReportOf(on[r], snap[r].pdfFileHash) /\ pc \in [Request -> Label]
    BY DEF DiskInv, TypeInv, TypeOK, Label
  <2>3. ASSUME NEW q \in Request, pc'[q] = "generated" PROVE q \in files'
    <3>1. pc[q] = "generated" /\ q \in files
      BY <2>1, <2>2, <2>3 DEF DiskInv
    <3>2. q # None /\ q \notin Inspection
      BY LifecycleAssumption DEF Report
    <3> QED
      BY <1>1, <1>4, <2>2, <3>1, <3>2 DEF ReportOf
  <2>4. ASSUME NEW i \in live, db[i].pdfFileHash # None, ~HalfDeleted(i)'
        PROVE  db[i].pdfFileHash \in files'
    <3>1. i \in Inspection /\ on[r] \in Inspection /\ ReportOf(i, db[i].pdfFileHash)
      BY <1>1 DEF DiskInv
    <3>2. on[r] # i
      BY <2>1, <2>2, <2>4 DEF HalfDeleted
    <3>3. ~HalfDeleted(i)
      BY <1>2, <2>1, <2>4, <3>1
    <3>4. db[i].pdfFileHash \in files
      BY <2>4, <3>3 DEF DiskInv, ReportOnDisk
    <3>5. db[i].pdfFileHash # snap[r].pdfFileHash
      BY <2>2, <2>4, <3>1, <3>2, LifecycleAssumption DEF ReportOf, Report
    <3> QED
      BY <1>4, <3>4, <3>5
  <2> QED
    BY <2>1, <2>3, <2>4 DEF ReportOnDisk
<1>5. ASSUME NEW r \in Request, DeleteUnlink(r)
      PROVE  files' = files \ {snap[r].pdfFileHash} \/ files' = files
  BY <1>5 DEF DeleteUnlink
<1>6. files \subseteq files' \/ \E r \in Request : DeleteUnlink(r)
  BY DiskFrame, StepKinds DEF Crash, vars
<1> QED
  BY <1>3, <1>4, <1>5, <1>6

\* The report an inspection points to is on disk, unless a deletion of that
\* inspection may have removed it: no failed approval, crash or deletion of
\* another inspection takes it away.
THEOREM ReportsAreOnDisk == Spec => []ReportOnDisk
<1>1. Init => DiskInv
  BY LifecycleAssumption
     DEF Init, InitialRow, DiskInv, ReportOf, ReportOnDisk, Report
<1>2. TypeInv /\ DiskInv /\ [Next]_vars => (TypeInv /\ DiskInv)'
  <2> SUFFICES ASSUME TypeInv, DiskInv, [Next]_vars PROVE DiskInv'
    BY TypeInvStep
  <2> QED
    BY RowReportsStep, SnapReportsStep, DiskStep DEF DiskInv
<1>3. DiskInv => ReportOnDisk
  BY DEF DiskInv
<1> QED
  BY <1>1, <1>2, <1>3, InitTypeInv, PTL DEF Spec
=============================================================================
