---------------------------- MODULE EditingProofs ----------------------------
(***************************************************************************)
(* Proofs about InspectionEditing: every behaviour is one of               *)
(* InspectionLifecycle, whose theorems therefore hold of it; its types;    *)
(* and InspectorNamed, which needs that both entries of a change of        *)
(* inspector stay together in the log.                                     *)
(***************************************************************************)
EXTENDS InspectionEditing, InspectionLifecycleProofs, WellFoundedInduction

-----------------------------------------------------------------------------
(* Editing refines the lifecycle                                           *)

LEMMA EditingStepIsLifecycleStep == [EditingNext]_allVars => [Next]_vars
<1>1. ASSUME NEW e \in Edit, NEW dto \in Dtos, UpdateRead(e, dto) PROVE UNCHANGED vars
  BY <1>1 DEF UpdateRead
<1>2. ASSUME NEW e \in Edit, UpdateLog(e) \/ UpdateFails(e) PROVE UNCHANGED vars
  BY <1>2 DEF UpdateLog, UpdateFails
<1>3. ASSUME NEW r \in Request, ApproveAndApply(r) PROVE Next
  BY <1>3 DEF ApproveAndApply, Next, Arrive
<1>4. ASSUME NEW r \in Request, DeleteWithLogs(r) PROVE Next
  BY <1>4 DEF DeleteWithLogs, Next, Continue
<1>5. ASSUME NEW r \in Request, OtherSteps(r) PROVE Next
  BY <1>5 DEF OtherSteps, Next
<1>6. CrashWithEdits => Next
  BY DEF CrashWithEdits, Next
<1> QED
  BY <1>1, <1>2, <1>3, <1>4, <1>5, <1>6 DEF EditingNext, allVars

\* Edits, their log and its application change nothing of the life of a row:
\* whatever holds of InspectionLifecycle holds with edits in flight.
THEOREM EditingRefinesLifecycle == EditingSpec => Spec
<1>1. EditingInit => Init
  BY DEF EditingInit
<1> QED
  BY <1>1, EditingStepIsLifecycleStep, PTL DEF EditingSpec, Spec

-----------------------------------------------------------------------------
(* The newest entry of a path                                              *)

LEMMA GreatestNumber ==
    ASSUME NEW n \in Nat, NEW S \in SUBSET (1..n), S # {}
    PROVE  \E x \in S : \A y \in S : y <= x
<1> DEFINE Above(x) == {y \in S : y > x}
           T == {Above(x) : x \in S}
<1>1. IsFiniteSet(S)
  BY FS_Interval, FS_Subset, 1 \in Int, n \in Int
<1>2. FiniteSubsetsOf(S) = SUBSET S
  BY <1>1, FS_FiniteSubsetsOfFinite
<1>3. T \subseteq FiniteSubsetsOf(S) /\ T # {}
  <2>1. \A x \in S : Above(x) \in SUBSET S
    OBVIOUS
  <2>2. T \subseteq SUBSET S
    BY <2>1
  <2>3. T # {}
    OBVIOUS
  <2> HIDE DEF T
  <2> QED BY <1>2, <2>2, <2>3
<1>4. \E t \in T : \A u \in T : <<u, t>> \notin StrictSubsetOrdering(S)
  <2> HIDE DEF T
  <2> QED BY <1>3, FS_StrictSubsetOrderingWellFounded, WFMin
<1>5. PICK x \in S : \A z \in S : <<Above(z), Above(x)>> \notin StrictSubsetOrdering(S)
  BY <1>4
<1>6. ASSUME NEW z \in S, ~(z <= x) PROVE FALSE
  <2>1. x \in Int /\ \A y \in S : y \in Int
    OBVIOUS
  <2>2. z > x
    BY <1>6
  <2>3. \A y \in S : y > z => y > x
    BY <2>1, <2>2
  <2>4. Above(z) \subseteq Above(x)
    BY <2>3
  <2>5. z \in Above(x)
    BY <2>2
  <2>6. ~(z > z)
    BY <2>1
  <2>7. z \notin Above(z)
    BY <2>6
  <2>8. <<Above(z), Above(x)>> \in StrictSubsetOrdering(S)
    BY <2>4, <2>5, <2>7 DEF StrictSubsetOrdering
  <2> QED BY <2>8, <1>5
<1> QED BY <1>6

\* A path with entries has a newest one.
LEMMA NewestIsThere ==
    ASSUME NEW log \in Seq(Batch), NEW p \in Path, At(log, p) # {}
    PROVE  /\ Newest(log, p) \in At(log, p)
           /\ \A m \in At(log, p) : m <= Newest(log, p)
<1>1. At(log, p) \in SUBSET (1..Len(log)) /\ Len(log) \in Nat
  BY DEF At
<1>2. \E n \in At(log, p) : \A m \in At(log, p) : m <= n
  BY <1>1, GreatestNumber
<1> QED BY <1>2 DEF Newest

-----------------------------------------------------------------------------
(* Types                                                                   *)

LEMMA Paths ==
    /\ {InspectorPath, NamePath, NotePath, DocPath, PartPath} \subseteq Path
    /\ \A k \in SubKey : LeafPath(k) \in Path /\ LeafPath(k)[3] = k
    /\ ValueAt(InspectorPath) = User /\ ValueAt(NamePath) = User
    /\ ValueAt(DocPath) = Part /\ ValueAt(PartPath) = Part
    /\ ValueAt(NotePath) = Val
    /\ \A k \in SubKey : ValueAt(LeafPath(k)) = Val
<1>1. \A k \in SubKey :
          LeafPath(k) \notin {InspectorPath, NamePath, NotePath, NestedPath, DocPath, PartPath}
  BY DEF InspectorPath, NamePath, NotePath, NestedPath, DocPath, PartPath, LeafPath
<1>2. {DocPath, PartPath, NotePath} \cap {InspectorPath, NamePath} = {}
  BY DEF InspectorPath, NamePath, DocPath, PartPath, NotePath
<1>3. \A k \in SubKey : LeafPath(k)[3] = k
  BY DEF LeafPath
<1>4. NotePath \notin {DocPath, PartPath}
  BY DEF NotePath, DocPath, PartPath
<1> QED BY <1>1, <1>2, <1>3, <1>4 DEF Path, WholePath, ValueAt

LEMMA LatestType ==
    ASSUME NEW log \in Seq(Batch), NEW p \in Path, NEW old
    PROVE  /\ At(log, p) # {} => log[Newest(log, p)][p] \in ValueAt(p)
           /\ Latest(log, p, old) \in ValueAt(p) \cup {old}
<1>1. ASSUME At(log, p) # {} PROVE log[Newest(log, p)][p] \in ValueAt(p)
  <2>1. Newest(log, p) \in DOMAIN log /\ log[Newest(log, p)][p] # None
    BY <1>1, NewestIsThere DEF At
  <2>2. log[Newest(log, p)] \in Batch
    BY <2>1
  <2> QED BY <2>1, <2>2 DEF Batch
<1> QED BY <1>1 DEF Latest

LEMMA LeafType ==
    ASSUME NEW d \in Data, NEW log \in Seq(Batch), NEW k \in SubKey
    PROVE  LatestLeaf(d, log, k) \in Val \cup {None}
<1>1. At(log, PartPath) # {} => log[Newest(log, PartPath)][PartPath][k] \in Val \cup {None}
  BY LatestType, Paths DEF Part
<1>2. Complete(d) => d.doc.part[k] \in Val \cup {None}
  BY DEF Complete, Data, Part
<1>3. \A old \in Val \cup {None} : Latest(log, LeafPath(k), old) \in Val \cup {None}
  BY LatestType, Paths
<1> QED BY <1>1, <1>2, <1>3 DEF LatestLeaf

LEMMA AppliedType ==
    ASSUME NEW d \in Data, NEW log \in Seq(Batch)
    PROVE  Applied(d, log) \in Data
<1>1. Latest(log, InspectorPath, d.inspector) \in User
  BY LatestType, Paths DEF Data
<1>2. Latest(log, NamePath, d.namaInspektor) \in User
  BY LatestType, Paths DEF Data
<1>3. [k \in SubKey |-> LatestLeaf(d, log, k)] \in Part
  BY LeafType DEF Part
<1>4. [d.notes EXCEPT !.nested = Latest(log, NotePath, @)] \in Notes
  <2>1. Latest(log, NotePath, d.notes.nested) \in Val \cup {d.notes.nested}
    BY LatestType, Paths
  <2> QED BY <2>1 DEF Data, Notes
<1> QED BY <1>1, <1>2, <1>3, <1>4 DEF Applied, Data

LEMMA ChangesType ==
    ASSUME NEW d \in Data, NEW dto \in Dto
    PROVE  Changes(d, dto) \in Batch
<1>1. ASSUME NEW p \in ChangedPaths(d, dto) PROVE Requested(dto, p) \in ValueAt(p)
  <2>1. CASE p \in {InspectorPath, NamePath}
    <3>1. p \notin {DocPath, PartPath, NotePath} /\ \A k \in SubKey : p # LeafPath(k)
      BY <2>1 DEF InspectorPath, NamePath, DocPath, PartPath, NotePath, LeafPath
    <3>2. dto.inspector # None
      BY <1>1, <3>1 DEF ChangedPaths
    <3>3. dto.inspector \in User
      BY <3>2 DEF Dto
    <3>4. Requested(dto, p) = dto.inspector /\ ValueAt(p) = User
      BY <2>1, <3>1 DEF Requested, ValueAt
    <3> QED BY <3>3, <3>4
  <2>2. CASE p \in {DocPath, PartPath}
    <3>1. p \notin {InspectorPath, NamePath, NotePath} /\ \A k \in SubKey : p # LeafPath(k)
      BY <2>2 DEF InspectorPath, NamePath, DocPath, PartPath, NotePath, LeafPath
    <3>2. dto.part # None
      <4> SUFFICES ASSUME dto.part = None PROVE FALSE
        OBVIOUS
      <4>1. ChangedPaths(d, dto) \subseteq {InspectorPath, NamePath, NotePath}
        BY DEF ChangedPaths
      <4> QED BY <1>1, <3>1, <4>1
    <3>3. dto.part \in Part
      BY <3>2 DEF Dto
    <3>4. Requested(dto, p) = dto.part /\ ValueAt(p) = Part
      BY <2>2, <3>1 DEF Requested, ValueAt
    <3> QED BY <3>3, <3>4
  <2>3. ASSUME NEW k \in SubKey, p = LeafPath(k) PROVE Requested(dto, p) \in ValueAt(p)
    <3>1. p \notin {InspectorPath, NamePath, DocPath, PartPath, NotePath} /\ p[3] = k
      BY <2>3 DEF InspectorPath, NamePath, DocPath, PartPath, NotePath, LeafPath
    <3>2. dto.part # None /\ dto.part[k] # None
      <4>1. \A l \in SubKey : p = LeafPath(l) => l = k
        BY <3>1 DEF LeafPath
      <4> QED BY <1>1, <3>1, <4>1 DEF ChangedPaths
    <3>3. dto.part \in Part
      BY <3>2 DEF Dto
    <3>4. dto.part[k] \in Val
      BY <3>2, <3>3 DEF Part
    <3> QED BY <3>1, <3>4 DEF Requested, ValueAt
  <2>4. CASE p = NotePath
    <3>1. /\ p \notin {InspectorPath, NamePath, DocPath, PartPath}
          /\ \A k \in SubKey : p # LeafPath(k)
      BY <2>4 DEF InspectorPath, NamePath, DocPath, PartPath, NotePath, LeafPath
    <3>2. dto.note # None
      BY <1>1, <3>1 DEF ChangedPaths
    <3>3. dto.note \in Val
      BY <3>2 DEF Dto
    <3> QED BY <2>4, <3>1, <3>3, Paths DEF Requested
  <2> QED BY <1>1, <2>1, <2>2, <2>3, <2>4 DEF ChangedPaths
<1>2. \A p \in Path : ValueAt(p) \subseteq User \cup Val \cup Part
  BY DEF ValueAt
<1> QED BY <1>1, <1>2 DEF Changes, Batch

LEMMA NoChangesType == NoChanges \in Batch
BY DEF NoChanges, Batch

\* The variables of this module; TypeOK is that of the lifecycle.
EditTypes ==
    /\ data \in [Inspection -> Data]
    /\ logs \in [Inspection -> Seq(Batch)]
    /\ epc \in [Edit -> {"idle", "logging", "unchanged", "logged", "failed", "lost"}]
    /\ eon \in [Edit -> Inspection]
    /\ staged \in [Edit -> Batch]

LEMMA EditTypesStep == TypeOK /\ EditTypes /\ [EditingNext]_allVars => EditTypes'
<1> SUFFICES ASSUME TypeOK, EditTypes, [EditingNext]_allVars PROVE EditTypes'
  OBVIOUS
<1>1. ASSUME NEW e \in Edit, NEW dto \in Dtos, UpdateRead(e, dto) PROVE EditTypes'
  <2>1. Changes(data[eon[e]], dto) \in Batch
    BY ChangesType, EditingAssumption DEF EditTypes
  <2> QED BY <1>1, <2>1 DEF UpdateRead, EditTypes
<1>2. ASSUME NEW e \in Edit, UpdateLog(e) PROVE EditTypes'
  <2>1. Append(logs[eon[e]], staged[e]) \in Seq(Batch)
    BY DEF EditTypes
  <2> QED BY <1>2, <2>1, NoChangesType DEF UpdateLog, EditTypes
<1>3. ASSUME NEW e \in Edit, UpdateFails(e) PROVE EditTypes'
  BY <1>3, NoChangesType DEF UpdateFails, EditTypes
<1>4. ASSUME NEW r \in Request, ApproveAndApply(r) PROVE EditTypes'
  <2>1. Applied(data[on[r]], logs[on[r]]) \in Data
    BY AppliedType DEF EditTypes, TypeOK
  <2> QED BY <1>4, <2>1 DEF ApproveAndApply, EditTypes
<1>5. ASSUME NEW r \in Request, DeleteWithLogs(r) PROVE EditTypes'
  <2>1. <<>> \in Seq(Batch)
    OBVIOUS
  <2> QED BY <1>5, <2>1 DEF DeleteWithLogs, EditTypes
<1>6. ASSUME NEW r \in Request, OtherSteps(r) PROVE EditTypes'
  BY <1>6 DEF OtherSteps, editVars, EditTypes
<1>7. CASE CrashWithEdits
  BY <1>7, NoChangesType DEF CrashWithEdits, EditTypes
<1>8. CASE UNCHANGED allVars
  BY <1>8 DEF allVars, editVars, EditTypes
<1> QED
  BY <1>1, <1>2, <1>3, <1>4, <1>5, <1>6, <1>7, <1>8 DEF EditingNext

LEMMA InitEditTypes == EditingInit => EditTypes
<1>1. \A i \in Inspection : InitialData(i) \subseteq Data
  BY DEF InitialData
<1> QED BY <1>1, NoChangesType DEF EditingInit, EditTypes

\* Every row, log entry and staged entry is of its type: an approval never
\* stores a value of the wrong field.
THEOREM EditingTypeCorrect == EditingSpec => []EditingTypeOK
<1>1. EditingInit => EditTypes
  BY InitEditTypes
<1>2. TypeOK /\ EditTypes /\ [EditingNext]_allVars => EditTypes'
  BY EditTypesStep
<1>3. TypeOK /\ EditTypes => EditingTypeOK
  BY DEF EditTypes, EditingTypeOK
<1> QED
  BY <1>1, <1>2, <1>3, EditingRefinesLifecycle, TypeCorrect, PTL DEF EditingSpec

-----------------------------------------------------------------------------
(* The inspector and the name                                              *)

\* Whoever changes the one changes the other in the same batch.
Paired(b) == b[InspectorPath] = b[NamePath]

NamesInv ==
    /\ \A i \in Inspection : data[i].namaInspektor = data[i].inspector
    /\ \A i \in Inspection : \A n \in DOMAIN logs[i] : Paired(logs[i][n])
    /\ \A e \in Edit : Paired(staged[e])

LEMMA NoChangesPaired == Paired(NoChanges)
BY Paths DEF Paired, NoChanges

LEMMA ChangesPaired ==
    ASSUME NEW d, NEW dto
    PROVE  Paired(Changes(d, dto))
<1>1. InspectorPath \in ChangedPaths(d, dto) <=> NamePath \in ChangedPaths(d, dto)
  BY DEF ChangedPaths, InspectorPath, NamePath, DocPath, PartPath, NotePath, LeafPath
<1>2. Requested(dto, InspectorPath) = Requested(dto, NamePath)
  BY DEF Requested, InspectorPath, NamePath, DocPath, PartPath, NotePath
<1>3. InspectorPath \in Path /\ NamePath \in Path
  BY Paths
<1> QED BY <1>1, <1>2, <1>3 DEF Paired, Changes

\* The newest entries of both paths are in one batch.
LEMMA AppliedKeepsNames ==
    ASSUME NEW d \in Data, NEW log \in Seq(Batch), d.namaInspektor = d.inspector,
           \A n \in DOMAIN log : Paired(log[n])
    PROVE  Applied(d, log).namaInspektor = Applied(d, log).inspector
<1>1. At(log, NamePath) = At(log, InspectorPath)
  BY DEF At, Paired
<1>2. Newest(log, NamePath) = Newest(log, InspectorPath)
  BY <1>1 DEF Newest
<1>3. At(log, NamePath) # {} => Newest(log, NamePath) \in DOMAIN log
  BY NewestIsThere, Paths DEF At
<1>4. Latest(log, NamePath, d.namaInspektor) = Latest(log, InspectorPath, d.inspector)
  BY <1>1, <1>2, <1>3 DEF Latest, Paired
<1> QED BY <1>4 DEF Applied

LEMMA NamesStep == TypeOK /\ EditTypes /\ NamesInv /\ [EditingNext]_allVars => NamesInv'
<1> SUFFICES ASSUME TypeOK, EditTypes, NamesInv, [EditingNext]_allVars PROVE NamesInv'
  OBVIOUS
<1>1. ASSUME NEW e \in Edit, NEW dto \in Dtos, UpdateRead(e, dto) PROVE NamesInv'
  <2>1. Paired(Changes(data[eon[e]], dto))
    BY ChangesPaired
  <2> QED BY <1>1, <2>1 DEF UpdateRead, NamesInv, EditTypes
<1>2. ASSUME NEW e \in Edit, UpdateLog(e) PROVE NamesInv'
  <2>1. \A n \in DOMAIN Append(logs[eon[e]], staged[e]) :
            Paired(Append(logs[eon[e]], staged[e])[n])
    BY DEF NamesInv, EditTypes
  <2> QED BY <1>2, <2>1, NoChangesPaired DEF UpdateLog, NamesInv, EditTypes
<1>3. ASSUME NEW e \in Edit, UpdateFails(e) PROVE NamesInv'
  BY <1>3, NoChangesPaired DEF UpdateFails, NamesInv, EditTypes
<1>4. ASSUME NEW r \in Request, ApproveAndApply(r) PROVE NamesInv'
  <2> DEFINE new == Applied(data[on[r]], logs[on[r]])
  <2>1. on[r] \in Inspection
    BY DEF TypeOK
  <2>2. new.namaInspektor = new.inspector
    BY <2>1, AppliedKeepsNames DEF NamesInv, EditTypes
  <2> HIDE DEF new
  <2> QED BY <1>4, <2>1, <2>2 DEF ApproveAndApply, NamesInv, EditTypes, new
<1>5. ASSUME NEW r \in Request, DeleteWithLogs(r) PROVE NamesInv'
  BY <1>5 DEF DeleteWithLogs, NamesInv, EditTypes
<1>6. ASSUME NEW r \in Request, OtherSteps(r) PROVE NamesInv'
  BY <1>6 DEF OtherSteps, editVars, NamesInv
<1>7. CASE CrashWithEdits
  BY <1>7, NoChangesPaired DEF CrashWithEdits, NamesInv
<1>8. CASE UNCHANGED allVars
  BY <1>8 DEF allVars, editVars, NamesInv
<1> QED
  BY <1>1, <1>2, <1>3, <1>4, <1>5, <1>6, <1>7, <1>8 DEF EditingNext

LEMMA InitNames == EditingInit => NamesInv
<1> SUFFICES ASSUME EditingInit PROVE NamesInv
  OBVIOUS
<1>1. \A i \in Inspection : data[i] \in InitialData(i)
  BY DEF EditingInit
<1>2. \A i \in Inspection : data[i].namaInspektor = data[i].inspector
  BY <1>1 DEF InitialData
<1> QED BY <1>2, NoChangesPaired DEF EditingInit, NamesInv

\* The name printed as the inspector is the inspector's, for any number of
\* edits and approvals in any order, although the approval selects and applies
\* the entries of each path on its own.
THEOREM NamesAreConsistent == EditingSpec => []InspectorNamed
<1>1. EditingInit => EditTypes /\ NamesInv
  BY InitEditTypes, InitNames
<1>2. TypeOK /\ EditTypes /\ NamesInv /\ [EditingNext]_allVars => (EditTypes /\ NamesInv)'
  BY EditTypesStep, NamesStep
<1>3. TypeOK /\ NamesInv => InspectorNamed
  BY DEF TypeOK, NamesInv, InspectorNamed
<1> QED
  BY <1>1, <1>2, <1>3, EditingRefinesLifecycle, TypeCorrect, PTL DEF EditingSpec

-----------------------------------------------------------------------------
(* The application of the log                                              *)

\* Another request's step leaves a handler where it stands.
LEMMA OthersStand ==
    ASSUME TypeOK, NEW q \in Request, OtherSteps(q), NEW r \in Request, r # q
    PROVE  pc'[r] = pc[r]
<1> USE DEF TypeOK, Goto, Ends
<1>1. QuietStep(q) \/ WritingStep(q) \/ DeleteCommit(q)
  BY DEF OtherSteps, Arrive, Continue, ClientStep, QuietStep, WritingStep
<1>2. CASE QuietStep(q)
  BY <1>2 DEF QuietStep, GenerateReports, GenerationFails, SaveReportFails,
     ApprovalStranded, ArchiveRead, MintSucceeds, MintFails, ArchiveSaveConflict,
     BuildArchiveTransaction, ClientSubmits, RollbackRead, RevertRead, SuperadminAborts,
     DeleteRead, DeleteUnlink, DeleteFails
<1>3. CASE WritingStep(q)
  BY <1>3 DEF WritingStep, ApproveTransaction, SaveReport, RollbackStatusAfterError,
     ArchiveSave, ArchiveSaveWithoutAsset, FailedMintSave, ArchiveSaveFails,
     ConfirmArchive, ConfirmUnfounded, DeactivateArchive, ActivateArchive, RollbackWrite,
     RevertWrite
<1>4. CASE DeleteCommit(q)
  BY <1>4 DEF DeleteCommit
<1> QED BY <1>1, <1>2, <1>3, <1>4

\* Only the approval takes a request from its arrival to the PDF generation.
LEMMA OnlyApprovalsGenerate ==
    ASSUME TypeOK, [EditingNext]_allVars,
           NEW r \in Request, pc[r] = "idle", pc'[r] = "generating"
    PROVE  ApproveAndApply(r)
<1>1. ASSUME NEW e \in Edit, NEW dto \in Dtos, UpdateRead(e, dto) PROVE FALSE
  BY <1>1 DEF UpdateRead, vars
<1>2. ASSUME NEW e \in Edit, UpdateLog(e) \/ UpdateFails(e) PROVE FALSE
  BY <1>2 DEF UpdateLog, UpdateFails, vars
<1>3. ASSUME NEW q \in Request, ApproveAndApply(q) PROVE q = r
  BY <1>3 DEF ApproveAndApply, ApproveTransaction, Goto, TypeOK
<1>4. ASSUME NEW q \in Request, DeleteWithLogs(q) PROVE FALSE
  BY <1>4 DEF DeleteWithLogs, DeleteCommit, Ends, Goto, TypeOK
<1>5. ASSUME NEW q \in Request, OtherSteps(q) PROVE FALSE
  <2>1. pc'[q] # "generating"
    BY <1>5 DEF OtherSteps
  <2> QED BY <1>5, <2>1, OthersStand
<1>6. CASE CrashWithEdits
  BY <1>6 DEF CrashWithEdits, Crash
<1>7. CASE UNCHANGED allVars
  BY <1>7 DEF allVars, vars
<1> QED BY <1>1, <1>2, <1>3, <1>4, <1>5, <1>6, <1>7 DEF EditingNext

\* Where no entry replaces a sub-object, the places do not meet: each has the
\* newest entry that leads to it, and the field of a key with a dot none.
LEMMA AppliedIsLatest ==
    ASSUME NEW d \in Data, NEW log \in Seq(Batch), At(log, PartPath) = {},
           NEW p \in Path \ WholePath, NEW place, place = JoinedAndSplit(p)
    PROVE  /\ Stored(Applied(d, log), place) = Latest(log, p, Stored(d, place))
           /\ place # p => Stored(Applied(d, log), p) = Stored(d, p)
<1>1. CASE p = InspectorPath
  <2>1. place = p
    BY <1>1 DEF JoinedAndSplit, InspectorPath, NotePath
  <2>2. Applied(d, log).inspector = Latest(log, InspectorPath, d.inspector)
    BY DEF Applied
  <2>3. p \notin {NamePath, NotePath, NestedPath}
    BY <1>1 DEF InspectorPath, NamePath, NotePath, NestedPath
  <2> QED BY <1>1, <2>1, <2>2, <2>3 DEF Stored
<1>2. CASE p = NamePath
  <2>1. place = p
    BY <1>2 DEF JoinedAndSplit, NamePath, NotePath
  <2>2. Applied(d, log).namaInspektor = Latest(log, NamePath, d.namaInspektor)
    BY DEF Applied
  <2>3. p \notin {InspectorPath, NotePath, NestedPath}
    BY <1>2 DEF InspectorPath, NamePath, NotePath, NestedPath
  <2> QED BY <1>2, <2>1, <2>2, <2>3 DEF Stored
<1>3. ASSUME NEW k \in SubKey, p = LeafPath(k)
      PROVE  place = p /\ Stored(Applied(d, log), p) = Latest(log, p, Stored(d, p))
  <2>1. p \notin {InspectorPath, NamePath, NotePath, NestedPath} /\ p[3] = k
    <3>1. p \notin {InspectorPath, NamePath, NotePath} /\ p[3] = k
      BY <1>3 DEF InspectorPath, NamePath, NotePath, LeafPath
    <3>2. p # NestedPath
      BY <1>3 DEF NestedPath, LeafPath
    <3> QED BY <3>1, <3>2
  <2>2. \A row : Stored(row, p) = IF Complete(row) THEN row.doc.part[k] ELSE None
    BY <2>1 DEF Stored
  <2>3. CASE DocLogged(log)
    <3> DEFINE part == [l \in SubKey |-> LatestLeaf(d, log, l)]
    <3>1. Applied(d, log).doc = [part |-> part]
      BY <2>3 DEF Applied
    <3>2. Applied(d, log) \in Data
      BY AppliedType
    <3>3. part \in Part /\ part # None /\ [part |-> part] # None
      <4>1. [part |-> part].part = part
        OBVIOUS
      <4>2. part \in Part
        <5>1. \A l \in SubKey : LatestLeaf(d, log, l) \in Val \cup {None}
          BY LeafType
        <5> QED BY <5>1 DEF Part
      <4> HIDE DEF part
      <4> QED BY <4>2, EditingAssumption
    <3>4. Complete(Applied(d, log))
      BY <3>1, <3>3 DEF Complete
    <3>5. Stored(Applied(d, log), p) = LatestLeaf(d, log, k)
      BY <2>2, <3>1, <3>4
    <3> QED BY <1>3, <2>1, <2>2, <3>5 DEF LatestLeaf, JoinedAndSplit
  <2>4. CASE ~DocLogged(log)
    <3>1. Applied(d, log).doc = d.doc /\ At(log, p) = {}
      BY <1>3, <2>4 DEF Applied, DocLogged
    <3> QED BY <2>1, <2>2, <3>1 DEF Complete, Latest, JoinedAndSplit
  <2> QED BY <2>3, <2>4
<1>4. CASE p = NotePath
  <2>1. place = NestedPath /\ place # p
    BY <1>4 DEF JoinedAndSplit, NestedPath, NotePath
  <2>2. \A row : Stored(row, p) = row.notes.flat /\ Stored(row, place) = row.notes.nested
    BY <1>4, <2>1 DEF Stored, InspectorPath, NamePath, NotePath, NestedPath
  <2>3. /\ Applied(d, log).notes.flat = d.notes.flat
        /\ Applied(d, log).notes.nested = Latest(log, NotePath, d.notes.nested)
    BY DEF Applied, Data, Notes
  <2> QED BY <1>4, <2>2, <2>3
<1> QED BY <1>1, <1>2, <1>3, <1>4 DEF Path

\* For any number of edits and approvals, an approval stores the newest entry
\* of each path where joining and splitting the path leads, and keeps the
\* paths without one; the field of a key with a dot keeps its value.
THEOREM ApprovalsApplyLatest == EditingSpec => LatestChangesApplied
<1> DEFINE ApplyStep ==
      \A r \in Request : LET i == on[r] IN
          pc[r] = "idle" /\ pc'[r] = "generating" /\ ~LoggedWhole(i) =>
              \A p \in Path \ WholePath :
                  LET place == JoinedAndSplit(p) IN
                  /\ \/ Entries(i, p) = {} /\ Stored(data'[i], place) = Stored(data[i], place)
                     \/ \E n \in Entries(i, p) :
                           /\ \A m \in Entries(i, p) : m <= n
                           /\ Stored(data'[i], place) = logs[i][n][p]
                  /\ place # p => Stored(data'[i], p) = Stored(data[i], p)
<1>1. ASSUME TypeOK, EditTypes, [EditingNext]_allVars PROVE ApplyStep
  <2> SUFFICES ASSUME NEW r \in Request, NEW i, i = on[r],
                      pc[r] = "idle", pc'[r] = "generating", ~LoggedWhole(i),
                      NEW p \in Path \ WholePath, NEW place, place = JoinedAndSplit(p)
               PROVE  /\ \/ Entries(i, p) = {} /\ Stored(data'[i], place) = Stored(data[i], place)
                         \/ \E n \in Entries(i, p) :
                               /\ \A m \in Entries(i, p) : m <= n
                               /\ Stored(data'[i], place) = logs[i][n][p]
                      /\ place # p => Stored(data'[i], p) = Stored(data[i], p)
    OBVIOUS
  <2>1. i \in Inspection /\ data[i] \in Data /\ logs[i] \in Seq(Batch)
    BY <1>1 DEF TypeOK, EditTypes
  <2>2. data'[i] = Applied(data[i], logs[i])
    BY <1>1, <2>1, OnlyApprovalsGenerate DEF ApproveAndApply, EditTypes
  <2>3. At(logs[i], PartPath) = {} /\ Entries(i, p) = At(logs[i], p)
    BY DEF LoggedWhole, Entries, At
  <2>4. /\ Stored(data'[i], place) = Latest(logs[i], p, Stored(data[i], place))
        /\ place # p => Stored(data'[i], p) = Stored(data[i], p)
    BY <2>1, <2>2, <2>3, AppliedIsLatest
  <2>5. CASE At(logs[i], p) = {}
    BY <2>3, <2>4, <2>5 DEF Latest
  <2>6. CASE At(logs[i], p) # {}
    <3>1. /\ Newest(logs[i], p) \in At(logs[i], p)
          /\ \A m \in At(logs[i], p) : m <= Newest(logs[i], p)
      BY <2>1, <2>6, NewestIsThere
    <3>2. Stored(data'[i], place) = logs[i][Newest(logs[i], p)][p]
      BY <2>4, <2>6 DEF Latest
    <3> QED BY <2>3, <2>4, <3>1, <3>2
  <2> QED BY <2>5, <2>6
<1>2. TypeOK /\ EditTypes /\ [EditingNext]_allVars => ApplyStep
  BY <1>1
<1>3. EditingInit => EditTypes
  BY InitEditTypes
<1>4. TypeOK /\ EditTypes /\ [EditingNext]_allVars => EditTypes'
  BY EditTypesStep
<1>5. LatestChangesApplied <=> [][ApplyStep]_allVars
  BY DEF LatestChangesApplied
<1> HIDE DEF ApplyStep
<1> QED
  BY <1>2, <1>3, <1>4, <1>5, EditingRefinesLifecycle, TypeCorrect, PTL DEF EditingSpec
=============================================================================
