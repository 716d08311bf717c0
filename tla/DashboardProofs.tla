--------------------------- MODULE DashboardProofs ---------------------------
(***************************************************************************)
(* Proofs about the rows of Backend and the requests that read them:       *)
(* types, unique columns and foreign keys (RecordsTypeOK, and with         *)
(* AccountsTypeOK all of BackendTypeOK), and what the dashboard, the       *)
(* public list and a walk through the pages of a list promise whatever is  *)
(* written between their queries (DistributionAddsUp, CountersAddUp,       *)
(* LatestIsAnswered, PagesMissNothing).                                    *)
(*                                                                         *)
(* An inspection is named by the request that created it, so one that was  *)
(* there when a read began and is there now was there all the time, in     *)
(* the same city unless that is noted.  A row that a walk should meet *)
(* is either seen or behind the pages turned: at each page at least as     *)
(* many rows are ahead of it as the pages so far held.                     *)
(*                                                                         *)
(* The order trend is arithmetic (TrendCountsOnce): a range is made of     *)
(* whole days of the viewer's, and each instant of it has one day, one     *)
(* pair of hours and one month.                                            *)
(***************************************************************************)
EXTENDS AccountsProofs, FiniteSetTheorems, WellFoundedInduction

-----------------------------------------------------------------------------
(* The invariant of the rows                                               *)

Made(i) == i \in Old \/ (i \in Request /\ pc[i] = "created")

UniqueRows ==
    /\ \A b, c \in Branches :
          branches[b].city = branches[c].city \/ branches[b].code = branches[c].code => b = c
    /\ \A i, j \in Inspections : rows[i].pretty_id = rows[j].pretty_id => i = j

ForeignKeys ==
    /\ \A i \in Inspections : rows[i].branch \in Branches \cup {None}
    /\ \A p \in Photos : photos[p].inspection \in Inspections

RowsInv ==
    /\ rows \in [InspectionId -> InspectionRow \cup {None}]
    /\ files \in SUBSET File
    /\ status \in [InspectionId -> Status]
    /\ \A i \in Inspections : Made(i)
    /\ UniqueRows
    /\ ForeignKeys

\* What was known of the rows before.
Base == NumbersInv /\ FilesInv

\* Inspections are never made again.
Lasting ==
    \A i \in InspectionId : Made(i) => Made(i)' /\ (rows'[i] # None => rows[i] # None)

\* Changed cities of inspections are noted.
Noted ==
    /\ moved \subseteq moved'
    /\ \A i \in Inspections \cap Inspections' : CityOf(i)' = CityOf(i) \/ i \in moved'

-----------------------------------------------------------------------------
(* Steps that leave the rows alone                                         *)

CreatedStay == \A q \in Request : pc[q] = "created" => pc'[q] = "created"

LEMMA SameRowsKeepInv ==
    ASSUME RowsInv, CreatedStay, UNCHANGED <<branches, rows, photos, status>>,
           files' \subseteq File
    PROVE  RowsInv' /\ Lasting
<1>1. Branches' = Branches /\ Inspections' = Inspections /\ Photos' = Photos
  BY DEF Branches, Inspections, Photos
<1>2. \A i : Made(i) => Made(i)'
  BY DEF Made, CreatedStay
<1> QED
  BY <1>1, <1>2 DEF RowsInv, UniqueRows, ForeignKeys, Lasting

-----------------------------------------------------------------------------
(* Creation of inspections and administration of branches                  *)

\* A new inspection, with an id that no other has, in a branch that exists.
LEMMA CommitCreateKeepsRows ==
    ASSUME Base, RowsInv, NEW r \in Request, CommitCreate(r), UNCHANGED <<photos, files, status>>
    PROVE  RowsInv' /\ Lasting
<1> USE DEF Base, NumbersInv, RowsInv, Shape, Ends, Goto, Keeps
<1> DEFINE m == memo[r]
           new == [pretty_id |-> Pretty(m), branch |-> m.branch]
<1>1. /\ UNCHANGED branches /\ pc[r] = "inserting" /\ pc'[r] = "created"
      /\ \A q \in Request \ {r} : pc'[q] = pc[q]
      /\ m.branch \in Branches /\ ~Taken(m) /\ rows' = [rows EXCEPT ![r] = new]
  BY DEF CommitCreate
<1>2. new \in InspectionRow /\ new.pretty_id = Pretty(m) /\ new.branch = m.branch
  BY <1>1 DEF CreateMemos, CreateLabels, CreateMemo, Pretty, KeyOf, Key, InspectionRow
<1>3. r \in InspectionId /\ r \notin Inspections /\ ~Made(r)
  BY <1>1, CreationAssumption DEF InspectionId, Made
<1> HIDE DEF new
<1>4. /\ rows' \in [InspectionId -> InspectionRow \cup {None}]
      /\ Branches' = Branches /\ Photos' = Photos
      /\ Inspections' = Inspections \cup {r}
      /\ rows'[r] = new /\ \A i \in Inspections : rows'[i] = rows[i]
  BY <1>1, <1>2, <1>3, RowAssumption DEF Branches, Photos, Inspections
<1>5. \A i : Made(i) => Made(i)'
  BY <1>1 DEF Made
<1>6. Made(r)'
  BY <1>1 DEF Made
<1>7. UniqueRows'
  <2>1. \A i \in Inspections : rows[i].pretty_id # new.pretty_id
    BY <1>1, <1>2 DEF Taken
  <2>2. \A i, j \in Inspections' : rows'[i].pretty_id = rows'[j].pretty_id => i = j
    BY <1>4, <2>1 DEF UniqueRows
  <2> QED
    BY <1>1, <1>4, <2>2 DEF UniqueRows
<1>8. ForeignKeys'
  BY <1>1, <1>2, <1>4 DEF ForeignKeys
<1>9. Lasting
  <2>1. \A i \in InspectionId : i # r => rows'[i] = rows[i]
    BY <1>1
  <2> QED
    BY <1>3, <1>5, <2>1 DEF Lasting
<1> QED
  BY <1>4, <1>5, <1>6, <1>7, <1>8, <1>9

\* A branch is added or changed; none goes.
LEMMA BranchesKeepRows ==
    ASSUME RowsInv, UNCHANGED <<rows, photos, files, status>>, CreatedStay,
           Branches \subseteq Branches',
           \A b, c \in Branches' :
               branches'[b].city = branches'[c].city \/ branches'[b].code = branches'[c].code
                   => b = c
    PROVE  RowsInv' /\ Lasting
<1>1. Inspections' = Inspections /\ Photos' = Photos
  BY DEF Inspections, Photos
<1>2. \A i : Made(i) => Made(i)'
  BY DEF Made, CreatedStay
<1>3. UniqueRows'
  BY <1>1 DEF RowsInv, UniqueRows
<1>4. ForeignKeys'
  BY <1>1 DEF RowsInv, ForeignKeys
<1> QED
  BY <1>1, <1>2, <1>3, <1>4 DEF RowsInv, Lasting

LEMMA BranchStepsKeepRows ==
    ASSUME Base, RowsInv, NEW r \in Request, UNCHANGED <<photos, files, status>>,
           CreateBranch(r) \/ UpdateBranch(r) \/ ToggleActive(r)
    PROVE  RowsInv' /\ Lasting
<1> USE DEF Base, NumbersInv, RowsInv, Shape, Ends, Goto, Keeps, UniqueRows
<1>1. UNCHANGED rows /\ CreatedStay
  BY DEF CreateBranch, UpdateBranch, ToggleActive, Asks, CreatedStay
<1>2. CASE CreateBranch(r)
  <2>1. PICK c \in City, active \in BOOLEAN :
             /\ \A b \in Branches : branches[b].city # c /\ branches[b].code # Prefix[c]
             /\ branches' = [branches EXCEPT ![r] =
                                 [city |-> c, code |-> Prefix[c], isActive |-> active]]
    BY <1>2 DEF CreateBranch
  <2> DEFINE new == [city |-> c, code |-> Prefix[c], isActive |-> active]
  <2>2. new \in BranchRow /\ new.city = c /\ new.code = Prefix[c] /\ r \in BranchId
    BY DEF BranchRow, Code, BranchId
  <2> HIDE DEF new
  <2>3. branches' = [branches EXCEPT ![r] = new]
    BY <2>1 DEF new
  <2>4. /\ Branches' = Branches \cup {r} /\ branches'[r] = new
        /\ \A b \in Branches \ {r} : branches'[b] = branches[b]
    BY <2>2, <2>3, RowAssumption DEF Branches
  <2>5. \A b, c_1 \in Branches' :
           branches'[b].city = branches'[c_1].city \/ branches'[b].code = branches'[c_1].code
               => b = c_1
    BY <2>1, <2>2, <2>4
  <2> QED
    BY <1>1, <2>4, <2>5, BranchesKeepRows
<1>3. CASE UpdateBranch(r)
  <2>1. PICK b \in Branches, c \in City, active \in BOOLEAN :
             /\ \A d \in Branches \ {b} : branches[d].city # c
             /\ branches' = [branches EXCEPT ![b].city = c, ![b].isActive = active]
    BY <1>3 DEF UpdateBranch
  <2> DEFINE new == [branches[b] EXCEPT !.city = c, !.isActive = active]
  <2>2. /\ b \in BranchId /\ branches[b] \in BranchRow
        /\ new \in BranchRow /\ new.city = c /\ new.code = branches[b].code
        /\ branches' = [branches EXCEPT ![b] = new]
    <3>1. b \in BranchId /\ branches[b] \in BranchRow
      BY DEF Branches
    <3>2. new \in BranchRow /\ new.city = c /\ new.code = branches[b].code
      BY <3>1 DEF BranchRow
    <3>3. branches' = [branches EXCEPT ![b] = new]
      BY <2>1, <3>1
    <3> QED
      BY <3>1, <3>2, <3>3
  <2> HIDE DEF new
  <2>3. /\ Branches' = Branches /\ branches'[b] = new
        /\ \A d \in Branches \ {b} : branches'[d] = branches[d]
    BY <2>2, RowAssumption DEF Branches
  <2>4. \A d \in Branches \ {b} : branches[d].city # c
    BY <2>1
  <2>5. \A d, e \in Branches' :
           branches'[d].city = branches'[e].city \/ branches'[d].code = branches'[e].code => d = e
    BY <2>2, <2>3, <2>4
  <2> QED
    BY <1>1, <2>3, <2>5, BranchesKeepRows
<1>4. CASE ToggleActive(r)
  <2> DEFINE b == memo[r].branch
             new == [branches[b] EXCEPT !.isActive = ~memo[r].isActive]
  <2>1. /\ b \in Branches /\ b \in BranchId /\ branches[b] \in BranchRow
        /\ branches' = [branches EXCEPT ![b] = new]
    BY <1>4 DEF ToggleActive, Branches
  <2>2. new \in BranchRow /\ new.city = branches[b].city /\ new.code = branches[b].code
    BY <1>4, <2>1 DEF BranchRow, ToggleActive, CreateMemos
  <2> HIDE DEF new
  <2>3. /\ Branches' = Branches /\ branches'[b] = new
        /\ \A d \in Branches \ {b} : branches'[d] = branches[d]
    BY <2>1, <2>2, RowAssumption DEF Branches
  <2>4. \A d, e \in Branches' :
           branches'[d].city = branches'[e].city \/ branches'[d].code = branches'[e].code => d = e
    BY <2>2, <2>3
  <2> QED
    BY <1>1, <2>3, <2>4, BranchesKeepRows
<1> QED
  BY <1>2, <1>3, <1>4

\* A branch goes, and its inspections are no branch's any more.
LEMMA RemoveBranchKeepsRows ==
    ASSUME Base, RowsInv, NEW r \in Request, UNCHANGED <<photos, files, status>>,
           RemoveBranch(r)
    PROVE  RowsInv' /\ Lasting
<1> USE DEF Base, NumbersInv, RowsInv, Shape, Ends, Goto, Keeps
<1>1. CreatedStay
  BY DEF RemoveBranch, Asks, CreatedStay
<1>2. PICK b \in Branches :
           /\ branches' = [branches EXCEPT ![b] = None]
           /\ rows' = [i \in InspectionId |->
                  IF i \in Inspections /\ rows[i].branch = b
                  THEN [rows[i] EXCEPT !.branch = None] ELSE rows[i]]
  BY DEF RemoveBranch
<1>3. /\ Branches' = Branches \ {b} /\ \A c \in Branches' : branches'[c] = branches[c]
      /\ Photos' = Photos
  BY <1>2 DEF Branches, Photos
<1>4. ASSUME NEW i \in Inspections
      PROVE  /\ i \in InspectionId /\ rows[i] \in InspectionRow /\ rows'[i] \in InspectionRow
             /\ rows'[i] # None /\ rows'[i].pretty_id = rows[i].pretty_id
             /\ rows'[i].branch = IF rows[i].branch = b THEN None ELSE rows[i].branch
  BY <1>2, RowAssumption DEF Inspections, InspectionRow
<1>5. \A i \in InspectionId : i \notin Inspections => rows'[i] = None
  BY <1>2 DEF Inspections
<1>6. Inspections' = Inspections
  BY <1>4, <1>5 DEF Inspections
<1>7. rows' \in [InspectionId -> InspectionRow \cup {None}]
  <2>1. \A i \in InspectionId : rows'[i] \in InspectionRow \cup {None}
    BY <1>4, <1>5
  <2>2. rows' = [i \in InspectionId |-> rows'[i]]
    BY <1>2
  <2> QED
    BY <2>1, <2>2
<1>8. \A i : Made(i) => Made(i)'
  BY <1>1 DEF Made, CreatedStay
<1>9. UniqueRows'
  BY <1>3, <1>4, <1>6 DEF UniqueRows
<1>10. ForeignKeys'
  BY <1>3, <1>4, <1>6 DEF ForeignKeys
<1>11. Lasting
  BY <1>4, <1>5, <1>8 DEF Lasting, Inspections
<1> QED
  BY <1>6, <1>7, <1>8, <1>9, <1>10, <1>11

LEMMA CreationKeepsRows ==
    ASSUME Base, RowsInv, NEW r \in Request, CreationStep(r), UNCHANGED <<photos, files, status>>
    PROVE  RowsInv' /\ Lasting
<1>1. CASE \/ ReadInspector(r) \/ ReadBranch(r) \/ ReadBranchFails(r) \/ BeginCreate(r)
           \/ AbortCreate(r) \/ ReadActive(r) \/ ToggleFails(r)
  <2>1. UNCHANGED <<branches, rows>> /\ CreatedStay
    BY <1>1 DEF ReadInspector, ReadBranch, ReadBranchFails, BeginCreate, AbortCreate, ReadActive,
                ToggleFails, tables, Base, NumbersInv, Shape, Ends, Goto, Asks, CreatedStay
  <2> QED
    BY <2>1, SameRowsKeepInv DEF RowsInv
<1> QED
  BY <1>1, CommitCreateKeepsRows, BranchStepsKeepRows, RemoveBranchKeepsRows DEF CreationStep

-----------------------------------------------------------------------------
(* Photos, deletions, statuses                                             *)

\* Inspections go, or only photos change.
LEMMA FewerRowsKeepInv ==
    ASSUME RowsInv, CreatedStay, UNCHANGED <<branches, status>>, files' \subseteq File,
           DOMAIN rows' = InspectionId, rows' = [i \in InspectionId |-> rows'[i]],
           \A i \in InspectionId : rows'[i] \in {rows[i], None},
           \A p \in Photos' : photos'[p].inspection \in Inspections'
    PROVE  RowsInv' /\ Lasting
<1>1. Branches' = Branches
  BY DEF Branches
<1>2. Inspections' \subseteq Inspections /\ \A i \in Inspections' : rows'[i] = rows[i]
  BY DEF Inspections
<1>3. \A i : Made(i) => Made(i)'
  BY DEF Made, CreatedStay
<1>4. rows' \in [InspectionId -> InspectionRow \cup {None}]
  BY DEF RowsInv
<1>5. UniqueRows' /\ ForeignKeys'
  BY <1>1, <1>2 DEF RowsInv, UniqueRows, ForeignKeys
<1>6. Lasting
  BY <1>3 DEF Lasting
<1> QED
  BY <1>2, <1>3, <1>4, <1>5, <1>6 DEF RowsInv

LEMMA PhotosKeepRows ==
    ASSUME Base, RowsInv, NEW r \in Request, PhotoStep(r), UNCHANGED status
    PROVE  RowsInv' /\ Lasting
<1> USE DEF Base, FilesInv, Shape, Ends, Goto, Keeps
<1>1. Others(r) /\ UNCHANGED branches
  <2>1. UNCHANGED branches
    BY DEF PhotoStep, Upload, InvalidFile, RefuseUpload, EnsureInspectionExists, RecordPhotos,
           RecordFails, UploadReplacement, FindPhoto, ReplacePath, ReplaceFails, UnlinkFile,
           ReadPath, DeletePhotoRow, DeletePhotoFails, ReadForDeletion, UnlinkNext,
           CommitDeletion, DeletionFails, tables
  <2> QED
    BY <2>1, PhotoStepMovesOne
<1>2. CreatedStay
  <2>1. pc[r] # "created"
    BY DEF PhotoStep, Upload, InvalidFile, RefuseUpload, EnsureInspectionExists, RecordPhotos,
           RecordFails, UploadReplacement, FindPhoto, ReplacePath, ReplaceFails, UnlinkFile,
           ReadPath, DeletePhotoRow, DeletePhotoFails, ReadForDeletion, UnlinkNext,
           CommitDeletion, DeletionFails, Asks
  <2> QED
    BY <1>1, <2>1 DEF CreatedStay, Others
<1>3. DOMAIN rows = InspectionId /\ rows = [i \in InspectionId |-> rows[i]]
  BY DEF RowsInv
<1>4. CASE Upload(r) \/ UploadReplacement(r)
  <2>1. UNCHANGED <<rows, photos>>
    BY <1>4 DEF Upload, UploadReplacement, tables
  <2>2. <<r, 1>> \in File /\ \A n \in 1..BatchSize : {r} \X (1..n) \subseteq File
    BY BatchAssumption DEF File, InspectionId
  <2>3. files' \subseteq File
    <3>1. CASE Upload(r)
      <4>1. PICK n \in 1..BatchSize : files' = files \cup ({r} \X (1..n))
        BY <3>1 DEF Upload
      <4> QED
        BY <2>2, <4>1 DEF RowsInv
    <3>2. CASE UploadReplacement(r)
      BY <2>2, <3>2 DEF UploadReplacement, RowsInv
    <3> QED
      BY <1>4, <3>1, <3>2
  <2> QED
    BY <1>1, <1>2, <2>1, <2>3, SameRowsKeepInv
<1>5. CASE \/ InvalidFile(r) \/ RefuseUpload(r) \/ EnsureInspectionExists(r) \/ RecordFails(r)
           \/ FindPhoto(r) \/ ReplaceFails(r) \/ UnlinkFile(r) \/ ReadPath(r)
           \/ DeletePhotoFails(r) \/ ReadForDeletion(r) \/ UnlinkNext(r) \/ DeletionFails(r)
  <2>1. UNCHANGED <<rows, photos>> /\ files' \subseteq files
    BY <1>5 DEF InvalidFile, RefuseUpload, EnsureInspectionExists, RecordFails, FindPhoto,
                ReplaceFails, UnlinkFile, ReadPath, DeletePhotoFails, ReadForDeletion, UnlinkNext,
                DeletionFails, tables, photoVars
  <2> QED
    BY <1>1, <1>2, <2>1, SameRowsKeepInv DEF RowsInv
<1>6. CASE RecordPhotos(r)
  <2>1. /\ UNCHANGED <<rows, files>> /\ memo[r].inspection \in Inspections
        /\ \A p \in PhotoId : \/ photos'[p] = photos[p]
                              \/ photos'[p].inspection = memo[r].inspection
        /\ DOMAIN photos' = PhotoId
    BY <1>6 DEF RecordPhotos, tables
  <2>2. \A p \in Photos' : photos'[p].inspection \in Inspections'
    BY <2>1 DEF RowsInv, ForeignKeys, Photos, Inspections
  <2> QED
    BY <1>1, <1>2, <1>3, <2>1, <2>2, FewerRowsKeepInv DEF RowsInv
<1>7. CASE ReplacePath(r)
  <2>1. PICK f \in memo[r].hand : photos' = [photos EXCEPT ![memo[r].photo].path = f]
    BY <1>7 DEF ReplacePath
  <2>2. /\ UNCHANGED <<rows, files>> /\ memo[r].photo \in Photos
        /\ photos[memo[r].photo] \in Photo
    BY <1>7 DEF ReplacePath, tables, PhotoRows, Photos
  <2>3. \A p \in Photos' : p \in Photos /\ photos'[p].inspection = photos[p].inspection
    BY <2>1, <2>2 DEF Photos, Photo, PhotoRows
  <2>4. \A p \in Photos' : photos'[p].inspection \in Inspections'
    BY <2>2, <2>3 DEF RowsInv, ForeignKeys, Inspections
  <2> QED
    BY <1>1, <1>2, <1>3, <2>2, <2>4, FewerRowsKeepInv DEF RowsInv
<1>8. CASE DeletePhotoRow(r)
  <2>1. UNCHANGED <<rows, files>> /\ photos' = [photos EXCEPT ![memo[r].photo] = None]
    BY <1>8 DEF DeletePhotoRow, tables
  <2>2. \A p \in Photos' : p \in Photos /\ photos'[p] = photos[p]
    BY <2>1 DEF Photos, PhotoRows
  <2>3. \A p \in Photos' : photos'[p].inspection \in Inspections'
    BY <2>1, <2>2 DEF RowsInv, ForeignKeys, Inspections
  <2> QED
    BY <1>1, <1>2, <1>3, <2>1, <2>3, FewerRowsKeepInv DEF RowsInv
<1>9. CASE CommitDeletion(r)
  <2> DEFINE j == memo[r].inspection
  <2>1. /\ UNCHANGED files /\ j \in Inspections /\ rows' = [rows EXCEPT ![j] = None]
        /\ photos' = [p \in PhotoId |-> IF p \in PhotosOf(j) THEN None ELSE photos[p]]
    BY <1>9 DEF CommitDeletion
  <2>2. \A i \in InspectionId : rows'[i] = IF i = j THEN None ELSE rows[i]
    BY <1>3, <2>1
  <2>3. DOMAIN rows' = InspectionId /\ rows' = [i \in InspectionId |-> rows'[i]]
    BY <1>3, <2>1
  <2>4. \A p \in Photos' : p \in Photos /\ photos'[p] = photos[p] /\ photos[p].inspection # j
    BY <2>1 DEF Photos, PhotosOf
  <2>5. \A p \in Photos' : photos'[p].inspection \in Inspections'
    BY <2>2, <2>4 DEF RowsInv, ForeignKeys, Inspections
  <2> QED
    BY <1>1, <1>2, <2>1, <2>2, <2>3, <2>5, FewerRowsKeepInv DEF RowsInv
<1> QED
  BY <1>4, <1>5, <1>6, <1>7, <1>8, <1>9 DEF PhotoStep

LEMMA StatusKeepsRows ==
    ASSUME Base, RowsInv, NEW r \in Request, ChangeStatus(r)
    PROVE  RowsInv' /\ Lasting
<1> USE DEF Base, FilesInv, Shape, Ends, Goto, Keeps, RowsInv
<1>1. PICK i \in Inspections : \E s \in Status, b \in Connected(op[r], i) :
           status' = [status EXCEPT ![i] = s] /\ rows' = [rows EXCEPT ![i].branch = b]
  BY DEF ChangeStatus
<1>2. UNCHANGED <<branches, photos, files>> /\ CreatedStay
  BY DEF ChangeStatus, photoVars, CreatedStay, Asks
<1>3. PICK b \in Branches \cup {None} : rows' = [rows EXCEPT ![i].branch = b]
  BY <1>1 DEF Connected, ForeignKeys
<1>4. ASSUME NEW j \in Inspections
      PROVE  /\ j \in InspectionId /\ rows[j] \in InspectionRow /\ rows'[j] \in InspectionRow
             /\ rows'[j] # None /\ rows'[j].pretty_id = rows[j].pretty_id
             /\ rows'[j].branch = IF j = i THEN b ELSE rows[j].branch
  BY <1>3, RowAssumption DEF Inspections, Branches, InspectionRow
<1>5. \A j \in InspectionId : j \notin Inspections => rows'[j] = None
  BY <1>3 DEF Inspections
<1>6. Branches' = Branches /\ Inspections' = Inspections /\ Photos' = Photos
  BY <1>2, <1>4, <1>5 DEF Branches, Inspections, Photos
<1>7. rows' \in [InspectionId -> InspectionRow \cup {None}]
  <2>1. \A j \in InspectionId : rows'[j] \in InspectionRow \cup {None}
    BY <1>4, <1>5
  <2>2. rows' = [j \in InspectionId |-> rows'[j]]
    BY <1>3
  <2> QED
    BY <2>1, <2>2
<1>8. status' \in [InspectionId -> Status]
  BY <1>1
<1>9. \A j : Made(j) => Made(j)'
  BY <1>2 DEF Made, CreatedStay
<1>10. UniqueRows' /\ ForeignKeys'
  BY <1>2, <1>3, <1>4, <1>6 DEF UniqueRows, ForeignKeys
<1>11. Lasting
  BY <1>4, <1>5, <1>9 DEF Lasting, Inspections
<1> QED
  BY <1>2, <1>6, <1>7, <1>8, <1>9, <1>10, <1>11

\* Steps that only read, and those of users and sessions.
LEMMA ReadsKeepRows ==
    ASSUME Base, RowsInv, NEW r \in Request, QueryStep(r) \/ DashboardStep(r)
    PROVE  RowsInv' /\ Lasting
<1> USE DEF Base, FilesInv, Shape, Ends, Goto, Keeps
<1>1. UNCHANGED <<branches, rows, photos, files, status>>
  BY DEF QueryStep, AskForPages, CountRows, ListRows, FindOne, PublicFindOne, FindPlate, ReadPlate,
         ReadLatest, ReadViews, DashboardStep, ReadCities, CountTotal, CountBranch,
         CountPreviousTotal, AskCounters, CountPeriod, AskTrend, tables, photoVars, queryVars
<1>2. CreatedStay
  <2>1. CASE QueryStep(r)
    BY <2>1 DEF CreatedStay, QueryStep, AskForPages, CountRows, ListRows, FindOne, PublicFindOne,
                FindPlate, ReadPlate, ReadLatest, ReadViews, Asks
  <2>2. CASE DashboardStep(r)
    BY <2>2 DEF CreatedStay, DashboardStep, ReadCities, CountTotal, CountBranch,
                CountPreviousTotal, AskCounters, CountPeriod, AskTrend, Asks
  <2> QED
    BY <2>1, <2>2
<1> QED
  BY <1>1, <1>2, SameRowsKeepInv DEF RowsInv

-----------------------------------------------------------------------------
(* Requests for users leave the reads alone                                *)

\* Labels of the handlers that read, and of what they have answered.
ReadLabels == {"countingRows", "listingRows", "readingRow", "readingViews", "counting",
               "countingBranches", "countingPeriods", "answered"}

\* An answer to "latest" is at one of these.
LatestLabels == {"idle", "readingViews", "answered", "lost"}

\* No read is begun, goes on or ends.
Quiet ==
    /\ UNCHANGED op
    /\ \A q \in Request : pc'[q] \in ReadLabels => pc'[q] = pc[q] /\ memo'[q] = memo[q]
    /\ \A q \in Request : op[q] = "latest" /\ pc[q] \in LatestLabels => pc'[q] \in {pc[q], "lost"}

LEMMA HandlerQuiet ==
    ASSUME NEW r \in Request, Others(r), UNCHANGED op, pc'[r] \notin ReadLabels,
           ~(op[r] = "latest" /\ pc[r] \in LatestLabels)
    PROVE  Quiet
BY DEF Quiet, Others

LEMMA AccountsQuiet ==
    ASSUME NEW r \in Request, Shape, AccountStep(r)
    PROVE  Quiet /\ CreatedStay /\ UNCHANGED tables
<1> USE DEF Keeps, Goto, Ends, Shape, Others, ReadLabels, LatestLabels, CreatedStay, accountVars
<1>1. CASE Arrive(r) \/ CheckBlacklist(r)
  BY <1>1, HandlerQuiet DEF Arrive, CheckBlacklist
<1>2. CASE LoadUser(r)
  BY <1>2, HandlerQuiet DEF LoadUser, Admits
<1>3. CASE AccountStepFails(r)
  BY <1>3, HandlerQuiet DEF AccountStepFails, Refused
<1>4. CASE CheckAddress(r) \/ RegisterUser(r)
  BY <1>4, HandlerQuiet DEF CheckAddress, RegisterUser, Asks
<1>5. CASE GoogleUpsert(r)
  BY <1>5, HandlerQuiet DEF GoogleUpsert, Asks, SignsIn
<1>6. CASE LoginLocal(r) \/ LoginInspector(r)
  BY <1>6, HandlerQuiet DEF LoginLocal, LoginInspector, Asks, SignsIn
<1>7. CASE Refresh(r) \/ RefreshTokens(r)
  BY <1>7, HandlerQuiet DEF Refresh, RefreshTokens, Asks, SignsIn
<1>8. CASE StoreSession(r) \/ Logout(r)
  BY <1>8, HandlerQuiet DEF StoreSession, Logout
<1>9. CASE CheckNewUser(r)
  BY <1>9, HandlerQuiet DEF CheckNewUser
<1>10. CASE InsertUser(r)
  BY <1>10, HandlerQuiet DEF InsertUser
<1>11. CASE FindTarget(r)
  BY <1>11, HandlerQuiet DEF FindTarget
<1>12. CASE WriteInspector(r) \/ WritePin(r)
  BY <1>12, HandlerQuiet DEF WriteInspector, WritePin
<1>13. CASE UpdateUser(r) \/ DeleteUser(r)
  BY <1>13, HandlerQuiet DEF UpdateUser, DeleteUser
<1>14. CASE WriteRole(r)
  <2>1. /\ UNCHANGED <<op, tables>> /\ pc[r] = "writing" /\ pc'[r] = "done"
        /\ \A q \in Request \ {r} : pc'[q] = pc[q]
    BY <1>14 DEF WriteRole
  <2>2. \A q \in Request \ {r} : pc[q] \in ReadLabels => memo'[q] = memo[q]
    BY <1>14 DEF WriteRole, Accepted
  <2> QED
    BY <2>1, <2>2 DEF Quiet
<1> QED
  BY <1>1, <1>2, <1>3, <1>4, <1>5, <1>6, <1>7, <1>8, <1>9, <1>10, <1>11, <1>12, <1>13, <1>14
     DEF AccountStep

LEMMA CreationQuiet ==
    ASSUME NEW r \in Request, Shape, CreationStep(r)
    PROVE  Quiet
<1> USE DEF Keeps, Goto, Ends, Shape, Others, ReadLabels, LatestLabels
<1>1. CASE ReadInspector(r) \/ ReadBranch(r) \/ ReadBranchFails(r)
  BY <1>1, HandlerQuiet DEF ReadInspector, ReadBranch, ReadBranchFails, Asks
<1>2. CASE BeginCreate(r) \/ CommitCreate(r) \/ AbortCreate(r)
  BY <1>2, HandlerQuiet DEF BeginCreate, CommitCreate, AbortCreate
<1>3. CASE CreateBranch(r) \/ UpdateBranch(r) \/ RemoveBranch(r)
  BY <1>3, HandlerQuiet DEF CreateBranch, UpdateBranch, RemoveBranch, Asks
<1>4. CASE ReadActive(r) \/ ToggleActive(r) \/ ToggleFails(r)
  BY <1>4, HandlerQuiet DEF ReadActive, ToggleActive, ToggleFails, Asks
<1> QED
  BY <1>1, <1>2, <1>3, <1>4 DEF CreationStep

LEMMA PhotosQuiet ==
    ASSUME NEW r \in Request, Shape, PhotoStep(r)
    PROVE  Quiet
<1> USE DEF Keeps, Goto, Ends, Shape, ReadLabels, LatestLabels
<1>1. Others(r)
  BY PhotoStepMovesOne
<1>2. CASE Upload(r) \/ InvalidFile(r) \/ RefuseUpload(r)
  BY <1>1, <1>2, HandlerQuiet DEF Upload, InvalidFile, RefuseUpload, Asks
<1>3. CASE EnsureInspectionExists(r) \/ RecordPhotos(r) \/ RecordFails(r)
  BY <1>1, <1>3, HandlerQuiet DEF EnsureInspectionExists, RecordPhotos, RecordFails
<1>4. CASE UploadReplacement(r) \/ FindPhoto(r) \/ ReplacePath(r)
  BY <1>1, <1>4, HandlerQuiet DEF UploadReplacement, FindPhoto, ReplacePath, Asks
<1>5. CASE ReplaceFails(r) \/ UnlinkFile(r)
  BY <1>1, <1>5, HandlerQuiet DEF ReplaceFails, UnlinkFile
<1>6. CASE ReadPath(r) \/ DeletePhotoRow(r) \/ DeletePhotoFails(r)
  BY <1>1, <1>6, HandlerQuiet DEF ReadPath, DeletePhotoRow, DeletePhotoFails, Asks
<1>7. CASE ReadForDeletion(r) \/ UnlinkNext(r) \/ CommitDeletion(r) \/ DeletionFails(r)
  BY <1>1, <1>7, HandlerQuiet DEF ReadForDeletion, UnlinkNext, CommitDeletion, DeletionFails, Asks
<1> QED
  BY <1>2, <1>3, <1>4, <1>5, <1>6, <1>7 DEF PhotoStep

LEMMA RestartQuiet ==
    ASSUME Shape, Restart
    PROVE  Quiet
BY DEF Restart, Shape, InFlight, Quiet, ReadLabels, LatestLabels

LEMMA StatusQuiet ==
    ASSUME NEW r \in Request, Shape, ChangeStatus(r)
    PROVE  Quiet
<1>1. op[r] # "latest"
  BY DEF ChangeStatus, Moves
<1> QED
  BY <1>1, HandlerQuiet DEF ChangeStatus, Asks, Ends, Goto, Keeps, Shape, Others, ReadLabels, LatestLabels

-----------------------------------------------------------------------------
(* The invariant of the reads                                              *)

\* Each label belongs to one operation, and the public list is never refused.
ReadShape(r) ==
    /\ pc[r] \in {"countingRows", "listingRows"} => op[r] = "pages"
    /\ pc[r] = "readingRow" => op[r] = "search"
    /\ pc[r] = "readingViews" => op[r] = "latest"
    /\ pc[r] \in {"counting", "countingBranches"} => op[r] = "distribution"
    /\ pc[r] = "countingPeriods" => op[r] = "counters"
    /\ op[r] = "latest" => pc[r] \in LatestLabels

\* An inspection that stays in its city, and where it has to be counted.
Stays(i) == i \in Inspections /\ i \notin moved
Home(i) == CityOf(i) \X {PeriodOf(i)}

\* Such an inspection is counted nowhere but at home, and there unless that
\* is still to be counted.
CountedAtHome(m, i) ==
    /\ \A x \in City \X Period : i \in m.counts[x] => x \in Home(i)
    /\ \A x \in Home(i) : x \in m.todo \/ i \in m.counts[x]

\* The totals behind the label l are taken, and no other.
InTotals(m, l, i) ==
    /\ \A p \in Period : i \in m.total[p] => p = PeriodOf(i)
    /\ l # "counting" /\ PeriodOf(i) = "current" => i \in m.total["current"]
    /\ l = "answered" => i \in m.total[PeriodOf(i)]

DistributionSound(m, l) ==
    /\ m \in DistributionMemo
    /\ \A i \in m.first :
          /\ Made(i)
          /\ i \in Inspections => InTotals(m, l, i)
          /\ Stays(i) => CountedAtHome(m, i)
    /\ l = "answered" => m.todo = {}

\* An inspection is in the total of its period once that is taken, and under
\* one status once the groups of its period are.
CountedInPeriod(m, i) ==
    /\ \A p \in Period : i \in m.total[p] <=> p = PeriodOf(i) /\ <<p, "total">> \notin m.todo
    /\ \A y \in m.by : y[3] = i => y[1] = PeriodOf(i) /\ <<y[1], "statuses">> \notin m.todo
    /\ \A y, z \in m.by : y[3] = i /\ z[3] = i => y = z
    /\ <<PeriodOf(i), "statuses">> \notin m.todo => \E y \in m.by : y[3] = i

CountersSound(m, l) ==
    /\ m \in CountersMemo
    /\ \A i \in m.first : Made(i) /\ (i \in Inspections => CountedInPeriod(m, i))
    /\ l = "answered" => m.todo = {}

\* A trend is of a range of days.
TrendAsked(m) == m \in TrendMemo /\ m.first <= m.last

ReadSound(r) ==
    /\ ReadShape(r)
    /\ op[r] = "distribution" /\ pc[r] \in {"counting", "countingBranches", "answered"} =>
           DistributionSound(memo[r], pc[r])
    /\ op[r] = "counters" /\ pc[r] \in {"countingPeriods", "answered"} =>
           CountersSound(memo[r], pc[r])
    /\ Answers(r, "trend") => TrendAsked(memo[r])

ReadsInv == \A r \in Request : ReadSound(r)

-----------------------------------------------------------------------------
(* What others write, and a read under way                                 *)

\* Rows that a read has met are made, so those that are left are as they were.
LEMMA RowsLast ==
    ASSUME Lasting, Noted, NEW i, Made(i)
    PROVE  /\ Made(i)'
           /\ i \in Inspections' => i \in Inspections
           /\ Stays(i)' => Stays(i) /\ Home(i)' = Home(i)
<1>1. i \in InspectionId
  BY DEF Made, InspectionId
<1>2. Made(i)' /\ (i \in Inspections' => i \in Inspections)
  BY <1>1 DEF Lasting, Inspections
<1>3. Stays(i)' => Stays(i) /\ Home(i)' = Home(i)
  BY <1>2 DEF Noted, Stays, Home, PeriodOf
<1> QED
  BY <1>2, <1>3

LEMMA ReadStays ==
    ASSUME Lasting, Noted, UNCHANGED op,
           NEW r \in Request, ReadSound(r), pc'[r] = pc[r], memo'[r] = memo[r]
    PROVE  ReadSound(r)'
<1>1. ReadShape(r)' /\ (Answers(r, "trend")' => TrendAsked(memo[r])')
  BY DEF ReadSound, ReadShape, Answers, TrendAsked
<1>2. ASSUME DistributionSound(memo[r], pc[r])
      PROVE  DistributionSound(memo[r], pc[r])'
  <2>1. ASSUME NEW i \in memo[r].first
        PROVE  /\ Made(i)'
               /\ i \in Inspections' => InTotals(memo[r], pc[r], i)'
               /\ Stays(i)' => CountedAtHome(memo[r], i)'
    BY <1>2, <2>1, RowsLast DEF DistributionSound, CountedAtHome, InTotals
  <2> QED
    BY <1>2, <2>1 DEF DistributionSound
<1>3. ASSUME CountersSound(memo[r], pc[r])
      PROVE  CountersSound(memo[r], pc[r])'
  <2>1. ASSUME NEW i \in memo[r].first
        PROVE  Made(i)' /\ (i \in Inspections' => CountedInPeriod(memo[r], i)')
    BY <1>3, <2>1, RowsLast DEF CountersSound, CountedInPeriod
  <2> QED
    BY <1>3, <2>1 DEF CountersSound
<1> QED
  BY <1>1, <1>2, <1>3 DEF ReadSound

\* Other requests leave a read alone, or it is lost.
LEMMA OthersKeepReads ==
    ASSUME ReadsInv, Lasting, Noted, Quiet
    PROVE  ReadsInv'
<1> SUFFICES ASSUME NEW r \in Request
             PROVE  ReadSound(r)'
  BY DEF ReadsInv
<1>1. ReadSound(r)
  BY DEF ReadsInv
<1>2. CASE pc'[r] \in ReadLabels
  BY <1>1, <1>2, ReadStays DEF Quiet
<1>3. CASE pc'[r] \notin ReadLabels
  <2>1. op'[r] = "latest" => pc'[r] \in LatestLabels
    BY <1>1 DEF ReadSound, ReadShape, Quiet, LatestLabels
  <2> QED
    BY <1>3, <2>1 DEF ReadSound, ReadShape, ReadLabels, Answers
<1> QED
  BY <1>2, <1>3

-----------------------------------------------------------------------------
(* The steps of a read                                                     *)

LEMMA OwnReadKeepsReads ==
    ASSUME ReadsInv, Lasting, Noted, UNCHANGED op,
           NEW r \in Request, Others(r), ReadSound(r)'
    PROVE  ReadsInv'
BY ReadStays DEF ReadsInv, Others

LEMMA QueryKeepsReads ==
    ASSUME Shape, NEW r \in Request, ReadSound(r), QueryStep(r)
    PROVE  UNCHANGED op /\ Others(r) /\ ReadSound(r)'
<1> USE DEF Keeps, Goto, Ends, Shape, Others, ReadSound, ReadShape, LatestLabels, Answers
<1>1. CASE AskForPages(r) \/ CountRows(r) \/ ListRows(r)
  <2>1. /\ UNCHANGED op /\ Others(r) /\ op[r] = "pages"
        /\ pc'[r] \in {"countingRows", "listingRows", "answered"}
    <3>1. CASE ListRows(r)
      <4> DEFINE l == IF memo[r].page < TotalPages(memo[r].total, memo[r].size)
                      THEN "countingRows" ELSE "answered"
      <4>1. l \in {"countingRows", "answered"}
        OBVIOUS
      <4>2. Goto(r, l) /\ pc[r] = "listingRows" /\ \E m : Keeps(r, m)
        BY <3>1 DEF ListRows
      <4> HIDE DEF l
      <4> QED
        BY <4>1, <4>2
    <3>2. CASE CountRows(r)
      BY <3>2 DEF CountRows
    <3>3. CASE AskForPages(r)
      BY <3>3 DEF AskForPages, Asks
    <3> QED
      BY <1>1, <3>1, <3>2, <3>3
  <2> QED
    BY <2>1
<1>2. CASE FindOne(r) \/ PublicFindOne(r) \/ FindPlate(r) \/ ReadPlate(r)
  BY <1>2 DEF FindOne, PublicFindOne, FindPlate, ReadPlate, Asks
<1>3. CASE ReadLatest(r)
  BY <1>3 DEF ReadLatest, Asks

\* The views are looked at in the rows that WithFront has kept.
<1>4. CASE ReadViews(r)
  <2>1. Goto(r, "answered") /\ Others(r)
    BY <1>4 DEF ReadViews, WithFront
  <2> QED
    BY <1>4, <2>1 DEF ReadViews
<1> QED
  BY <1>1, <1>2, <1>3, <1>4 DEF QueryStep

\* What a dashboard step leaves as it is.
LEMMA DashboardKeepsRows ==
    ASSUME NEW r \in Request, DashboardStep(r)
    PROVE  UNCHANGED <<op, tables, photoVars, queryVars, moved>>
BY DEF DashboardStep, ReadCities, CountTotal, CountBranch, CountPreviousTotal, AskCounters,
       CountPeriod, AskTrend, Goto

LEMMA PeriodOfIsPeriod == \A i : PeriodOf(i) \in Period
BY PeriodAssumption DEF PeriodOf, Period

LEMMA CityOfIsCity ==
    ASSUME NumbersInv
    PROVE  \A i : CityOf(i) \subseteq City
BY DEF NumbersInv, CityOf, Branches, BranchRow

\* A memo that is sound for the rows as they are is still so after the step
\* that keeps it.
LEMMA SoundWhenKept ==
    ASSUME NEW r \in Request, Shape, Others(r), pc[r] # "created",
           UNCHANGED <<branches, rows, moved>>, NEW STATE k, NEW STATE l
    PROVE  /\ DistributionSound(k, l) /\ memo'[r] = k /\ pc'[r] = l =>
                  DistributionSound(memo[r], pc[r])'
           /\ CountersSound(k, l) /\ memo'[r] = k /\ pc'[r] = l =>
                  CountersSound(memo[r], pc[r])'
<1>1. \A i : /\ Made(i) => Made(i)'
             /\ Stays(i)' <=> Stays(i)
             /\ i \in Inspections' <=> i \in Inspections
             /\ Home(i)' = Home(i)
  BY DEF Made, Others, Stays, Inspections, Home, CityOf, Branches
<1>2. ASSUME DistributionSound(k, l), memo'[r] = k, pc'[r] = l
      PROVE  DistributionSound(memo[r], pc[r])'
  BY <1>1, <1>2 DEF DistributionSound, CountedAtHome, InTotals
<1>3. ASSUME CountersSound(k, l), memo'[r] = k, pc'[r] = l
      PROVE  CountersSound(memo[r], pc[r])'
  BY <1>1, <1>3 DEF CountersSound, CountedInPeriod
<1> QED
  BY <1>2, <1>3

LEMMA ReadCitiesKeepsReads ==
    ASSUME NumbersInv, RowsInv, NEW r \in Request, ReadCities(r)
    PROVE  Others(r) /\ ReadSound(r)'
<1> USE DEF NumbersInv, Shape, Keeps, Goto, Others
<1> DEFINE k == [first |-> Inspections, todo |-> {branches[b].city : b \in Branches} \X Period,
                 total |-> [p \in Period |-> {}], counts |-> [x \in City \X Period |-> {}]]
<1>1. /\ op[r] = "distribution" /\ pc[r] = "idle" /\ pc'[r] = "counting" /\ memo'[r] = k
      /\ Others(r) /\ UNCHANGED <<op, branches, rows, moved>>
  BY DEF ReadCities, Asks, tables
<1>2. {branches[b].city : b \in Branches} \subseteq City
  BY DEF Branches, BranchRow
<1>3. k \in DistributionMemo
  <2>1. k.first \in SUBSET InspectionId /\ k.todo \in SUBSET (City \X Period)
    BY <1>2 DEF Inspections
  <2> QED
    BY <2>1 DEF DistributionMemo
<1>4. ASSUME NEW i \in k.first
      PROVE  Made(i) /\ CountedAtHome(k, i) /\ InTotals(k, "counting", i)
  <2>1. Made(i)
    BY DEF RowsInv
  <2>2. Home(i) \subseteq k.todo
    BY PeriodOfIsPeriod DEF Home, CityOf
  <2> QED
    BY <2>1, <2>2 DEF CountedAtHome, InTotals
<1>5. DistributionSound(k, "counting")
  BY <1>3, <1>4 DEF DistributionSound
<1> HIDE DEF k
<1>6. DistributionSound(memo[r], pc[r])'
  BY <1>1, <1>5, SoundWhenKept
<1> QED
  BY <1>1, <1>6 DEF ReadSound, ReadShape, Answers

\* Both totals: all that is there, in its period.
LEMMA CountTotalsKeepReads ==
    ASSUME NumbersInv, RowsInv, NEW r \in Request, ReadSound(r),
           CountTotal(r) \/ CountPreviousTotal(r)
    PROVE  Others(r) /\ ReadSound(r)'
<1> USE DEF NumbersInv, Shape, Keeps, Goto, Others
<1> DEFINE m == memo[r]
           p0 == IF pc[r] = "counting" THEN "current" ELSE "previous"
           l == IF pc[r] = "counting" THEN "countingBranches" ELSE "answered"
           k == [m EXCEPT !.total[p0] = Created(p0)]
<1>1. /\ pc[r] \in {"counting", "countingBranches"} /\ pc'[r] = l /\ memo'[r] = k
      /\ Others(r) /\ UNCHANGED <<op, branches, rows, moved>>
      /\ pc[r] = "countingBranches" => m.todo = {}
  BY DEF CountTotal, CountPreviousTotal, tables
<1>2. op[r] = "distribution" /\ DistributionSound(m, pc[r])
  BY <1>1 DEF ReadSound, ReadShape
<1>3. p0 \in Period /\ Created(p0) \subseteq InspectionId /\ m \in DistributionMemo
  BY <1>2 DEF Period, Created, Inspections, DistributionSound
<1>4. /\ k.first = m.first /\ k.todo = m.todo /\ k.counts = m.counts
      /\ \A p \in Period : k.total[p] = IF p = p0 THEN Created(p0) ELSE m.total[p]
  BY <1>3 DEF DistributionMemo
<1>5. k \in DistributionMemo
  BY <1>3 DEF DistributionMemo
<1>6. ASSUME NEW i \in m.first
      PROVE  /\ Made(i)
             /\ i \in Inspections => InTotals(k, l, i)
             /\ Stays(i) => CountedAtHome(k, i)
  <2>1. /\ Made(i)
        /\ i \in Inspections => InTotals(m, pc[r], i)
        /\ Stays(i) => CountedAtHome(m, i)
    BY <1>2 DEF DistributionSound
  <2>2. i \in Inspections => (i \in Created(p0) <=> PeriodOf(i) = p0)
    BY DEF Created
  <2>3. Stays(i) => CountedAtHome(k, i)
    BY <1>4, <2>1 DEF CountedAtHome
  <2>4. ASSUME i \in Inspections
        PROVE  InTotals(k, l, i)
    <3>1. CASE pc[r] = "counting"
      BY <1>4, <2>1, <2>2, <2>4, <3>1, PeriodOfIsPeriod DEF InTotals, Period
    <3>2. CASE pc[r] = "countingBranches"
      BY <1>4, <2>1, <2>2, <2>4, <3>2, PeriodOfIsPeriod DEF InTotals, Period
    <3> QED
      BY <1>1, <3>1, <3>2
  <2> QED
    BY <2>1, <2>3, <2>4
<1>7. DistributionSound(k, l)
  BY <1>1, <1>4, <1>5, <1>6 DEF DistributionSound
<1>8. l \in {"countingBranches", "answered"}
  OBVIOUS
<1> HIDE DEF k, l
<1>9. DistributionSound(memo[r], pc[r])'
  BY <1>1, <1>7, SoundWhenKept
<1> QED
  BY <1>1, <1>2, <1>8, <1>9 DEF ReadSound, ReadShape, Answers

LEMMA CountBranchKeepsReads ==
    ASSUME NumbersInv, RowsInv, NEW r \in Request, ReadSound(r), CountBranch(r)
    PROVE  Others(r) /\ ReadSound(r)'
<1> USE DEF NumbersInv, Shape, Keeps, Others
<1> DEFINE m == memo[r]
<1>1. PICK x \in m.todo :
           memo' = [memo EXCEPT ![r] = [m EXCEPT !.todo = m.todo \ {x},
                                                 !.counts[x] = CreatedIn(x[1], x[2])]]
  BY DEF CountBranch
<1> DEFINE k == [m EXCEPT !.todo = m.todo \ {x}, !.counts[x] = CreatedIn(x[1], x[2])]
<1>2. /\ pc[r] = "countingBranches" /\ UNCHANGED <<op, pc, branches, rows, moved>>
      /\ memo'[r] = k /\ Others(r)
  BY <1>1 DEF CountBranch, tables
<1>3. op[r] = "distribution" /\ DistributionSound(m, pc[r])
  BY <1>2 DEF ReadSound, ReadShape
<1>4. /\ m \in DistributionMemo /\ x \in City \X Period
      /\ CreatedIn(x[1], x[2]) \subseteq InspectionId
  BY <1>3 DEF DistributionSound, DistributionMemo, CreatedIn, Created, Inspections
<1>5. /\ k.first = m.first /\ k.todo = m.todo \ {x} /\ k.total = m.total
      /\ \A y \in City \X Period :
            k.counts[y] = IF y = x THEN CreatedIn(x[1], x[2]) ELSE m.counts[y]
  BY <1>4 DEF DistributionMemo
<1>6. k \in DistributionMemo
  <2>1. m.todo \ {x} \in SUBSET (City \X Period)
    BY <1>4 DEF DistributionMemo
  <2>2. [m.counts EXCEPT ![x] = CreatedIn(x[1], x[2])] \in [City \X Period -> SUBSET InspectionId]
    BY <1>4 DEF DistributionMemo
  <2> QED
    BY <1>4, <2>1, <2>2 DEF DistributionMemo
<1> HIDE DEF k
<1>7. ASSUME NEW i \in m.first
      PROVE  /\ Made(i)
             /\ i \in Inspections => InTotals(k, "countingBranches", i)
             /\ Stays(i) => CountedAtHome(k, i)
  <2>1. /\ Made(i)
        /\ i \in Inspections => InTotals(m, "countingBranches", i)
        /\ Stays(i) => CountedAtHome(m, i)
    BY <1>2, <1>3 DEF DistributionSound
  <2>2. Home(i) \subseteq City \X Period
    BY CityOfIsCity, PeriodOfIsPeriod DEF Home
  <2>3. i \in Inspections => (i \in CreatedIn(x[1], x[2]) <=> x \in Home(i))
    BY <1>4 DEF Home, CreatedIn, Created
  <2>4. i \in Inspections => InTotals(k, "countingBranches", i)
    BY <1>5, <2>1 DEF InTotals
  <2>5. Stays(i) => CountedAtHome(k, i)
    BY <1>5, <2>1, <2>2, <2>3 DEF CountedAtHome, Stays
  <2> QED
    BY <2>1, <2>4, <2>5
<1>8. DistributionSound(k, "countingBranches")
  BY <1>5, <1>6, <1>7 DEF DistributionSound
<1>9. DistributionSound(memo[r], pc[r])'
  BY <1>2, <1>8, SoundWhenKept
<1> QED
  BY <1>2, <1>3, <1>9 DEF ReadSound, ReadShape, Answers

LEMMA AskCountersKeepsReads ==
    ASSUME NumbersInv, RowsInv, NEW r \in Request, AskCounters(r)
    PROVE  Others(r) /\ ReadSound(r)'
<1> USE DEF NumbersInv, Shape, Keeps, Goto, Others
<1> DEFINE k == [first |-> Inspections, todo |-> Period \X {"total", "statuses"},
                 total |-> [p \in Period |-> {}], by |-> {}]
<1>1. /\ op[r] = "counters" /\ pc[r] = "idle" /\ pc'[r] = "countingPeriods" /\ memo'[r] = k
      /\ Others(r) /\ UNCHANGED <<op, branches, rows, moved>>
  BY DEF AskCounters, Asks, tables
<1>2. k \in CountersMemo
  BY DEF CountersMemo, Inspections
<1>3. \A i \in k.first : Made(i)
  BY DEF RowsInv
<1>4. \A i : CountedInPeriod(k, i)
  BY PeriodOfIsPeriod DEF CountedInPeriod
<1>5. CountersSound(k, "countingPeriods")
  BY <1>2, <1>3, <1>4 DEF CountersSound
<1> HIDE DEF k
<1>6. CountersSound(memo[r], pc[r])'
  BY <1>1, <1>5, SoundWhenKept
<1> QED
  BY <1>1, <1>6 DEF ReadSound, ReadShape, Answers

LEMMA AskTrendKeepsReads ==
    ASSUME NumbersInv, RowsInv, NEW r \in Request, AskTrend(r)
    PROVE  Others(r) /\ ReadSound(r)'
<1>1. /\ op[r] = "trend" /\ UNCHANGED op /\ pc'[r] = "answered" /\ TrendAsked(memo[r])'
      /\ Others(r)
  BY DEF NumbersInv, Shape, AskTrend, Asks, Keeps, Goto, TrendMemo, TrendAsked, Others
<1> QED
  BY <1>1 DEF ReadSound, ReadShape, Answers

LEMMA CountPeriodKeepsReads ==
    ASSUME NumbersInv, RowsInv, NEW r \in Request, ReadSound(r), CountPeriod(r)
    PROVE  Others(r) /\ ReadSound(r)'
<1> USE DEF NumbersInv, Shape, Keeps, Goto, Others
<1> DEFINE m == memo[r]
           Groups(p) == {<<p, status[i], i>> : i \in Created(p)}
<1>1. PICK x \in m.todo :
           /\ memo' = [memo EXCEPT ![r] =
                  IF x[2] = "total"
                  THEN [m EXCEPT !.todo = m.todo \ {x}, !.total[x[1]] = Created(x[1])]
                  ELSE [m EXCEPT !.todo = m.todo \ {x}, !.by = m.by \cup Groups(x[1])]]
           /\ pc' = [pc EXCEPT ![r] = IF m.todo = {x} THEN "answered" ELSE "countingPeriods"]
  BY DEF CountPeriod
<1> DEFINE p0 == x[1]
           l == IF m.todo = {x} THEN "answered" ELSE "countingPeriods"
<1>2. /\ pc[r] = "countingPeriods" /\ UNCHANGED <<op, branches, rows, moved>>
      /\ pc'[r] = l /\ l \in {"answered", "countingPeriods"} /\ Others(r)
  BY <1>1 DEF CountPeriod, tables
<1>3. op[r] = "counters" /\ CountersSound(m, pc[r])
  BY <1>2 DEF ReadSound, ReadShape
<1>4. /\ m \in CountersMemo /\ x \in Period \X {"total", "statuses"}
      /\ Created(p0) \subseteq InspectionId /\ Groups(p0) \subseteq Period \X Status \X InspectionId
  <2>1. m \in CountersMemo /\ x \in Period \X {"total", "statuses"}
    BY <1>3 DEF CountersSound, CountersMemo
  <2>2. Created(p0) \subseteq InspectionId
    BY DEF Created, Inspections
  <2> QED
    BY <2>1, <2>2 DEF RowsInv
<1> DEFINE T == IF x[2] = "total" THEN [m.total EXCEPT ![p0] = Created(p0)] ELSE m.total
           B == IF x[2] = "total" THEN m.by ELSE m.by \cup Groups(p0)
           k == [first |-> m.first, todo |-> m.todo \ {x}, total |-> T, by |-> B]
<1>5. memo'[r] = k
  <2>1. CASE x[2] = "total"
    BY <1>1, <1>4, <2>1 DEF CountersMemo
  <2>2. CASE x[2] # "total"
    BY <1>1, <1>4, <2>2 DEF CountersMemo
  <2> QED
    BY <2>1, <2>2
<1>6. /\ T \in [Period -> SUBSET InspectionId] /\ B \in SUBSET (Period \X Status \X InspectionId)
      /\ \A p \in Period : T[p] = IF x = <<p, "total">> THEN Created(p) ELSE m.total[p]
      /\ \A y \in B : y \in m.by \/ (x = <<p0, "statuses">> /\ y \in Groups(p0))
      /\ m.by \subseteq B /\ (x[2] = "statuses" => Groups(p0) \subseteq B)
  BY <1>4 DEF CountersMemo
<1>7. k \in CountersMemo
  <2>1. m.first \in SUBSET InspectionId /\ m.todo \ {x} \in SUBSET (Period \X {"total", "statuses"})
    BY <1>4 DEF CountersMemo
  <2> HIDE DEF T, B
  <2> QED
    BY <1>6, <2>1 DEF CountersMemo
<1> HIDE DEF T, B
<1>8. ASSUME NEW i \in m.first
      PROVE  Made(i) /\ (i \in Inspections => CountedInPeriod(k, i))
  <2>1. Made(i) /\ (i \in Inspections => CountedInPeriod(m, i))
    BY <1>3 DEF CountersSound
  <2> SUFFICES ASSUME i \in Inspections
               PROVE  CountedInPeriod(k, i)
    BY <2>1
  <2>2. /\ \A p \in Period : i \in Created(p) <=> PeriodOf(i) = p
        /\ PeriodOf(i) \in Period
    BY PeriodOfIsPeriod DEF Created
  <2>3. \A p \in Period : i \in k.total[p] <=> p = PeriodOf(i) /\ <<p, "total">> \notin k.todo
    BY <1>6, <2>1, <2>2 DEF CountedInPeriod
  <2>4. \A y \in Groups(p0) : y[3] = i => y = <<p0, status[i], i>> /\ p0 = PeriodOf(i)
    BY <1>4, <2>2
  <2>5. PeriodOf(i) = p0 => <<p0, status[i], i>> \in Groups(p0)
    BY <1>4, <2>2
  <2> HIDE DEF Groups
  <2>6. \A y \in m.by : y[3] = i => <<PeriodOf(i), "statuses">> # x
    BY <2>1 DEF CountedInPeriod
  <2>7. \A y \in k.by : y[3] = i => y[1] = PeriodOf(i) /\ <<y[1], "statuses">> \notin k.todo
    BY <1>6, <2>1, <2>4 DEF CountedInPeriod
  <2>8. \A y, z \in k.by : y[3] = i /\ z[3] = i => y = z
    BY <1>6, <2>1, <2>4, <2>6 DEF CountedInPeriod
  <2>9. <<PeriodOf(i), "statuses">> \notin k.todo => \E y \in k.by : y[3] = i
    <3>1. CASE x = <<PeriodOf(i), "statuses">>
      BY <1>6, <2>5, <3>1
    <3>2. CASE x # <<PeriodOf(i), "statuses">>
      BY <1>6, <2>1, <3>2 DEF CountedInPeriod
    <3> QED
      BY <3>1, <3>2
  <2> QED
    BY <2>3, <2>7, <2>8, <2>9 DEF CountedInPeriod
<1>9. CountersSound(k, l)
  BY <1>7, <1>8 DEF CountersSound
<1> HIDE DEF k, l
<1>10. CountersSound(memo[r], pc[r])'
  BY <1>2, <1>5, <1>9, SoundWhenKept
<1> QED
  BY <1>2, <1>3, <1>10 DEF ReadSound, ReadShape, Answers

LEMMA DashboardKeepsReads ==
    ASSUME NumbersInv, RowsInv, NEW r \in Request, ReadSound(r), DashboardStep(r)
    PROVE  Others(r) /\ ReadSound(r)'
BY ReadCitiesKeepsReads, CountTotalsKeepReads, CountBranchKeepsReads, AskCountersKeepsReads,
   CountPeriodKeepsReads, AskTrendKeepsReads DEF DashboardStep

-----------------------------------------------------------------------------
(* Every step of Backend                                                   *)

LEMMA NamesAreNoted ==
    ASSUME OtherStep \/ UNCHANGED <<branches, rows, moved>>
    PROVE  Noted
<1>1. CASE OtherStep
  BY <1>1 DEF OtherStep, Noted, Inspections
<1>2. CASE UNCHANGED <<branches, rows, moved>>
  <2>1. \A i : CityOf(i)' = CityOf(i)
    BY <1>2 DEF CityOf, Branches
  <2> QED
    BY <1>2, <2>1 DEF Noted
<1> QED
  BY <1>1, <1>2

\* What is written is watched.
Watched == UNCHANGED createdAt /\ (Watch \/ UNCHANGED <<rows, status, steady>>)

\* A step is of a read, or leaves all reads alone.
LEMMA StepsAndReads ==
    ASSUME Base, RowsInv, ReadsInv, [BackendNext]_backendVars
    PROVE  /\ RowsInv' /\ Lasting /\ Noted
           /\ \/ Quiet /\ Watched
              \/ \E r \in Request : /\ QueryStep(r) \/ DashboardStep(r)
                                    /\ UNCHANGED op /\ Others(r) /\ ReadSound(r)'
<1> USE DEF Base
<1>0. Shape
  BY DEF NumbersInv
<1>1. CASE UNCHANGED backendVars
  <2>1. UNCHANGED <<op, pc, memo, branches, rows, photos, files, status, createdAt, steady, moved>>
    BY <1>1 DEF backendVars, dashboardVars, queriesVars, queryVars, photosVars, creationVars,
                photoVars, tables
  <2>2. Quiet /\ Watched /\ CreatedStay /\ Noted
    BY <2>1, NamesAreNoted DEF Quiet, Watched, CreatedStay
  <2> QED
    BY <2>1, <2>2, SameRowsKeepInv DEF RowsInv
<1>2. CASE AccountsStep
  <2>1. PICK r \in Request : AccountStep(r)
    BY <1>2 DEF AccountsStep
  <2>2. Quiet /\ CreatedStay /\ UNCHANGED <<branches, rows>>
    BY <1>0, <2>1, AccountsQuiet DEF tables
  <2>3. UNCHANGED <<photos, files, status, createdAt, steady, moved>>
    BY <1>2 DEF AccountsStep, photoVars, queryVars
  <2>4. Watched
    BY <2>2, <2>3 DEF Watched
  <2> QED
    BY <2>2, <2>3, <2>4, SameRowsKeepInv, NamesAreNoted DEF RowsInv
<1>3. ASSUME NEW r \in Request, DashboardStep(r)
      PROVE  /\ RowsInv' /\ Lasting /\ Noted
             /\ UNCHANGED op /\ Others(r) /\ ReadSound(r)'
  <2>1. RowsInv' /\ Lasting
    BY <1>3, ReadsKeepRows
  <2>2. UNCHANGED <<op, branches, rows, moved>>
    BY <1>3, DashboardKeepsRows DEF tables
  <2> QED
    BY <1>3, <2>1, <2>2, NamesAreNoted, DashboardKeepsReads DEF ReadsInv
<1>4. CASE OtherStep
  <2>1. Noted
    BY <1>4, NamesAreNoted
  <2>2. ASSUME NEW r \in Request, QueryStep(r)
        PROVE  RowsInv' /\ Lasting /\ UNCHANGED op /\ Others(r) /\ ReadSound(r)'
    BY <1>0, <2>2, ReadsKeepRows, QueryKeepsReads DEF ReadsInv
  <2>3. ASSUME NEW r \in Request, ChangeStatus(r)
        PROVE  RowsInv' /\ Lasting /\ Quiet
    BY <1>0, <2>3, StatusKeepsRows, StatusQuiet
  <2>4. ASSUME NEW r \in Request, CreationStep(r), UNCHANGED photoVars, UNCHANGED status
        PROVE  RowsInv' /\ Lasting /\ Quiet
    BY <1>0, <2>4, CreationKeepsRows, CreationQuiet DEF photoVars
  <2>5. ASSUME NEW r \in Request, PhotoStep(r), UNCHANGED status
        PROVE  RowsInv' /\ Lasting /\ Quiet
    BY <1>0, <2>5, PhotosKeepRows, PhotosQuiet
  <2>6. ASSUME Restart, UNCHANGED status
        PROVE  RowsInv' /\ Lasting /\ Quiet
    <3>1. UNCHANGED <<branches, rows, photos, files>> /\ CreatedStay
      BY <1>0, <2>6 DEF Restart, tables, CreatedStay, Shape, InFlight
    <3> QED
      BY <1>0, <2>6, <3>1, RestartQuiet, SameRowsKeepInv DEF RowsInv
  <2>7. \/ \E r \in Request : QueryStep(r)
        \/ Watched /\ \E r \in Request : ChangeStatus(r)
        \/ /\ Watched /\ UNCHANGED status
           /\ \/ \E r \in Request : CreationStep(r) /\ UNCHANGED photoVars
              \/ \E r \in Request : PhotoStep(r)
              \/ Restart
    BY <1>4 DEF OtherStep, QueriesNext, WriteStep, PhotosNext, CreationNext, ChangeStatus, Watched
  <2> QED
    BY <2>1, <2>2, <2>3, <2>4, <2>5, <2>6, <2>7
<1> QED
  BY <1>1, <1>2, <1>3, <1>4 DEF BackendNext, RecordsStep, DashboardNext

LEMMA RowsInvAtFirst ==
    ASSUME BackendInit
    PROVE  RowsInv /\ ReadsInv
<1>1. CreationInit /\ PhotosInit /\ QueriesInit /\ moved = {}
  BY DEF BackendInit, DashboardInit, QueriesInit, PhotosInit
<1>2. ASSUME NEW i \in Old
      PROVE  /\ rows[i] \in InspectionRow /\ rows[i] # None
             /\ rows[i].pretty_id = OldPretty[i] /\ rows[i].branch = OldBranch[i]
             /\ OldBranch[i] \in FirstBranch /\ i \in InspectionId
  BY <1>1, CreationAssumption, RowAssumption DEF CreationInit, InspectionId, InspectionRow, BranchId
<1>3. rows \in [InspectionId -> InspectionRow \cup {None}] /\ Inspections = Old
  BY <1>1, <1>2 DEF CreationInit, Inspections, InspectionId
<1>4. ASSUME NEW b \in FirstBranch
      PROVE  /\ branches[b].city = FirstCity[b] /\ branches[b].code = Prefix[FirstCity[b]]
             /\ b \in Branches
  <2>1. b \in BranchId /\ FirstCity[b] \in City
    BY CreationAssumption DEF BranchId
  <2>2. branches[b] = [city |-> FirstCity[b], code |-> Prefix[FirstCity[b]], isActive |-> TRUE]
    BY <1>1, <2>1 DEF CreationInit
  <2>3. branches[b] \in BranchRow
    BY <2>1, <2>2 DEF BranchRow, Code
  <2> QED
    BY <2>1, <2>2, <2>3, RowAssumption DEF Branches
<1>5. Branches \subseteq FirstBranch
  BY <1>1 DEF CreationInit, Branches
<1>6. UniqueRows
  <2>1. \A b \in Branches : b \in FirstBranch /\ branches[b].city = FirstCity[b]
                           /\ branches[b].code = Prefix[FirstCity[b]]
    BY <1>4, <1>5
  <2>2. \A i \in Inspections : i \in Old /\ rows[i].pretty_id = OldPretty[i]
    BY <1>2, <1>3
  <2> QED
    BY <2>1, <2>2, CreationAssumption DEF UniqueRows
<1>7. ForeignKeys
  <2>1. \A p \in Photos : photos[p].inspection \in Old
    BY <1>1 DEF PhotosInit, Photos
  <2>2. \A i \in Inspections : rows[i].branch \in Branches
    BY <1>2, <1>3, <1>4
  <2> QED
    BY <1>3, <2>1, <2>2 DEF ForeignKeys
<1>8. files \in SUBSET File /\ status \in [InspectionId -> Status]
  BY <1>1, BatchAssumption, QueriesAssumption DEF PhotosInit, QueriesInit, File, InspectionId, Status
<1>9. RowsInv
  BY <1>3, <1>6, <1>7, <1>8 DEF RowsInv, Made
<1>10. "latest" \notin GuardedOps
  BY DEF GuardedOps, Routing, CreateRoute, UpdateRoute, AddPhotosRoutes, PhotoRoutes, SearchRoute,
         ListRoute, FindRoute, ApproveRoutes, ArchiveRoute, ClientArchiveRoutes, ActivationRoutes,
         DeleteInspectionRoute, RevertRoutes, CreateBranchRoute, BranchRoutes, DashboardRoutes,
         CreateAdminRoute, RoleAndInspectorRoutes, UpdateUserRoutes, PinAndDeleteRoutes, LogoutRoute
<1>11. ReadsInv
  BY <1>1, <1>10 DEF CreationInit, ReadsInv, ReadSound, ReadShape, Answers, LatestLabels
<1> QED
  BY <1>9, <1>11

LEMMA ReadsInvInductive == BackendSpec => [](RowsInv /\ ReadsInv)
<1>1. BackendInit => RowsInv /\ ReadsInv
  BY RowsInvAtFirst
<1>2. NumbersInv /\ FilesInv /\ RowsInv /\ ReadsInv /\ [BackendNext]_backendVars
          => (RowsInv /\ ReadsInv)'
  BY StepsAndReads, OthersKeepReads, OwnReadKeepsReads DEF Base
<1> QED
  BY <1>1, <1>2, NumbersInvInductive, FilesInvInductive, PTL DEF BackendSpec

\* Types, unique columns and foreign keys of inspections, branches and photos,
\* what their handlers keep, and the same of users and sessions.
THEOREM BackendTyped == BackendSpec => []BackendTypeOK
<1>1. NumbersInv /\ FilesInv /\ RowsInv /\ ReadsInv => RecordsTypeOK
  <2> SUFFICES ASSUME NumbersInv, FilesInv, RowsInv, ReadsInv
               PROVE  RecordsTypeOK
    OBVIOUS
  <2>1. ASSUME NEW r \in Request
        PROVE  /\ AtPhotoStep(r) => memo[r] \in PhotoMemo
               /\ pc[r] \in {"readingBranch", "readyToInsert", "inserting"} => memo[r] \in CreateMemo
    BY DEF FilesInv, PhotoMemos, NumbersInv, CreateMemos, CreateLabels
  <2>2. ASSUME NEW r \in Request
        PROVE  /\ pc[r] \in {"counting", "countingBranches"} => memo[r] \in DistributionMemo
               /\ pc[r] = "countingPeriods" => memo[r] \in CountersMemo
               /\ Answers(r, "trend") => memo[r] \in TrendMemo
    BY DEF ReadsInv, ReadSound, ReadShape, DistributionSound, CountersSound, TrendAsked
  <2> QED
    BY <2>1, <2>2 DEF RecordsTypeOK, RowsInv, UniqueRows, ForeignKeys, NumbersInv, FilesInv, PhotoRows
<1> QED
  BY <1>1, NumbersInvInductive, FilesInvInductive, ReadsInvInductive, AccountsTyped, PTL
     DEF BackendTypeOK

\* getBranchDistribution adds up, for any number of requests that create,
\* delete, move and rename meanwhile.
THEOREM DistributionIsRight == BackendSpec => []DistributionAddsUp
<1>1. NumbersInv /\ ReadsInv => DistributionAddsUp
  <2> SUFFICES ASSUME NumbersInv, ReadsInv, NEW r \in Request, Answers(r, "distribution"),
                      NEW i \in memo[r].first \cap Inspections
               PROVE  /\ {p \in Period : i \in memo[r].total[p]} = {PeriodOf(i)}
                      /\ i \notin moved =>
                             {x \in City \X Period : i \in memo[r].counts[x]} = Home(i)
    BY DEF DistributionAddsUp, Home
  <2>1. DistributionSound(memo[r], "answered")
    BY DEF ReadsInv, ReadSound, Answers
  <2>2. /\ memo[r].todo = {} /\ InTotals(memo[r], "answered", i)
        /\ i \notin moved => CountedAtHome(memo[r], i)
    BY <2>1 DEF DistributionSound, Stays
  <2>3. Home(i) \subseteq City \X Period
    BY CityOfIsCity, PeriodOfIsPeriod DEF Home
  <2> QED
    BY <2>2, <2>3, PeriodOfIsPeriod DEF CountedAtHome, InTotals
<1> QED
  BY <1>1, NumbersInvInductive, ReadsInvInductive, PTL

\* getMainCounter adds up, whatever happens to statuses between its queries.
THEOREM CountersAreRight == BackendSpec => []CountersAddUp
<1>1. ReadsInv => CountersAddUp
  <2> SUFFICES ASSUME ReadsInv, NEW r \in Request, Answers(r, "counters"),
                      NEW i \in memo[r].first \cap Inspections
               PROVE  /\ {p \in Period : i \in memo[r].total[p]} = {PeriodOf(i)}
                      /\ \E x \in memo[r].by :
                             {y \in memo[r].by : y[3] = i} = {x} /\ x[1] = PeriodOf(i)
    BY DEF CountersAddUp
  <2>1. memo[r].todo = {} /\ CountedInPeriod(memo[r], i)
    BY DEF ReadsInv, ReadSound, Answers, CountersSound
  <2>2. PICK x \in memo[r].by : x[3] = i
    BY <2>1 DEF CountedInPeriod
  <2>3. {y \in memo[r].by : y[3] = i} = {x} /\ x[1] = PeriodOf(i)
    BY <2>1, <2>2 DEF CountedInPeriod
  <2> QED
    BY <2>1, <2>3, PeriodOfIsPeriod DEF CountedInPeriod
<1> QED
  BY <1>1, ReadsInvInductive, PTL

\* The list of the public page is never refused.
THEOREM LatestAnswers == BackendSpec => []LatestIsAnswered
<1>1. ReadsInv => LatestIsAnswered
  BY DEF ReadsInv, ReadSound, ReadShape, LatestLabels, LatestIsAnswered
<1> QED
  BY <1>1, ReadsInvInductive, PTL

-----------------------------------------------------------------------------
(* The invariant of a walk through the pages                               *)

PagesMemo == [filter: SUBSET Status, size: PageSizes, page: Nat \ {0}, total: Nat,
              seen: SUBSET InspectionId]

\* The rows of S that are listed no later than i, which is one of them.
Ahead(i, S) == {j \in S : createdAt[j] >= createdAt[i]}

\* A row that the walk should meet is behind the pages it has turned, or
\* seen; the number of rows is known between the two queries of a page.
WalkSound(r) ==
    LET m == memo[r]
        M == Matching(m.filter)
    IN /\ m \in PagesMemo
       /\ steady[r] \subseteq Untied(M)
       /\ \A i \in steady[r] :
              i \in m.seen \/ Cardinality(Ahead(i, M)) > (m.page - 1) * m.size
       /\ pc[r] = "listingRows" /\ steady[r] # {} => m.total = Cardinality(M)

PagesSound(r) ==
    /\ pc[r] \in {"countingRows", "listingRows"} => WalkSound(r)
    /\ op[r] = "pages" /\ pc[r] = "answered" => steady[r] \subseteq memo[r].seen

PagesInv ==
    /\ DOMAIN steady = Request
    /\ createdAt \in [InspectionId -> Nat]
    /\ \A r \in Request : PagesSound(r)

-----------------------------------------------------------------------------
(* Ranks                                                                   *)

\* Where a row of its own time stands, whatever order the others come in.
LEMMA OrderRank ==
    ASSUME NEW S \in SUBSET InspectionId, createdAt \in [InspectionId -> Nat],
           NEW q \in Orders(S), NEW i \in Untied(S)
    PROVE  /\ Cardinality(Ahead(i, S)) \in 1..Cardinality(S)
           /\ q[Cardinality(Ahead(i, S))] = i
<1> DEFINE n == Cardinality(S)
<1>1. IsFiniteSet(S) /\ n \in Nat
  BY FiniteAssumption, FS_Subset, FS_CardinalityType
<1>2. IsFiniteSet(1..n) /\ Cardinality(1..n) = n
  BY <1>1, FS_Interval
<1>3. /\ q \in [1..n -> S] /\ i \in S
      /\ \A j, k \in 1..n : j < k => q[j] # q[k] /\ createdAt[q[j]] >= createdAt[q[k]]
      /\ \A j \in S \ {i} : createdAt[j] # createdAt[i]
      /\ \A j \in S : createdAt[j] \in Nat
  BY DEF Orders, Untied
<1> HIDE DEF n
<1>4. \A j, k \in 1..n : q[j] = q[k] => j = k
  BY <1>1, <1>3
<1>5. q \in Injection(1..n, S)
  BY <1>3, <1>4 DEF Injection, IsInjective
<1>6. q \in Surjection(1..n, S)
  BY <1>1, <1>2, <1>5, FS_Injection DEF n
<1>7. PICK k \in 1..n : q[k] = i
  BY <1>3, <1>6 DEF Surjection
<1>8. \A j \in 1..n : q[j] \in Ahead(i, S) <=> j \in 1..k
  <2> SUFFICES ASSUME NEW j \in 1..n
               PROVE  createdAt[q[j]] >= createdAt[q[k]] <=> j <= k
    BY <1>1, <1>3, <1>7 DEF Ahead
  <2>1. CASE j = k
    BY <1>3, <2>1
  <2>2. CASE j < k
    BY <1>3, <2>2
  <2>3. CASE k < j
    <3>1. createdAt[q[k]] >= createdAt[q[j]] /\ q[j] # q[k]
      BY <1>3, <2>3
    <3>2. createdAt[q[j]] # createdAt[q[k]]
      BY <1>3, <1>7, <3>1
    <3> QED
      BY <1>3, <2>3, <3>1, <3>2
  <2> QED
    BY <1>1, <1>7, <2>1, <2>2, <2>3
<1> DEFINE h == [j \in 1..k |-> q[j]]
<1>9. h \in Bijection(1..k, Ahead(i, S))
  <2>1. h \in [1..k -> Ahead(i, S)]
    BY <1>1, <1>7, <1>8
  <2>2. \A x \in Ahead(i, S) : \E j \in 1..k : h[j] = x
    BY <1>6, <1>8 DEF Surjection, Ahead
  <2>3. \A a, b \in 1..k : h[a] = h[b] => a = b
    BY <1>1, <1>4, <1>7
  <2> QED
    BY <2>1, <2>2, <2>3 DEF Bijection, Injection, Surjection, IsInjective
<1>10. Cardinality(Ahead(i, S)) = k
  <2>1. IsFiniteSet(1..k) /\ Cardinality(1..k) = k
    BY <1>1, <1>7, FS_Interval
  <2>2. ExistsBijection(1..k, Ahead(i, S))
    BY <1>9 DEF ExistsBijection
  <2> QED
    BY <2>1, <2>2, FS_Bijection
<1> QED
  BY <1>7, <1>10 DEF n

\* New rows only push others back.
LEMMA MoreAhead ==
    ASSUME NEW S \in SUBSET InspectionId, NEW T \in SUBSET S, NEW i
    PROVE  /\ Cardinality(Ahead(i, T)) <= Cardinality(Ahead(i, S))
           /\ Cardinality(Ahead(i, S)) \in Nat /\ Cardinality(Ahead(i, T)) \in Nat
<1>1. IsFiniteSet(Ahead(i, S)) /\ Ahead(i, T) \in SUBSET Ahead(i, S)
  BY FiniteAssumption, FS_Subset DEF Ahead
<1> QED
  BY <1>1, FS_Subset, FS_CardinalityType

LEMMA PageArithmetic ==
    /\ \A p, z \in Nat : p * z \in Nat /\ (p + 1 - 1) * z = p * z /\ p * z = (p - 1) * z + z
    /\ \A t \in Nat, z \in Nat \ {0}, p \in Nat : ~(p < TotalPages(t, z)) => t <= p * z
<1>1. \A p, z \in Nat : p * z \in Nat /\ (p + 1 - 1) * z = p * z /\ p * z = (p - 1) * z + z
  OBVIOUS
<1>2. ASSUME NEW t \in Nat, NEW z \in Nat \ {0}, NEW p \in Nat, ~(p < TotalPages(t, z))
      PROVE  t <= p * z
  <2> DEFINE d == (t + z - 1) \div z
  <2>1. d \in Int /\ t + z - 1 < d * z + z /\ d <= p
    BY <1>2 DEF TotalPages
  <2>2. d * z <= p * z
    BY <2>1
  <2> QED
    BY <2>1, <2>2
<1> QED
  BY <1>1, <1>2

-----------------------------------------------------------------------------
(* Steps of a walk, and of others                                          *)

\* What is written meanwhile is watched.
LEMMA WalkStays ==
    ASSUME PagesInv, UNCHANGED <<op, createdAt>>, Watch \/ UNCHANGED <<rows, status>>,
           NEW r \in Request, PagesSound(r), pc'[r] = pc[r], memo'[r] = memo[r],
           ~Watch => steady'[r] = steady[r]
    PROVE  PagesSound(r)'
<1> DEFINE m == memo[r]
           M == Matching(m.filter)
           N == {i \in InspectionId : rows'[i] # None /\ status'[i] \in m.filter}
<1>1. Matching(memo[r].filter)' = N
  BY DEF Matching, Inspections
<1>2. M \in SUBSET InspectionId /\ N \in SUBSET InspectionId
  BY DEF Matching, Inspections
<1>3. /\ \A S : Untied(S)' = Untied(S)
      /\ \A i, S : Ahead(i, S)' = Ahead(i, S)
  BY DEF Untied, Ahead
<1>4. CASE pc[r] \notin {"countingRows", "listingRows"}
  <2>1. steady'[r] = steady[r]
    BY <1>4 DEF Watch
  <2> QED
    BY <1>4, <2>1 DEF PagesSound
<1>5. CASE pc[r] \in {"countingRows", "listingRows"}
  <2>1. WalkSound(r)
    BY <1>5 DEF PagesSound
  <2>2. \/ steady'[r] = {}
        \/ /\ M \subseteq N /\ (pc[r] = "listingRows" => N = M)
           /\ steady'[r] \subseteq steady[r] /\ steady'[r] \subseteq Untied(N)
    <3>1. CASE Watch
      BY <1>5, <3>1 DEF Watch
    <3>2. CASE ~Watch
      <4>1. N = M /\ steady'[r] = steady[r]
        BY <3>2 DEF Matching, Inspections
      <4> QED
        BY <2>1, <4>1 DEF WalkSound
    <3> QED
      BY <3>1, <3>2
  <2>3. \A i \in steady'[r] : i \in m.seen \/ Cardinality(Ahead(i, N)) > (m.page - 1) * m.size
    <3> SUFFICES ASSUME NEW i \in steady'[r], i \notin m.seen
                 PROVE  Cardinality(Ahead(i, N)) > (m.page - 1) * m.size
      OBVIOUS
    <3>1. M \subseteq N /\ Cardinality(Ahead(i, M)) > (m.page - 1) * m.size
      BY <2>1, <2>2 DEF WalkSound
    <3>2. /\ Cardinality(Ahead(i, M)) <= Cardinality(Ahead(i, N))
          /\ Cardinality(Ahead(i, M)) \in Nat /\ Cardinality(Ahead(i, N)) \in Nat
      BY <1>2, <3>1, MoreAhead
    <3>3. m \in PagesMemo
      BY <2>1 DEF WalkSound
    <3>4. m.page \in Nat \ {0} /\ m.size \in Nat
      BY <3>3, QueriesAssumption DEF PagesMemo
    <3>5. (m.page - 1) * m.size \in Int
      BY <3>4
    <3> QED
      BY <3>1, <3>2, <3>5
  <2>4. pc[r] = "listingRows" /\ steady'[r] # {} => m.total = Cardinality(N)
    BY <2>1, <2>2 DEF WalkSound
  <2>5. m \in PagesMemo /\ steady'[r] \subseteq Untied(N)
    BY <2>1, <2>2 DEF WalkSound
  <2>6. WalkSound(r)'
    BY <1>1, <1>3, <2>3, <2>4, <2>5 DEF WalkSound
  <2> QED
    BY <1>5, <2>6 DEF PagesSound
<1> QED
  BY <1>4, <1>5

\* The three steps of a walk.
LEMMA WalkKeepsPages ==
    ASSUME NumbersInv, PagesInv, NEW r \in Request, ReadSound(r),
           AskForPages(r) \/ CountRows(r) \/ ListRows(r)
    PROVE  PagesSound(r)'
<1> USE DEF NumbersInv, Shape, Keeps, Goto
<1>1. UNCHANGED <<op, rows, status, createdAt>>
  BY DEF AskForPages, CountRows, ListRows, queryVars, tables
<1>2. /\ \A f : Matching(f)' = Matching(f) /\ Matching(f) \in SUBSET InspectionId
      /\ \A S : Untied(S)' = Untied(S)
      /\ \A i, S : Ahead(i, S)' = Ahead(i, S)
  BY <1>1 DEF Matching, Inspections, Untied, Ahead
<1>3. CASE AskForPages(r)
  <2>1. PICK viewer \in Role, asked \in AskedStatuses, size \in PageSizes :
            /\ memo'[r] = [filter |-> WhereStatus(viewer, asked), size |-> size, page |-> 1,
                           total |-> 0, seen |-> {}]
            /\ steady'[r] = Untied(Matching(WhereStatus(viewer, asked)))
    BY <1>3 DEF AskForPages, PagesInv
  <2> DEFINE f == WhereStatus(viewer, asked)
             M == Matching(f)
  <2>2. f \in SUBSET Status
    BY QueriesAssumption DEF WhereStatus, Status
  <2> DEFINE k == [filter |-> f, size |-> size, page |-> 1, total |-> 0, seen |-> {}]
  <2>3. memo'[r] = k /\ steady'[r] = Untied(M)
    BY <2>1
  <2> HIDE DEF f
  <2>4. /\ k \in PagesMemo /\ k.filter = f /\ k.page = 1 /\ k.size = size
    BY <2>2 DEF PagesMemo
  <2> HIDE DEF k
  <2>5. memo'[r] \in PagesMemo /\ memo'[r].filter = f /\ memo'[r].page = 1 /\ memo'[r].size = size
    BY <2>3, <2>4
  <2>6. pc'[r] = "countingRows"
    BY <1>3 DEF AskForPages
  <2>7. ASSUME NEW i \in Untied(M)
        PROVE  Cardinality(Ahead(i, M)) > (1 - 1) * size
    <3>1. i \in M /\ createdAt[i] \in Nat
      BY <1>2, <2>7 DEF Untied, PagesInv
    <3>2. i \in Ahead(i, M) /\ Ahead(i, M) \in SUBSET InspectionId
      BY <1>2, <3>1 DEF Ahead
    <3>3. Cardinality(Ahead(i, M)) \in Nat /\ Cardinality(Ahead(i, M)) # 0
      BY <3>2, FiniteAssumption, FS_Subset, FS_CardinalityType, FS_EmptySet
    <3>4. (1 - 1) * size = 0
      BY QueriesAssumption
    <3> QED
      BY <3>3, <3>4
  <2>8. WalkSound(r)'
    BY <1>2, <2>3, <2>5, <2>6, <2>7 DEF WalkSound
  <2> QED
    BY <2>6, <2>8 DEF PagesSound
<1>4. ASSUME CountRows(r) \/ ListRows(r)
      PROVE  op[r] = "pages" /\ WalkSound(r) /\ UNCHANGED steady
  BY <1>4 DEF CountRows, ListRows, PagesInv, PagesSound, ReadSound, ReadShape, queryVars
<1>5. CASE CountRows(r)
  <2> DEFINE m == memo[r]
             c == Cardinality(Matching(m.filter))
             k == [m EXCEPT !.total = c]
  <2>1. pc'[r] = "listingRows" /\ memo'[r] = k
    BY <1>5 DEF CountRows
  <2>2. WalkSound(r) /\ m \in PagesMemo
    BY <1>4, <1>5 DEF WalkSound
  <2>3. c \in Nat
    BY <1>2, FiniteAssumption, FS_Subset, FS_CardinalityType
  <2> HIDE DEF c
  <2>4. /\ k \in PagesMemo /\ k.filter = m.filter /\ k.size = m.size /\ k.page = m.page
        /\ k.seen = m.seen /\ k.total = c
    BY <2>2, <2>3 DEF PagesMemo
  <2> HIDE DEF k
  <2>5. WalkSound(r)'
    BY <1>2, <1>4, <1>5, <2>1, <2>2, <2>4 DEF WalkSound, c
  <2> QED
    BY <2>1, <2>5 DEF PagesSound
<1>6. CASE ListRows(r)
  <2> DEFINE m == memo[r]
             M == Matching(m.filter)
             first == Skip(m.page, m.size) + 1
             last == first + m.size - 1
             Shown(q) == {q[k] : k \in DOMAIN q \cap (first..last)}
  <2>1. PICK q \in Orders(M) :
            memo' = [memo EXCEPT ![r] = [m EXCEPT !.seen = m.seen \cup Shown(q),
                                                  !.page = m.page + 1]]
    BY <1>6 DEF ListRows
  <2> DEFINE s == m.seen \cup Shown(q)
             k == [m EXCEPT !.seen = s, !.page = m.page + 1]
  <2>2. /\ pc[r] = "listingRows" /\ memo'[r] = k
        /\ pc'[r] = IF m.page < TotalPages(m.total, m.size) THEN "countingRows" ELSE "answered"
    BY <1>6, <2>1 DEF ListRows
  <2>3. WalkSound(r) /\ m \in PagesMemo /\ UNCHANGED steady
    BY <1>4, <1>6 DEF WalkSound
  <2>4. m.page \in Nat \ {0} /\ m.size \in Nat \ {0} /\ m.total \in Nat
    BY <2>3, QueriesAssumption DEF PagesMemo
  <2>5. q \in [1..Cardinality(M) -> M] /\ M \in SUBSET InspectionId /\ Cardinality(M) \in Nat
    BY <1>2, FiniteAssumption, FS_Subset, FS_CardinalityType DEF Orders
  <2>6. s \in SUBSET InspectionId
    BY <2>3, <2>5 DEF PagesMemo
  <2>7. ASSUME NEW i \in steady[r]
        PROVE  /\ Cardinality(Ahead(i, M)) \in Nat /\ Cardinality(Ahead(i, M)) <= m.total
               /\ i \in s \/ Cardinality(Ahead(i, M)) > m.page * m.size
    <3>1. i \in Untied(M) /\ m.total = Cardinality(M)
      BY <2>2, <2>3, <2>7 DEF WalkSound
    <3> DEFINE c == Cardinality(Ahead(i, M))
    <3>2. c \in 1..Cardinality(M) /\ q[c] = i
      BY <2>5, <3>1, OrderRank DEF PagesInv
    <3>3. i \in m.seen \/ c > (m.page - 1) * m.size
      BY <2>3, <2>7 DEF WalkSound
    <3>4. first = (m.page - 1) * m.size + 1 /\ last = m.page * m.size
      BY <2>4, PageArithmetic DEF Skip
    <3>5. (m.page - 1) * m.size \in Int /\ m.page * m.size \in Int
      BY <2>4
    <3> HIDE DEF c, first, last
    <3>6. c > (m.page - 1) * m.size /\ ~(c > m.page * m.size) => i \in Shown(q)
      BY <2>5, <3>2, <3>4, <3>5
    <3> QED
      BY <2>5, <3>1, <3>2, <3>3, <3>6 DEF c
  <2> HIDE DEF s
  <2>8. /\ k \in PagesMemo /\ k.filter = m.filter /\ k.size = m.size /\ k.page = m.page + 1
        /\ k.seen = s
    <3>1. m.page + 1 \in Nat \ {0}
      BY <2>4
    <3> QED
      BY <2>3, <2>6, <3>1 DEF PagesMemo
  <2> HIDE DEF k
  <2>9. CASE m.page < TotalPages(m.total, m.size)
    <3>1. pc'[r] = "countingRows"
      BY <2>2, <2>9
    <3>2. (k.page - 1) * k.size = m.page * m.size
      BY <2>4, <2>8, PageArithmetic
    <3>3. WalkSound(r)'
      BY <1>2, <2>2, <2>3, <2>7, <2>8, <3>1, <3>2 DEF WalkSound
    <3> QED
      BY <3>1, <3>3 DEF PagesSound
  <2>10. CASE ~(m.page < TotalPages(m.total, m.size))
    <3>1. m.total <= m.page * m.size /\ m.page * m.size \in Nat
      BY <2>4, <2>10, PageArithmetic
    <3>2. steady[r] \subseteq s
      BY <2>4, <2>7, <3>1
    <3>3. pc'[r] = "answered"
      BY <2>2, <2>10
    <3> QED
      BY <2>2, <2>3, <2>8, <3>2, <3>3 DEF PagesSound
  <2> QED
    BY <2>9, <2>10
<1> QED
  BY <1>3, <1>5, <1>6

\* What the others leave as it is.
LEMMA QueryKeepsRows ==
    ASSUME NEW r \in Request, QueryStep(r)
    PROVE  /\ UNCHANGED <<rows, status, createdAt>>
           /\ UNCHANGED steady \/ AskForPages(r)
BY DEF QueryStep, AskForPages, CountRows, ListRows, FindOne, PublicFindOne, FindPlate, ReadPlate,
       ReadLatest, ReadViews, queryVars, tables

LEMMA OtherReadsKeepPages ==
    ASSUME Shape, NEW r \in Request, ReadSound(r), PagesSound(r),
           QueryStep(r) \/ DashboardStep(r), ~(AskForPages(r) \/ CountRows(r) \/ ListRows(r))
    PROVE  PagesSound(r)'
<1> USE DEF Shape, Keeps, Goto, Ends, Asks, ReadSound, ReadShape
<1> SUFFICES op'[r] # "pages" /\ pc'[r] \notin {"countingRows", "listingRows"}
  BY DEF PagesSound
<1>1. CASE FindOne(r) \/ PublicFindOne(r) \/ FindPlate(r) \/ ReadPlate(r)
  BY <1>1 DEF FindOne, PublicFindOne, FindPlate, ReadPlate
<1>2. CASE ReadLatest(r) \/ ReadViews(r)
  BY <1>2 DEF ReadLatest, ReadViews
<1>3. CASE ReadCities(r) \/ CountTotal(r) \/ CountBranch(r) \/ CountPreviousTotal(r)
  BY <1>3 DEF ReadCities, CountTotal, CountBranch, CountPreviousTotal
<1>4. CASE AskCounters(r) \/ AskTrend(r)
  BY <1>4 DEF AskCounters, AskTrend
<1>5. CASE CountPeriod(r)
  <2> DEFINE l(x) == IF memo[r].todo = {x} THEN "answered" ELSE "countingPeriods"
  <2>1. \A x : l(x) \in {"answered", "countingPeriods"}
    OBVIOUS
  <2>2. op[r] = "counters" /\ UNCHANGED op /\ \E x : pc' = [pc EXCEPT ![r] = l(x)]
    BY <1>5 DEF CountPeriod
  <2> HIDE DEF l
  <2> QED
    BY <2>1, <2>2
<1> QED
  BY <1>1, <1>2, <1>3, <1>4, <1>5 DEF QueryStep, DashboardStep

LEMMA StepKeepsPages ==
    ASSUME Base, RowsInv, ReadsInv, PagesInv, [BackendNext]_backendVars
    PROVE  PagesInv'
<1>1. CASE Quiet /\ Watched
  <2>1. UNCHANGED <<op, createdAt>> /\ (Watch \/ UNCHANGED <<rows, status>>)
        /\ (~Watch => UNCHANGED steady)
    BY <1>1 DEF Quiet, Watched
  <2>2. DOMAIN steady' = Request
    BY <2>1 DEF Watch, PagesInv
  <2>3. ASSUME NEW r \in Request
        PROVE  PagesSound(r)'
    <3>1. CASE pc'[r] \in ReadLabels
      BY <1>1, <2>1, <3>1, WalkStays DEF Quiet, PagesInv
    <3>2. CASE pc'[r] \notin ReadLabels
      BY <3>2 DEF PagesSound, ReadLabels
    <3> QED
      BY <3>1, <3>2
  <2> QED
    BY <2>1, <2>2, <2>3 DEF PagesInv
<1>2. ASSUME NEW r \in Request, QueryStep(r) \/ DashboardStep(r), UNCHANGED op, Others(r)
      PROVE  PagesInv'
  <2>1. /\ UNCHANGED <<rows, status, createdAt>>
        /\ \A q \in Request \ {r} : steady'[q] = steady[q]
        /\ DOMAIN steady' = Request
    <3>1. CASE QueryStep(r)
      BY <3>1, QueryKeepsRows DEF AskForPages, PagesInv
    <3>2. CASE DashboardStep(r)
      BY <3>2, DashboardKeepsRows DEF tables, queryVars, PagesInv
    <3> QED
      BY <1>2, <3>1, <3>2
  <2>2. ASSUME NEW q \in Request \ {r}
        PROVE  PagesSound(q)'
    BY <1>2, <2>1, <2>2, WalkStays DEF Others, PagesInv
  <2>3. PagesSound(r)'
    BY <1>2, WalkKeepsPages, OtherReadsKeepPages DEF Base, NumbersInv, ReadsInv, PagesInv
  <2> QED
    BY <2>1, <2>2, <2>3 DEF PagesInv
<1> QED
  BY <1>1, <1>2, StepsAndReads

LEMMA PagesInvInductive == BackendSpec => []PagesInv
<1>1. BackendInit => PagesInv
  BY DEF BackendInit, DashboardInit, QueriesInit, PhotosInit, CreationInit, PagesInv, PagesSound
<1>2. NumbersInv /\ FilesInv /\ RowsInv /\ ReadsInv /\ PagesInv /\ [BackendNext]_backendVars => PagesInv'
  BY StepKeepsPages DEF Base
<1> QED
  BY <1>1, <1>2, NumbersInvInductive, FilesInvInductive, ReadsInvInductive, PTL DEF BackendSpec

\* findAll: a walk to the last page has met every row that was in the list all
\* the time, for any number of rows and any size of page.
THEOREM WalksMissNothing == BackendSpec => []PagesMissNothing
<1>1. PagesInv => PagesMissNothing
  BY DEF PagesInv, PagesSound, PagesMissNothing
<1> QED
  BY <1>1, PagesInvInductive, PTL

-----------------------------------------------------------------------------
(* The periods of the order trend                                          *)

\* In a finite set of which each element x has the elements F[x] beyond it,
\* there is one with none beyond it.
LEMMA NothingBeyond ==
    ASSUME NEW S, IsFiniteSet(S), S # {}, NEW F \in [S -> SUBSET S],
           \A x \in S : x \notin F[x] /\ \A y \in F[x] : F[y] \subseteq F[x]
    PROVE  \E x \in S : F[x] = {}
<1> DEFINE T == {F[x] : x \in S}
<1>1. T \subseteq FiniteSubsetsOf(S) /\ T # {}
  <2>1. T \subseteq SUBSET S
    OBVIOUS
  <2>2. T # {}
    OBVIOUS
  <2> HIDE DEF T
  <2> QED
    BY <2>1, <2>2, FS_FiniteSubsetsOfFinite
<1>2. \E t \in T : \A u \in T : <<u, t>> \notin StrictSubsetOrdering(S)
  <2> HIDE DEF T
  <2> QED
    BY <1>1, FS_StrictSubsetOrderingWellFounded, WFMin
<1>3. PICK x \in S : \A y \in S : <<F[y], F[x]>> \notin StrictSubsetOrdering(S)
  BY <1>2
<1>4. ASSUME NEW y \in F[x] PROVE FALSE
  <2>1. y \in S /\ F[y] \subseteq F[x] /\ y \notin F[y] /\ F[x] \in SUBSET S /\ F[y] \in SUBSET S
    OBVIOUS
  <2>2. F[y] # F[x]
    BY <1>4, <2>1
  <2>3. <<F[y], F[x]>> \in StrictSubsetOrdering(S)
    BY <2>1, <2>2 DEF StrictSubsetOrdering
  <2> QED
    BY <1>3, <2>1, <2>3
<1> QED
  BY <1>4

\* Every day with a first day before it is in a month, and that month ends if
\* there is another.
LEMMA MonthIsThere ==
    ASSUME NEW t \in Int, NEW tz \in Int, NEW day \in Int, day = (t + tz) \div 24,
           \E d \in FirstDays : d <= day
    PROVE  /\ MonthOf(t, tz) \in FirstDays
           /\ MonthOf(t, tz) <= day
           /\ \A e \in FirstDays : e <= day => e <= MonthOf(t, tz)
<1> DEFINE S == {d \in FirstDays : d <= day}
           F == [x \in S |-> {y \in S : x < y}]
<1>1. S \subseteq Int /\ S # {} /\ IsFiniteSet(S)
  <2>1. S \subseteq FirstDays /\ S # {}
    OBVIOUS
  <2> HIDE DEF S
  <2> QED
    BY <2>1, PeriodsAssumption, FS_Subset
<1>2. \E x \in S : F[x] = {}
  <2>1. F \in [S -> SUBSET S]
    OBVIOUS
  <2>2. \A x \in S : x \notin F[x] /\ \A y \in F[x] : F[y] \subseteq F[x]
    <3>1. \A x \in S : x \in Int
      BY <1>1
    <3> HIDE DEF S
    <3>2. \A x \in S : x \notin F[x]
      BY <3>1
    <3>3. ASSUME NEW x \in S, NEW y \in F[x] PROVE F[y] \subseteq F[x]
      <4>1. y \in S /\ F[y] = {z \in S : y < z} /\ F[x] = {z \in S : x < z} /\ x < y
        OBVIOUS
      <4> QED
        BY <3>1, <4>1
    <3> QED
      BY <3>2, <3>3
  <2> HIDE DEF F, S
  <2> QED
    BY <1>1, <2>1, <2>2, NothingBeyond
<1>3. PICK x \in S : \A y \in S : ~(x < y)
  BY <1>2
<1>4. x \in FirstDays /\ x <= day /\ \A e \in FirstDays : e <= day => e <= x
  BY <1>1, <1>3
<1> QED
  BY <1>4 DEF MonthOf

LEMMA NextMonthIsThere ==
    ASSUME NEW d \in FirstDays, \E e \in FirstDays : e > d
    PROVE  /\ NextMonth(d) \in FirstDays
           /\ NextMonth(d) > d
           /\ \A e \in FirstDays : e > d => NextMonth(d) <= e
<1> DEFINE S == {e \in FirstDays : e > d}
           F == [x \in S |-> {y \in S : x > y}]
<1>1. S \subseteq Int /\ S # {} /\ IsFiniteSet(S)
  <2>1. S \subseteq FirstDays /\ S # {}
    OBVIOUS
  <2> HIDE DEF S
  <2> QED
    BY <2>1, PeriodsAssumption, FS_Subset
<1>2. \E x \in S : F[x] = {}
  <2>1. F \in [S -> SUBSET S]
    OBVIOUS
  <2>2. \A x \in S : x \notin F[x] /\ \A y \in F[x] : F[y] \subseteq F[x]
    <3>1. \A x \in S : x \in Int
      BY <1>1
    <3> HIDE DEF S
    <3>2. \A x \in S : x \notin F[x]
      BY <3>1
    <3>3. ASSUME NEW x \in S, NEW y \in F[x] PROVE F[y] \subseteq F[x]
      <4>1. y \in S /\ F[y] = {z \in S : y > z} /\ F[x] = {z \in S : x > z} /\ x > y
        OBVIOUS
      <4> QED
        BY <3>1, <4>1
    <3> QED
      BY <3>2, <3>3
  <2> HIDE DEF F, S
  <2> QED
    BY <1>1, <2>1, <2>2, NothingBeyond
<1>3. PICK x \in S : \A y \in S : ~(x > y)
  BY <1>2
<1>4. x \in FirstDays /\ x > d /\ \A e \in FirstDays : e > d => x <= e
  BY <1>1, <1>3
<1> QED
  BY <1>4 DEF NextMonth

-----------------------------------------------------------------------------
\* A range is made of whole days of the viewer's: days a to b - 1.
Days(a, b, tz) == Span(24 * a - tz, 24 * b - tz)

\* The first day of the range of a request, and the day after its last.
UsedFirst(S, tz, srv) == (24 * S - srv + tz) \div 24
UsedEnd(E, tz, srv) == (24 * (E + 1) - srv - 1 + tz) \div 24 + 1

LEMMA UsedIsDays ==
    ASSUME NEW S \in Int, NEW E \in Int, NEW tz \in Int, NEW srv \in Int
    PROVE  UsedRange(S, E, tz, srv) = Days(UsedFirst(S, tz, srv), UsedEnd(E, tz, srv), tz)
BY DEF UsedRange, StartOfDay, Days, Span, UsedFirst, UsedEnd

\* They are the days asked for; from a server behind the viewer the range may
\* end one day late.
LEMMA UsedDays ==
    ASSUME NEW S \in Int, NEW E \in Int, S <= E, NEW tz \in Int, NEW srv \in Int
    PROVE  /\ UsedFirst(S, tz, srv) \in Int
           /\ UsedEnd(E, tz, srv) \in Int
           /\ UsedFirst(S, tz, srv) < UsedEnd(E, tz, srv)
           /\ tz = srv => UsedFirst(S, tz, srv) = S /\ UsedEnd(E, tz, srv) = E + 1
           /\ srv <= tz /\ tz - srv < 24 =>
                  UsedFirst(S, tz, srv) = S /\ UsedEnd(E, tz, srv) <= E + 2
<1> DEFINE a == UsedFirst(S, tz, srv)
           b == UsedEnd(E, tz, srv)
<1>1. a \in Int /\ b \in Int /\ a < b
  BY DEF UsedFirst, UsedEnd
<1>2. tz = srv => a = S /\ b = E + 1
  BY DEF UsedFirst, UsedEnd
<1>3. srv <= tz /\ tz - srv < 24 => a = S /\ b <= E + 2
  BY DEF UsedFirst, UsedEnd
<1> QED
  BY <1>1, <1>2, <1>3

\* Daily periods are the days of the range and perhaps the one after it.
LEMMA DailyOnce ==
    ASSUME NEW a \in Int, NEW b \in Int, a < b, NEW tz \in Int, NEW srv \in Int,
           NEW t \in (24 * a - tz)..(24 * b - tz - 1),
           Granularity(Days(a, b, tz)) = "day"
    PROVE  Cardinality(CountedIn(t, Days(a, b, tz), tz, srv)) = 1
<1> DEFINE s == Days(a, b, tz)
           k == (t + tz) \div 24 - a
           p(n) == Span(24 * (a + n) - tz, 24 * (a + n) - tz + 24)
<1>1. s.from = 24 * a - tz /\ s.to = 24 * b - tz /\ DaysOf(s) = b - a
  BY DEF Days, Span, DaysOf
<1>2. \A n \in Int : StartOfDay(s.from + 24 * n, tz) = 24 * (a + n) - tz
  BY <1>1 DEF StartOfDay
<1>3. k \in 0..(DaysOf(s) + 1) /\ s.from + 24 * k < s.to
  BY <1>1
<1>4. p(k) \in DailyPeriods(s, tz, srv)
  BY <1>2, <1>3 DEF DailyPeriods
<1>5. \A n \in Int : Within(t, p(n)) <=> n = k
  BY DEF Within, Span
<1>6. \A x \in DailyPeriods(s, tz, srv) : \E n \in Int : x = p(n)
  <2>1. DaysOf(s) \in Int
    BY <1>1
  <2> QED
    BY <1>2, <2>1 DEF DailyPeriods
<1>7. {x \in DailyPeriods(s, tz, srv) : Within(t, x)} = {p(k)}
  <2>1. k \in Int
    OBVIOUS
  <2> HIDE DEF p, k, s
  <2> QED
    BY <1>4, <1>5, <1>6, <2>1
<1> QED
  BY <1>7, FS_Singleton DEF CountedIn, Periods

\* Hourly periods: the key under which a period looks itself up is the bucket
\* of its two hours, seven hours ahead of UTC.
LEMMA HourlyOnce ==
    ASSUME NEW a \in Int, NEW b \in Int, NEW srv,
           NEW t \in (24 * a - 7)..(24 * b - 7 - 1),
           Granularity(Days(a, b, 7)) = "hour"
    PROVE  Cardinality(CountedIn(t, Days(a, b, 7), 7, srv)) = 1
<1> DEFINE s == Days(a, b, 7)
           k == (t + 7 - 24 * a) \div 2
           p(n) == Span(24 * a - 7 + 2 * n, 24 * a - 7 + 2 * n + 2)
<1>0. b = a + 1
  BY DEF Granularity, DaysOf, Days, Span
<1>1. s.from = 24 * a - 7 /\ Within(t, s) /\ StartOfDay(s.from, 7) = 24 * a - 7
  BY DEF Days, Span, Within, StartOfDay
<1>2. HourlyPeriods(s, 7) = {p(n) : n \in 0..11}
  BY <1>1 DEF HourlyPeriods
<1>3. k \in 0..11
  BY <1>0
<1>4. \A n \in 0..11 : Bucket(t, 7) = LookupKey(p(n)) <=> n = k
  BY DEF Bucket, LookupKey, Span
<1>5. {x \in HourlyPeriods(s, 7) : Within(t, s) /\ Bucket(t, 7) = LookupKey(x)} = {p(k)}
  <2> HIDE DEF p, k, s
  <2> QED
    BY <1>1, <1>2, <1>3, <1>4
<1> QED
  BY <1>5, FS_Singleton DEF CountedIn

\* Monthly periods, for a viewer less than a day ahead of the server.
LEMMA MonthlyOnce ==
    ASSUME NEW a \in Int, NEW b \in Int, a < b, NEW tz \in Int, NEW srv \in Int,
           srv <= tz, tz - srv < 24,
           NEW t \in (24 * a - tz)..(24 * b - tz - 1),
           \E d \in FirstDays : d < a,
           \E e \in FirstDays : b <= e,
           Granularity(Days(a, b, tz)) = "month"
    PROVE  Cardinality(CountedIn(t, Days(a, b, tz), tz, srv)) = 1
<1> DEFINE s == Days(a, b, tz)
           p(d) == Span(24 * d - tz, 24 * NextMonth(d) - tz)
           Looped(e) == \/ 24 * e - srv < s.to
                        \/ e = MonthOf(s.to - 1, srv)
<1>1. s.from = 24 * a - tz /\ s.to = 24 * b - tz
  BY DEF Days, Span
<1>2. PICK day \in Int : /\ day = (t + tz) \div 24 /\ a <= day /\ day < b
                        /\ 24 * day <= t + tz /\ t + tz < 24 * day + 24
  OBVIOUS
<1>3. (\A d \in FirstDays : d \in Int) /\ \E d \in FirstDays : d <= day
  BY <1>2, PeriodsAssumption
<1>4. PICK m \in FirstDays : /\ m = MonthOf(t, tz) /\ m <= day
                            /\ \A e \in FirstDays : e <= day => e <= m
  <2>1. t \in Int
    OBVIOUS
  <2> QED
    BY <1>2, <1>3, <2>1, MonthIsThere
<1>5. NextMonth(m) \in FirstDays /\ NextMonth(m) > day
  <2>1. \E e \in FirstDays : e > m
    BY <1>2, <1>3, <1>4
  <2>2. NextMonth(m) \in FirstDays /\ NextMonth(m) > m
    BY <2>1, NextMonthIsThere
  <2>3. ~(NextMonth(m) <= day)
    BY <1>3, <1>4, <2>2
  <2> QED
    BY <1>3, <2>2, <2>3
<1>6. ASSUME NEW d \in FirstDays PROVE MonthOf(24 * d - srv, tz) = d
  <2> DEFINE u == 24 * d - srv
  <2>1. d \in Int /\ u \in Int /\ d = (u + tz) \div 24
    BY <1>3
  <2>2. (\E e \in FirstDays : e <= d) /\ d <= d
    BY <2>1
  <2> HIDE DEF u
  <2>3. MonthOf(u, tz) \in FirstDays /\ MonthOf(u, tz) <= d /\ d <= MonthOf(u, tz)
    BY <2>1, <2>2, MonthIsThere
  <2>4. MonthOf(u, tz) = d
    BY <1>3, <2>3
  <2> QED
    BY <2>4 DEF u
<1>7. MonthlyPeriods(s, tz, srv) =
          {p(d) : d \in {e \in FirstDays : e >= MonthOf(s.from, srv) /\ Looped(e)}}
  BY <1>6 DEF MonthlyPeriods
<1>8. m >= MonthOf(s.from, srv) /\ Looped(m)
  <2>1. PICK f \in Int : /\ f = (s.from + srv) \div 24 /\ a - 1 <= f /\ f <= day
    BY <1>1, <1>2
  <2>2. \E e \in FirstDays : e <= f
    BY <1>3, <2>1
  <2>3. MonthOf(s.from, srv) \in FirstDays /\ MonthOf(s.from, srv) <= f
    BY <1>1, <2>1, <2>2, MonthIsThere
  <2>4. MonthOf(s.from, srv) <= day
    BY <1>3, <2>1, <2>3
  <2>5. MonthOf(s.from, srv) <= m
    BY <1>4, <2>3, <2>4
  <2>6. 24 * m - srv < s.to
    BY <1>1, <1>2, <1>3, <1>4
  <2> QED
    BY <1>3, <2>3, <2>5, <2>6
<1>9. Within(t, p(m))
  <2>1. m \in Int /\ NextMonth(m) \in Int
    BY <1>3, <1>5
  <2>2. 24 * m - tz <= t /\ t < 24 * NextMonth(m) - tz
    BY <1>2, <1>4, <1>5, <2>1
  <2> QED
    BY <2>2 DEF Within, Span
<1>10. ASSUME NEW d \in FirstDays, Within(t, p(d)), d # m PROVE FALSE
  <2>1. d \in Int /\ m \in Int /\ 24 * d - tz <= t /\ t < 24 * NextMonth(d) - tz
    BY <1>3, <1>10 DEF Within, Span
  <2>2. d <= day
    BY <1>2, <2>1
  <2>3. d < m
    BY <1>4, <1>10, <2>1, <2>2
  <2>4. NextMonth(d) \in FirstDays /\ NextMonth(d) <= m
    BY <2>3, NextMonthIsThere
  <2>5. NextMonth(d) \in Int /\ m <= day
    BY <1>3, <1>4, <2>4
  <2> QED
    BY <1>2, <2>1, <2>4, <2>5
<1>11. {x \in MonthlyPeriods(s, tz, srv) : Within(t, x)} = {p(m)}
  <2> HIDE DEF p, s, Looped
  <2> QED
    BY <1>7, <1>8, <1>9, <1>10
<1> QED
  BY <1>11, FS_Singleton DEF CountedIn, Periods

\* What one request's trend promises follows from the dates asked for.
LEMMA CountedOnce ==
    ASSUME NEW S \in Calendar, NEW E \in Calendar, S <= E,
           NEW tz \in Timezones, NEW srv \in ServerOffsets
    PROVE  LET used == UsedRange(S, E, tz, srv)
           IN /\ tz = srv => used = MeantRange(S, E, tz)
              /\ \/ Granularity(used) = "hour" /\ tz # 7
                 \/ Granularity(used) = "month" /\ tz < srv
                 \/ \A t \in used.from..(used.to - 1) :
                        Cardinality(CountedIn(t, used, tz, srv)) = 1
<1> DEFINE used == UsedRange(S, E, tz, srv)
           a == UsedFirst(S, tz, srv)
           b == UsedEnd(E, tz, srv)
<1>1. S \in Int /\ E \in Int /\ tz \in Int /\ srv \in Int /\ tz - srv < 24
  BY TrendAssumption
<1>2. /\ a \in Int /\ b \in Int /\ a < b
      /\ used = Days(a, b, tz)
      /\ tz = srv => a = S /\ b = E + 1
      /\ srv <= tz => a = S /\ b <= E + 2
  <2>1. a \in Int /\ b \in Int /\ a < b
    BY <1>1, UsedDays
  <2>2. used = Days(a, b, tz)
    BY <1>1, UsedIsDays
  <2>3. tz = srv => a = S /\ b = E + 1
    BY <1>1, UsedDays
  <2>4. srv <= tz => a = S /\ b <= E + 2
    BY <1>1, UsedDays
  <2> QED
    BY <2>1, <2>2, <2>3, <2>4
<1> HIDE DEF used, a, b
<1>3. used.from = 24 * a - tz /\ used.to = 24 * b - tz
  BY <1>2 DEF Days, Span
<1>4. tz = srv => used = MeantRange(S, E, tz)
  BY <1>2 DEF Days, MeantRange
<1>5. ASSUME NEW t \in used.from..(used.to - 1),
             ~(Granularity(used) = "hour" /\ tz # 7), ~(Granularity(used) = "month" /\ tz < srv)
      PROVE  Cardinality(CountedIn(t, used, tz, srv)) = 1
  <2>1. t \in (24 * a - tz)..(24 * b - tz - 1)
    BY <1>3
  <2>2. CASE Granularity(used) = "hour"
    BY <1>2, <1>5, <2>1, <2>2, HourlyOnce
  <2>3. CASE Granularity(used) = "day"
    <3>1. Granularity(Days(a, b, tz)) = "day"
      BY <1>2, <2>3
    <3>2. Cardinality(CountedIn(t, Days(a, b, tz), tz, srv)) = 1
      BY <1>1, <1>2, <2>1, <3>1, DailyOnce
    <3> QED
      BY <1>2, <3>2
  <2>4. CASE Granularity(used) = "month"
    <3>1. srv <= tz /\ a = S /\ b <= E + 2
      BY <1>1, <1>2, <1>5, <2>4
    <3>2. (\E d \in FirstDays : d < a) /\ (\E e \in FirstDays : b <= e)
      BY <1>1, <1>2, <3>1, TrendAssumption, PeriodsAssumption
    <3> QED
      BY <1>1, <1>2, <2>1, <2>4, <3>1, <3>2, MonthlyOnce
  <2> QED
    BY <2>2, <2>3, <2>4 DEF Granularity
<1> QED
  BY <1>4, <1>5 DEF used

\* The order trend counts each inspection of the range in one period, for any
\* days, timezones less than a day ahead of the server, and calendar.
THEOREM TrendIsRight == BackendSpec => []TrendCountsOnce
<1>1. ReadsInv => TrendCountsOnce
  <2> SUFFICES ASSUME ReadsInv, NEW r \in Request, Answers(r, "trend")
               PROVE  LET tz == memo[r].tz
                          srv == memo[r].srv
                          used == UsedRange(memo[r].first, memo[r].last, tz, srv)
                      IN /\ tz = srv => used = MeantRange(memo[r].first, memo[r].last, tz)
                         /\ \/ Granularity(used) = "hour" /\ tz # 7
                            \/ Granularity(used) = "month" /\ tz < srv
                            \/ \A t \in used.from..(used.to - 1) :
                                   Cardinality(CountedIn(t, used, tz, srv)) = 1
    BY DEF TrendCountsOnce
  <2>1. /\ memo[r].first \in Calendar /\ memo[r].last \in Calendar
        /\ memo[r].first <= memo[r].last
        /\ memo[r].tz \in Timezones /\ memo[r].srv \in ServerOffsets
    BY DEF ReadsInv, ReadSound, TrendAsked, TrendMemo
  <2> QED
    BY <2>1, CountedOnce
<1> QED
  BY <1>1, ReadsInvInductive, PTL
=============================================================================
