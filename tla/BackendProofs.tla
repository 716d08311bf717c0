---------------------------- MODULE BackendProofs ----------------------------
(***************************************************************************)
(* Proofs about Backend: whatever requests interleave, the numbers of the  *)
(* inspections created for a branch code and day have no gap and no        *)
(* repetition (NumbersDense), the photos that the API lists have their     *)
(* files (RecordHasFile), and no file is lost track of (FilesAccounted).   *)
(*                                                                         *)
(* Only the handlers of InspectionCreation and InspectionPhotos touch what *)
(* these properties are about.  The steps of all the others are shown to   *)
(* leave it alone (Numbering and Serving say what has to stay), and each   *)
(* inductive invariant is shown to survive its own module's steps and what *)
(* leaves it alone.                                                        *)
(***************************************************************************)
EXTENDS Backend, TLAPS

Shape == DOMAIN pc = Request /\ DOMAIN memo = Request

-----------------------------------------------------------------------------
(* The invariant of the numbers                                            *)

CreateLabels == {"readingBranch", "readyToInsert", "inserting"}

\* What a handler keeps between its steps has the type that they rely on.
CreateMemos ==
    \A r \in Request :
        /\ pc[r] \in CreateLabels => memo[r] \in CreateMemo
        /\ pc[r] \in {"readyToInsert", "inserting"} => memo[r].code \in Code
        /\ pc[r] = "toggling" => memo[r].isActive \in BOOLEAN

NumbersInv ==
    /\ Shape
    /\ branches \in [BranchId -> BranchRow \cup {None}]
    /\ sequence \in [Key -> Nat]
    /\ DOMAIN rows = InspectionId
    /\ issued \subseteq (Key \X Nat) \X Request
    /\ CreateMemos
    /\ NumbersDense

\* What leaves the numbers alone.
Numbering ==
    /\ Shape'
    /\ UNCHANGED <<branches, sequence, issued>>
    /\ DOMAIN rows' = InspectionId
    /\ \A i \in InspectionId : rows'[i] # None =>
           rows[i] # None /\ rows'[i].pretty_id = rows[i].pretty_id
    /\ \A q \in Request : pc'[q] \in CreateLabels \cup {"toggling"} =>
           pc'[q] = pc[q] /\ memo'[q] = memo[q]

-----------------------------------------------------------------------------
(* The invariant of the files                                              *)

\* A request at one of these has not given a row any of its files.
Early == {"arriving", "authenticating", "loading", "idle",
          "uploaded", "recording", "replacing", "updating"}

\* A file that was some photo's, or is in the hand of whoever deletes it, was
\* not uploaded by a request that is still to give it to a row.
Used(f) == f \in File /\ (f[1] \in Request => pc[f[1]] \notin Early)

OwnFiles(r) == {r} \X (1..BatchSize)

\* Each photo has a path of its own, and its file, unless its inspection is
\* being deleted.
PhotoRows ==
    /\ photos \in [PhotoId -> Photo \cup {None}]
    /\ \A p \in Photos : Used(photos[p].path)
    /\ \A p, q \in Photos : photos[p].path = photos[q].path => p = q

\* Files to be given to a row are on disk and the request's own.
Givers ==
    \A r \in Request : pc[r] \in {"uploaded", "recording", "replacing", "updating"} =>
        memo[r].hand \subseteq files \cap OwnFiles(r)

\* A path read from a photo is no other photo's.
Readers ==
    \A r \in Request : pc[r] \in {"updating", "deletingPhoto"} =>
        /\ Used(memo[r].old)
        /\ \A p \in Photos : photos[p].path = memo[r].old => p = memo[r].photo

\* A file to be deleted is no photo's, or its inspection's deletion has begun.
Removers ==
    \A r \in Request : pc[r] \in {"unlinking", "unlinkingAll"} =>
        \A f \in memo[r].hand :
            /\ Used(f)
            /\ \A p \in Photos : photos[p].path = f => photos[p].inspection \in condemned

PhotoMemos ==
    \A r \in Request : AtPhotoStep(r) => memo[r] \in PhotoMemo

FilesInv ==
    /\ Shape
    /\ PhotoMemos
    /\ PhotoRows
    /\ Givers
    /\ Readers
    /\ Removers
    /\ RecordHasFile

\* What leaves the files alone.
Serving ==
    /\ Shape'
    /\ UNCHANGED <<photos, files, condemned>>
    /\ \A q \in Request :
           /\ pc'[q] \in Early => pc[q] \in Early
           /\ pc'[q] \in PhotoLabels => pc'[q] = pc[q] /\ memo'[q] = memo[q]

-----------------------------------------------------------------------------
(* The invariant of the files that no row has                              *)

\* A row is named by a file of the request that made it; a handler that
\* replaces a file has just that one in hand, one that deletes a photo none.
Hands ==
    /\ \A p \in Photos : Used(p)
    /\ \A r \in Request : pc[r] \in {"replacing", "updating"} => \E f \in File : memo[r].hand = {f}
    /\ \A r \in Request : pc[r] = "deletingPhoto" => memo[r].hand = {}

AccountedInv == Hands /\ FilesAccounted

\* What leaves those files alone.
Holding ==
    /\ UNCHANGED leaked
    /\ \A q \in Request : pc[q] \in PhotoLabels => pc'[q] = pc[q] /\ memo'[q] = memo[q]

Aside == Numbering /\ Serving /\ Holding

-----------------------------------------------------------------------------
(* Steps that leave both alone                                             *)

\* One handler moves to a label of its own and keeps something there.
LEMMA HandlerMoves ==
    ASSUME NEW r \in Request, Shape, DOMAIN rows = InspectionId,
           UNCHANGED <<tables, photos, files, condemned, leaked>>,
           \A q \in Request \ {r} : pc'[q] = pc[q] /\ memo'[q] = memo[q],
           DOMAIN pc' = Request, DOMAIN memo' = Request, pc[r] \notin PhotoLabels,
           pc'[r] \notin CreateLabels \cup PhotoLabels \cup {"toggling"},
           pc'[r] \in Early => pc[r] \in Early
    PROVE  Aside
BY DEF Aside, Numbering, Serving, Holding, Shape, tables

LEMMA QueriesAside ==
    ASSUME NEW r \in Request, Shape, DOMAIN rows = InspectionId, QueryStep(r)
    PROVE  Aside
<1>1. CASE AskForPages(r)
  BY <1>1, HandlerMoves DEF AskForPages, Asks, Keeps, Goto, Shape, photoVars, CreateLabels, PhotoLabels, Early
<1>2. CASE CountRows(r)
  BY <1>2, HandlerMoves DEF CountRows, Keeps, Goto, Shape, photoVars, CreateLabels, PhotoLabels, Early
<1>3. CASE ListRows(r)
  BY <1>3, HandlerMoves DEF ListRows, Keeps, Goto, Shape, photoVars, CreateLabels, PhotoLabels, Early
<1>4. CASE FindOne(r) \/ PublicFindOne(r)
  BY <1>4, HandlerMoves DEF FindOne, PublicFindOne, Asks, Ends, Keeps, Goto, Shape, photoVars, CreateLabels, PhotoLabels, Early
<1>5. CASE FindPlate(r) \/ ReadPlate(r)
  BY <1>5, HandlerMoves DEF FindPlate, ReadPlate, Asks, Ends, Keeps, Goto, Shape, photoVars, CreateLabels, PhotoLabels, Early
<1>6. CASE ReadLatest(r) \/ ReadViews(r)
  BY <1>6, HandlerMoves DEF ReadLatest, ReadViews, Asks, Ends, Keeps, Goto, Shape, photoVars, CreateLabels, PhotoLabels, Early
<1> QED
  BY <1>1, <1>2, <1>3, <1>4, <1>5, <1>6 DEF QueryStep

LEMMA DashboardAside ==
    ASSUME NEW r \in Request, Shape, DOMAIN rows = InspectionId, DashboardStep(r)
    PROVE  Aside
<1>1. CASE ReadCities(r) \/ CountTotal(r)
  BY <1>1, HandlerMoves DEF ReadCities, CountTotal, Asks, Keeps, Goto, Shape, photoVars, CreateLabels, PhotoLabels, Early
<1>2. CASE CountBranch(r)
  BY <1>2, HandlerMoves DEF CountBranch, Keeps, Shape, photoVars, CreateLabels, PhotoLabels, Early
<1>3. CASE CountPreviousTotal(r)
  BY <1>3, HandlerMoves DEF CountPreviousTotal, Keeps, Goto, Shape, photoVars, CreateLabels, PhotoLabels, Early
<1>4. CASE AskCounters(r)
  BY <1>4, HandlerMoves DEF AskCounters, Asks, Keeps, Goto, Shape, photoVars, CreateLabels, PhotoLabels, Early
<1>5. CASE CountPeriod(r)
  BY <1>5, HandlerMoves DEF CountPeriod, Keeps, Goto, Shape, photoVars, CreateLabels, PhotoLabels, Early
<1>6. CASE AskTrend(r)
  BY <1>6, HandlerMoves DEF AskTrend, Asks, Keeps, Goto, Shape, photoVars, CreateLabels, PhotoLabels, Early
<1> QED
  BY <1>1, <1>2, <1>3, <1>4, <1>5, <1>6 DEF DashboardStep

LEMMA StatusAside ==
    ASSUME NEW r \in Request, Shape, DOMAIN rows = InspectionId, ChangeStatus(r)
    PROVE  Aside
<1>1. Serving /\ Holding
  BY DEF ChangeStatus, Asks, Ends, Keeps, Goto, Shape, photoVars, PhotoLabels, Early, Serving, Holding
<1>2. PICK i \in Inspections :
           \E b \in Connected(op[r], i) : rows' = [rows EXCEPT ![i].branch = b]
  BY DEF ChangeStatus
<1>3. /\ DOMAIN rows' = InspectionId
      /\ \A j \in InspectionId : rows'[j] # None =>
             rows[j] # None /\ rows'[j].pretty_id = rows[j].pretty_id
  BY <1>2 DEF Inspections
<1>4. /\ UNCHANGED <<branches, sequence, issued>>
      /\ \A q \in Request : pc'[q] \in CreateLabels \cup {"toggling"} =>
             pc'[q] = pc[q] /\ memo'[q] = memo[q]
  BY DEF ChangeStatus, Asks, Ends, Keeps, Goto, Shape, CreateLabels
<1> QED
  BY <1>1, <1>3, <1>4 DEF Aside, Numbering, Serving

\* updateRole notes the new role for other requests, none of which is at a
\* label of the other modules.
LEMMA WriteRoleAside ==
    ASSUME NEW r \in Request, Shape, DOMAIN rows = InspectionId, WriteRole(r),
           UNCHANGED photoVars
    PROVE  Aside
<1>1. ASSUME NEW q \in Request, pc'[q] \in CreateLabels \cup {"toggling"} \cup PhotoLabels
      PROVE  pc'[q] = pc[q] /\ memo'[q] = memo[q]
  BY <1>1 DEF WriteRole, Goto, Shape, Accepted, CreateLabels, PhotoLabels
<1>2. \A q \in Request : pc'[q] \in Early => pc[q] \in Early
  BY DEF WriteRole, Goto, Shape, Early
<1>3. DOMAIN pc' = Request /\ DOMAIN memo' = Request
  BY DEF WriteRole, Goto, Shape
<1>4. UNCHANGED <<tables, photos, files, condemned, leaked>>
  BY DEF WriteRole, photoVars
<1>5. \A q \in Request : pc[q] \in PhotoLabels => pc'[q] = pc[q] /\ memo'[q] = memo[q]
  BY DEF WriteRole, Goto, Shape, Accepted, PhotoLabels
<1> QED
  BY <1>1, <1>2, <1>3, <1>4, <1>5 DEF Aside, Numbering, Serving, Holding, Shape, tables

LEMMA AccountsAside ==
    ASSUME NEW r \in Request, Shape, DOMAIN rows = InspectionId, AccountStep(r),
           UNCHANGED photoVars
    PROVE  Aside
<1> USE DEF Keeps, Goto, Ends, Shape, photoVars, CreateLabels, PhotoLabels, Early
<1>1. CASE Arrive(r) \/ CheckBlacklist(r)
  BY <1>1, HandlerMoves DEF Arrive, CheckBlacklist
<1>2. CASE LoadUser(r)
  BY <1>2, HandlerMoves DEF LoadUser, Admits
<1>3. CASE AccountStepFails(r)
  BY <1>3, HandlerMoves DEF AccountStepFails, Refused
<1>4. CASE CheckAddress(r) \/ RegisterUser(r)
  BY <1>4, HandlerMoves DEF CheckAddress, RegisterUser, Asks
<1>5. CASE GoogleUpsert(r)
  BY <1>5, HandlerMoves DEF GoogleUpsert, Asks, SignsIn
<1>6. CASE LoginLocal(r) \/ LoginInspector(r)
  BY <1>6, HandlerMoves DEF LoginLocal, LoginInspector, Asks, SignsIn
<1>7. CASE Refresh(r) \/ RefreshTokens(r)
  BY <1>7, HandlerMoves DEF Refresh, RefreshTokens, Asks, SignsIn
<1>8. CASE StoreSession(r) \/ Logout(r)
  BY <1>8, HandlerMoves DEF StoreSession, Logout
<1>9. CASE CheckNewUser(r)
  BY <1>9, HandlerMoves DEF CheckNewUser
<1>10. CASE InsertUser(r)
  BY <1>10, HandlerMoves DEF InsertUser
<1>11. CASE FindTarget(r)
  BY <1>11, HandlerMoves DEF FindTarget
<1>12. CASE WriteInspector(r) \/ WritePin(r)
  BY <1>12, HandlerMoves DEF WriteInspector, WritePin
<1>13. CASE UpdateUser(r) \/ DeleteUser(r)
  BY <1>13, HandlerMoves DEF UpdateUser, DeleteUser
<1> QED
  BY <1>1, <1>2, <1>3, <1>4, <1>5, <1>6, <1>7, <1>8, <1>9, <1>10, <1>11, <1>12, <1>13,
     WriteRoleAside DEF AccountStep

-----------------------------------------------------------------------------
(* The numbers                                                             *)

LEMMA PhotosNumbering ==
    ASSUME NEW r \in Request, Shape, DOMAIN rows = InspectionId, PhotoStep(r)
    PROVE  Numbering
<1> USE DEF Keeps, Goto, Ends, Shape, CreateLabels, tables, Numbering
<1>1. CASE Upload(r) \/ InvalidFile(r) \/ RefuseUpload(r)
  BY <1>1 DEF Upload, InvalidFile, RefuseUpload, Asks
<1>2. CASE EnsureInspectionExists(r) \/ RecordPhotos(r) \/ RecordFails(r)
  BY <1>2 DEF EnsureInspectionExists, RecordPhotos, RecordFails
<1>3. CASE UploadReplacement(r) \/ FindPhoto(r) \/ ReplacePath(r)
  BY <1>3 DEF UploadReplacement, FindPhoto, ReplacePath, Asks
<1>4. CASE ReplaceFails(r) \/ UnlinkFile(r)
  BY <1>4 DEF ReplaceFails, UnlinkFile
<1>5. CASE ReadPath(r) \/ DeletePhotoRow(r) \/ DeletePhotoFails(r)
  BY <1>5 DEF ReadPath, DeletePhotoRow, DeletePhotoFails, Asks
<1>6. CASE ReadForDeletion(r)
  BY <1>6 DEF ReadForDeletion, Asks
<1>7. CASE UnlinkNext(r)
  BY <1>7 DEF UnlinkNext
<1>8. CASE CommitDeletion(r)
  BY <1>8 DEF CommitDeletion
<1>9. CASE DeletionFails(r)
  BY <1>9 DEF DeletionFails
<1> QED
  BY <1>1, <1>2, <1>3, <1>4, <1>5, <1>6, <1>7, <1>8, <1>9 DEF PhotoStep

LEMMA RestartNumbering ==
    ASSUME Shape, DOMAIN rows = InspectionId, Restart
    PROVE  Numbering
BY DEF Restart, InFlight, Shape, CreateLabels, tables, Numbering

LEMMA NumberingKeepsInv ==
    ASSUME NumbersInv, Numbering
    PROVE  NumbersInv'
<1> USE DEF NumbersInv, Numbering
<1>1. CreateMemos'
  BY DEF CreateMemos, CreateLabels
<1>2. NumbersDense'
  BY DEF NumbersDense, Inspections
<1> QED
  BY <1>1, <1>2 DEF Shape

\* The number drawn continues the row of numbers of its key.
LEMMA CommitKeepsDense ==
    ASSUME NumbersInv, NEW r \in Request, CommitCreate(r)
    PROVE  NumbersDense'
<1> DEFINE m == memo[r]
           k == KeyOf(m)
           n == m.seen
<1>1. /\ m \in CreateMemo /\ m.code \in Code
      /\ k \in Key /\ n \in Nat /\ sequence[k] = n
      /\ sequence' = [sequence EXCEPT ![k] = n + 1]
      /\ issued' = issued \cup {<<<<k, n + 1>>, r>>}
  BY DEF CommitCreate, NumbersInv, CreateMemos, CreateMemo, CreateLabels, KeyOf, Key, Pretty
<1> DEFINE Numbers(S, j) == {x[1][2] : x \in {y \in S : y[1][1] = j}}
<1>2. ASSUME NEW j \in Key
      PROVE  Numbers(issued', j) = 1..sequence'[j]
  <2>1. Numbers(issued, j) = 1..sequence[j] /\ sequence[j] \in Nat
    BY DEF NumbersInv, NumbersDense
  <2>2. CASE j # k
    <3>1. Numbers(issued', j) = Numbers(issued, j)
      BY <1>1, <2>2
    <3> QED
      BY <1>1, <2>1, <2>2, <3>1 DEF NumbersInv
  <2>3. CASE j = k
    <3>1. Numbers(issued', j) = Numbers(issued, j) \cup {n + 1}
      <4> DEFINE new == <<<<k, n + 1>>, r>>
      <4>1. {y \in issued' : y[1][1] = j} = {y \in issued : y[1][1] = j} \cup {new}
        BY <1>1, <2>3
      <4>2. new[1][2] = n + 1
        OBVIOUS
      <4> HIDE DEF new, n, k, m
      <4> QED
        BY <4>1, <4>2
    <3>2. sequence'[j] = n + 1 /\ 1..(n + 1) = (1..n) \cup {n + 1}
      BY <1>1, <2>3 DEF NumbersInv
    <3> QED
      BY <1>1, <2>1, <2>3, <3>1, <3>2
  <2> QED
    BY <2>2, <2>3
<1>3. ASSUME NEW x \in issued
      PROVE  x[1] # <<k, n + 1>>
  <2>1. CASE x[1][1] = k
    <3>1. x[1][2] \in 1..n
      BY <1>1, <2>1 DEF NumbersInv, NumbersDense
    <3> QED
      BY <1>1, <3>1
  <2> QED
    BY <2>1
<1>4. \A x, y \in issued' : x[1] = y[1] => x = y
  BY <1>1, <1>3 DEF NumbersInv, NumbersDense
<1>5. ASSUME NEW i \in Inspections' \ Old
      PROVE  <<rows'[i].pretty_id, i>> \in issued'
  <2>1. CASE i = r
    BY <1>1, <1>5, <2>1 DEF CommitCreate, NumbersInv, Pretty, Inspections, InspectionId
  <2>2. CASE i # r
    BY <1>1, <1>5, <2>2 DEF CommitCreate, NumbersInv, NumbersDense, Inspections, InspectionId
  <2> QED
    BY <2>1, <2>2
<1> QED
  BY <1>2, <1>4, <1>5 DEF NumbersDense

LEMMA CreationKeepsNumbers ==
    ASSUME NumbersInv, NEW r \in Request, CreationStep(r)
    PROVE  NumbersInv'
<1> USE DEF Keeps, Goto, Ends, Shape, tables, CreateLabels, NumbersInv, CreateMemos
<1>1. CASE ReadInspector(r) \/ ReadBranchFails(r) \/ AbortCreate(r) \/ ToggleFails(r)
  <2>1. CreateMemos'
    BY <1>1 DEF ReadInspector, ReadBranchFails, AbortCreate, ToggleFails, Asks, CreateMemo
  <2>2. UNCHANGED tables /\ Shape'
    BY <1>1 DEF ReadInspector, ReadBranchFails, AbortCreate, ToggleFails, Asks
  <2> QED
    BY <2>1, <2>2 DEF NumbersDense, Inspections
<1>2. CASE ReadBranch(r)
  <2>1. CreateMemos'
    BY <1>2 DEF ReadBranch, Branches, BranchRow, CreateMemo
  <2>2. UNCHANGED tables /\ Shape'
    BY <1>2 DEF ReadBranch
  <2> QED
    BY <2>1, <2>2 DEF NumbersDense, Inspections
<1>3. CASE BeginCreate(r)
  <2>1. CreateMemos'
    BY <1>3 DEF BeginCreate, KeyOf, Key, CreateMemo
  <2>2. UNCHANGED tables /\ Shape'
    BY <1>3 DEF BeginCreate
  <2> QED
    BY <2>1, <2>2 DEF NumbersDense, Inspections
<1>4. CASE CommitCreate(r)
  <2>1. CreateMemos' /\ Shape' /\ branches' = branches
    BY <1>4 DEF CommitCreate
  <2>2. KeyOf(memo[r]) \in Key /\ memo[r].seen \in Nat
    BY <1>4 DEF CommitCreate, CreateMemo, KeyOf, Key
  <2>3. /\ sequence' \in [Key -> Nat]
        /\ DOMAIN rows' = InspectionId
        /\ issued' \subseteq (Key \X Nat) \X Request
    BY <1>4, <2>2 DEF CommitCreate, Pretty
  <2> QED
    BY <1>4, <2>1, <2>3, CommitKeepsDense
<1>5. CASE CreateBranch(r) \/ UpdateBranch(r) \/ ToggleActive(r)
  <2>1. branches' \in [BranchId -> BranchRow \cup {None}]
    <3>1. CASE CreateBranch(r)
      BY <3>1 DEF CreateBranch, BranchId, BranchRow, Code
    <3>2. CASE UpdateBranch(r)
      BY <3>2 DEF UpdateBranch, Branches, BranchRow
    <3>3. CASE ToggleActive(r)
      BY <3>3 DEF ToggleActive, Branches, BranchRow
    <3> QED
      BY <1>5, <3>1, <3>2, <3>3
  <2>2. CreateMemos' /\ Shape' /\ UNCHANGED <<sequence, rows, issued>>
    BY <1>5 DEF CreateBranch, UpdateBranch, ToggleActive, Asks
  <2> QED
    BY <2>1, <2>2 DEF NumbersDense, Inspections
<1>6. CASE RemoveBranch(r)
  <2>1. CreateMemos' /\ Shape' /\ UNCHANGED <<sequence, issued>>
    BY <1>6 DEF RemoveBranch, Asks
  <2>2. branches' \in [BranchId -> BranchRow \cup {None}] /\ DOMAIN rows' = InspectionId
    BY <1>6 DEF RemoveBranch
  <2>3. ASSUME NEW i \in Inspections' \ Old
        PROVE  <<rows'[i].pretty_id, i>> \in issued'
    <3>1. i \in Inspections
      BY <1>6 DEF RemoveBranch, Inspections
    <3>2. <<rows[i].pretty_id, i>> \in issued
      BY <3>1 DEF NumbersDense
    <3>3. rows'[i].pretty_id = rows[i].pretty_id
      BY <1>6, <3>1 DEF RemoveBranch, Inspections
    <3> QED
      BY <2>1, <3>2, <3>3
  <2> QED
    BY <2>1, <2>2, <2>3 DEF NumbersDense
<1>7. CASE ReadActive(r)
  <2>1. CreateMemos'
    BY <1>7 DEF ReadActive, Asks, Branches, BranchRow
  <2>2. UNCHANGED tables /\ Shape'
    BY <1>7 DEF ReadActive
  <2> QED
    BY <2>1, <2>2 DEF NumbersDense, Inspections
<1> QED
  BY <1>1, <1>2, <1>3, <1>4, <1>5, <1>6, <1>7 DEF CreationStep

-----------------------------------------------------------------------------
(* The files                                                               *)

LEMMA CreationServing ==
    ASSUME NEW r \in Request, Shape, CreationStep(r), UNCHANGED photoVars
    PROVE  Serving
<1> USE DEF Keeps, Goto, Ends, Shape, Early, PhotoLabels, photoVars, Serving
<1>1. CASE ReadInspector(r) \/ ReadBranch(r) \/ ReadBranchFails(r)
  BY <1>1 DEF ReadInspector, ReadBranch, ReadBranchFails, Asks
<1>2. CASE BeginCreate(r) \/ CommitCreate(r) \/ AbortCreate(r)
  BY <1>2 DEF BeginCreate, CommitCreate, AbortCreate
<1>3. CASE CreateBranch(r) \/ UpdateBranch(r) \/ RemoveBranch(r)
  BY <1>3 DEF CreateBranch, UpdateBranch, RemoveBranch
<1>4. CASE ReadActive(r) \/ ToggleActive(r) \/ ToggleFails(r)
  BY <1>4 DEF ReadActive, ToggleActive, ToggleFails
<1> QED
  BY <1>1, <1>2, <1>3, <1>4 DEF CreationStep

LEMMA RestartServing ==
    ASSUME Shape, Restart
    PROVE  Serving
BY DEF Restart, InFlight, Shape, Early, PhotoLabels, Serving

LEMMA ServingKeepsInv ==
    ASSUME FilesInv, Serving
    PROVE  FilesInv'
<1> USE DEF FilesInv, Serving
<1>1. PhotoMemos'
  BY DEF PhotoMemos, AtPhotoStep
<1>2. PhotoRows'
  BY DEF PhotoRows, Used, Photos
<1>3. Givers'
  BY DEF Givers, PhotoLabels
<1>4. Readers'
  BY DEF Readers, Used, Photos, PhotoLabels
<1>5. Removers'
  BY DEF Removers, Used, Photos, PhotoLabels
<1>6. RecordHasFile'
  BY DEF RecordHasFile, Photos
<1> QED
  BY <1>1, <1>2, <1>3, <1>4, <1>5, <1>6

\* What its own steps leave of the other requests.
Others(r) ==
    /\ DOMAIN pc' = Request /\ DOMAIN memo' = Request
    /\ \A q \in Request \ {r} : pc'[q] = pc[q] /\ memo'[q] = memo[q]

LEMMA PhotoStepMovesOne ==
    ASSUME NEW r \in Request, Shape, PhotoStep(r)
    PROVE  Others(r)
<1> USE DEF Keeps, Goto, Ends, Shape, Others
<1>1. CASE Upload(r) \/ InvalidFile(r) \/ RefuseUpload(r)
  BY <1>1 DEF Upload, InvalidFile, RefuseUpload
<1>2. CASE EnsureInspectionExists(r) \/ RecordPhotos(r) \/ RecordFails(r)
  BY <1>2 DEF EnsureInspectionExists, RecordPhotos, RecordFails
<1>3. CASE UploadReplacement(r) \/ FindPhoto(r) \/ ReplacePath(r)
  BY <1>3 DEF UploadReplacement, FindPhoto, ReplacePath
<1>4. CASE ReplaceFails(r) \/ UnlinkFile(r)
  BY <1>4 DEF ReplaceFails, UnlinkFile
<1>5. CASE ReadPath(r) \/ DeletePhotoRow(r) \/ DeletePhotoFails(r)
  BY <1>5 DEF ReadPath, DeletePhotoRow, DeletePhotoFails
<1>6. CASE ReadForDeletion(r) \/ UnlinkNext(r) \/ CommitDeletion(r) \/ DeletionFails(r)
  BY <1>6 DEF ReadForDeletion, UnlinkNext, CommitDeletion, DeletionFails
<1> QED
  BY <1>1, <1>2, <1>3, <1>4, <1>5, <1>6 DEF PhotoStep

\* A request that ends keeps the invariant when rows and files stay.
LEMMA EndsKeepsFiles ==
    ASSUME FilesInv, NEW r \in Request, Others(r), pc'[r] \in {"rejected", "done"},
           UNCHANGED <<photos, files, condemned>>
    PROVE  FilesInv'
<1>1. Serving
  BY DEF Serving, Others, Shape, Early, PhotoLabels
<1> QED
  BY <1>1, ServingKeepsInv

\* The multipart parser has written new files.
LEMMA UploadKeepsFiles ==
    ASSUME FilesInv, NEW r \in Request, Others(r), Upload(r) \/ UploadReplacement(r)
    PROVE  FilesInv'
<1> USE DEF FilesInv, Others
<1>1. /\ UNCHANGED <<photos, condemned>> /\ files \subseteq files'
      /\ pc[r] = "idle" /\ pc'[r] \in {"uploaded", "replacing"}
  BY DEF Upload, UploadReplacement, Asks, Goto, Shape
<1>2. memo'[r] \in PhotoMemo /\ memo'[r].hand \subseteq files' \cap OwnFiles(r)
  <2>1. CASE Upload(r)
    <3> PICK i \in InspectionId, n \in 1..BatchSize :
               /\ files' = files \cup ({r} \X (1..n))
               /\ memo'[r] = Job(i, None, None, {r} \X (1..n))
      BY <2>1 DEF Upload, Keeps, Shape
    <3>1. {r} \X (1..n) \subseteq OwnFiles(r) /\ OwnFiles(r) \subseteq File
      BY BatchAssumption DEF OwnFiles, File, InspectionId
    <3> QED
      BY <3>1 DEF Job, PhotoMemo
  <2>2. CASE UploadReplacement(r)
    <3>1. <<r, 1>> \in OwnFiles(r) /\ OwnFiles(r) \subseteq File
      BY BatchAssumption DEF OwnFiles, File, InspectionId
    <3> QED
      BY <2>2, <3>1 DEF UploadReplacement, Keeps, Shape, Job, PhotoMemo
  <2> QED
    BY <2>1, <2>2
<1>3. PhotoMemos'
  BY <1>2 DEF PhotoMemos, AtPhotoStep
<1>4. PhotoRows'
  BY <1>1 DEF PhotoRows, Used, Photos, Early
<1>5. Givers'
  BY <1>1, <1>2 DEF Givers
<1>6. Readers'
  BY <1>1 DEF Readers, Used, Photos, Early
<1>7. Removers'
  BY <1>1 DEF Removers, Used, Photos, Early
<1>8. RecordHasFile'
  BY <1>1 DEF RecordHasFile, Photos
<1> QED
  BY <1>3, <1>4, <1>5, <1>6, <1>7, <1>8 DEF Shape

\* A file that a pipe or a handler deletes was not to be served.
LEMMA UnlinkKeepsFiles ==
    ASSUME FilesInv, NEW r \in Request, Others(r), UNCHANGED <<photos, condemned>>,
           NEW gone \in SUBSET memo[r].hand, files' = files \ gone,
           \/ pc[r] = "uploaded" /\ pc'[r] = "rejected"
           \/ pc[r] = "unlinking" /\ pc'[r] = "done"
           \/ /\ pc[r] = "unlinkingAll" /\ pc'[r] = "unlinkingAll"
              /\ memo'[r] \in PhotoMemo /\ memo'[r].hand \subseteq memo[r].hand
    PROVE  FilesInv'
<1> USE DEF FilesInv, Others
<1>1. ASSUME NEW q \in Request, q # r, NEW f \in gone,
             pc[q] \in {"uploaded", "recording", "replacing", "updating"}
      PROVE  f \notin memo[q].hand
  <2>1. \A g \in OwnFiles(q) : g[1] = q
    BY DEF OwnFiles
  <2>2. CASE pc[r] = "uploaded"
    BY <1>1, <2>1, <2>2 DEF Givers, OwnFiles
  <2>3. CASE pc[r] \in {"unlinking", "unlinkingAll"}
    BY <1>1, <2>1, <2>3 DEF Givers, Removers, Used, Early
  <2> QED
    BY <2>2, <2>3
<1>2. ASSUME NEW p \in Photos, photos[p].path \in gone
      PROVE  photos[p].inspection \in condemned
  <2>1. CASE pc[r] = "uploaded"
    <3>1. \A g \in OwnFiles(r) : g[1] = r
      BY DEF OwnFiles
    <3> QED
      BY <1>2, <2>1, <3>1 DEF Givers, PhotoRows, Used, Early
  <2>2. CASE pc[r] \in {"unlinking", "unlinkingAll"}
    BY <1>2, <2>2 DEF Removers
  <2> QED
    BY <2>1, <2>2
<1>3. PhotoMemos'
  BY DEF PhotoMemos, AtPhotoStep, PhotoLabels
<1>4. PhotoRows'
  BY DEF PhotoRows, Used, Photos, Early
<1>5. Givers'
  BY <1>1 DEF Givers
<1>6. Readers'
  BY DEF Readers, Used, Photos, Early
<1>7. Removers'
  BY DEF Removers, Used, Photos, Early
<1>8. RecordHasFile'
  BY <1>2 DEF RecordHasFile, Photos
<1> QED
  BY <1>3, <1>4, <1>5, <1>6, <1>7, <1>8 DEF Shape

LEMMA ReadsKeepFiles ==
    ASSUME FilesInv, NEW r \in Request, Others(r),
           EnsureInspectionExists(r) \/ FindPhoto(r) \/ ReadPath(r)
    PROVE  FilesInv'
<1> USE DEF FilesInv, Others, Goto, Keeps, photoVars, Shape
<1>1. UNCHANGED <<photos, files, condemned>>
  BY DEF EnsureInspectionExists, FindPhoto, ReadPath
<1>2. \A q \in Request : pc'[q] \in Early => pc[q] \in Early
  BY DEF EnsureInspectionExists, FindPhoto, ReadPath, Asks, Early
<1>3. memo'[r] \in PhotoMemo
  <2>1. CASE EnsureInspectionExists(r)
    BY <2>1 DEF EnsureInspectionExists, PhotoMemos, AtPhotoStep, PhotoLabels
  <2>2. CASE FindPhoto(r)
    BY <2>2 DEF FindPhoto, PhotoMemos, AtPhotoStep, PhotoLabels, PhotoMemo, PhotoRows, Photos, Photo
  <2>3. CASE ReadPath(r)
    BY <2>3 DEF ReadPath, Job, PhotoMemo, PhotoRows, Photos, Photo
  <2> QED
    BY <2>1, <2>2, <2>3
<1>4. PhotoMemos'
  BY <1>3 DEF PhotoMemos, AtPhotoStep
<1>5. PhotoRows'
  BY <1>1, <1>2 DEF PhotoRows, Used, Photos
<1>6. Givers'
  <2>1. CASE EnsureInspectionExists(r)
    BY <1>1, <2>1 DEF EnsureInspectionExists, Givers
  <2>2. CASE FindPhoto(r)
    BY <1>1, <2>2 DEF FindPhoto, Givers, PhotoMemos, AtPhotoStep, PhotoLabels, PhotoMemo
  <2>3. CASE ReadPath(r)
    BY <1>1, <2>3 DEF ReadPath, Givers
  <2> QED
    BY <2>1, <2>2, <2>3
<1>7. Readers'
  <2>1. ASSUME pc'[r] \in {"updating", "deletingPhoto"}
        PROVE  /\ memo'[r].photo \in Photos
               /\ memo'[r].old = photos[memo'[r].photo].path
    BY <2>1 DEF EnsureInspectionExists, FindPhoto, ReadPath, Job, PhotoMemos, AtPhotoStep,
                PhotoLabels, PhotoMemo
  <2>2. ASSUME NEW q \in Request, pc'[q] \in {"updating", "deletingPhoto"}
        PROVE  /\ Used(memo'[q].old)
               /\ \A p \in Photos : photos[p].path = memo'[q].old => p = memo'[q].photo
    BY <2>1, <2>2 DEF PhotoRows, Readers
  <2> QED
    BY <1>1, <1>2, <2>2 DEF Readers, Used, Photos
<1>8. Removers'
  BY <1>1, <1>2 DEF Removers, Used, Photos, EnsureInspectionExists, FindPhoto, ReadPath
<1>9. RecordHasFile'
  BY <1>1 DEF RecordHasFile, Photos
<1> QED
  BY <1>4, <1>5, <1>6, <1>7, <1>8, <1>9

\* The deletion has all photos of its inspection in hand, which from now on
\* need not have their files.
LEMMA ReadForDeletionKeepsFiles ==
    ASSUME FilesInv, NEW r \in Request, Others(r), ReadForDeletion(r)
    PROVE  FilesInv'
<1> USE DEF FilesInv, Others, Goto, Keeps, Shape
<1>1. PICK i \in Inspections :
           memo'[r] = Job(i, None, None, PathsOf(i)) /\ condemned' = condemned \cup {i}
  BY DEF ReadForDeletion
<1>2. UNCHANGED <<photos, files>> /\ pc'[r] = "unlinkingAll"
  BY DEF ReadForDeletion
<1>3. \A q \in Request : pc'[q] \in Early => pc[q] \in Early
  BY <1>2 DEF Early
<1>4. memo'[r].hand = PathsOf(i) /\ memo'[r] \in PhotoMemo
  BY <1>1 DEF Job, PhotoMemo, PathsOf, PhotosOf, Inspections, PhotoRows, Photos, Photo
<1>5. PhotoMemos'
  BY <1>4 DEF PhotoMemos, AtPhotoStep
<1>6. PhotoRows'
  BY <1>2, <1>3 DEF PhotoRows, Used, Photos
<1>7. Givers'
  BY <1>2 DEF Givers
<1>8. Readers'
  BY <1>2, <1>3 DEF Readers, Used, Photos
<1>9. Removers'
  <2>1. ASSUME NEW f \in PathsOf(i)
        PROVE  /\ Used(f)
               /\ \A p \in Photos : photos[p].path = f => photos[p].inspection = i
    BY <2>1 DEF PathsOf, PhotosOf, PhotoRows
  <2>2. ASSUME NEW q \in Request, pc'[q] \in {"unlinking", "unlinkingAll"},
               NEW f \in memo'[q].hand
        PROVE  /\ Used(f)
               /\ \A p \in Photos : photos[p].path = f => photos[p].inspection \in condemned'
    <3>1. CASE q = r
      BY <1>1, <1>4, <2>1, <2>2, <3>1
    <3>2. CASE q # r
      BY <1>1, <2>2, <3>2 DEF Removers
    <3> QED
      BY <3>1, <3>2
  <2> QED
    BY <1>2, <1>3, <2>2 DEF Removers, Used, Photos
<1>10. RecordHasFile'
  BY <1>1, <1>2 DEF RecordHasFile, Photos
<1> QED
  BY <1>5, <1>6, <1>7, <1>8, <1>9, <1>10

\* Rows of photos go; a file that is removed afterwards was one of theirs.
LEMMA RemovalKeepsFiles ==
    ASSUME FilesInv, NEW r \in Request, Others(r), DeletePhotoRow(r) \/ CommitDeletion(r)
    PROVE  FilesInv'
<1> USE DEF FilesInv, Others, Goto, Keeps, Ends, Shape
<1>1. UNCHANGED <<files, condemned>> /\ pc'[r] \in {"unlinking", "done"}
  BY DEF DeletePhotoRow, CommitDeletion
<1>2. \A q \in Request : pc'[q] \in Early => pc[q] \in Early
  BY <1>1 DEF Early
<1>3. /\ photos' \in [PhotoId -> Photo \cup {None}]
      /\ \A p \in PhotoId : photos'[p] \in {photos[p], None}
  BY DEF DeletePhotoRow, CommitDeletion, PhotoRows, Photos
<1>4. Photos' \subseteq Photos /\ \A p \in Photos' : photos'[p] = photos[p]
  BY <1>3 DEF Photos
<1>5. ASSUME pc'[r] = "unlinking"
      PROVE  /\ DeletePhotoRow(r)
             /\ pc[r] = "deletingPhoto"
             /\ memo'[r] = [memo[r] EXCEPT !.hand = {memo[r].old}]
             /\ memo[r] \in PhotoMemo
             /\ photos'[memo[r].photo] = None
  BY <1>5 DEF DeletePhotoRow, CommitDeletion, PhotoMemos, AtPhotoStep, PhotoLabels, PhotoRows, Photos
<1>6. ASSUME pc'[r] = "unlinking"
      PROVE  /\ memo'[r] \in PhotoMemo
             /\ memo'[r].hand = {memo[r].old}
             /\ Used(memo[r].old)
             /\ \A p \in Photos' : photos'[p].path # memo[r].old
  <2>1. /\ Used(memo[r].old)
        /\ \A p \in Photos : photos[p].path = memo[r].old => p = memo[r].photo
    BY <1>5, <1>6 DEF Readers
  <2>2. memo[r].photo \notin Photos'
    BY <1>5, <1>6 DEF Photos
  <2> QED
    BY <1>4, <1>5, <1>6, <2>1, <2>2 DEF PhotoMemo, Used
<1>7. PhotoMemos'
  BY <1>1, <1>6 DEF PhotoMemos, AtPhotoStep, PhotoLabels
<1>8. PhotoRows'
  BY <1>2, <1>3, <1>4 DEF PhotoRows, Used
<1>9. Givers'
  BY <1>1 DEF Givers
<1>10. Readers'
  BY <1>1, <1>2, <1>4 DEF Readers, Used
<1>11. Removers'
  <2>1. ASSUME NEW q \in Request, pc'[q] \in {"unlinking", "unlinkingAll"},
               NEW f \in memo'[q].hand
        PROVE  /\ Used(f)
               /\ \A p \in Photos' : photos'[p].path = f => photos'[p].inspection \in condemned
    <3>1. CASE q = r
      BY <1>1, <1>6, <2>1, <3>1
    <3>2. CASE q # r
      BY <1>4, <2>1, <3>2 DEF Removers
    <3> QED
      BY <3>1, <3>2
  <2> QED
    BY <1>1, <1>2, <2>1 DEF Removers, Used
<1>12. RecordHasFile'
  BY <1>1, <1>4 DEF RecordHasFile
<1> QED
  BY <1>7, <1>8, <1>9, <1>10, <1>11, <1>12

\* Rows get files that no handler and no row has.
LEMMA GivingKeepsFiles ==
    ASSUME FilesInv, NEW r \in Request, Others(r), RecordPhotos(r) \/ ReplacePath(r)
    PROVE  FilesInv'
<1> USE DEF FilesInv, Others, Goto, Keeps, Ends, Shape
<1>1. /\ UNCHANGED <<files, condemned>>
      /\ pc[r] \in Early /\ pc'[r] \in {"done", "unlinking"}
      /\ memo[r] \in PhotoMemo
      /\ memo[r].hand \subseteq files \cap OwnFiles(r)
  BY DEF RecordPhotos, ReplacePath, PhotoMemos, AtPhotoStep, PhotoLabels, Givers, Early
<1>2. \A q \in Request : pc'[q] \in Early => pc[q] \in Early
  BY <1>1 DEF Early
<1>3. \A f \in memo[r].hand : f \in File /\ f[1] = r /\ ~Used(f)
  BY <1>1 DEF PhotoMemo, OwnFiles, Used

\* Each row is as it was, or has a new path; no two rows have the same one.
<1>4. /\ photos' \in [PhotoId -> Photo \cup {None}]
      /\ \A p \in Photos' :
            \/ photos'[p].path \in memo[r].hand
            \/ p \in Photos /\ photos'[p] = photos[p]
      /\ \A p, q \in Photos' : photos'[p].path = photos'[q].path => p = q
  <2>1. CASE RecordPhotos(r)
    <3>1. /\ memo[r].inspection \in InspectionId
          /\ photos' = [p \in PhotoId |->
                IF p \in memo[r].hand THEN [inspection |-> memo[r].inspection, path |-> p]
                ELSE photos[p]]
      BY <2>1 DEF RecordPhotos, Inspections
    <3>2. photos' \in [PhotoId -> Photo \cup {None}]
      BY <1>3, <3>1 DEF PhotoRows, Photo
    <3>3. ASSUME NEW p \in Photos'
          PROVE  \/ p \in memo[r].hand /\ photos'[p].path = p
                 \/ p \in Photos /\ photos'[p] = photos[p]
      BY <3>1, <3>3 DEF Photos
    <3>4. \A p, q \in Photos' : photos'[p].path = photos'[q].path => p = q
      BY <1>3, <3>3 DEF PhotoRows
    <3> QED
      BY <3>2, <3>3, <3>4
  <2>2. CASE ReplacePath(r)
    <3>1. PICK f \in memo[r].hand : photos' = [photos EXCEPT ![memo[r].photo].path = f]
      BY <2>2 DEF ReplacePath
    <3>2. memo[r].photo \in PhotoId /\ photos[memo[r].photo] \in Photo
      BY <2>2 DEF ReplacePath, Photos, PhotoRows
    <3>3. photos' \in [PhotoId -> Photo \cup {None}]
      BY <1>3, <3>1, <3>2 DEF PhotoRows, Photo
    <3>4. photos'[memo[r].photo].path = f
      BY <3>1, <3>2 DEF PhotoRows, Photo
    <3>5. ASSUME NEW p \in Photos', p # memo[r].photo
          PROVE  p \in Photos /\ photos'[p] = photos[p]
      BY <3>1, <3>2, <3>5 DEF Photos, PhotoRows
    <3>6. \A p, q \in Photos' : photos'[p].path = photos'[q].path => p = q
      BY <1>3, <3>4, <3>5 DEF PhotoRows
    <3> QED
      BY <3>3, <3>4, <3>5, <3>6
  <2> QED
    BY <2>1, <2>2
<1>5. ASSUME NEW f, Used(f)
      PROVE  \A p \in Photos' : photos'[p].path = f => p \in Photos /\ photos'[p] = photos[p]
  BY <1>3, <1>4, <1>5
<1>6. ASSUME NEW f, f \in memo[r].hand \/ Used(f)
      PROVE  f \in File /\ (f[1] \in Request => pc'[f[1]] \notin Early)
  BY <1>1, <1>2, <1>3, <1>6 DEF Used, Early

\* The file that the row had before is in hand, and no row's any more.
<1>7. ASSUME pc'[r] = "unlinking"
      PROVE  /\ memo'[r] \in PhotoMemo
             /\ memo'[r].hand = {memo[r].old}
             /\ Used(memo[r].old)
             /\ \A p \in Photos' : photos'[p].path # memo[r].old
  <2>1. ReplacePath(r)
    BY <1>7 DEF RecordPhotos
  <2>2. /\ Used(memo[r].old)
        /\ \A p \in Photos : photos[p].path = memo[r].old => p = memo[r].photo
    BY <2>1 DEF ReplacePath, Readers
  <2>3. memo'[r] = [memo[r] EXCEPT !.hand = {memo[r].old}]
    BY <2>1 DEF ReplacePath
  <2>4. memo'[r] \in PhotoMemo /\ memo'[r].hand = {memo[r].old}
    BY <1>1, <2>2, <2>3 DEF PhotoMemo, Used
  <2>5. photos'[memo[r].photo].path \in memo[r].hand
    BY <2>1 DEF ReplacePath, Photos, PhotoRows, Photo
  <2> QED
    BY <1>3, <1>5, <2>2, <2>4, <2>5
<1>8. PhotoMemos'
  BY <1>1, <1>7 DEF PhotoMemos, AtPhotoStep, PhotoLabels
<1>9. PhotoRows'
  <2>1. \A p \in Photos' : photos'[p].path \in memo[r].hand \/ Used(photos'[p].path)
    BY <1>4 DEF PhotoRows
  <2> QED
    BY <1>4, <1>6, <2>1 DEF PhotoRows, Used
<1>10. Givers'
  BY <1>1 DEF Givers
<1>11. Readers'
  BY <1>1, <1>5, <1>6 DEF Readers, Used
<1>12. Removers'
  <2>1. ASSUME NEW q \in Request, pc'[q] \in {"unlinking", "unlinkingAll"},
               NEW f \in memo'[q].hand
        PROVE  /\ Used(f)
               /\ \A p \in Photos' : photos'[p].path = f => photos'[p].inspection \in condemned
    <3>1. CASE q = r
      BY <1>1, <1>7, <2>1, <3>1
    <3>2. CASE q # r
      BY <1>5, <2>1, <3>2 DEF Removers
    <3> QED
      BY <3>1, <3>2
  <2> QED
    BY <1>1, <1>6, <2>1 DEF Removers, Used
<1>13. RecordHasFile'
  BY <1>1, <1>4 DEF RecordHasFile
<1> QED
  BY <1>8, <1>9, <1>10, <1>11, <1>12, <1>13

LEMMA PhotosKeepFiles ==
    ASSUME FilesInv, NEW r \in Request, PhotoStep(r)
    PROVE  FilesInv'
<1>1. Others(r) /\ DOMAIN pc = Request /\ DOMAIN memo = Request
  BY PhotoStepMovesOne DEF FilesInv, Shape
<1>2. CASE Upload(r) \/ UploadReplacement(r)
  BY <1>1, <1>2, UploadKeepsFiles
<1>3. CASE InvalidFile(r)
  <2>1. PICK f \in memo[r].hand : files' = files \ {f}
    BY <1>3 DEF InvalidFile
  <2>2. {f} \in SUBSET memo[r].hand
    OBVIOUS
  <2>3. pc[r] = "uploaded" /\ pc'[r] = "rejected" /\ UNCHANGED <<photos, condemned>>
    BY <1>1, <1>3 DEF InvalidFile, Ends, Goto
  <2> QED
    BY <1>1, <2>1, <2>2, <2>3, UnlinkKeepsFiles
<1>4. CASE UnlinkFile(r)
  <2>1. pc[r] = "unlinking" /\ pc'[r] = "done" /\ UNCHANGED <<photos, condemned>>
    BY <1>1, <1>4 DEF UnlinkFile, Ends, Goto
  <2>2. CASE files' = files \ memo[r].hand
    BY <1>1, <2>1, <2>2, UnlinkKeepsFiles
  <2>3. CASE files' = files
    BY <1>1, <2>1, <2>3, EndsKeepsFiles
  <2> QED
    BY <1>4, <2>2, <2>3 DEF UnlinkFile
<1>5. CASE UnlinkNext(r)
  <2>1. memo[r] \in PhotoMemo
    BY <1>5 DEF UnlinkNext, FilesInv, PhotoMemos, AtPhotoStep, PhotoLabels
  <2>2. PICK f \in memo[r].hand :
             /\ memo'[r] = [memo[r] EXCEPT !.hand = @ \ {f}]
             /\ files' = files \ {f} \/ files' = files
    BY <1>1, <1>5 DEF UnlinkNext, Keeps
  <2>3. /\ pc[r] = "unlinkingAll" /\ pc'[r] = "unlinkingAll"
        /\ UNCHANGED <<photos, condemned>>
    BY <1>5 DEF UnlinkNext
  <2>4. memo'[r] \in PhotoMemo /\ memo'[r].hand \subseteq memo[r].hand
    BY <2>1, <2>2 DEF PhotoMemo
  <2>5. PICK gone \in SUBSET memo[r].hand : files' = files \ gone
    <3>1. files \ {} = files /\ {} \in SUBSET memo[r].hand /\ {f} \in SUBSET memo[r].hand
      OBVIOUS
    <3> QED
      BY <2>2, <3>1
  <2> QED
    BY <1>1, <2>3, <2>4, <2>5, UnlinkKeepsFiles
<1>6. CASE RefuseUpload(r) \/ RecordFails(r) \/ ReplaceFails(r) \/ DeletePhotoFails(r)
           \/ DeletionFails(r)
  <2>1. pc'[r] = "rejected" /\ UNCHANGED <<photos, files, condemned>>
    BY <1>1, <1>6 DEF RefuseUpload, RecordFails, ReplaceFails, DeletePhotoFails, DeletionFails,
                      Ends, Goto, photoVars
  <2> QED
    BY <1>1, <2>1, EndsKeepsFiles
<1>7. CASE EnsureInspectionExists(r) \/ FindPhoto(r) \/ ReadPath(r)
  BY <1>1, <1>7, ReadsKeepFiles
<1>8. CASE ReadForDeletion(r)
  BY <1>1, <1>8, ReadForDeletionKeepsFiles
<1>9. CASE DeletePhotoRow(r) \/ CommitDeletion(r)
  BY <1>1, <1>9, RemovalKeepsFiles
<1>10. CASE RecordPhotos(r) \/ ReplacePath(r)
  BY <1>1, <1>10, GivingKeepsFiles
<1> QED
  BY <1>2, <1>3, <1>4, <1>5, <1>6, <1>7, <1>8, <1>9, <1>10 DEF PhotoStep

-----------------------------------------------------------------------------
(* The files that no row has                                               *)

LEMMA HoldingKeepsInv ==
    ASSUME FilesInv, AccountedInv, Serving, Holding
    PROVE  AccountedInv'
<1>1. Hands'
  BY DEF AccountedInv, Hands, Serving, Used, Photos, PhotoLabels
<1>2. FilesAccounted'
  BY DEF AccountedInv, FilesAccounted, Serving, Holding, Photos, AtPhotoStep
<1> QED
  BY <1>1, <1>2 DEF AccountedInv

LEMMA CreationHolding ==
    ASSUME NEW r \in Request, Shape, CreationStep(r), UNCHANGED photoVars
    PROVE  Holding
<1> USE DEF Keeps, Goto, Ends, Shape, PhotoLabels, photoVars, Holding
<1>1. CASE ReadInspector(r) \/ ReadBranch(r) \/ ReadBranchFails(r)
  BY <1>1 DEF ReadInspector, ReadBranch, ReadBranchFails, Asks
<1>2. CASE BeginCreate(r) \/ CommitCreate(r) \/ AbortCreate(r)
  BY <1>2 DEF BeginCreate, CommitCreate, AbortCreate
<1>3. CASE CreateBranch(r) \/ UpdateBranch(r) \/ RemoveBranch(r)
  BY <1>3 DEF CreateBranch, UpdateBranch, RemoveBranch, Asks
<1>4. CASE ReadActive(r) \/ ToggleActive(r) \/ ToggleFails(r)
  BY <1>4 DEF ReadActive, ToggleActive, ToggleFails, Asks
<1> QED
  BY <1>1, <1>2, <1>3, <1>4 DEF CreationStep

\* What was in hand is left behind.
LEMMA RestartAccounts ==
    ASSUME FilesInv, AccountedInv, Restart
    PROVE  AccountedInv'
<1> USE DEF AccountedInv, FilesInv, Shape
<1>1. Hands'
  BY DEF Restart, Hands, Used, Photos, Early, InFlight
<1>2. ASSUME NEW f \in files'
      PROVE  (\E p \in Photos' : photos'[p].path = f) \/ f \in leaked'
  <2>1. ASSUME NEW r \in Request, AtPhotoStep(r), f \in memo[r].hand
        PROVE  f \in leaked'
    <3>1. memo[r].hand \in {memo[q].hand : q \in {o \in Request : AtPhotoStep(o)}}
      BY <2>1
    <3> QED
      BY <2>1, <3>1 DEF Restart, Leaks
  <2> QED
    BY <1>2, <2>1 DEF Restart, Leaks, FilesAccounted, Photos
<1> QED
  BY <1>1, <1>2 DEF FilesAccounted

\* A handler's step loses track of no file when what it had in hand, and
\* what the rows had, is a row's, in hand or left behind.
HeldBy(r, f) == AtPhotoStep(r) /\ f \in memo[r].hand
Known(r, f) == (\E p \in Photos : photos[p].path = f) \/ HeldBy(r, f) \/ f \in leaked

LEMMA StepAccounts ==
    ASSUME AccountedInv, NEW r \in Request, Others(r), leaked \subseteq leaked',
           \A f \in files' \ files : Known(r, f)',
           \A f \in files' : HeldBy(r, f) => Known(r, f)',
           \A p \in Photos : photos[p].path \in files' =>
               \E f : f = photos[p].path /\ Known(r, f)'
    PROVE  FilesAccounted'
<1> USE DEF AccountedInv
<1> SUFFICES ASSUME NEW f \in files'
             PROVE  (\/ \E p \in Photos : photos[p].path = f
                     \/ \E q \in Request : AtPhotoStep(q) /\ f \in memo[q].hand
                     \/ f \in leaked)'
  BY DEF FilesAccounted
<1>1. Known(r, f)' \/ \E q \in Request \ {r} : AtPhotoStep(q) /\ f \in memo[q].hand
  BY DEF FilesAccounted, HeldBy, Known
<1> QED
  BY <1>1 DEF Known, HeldBy, Others, AtPhotoStep

LEMMA StepKeepsHands ==
    ASSUME Hands, NEW r \in Request, Others(r),
           pc'[r] \in Early => pc[r] \in Early,
           \A p \in Photos' : p \in Photos \/ (p \in File /\ p[1] = r /\ pc'[r] \notin Early),
           pc'[r] \in {"replacing", "updating"} => \E f \in File : memo'[r].hand = {f},
           pc'[r] = "deletingPhoto" => memo'[r].hand = {}
    PROVE  Hands'
<1>1. \A q \in Request : pc'[q] \in Early => pc[q] \in Early
  BY DEF Others
<1>2. \A p \in Photos' : Used(p)'
  BY <1>1 DEF Hands, Used
<1> QED
  BY <1>2 DEF Hands, Others

\* Nothing happens to a row.
LEMMA SameRowsAccount ==
    ASSUME FilesInv, AccountedInv, NEW r \in Request, Others(r), UNCHANGED photos,
           leaked \subseteq leaked', pc'[r] \in Early => pc[r] \in Early,
           pc'[r] \in {"replacing", "updating"} => \E f \in File : memo'[r].hand = {f},
           pc'[r] = "deletingPhoto" => memo'[r].hand = {},
           \A f \in files' \ files : HeldBy(r, f)',
           \A f \in files' : HeldBy(r, f) => HeldBy(r, f)' \/ f \in leaked'
    PROVE  AccountedInv'
<1>1. Photos' = Photos
  BY DEF Photos
<1>2. Hands'
  BY <1>1, StepKeepsHands DEF AccountedInv
<1>3. FilesAccounted'
  BY <1>1, StepAccounts DEF Known
<1> QED
  BY <1>2, <1>3 DEF AccountedInv

LEMMA PhotosAccount ==
    ASSUME FilesInv, AccountedInv, NEW r \in Request, PhotoStep(r)
    PROVE  AccountedInv'
<1> USE DEF FilesInv, Shape, Goto, Keeps, Ends
<1>1. Others(r)
  BY PhotoStepMovesOne
<1>2. AtPhotoStep(r) => memo[r] \in PhotoMemo
  BY DEF PhotoMemos
<1>3. CASE Upload(r)
  <2>1. /\ UNCHANGED <<photos, leaked>> /\ pc[r] = "idle" /\ pc'[r] = "uploaded"
        /\ \E i \in InspectionId, n \in 1..BatchSize :
              /\ files' = files \cup ({r} \X (1..n))
              /\ memo'[r] = Job(i, None, None, {r} \X (1..n))
    BY <1>3 DEF Upload, Asks
  <2>2. \A f \in files' \ files : f \in memo'[r].hand
    BY <2>1 DEF Job
  <2> QED
    BY <1>1, <2>1, <2>2, SameRowsAccount DEF HeldBy, AtPhotoStep, PhotoLabels, Early
<1>4. CASE UploadReplacement(r)
  <2>1. /\ UNCHANGED <<photos, leaked>> /\ pc[r] = "idle" /\ pc'[r] = "replacing"
        /\ files' = files \cup {<<r, 1>>} /\ memo'[r].hand = {<<r, 1>>}
    BY <1>4 DEF UploadReplacement, Asks, Job
  <2>2. <<r, 1>> \in File
    BY BatchAssumption DEF File, InspectionId
  <2> QED
    BY <1>1, <2>1, <2>2, SameRowsAccount DEF HeldBy, AtPhotoStep, PhotoLabels, Early
<1>5. CASE InvalidFile(r) \/ RefuseUpload(r) \/ RecordFails(r) \/ ReplaceFails(r)
  <2>1. /\ UNCHANGED photos /\ pc'[r] = "rejected" /\ files' \subseteq files
        /\ leaked \subseteq leaked' /\ \A f \in files' : f \in memo[r].hand => f \in leaked'
    BY <1>5 DEF InvalidFile, RefuseUpload, RecordFails, ReplaceFails, Leaks
  <2> QED
    BY <1>1, <2>1, SameRowsAccount DEF HeldBy, Early
<1>6. CASE EnsureInspectionExists(r)
  <2>1. UNCHANGED <<photos, files, leaked, memo>> /\ pc[r] = "uploaded" /\ pc'[r] = "recording"
    BY <1>6 DEF EnsureInspectionExists, photoVars
  <2> QED
    BY <1>1, <2>1, SameRowsAccount DEF HeldBy, AtPhotoStep, PhotoLabels, Early
<1>7. CASE FindPhoto(r)
  <2>1. /\ UNCHANGED <<photos, files, leaked>> /\ pc[r] = "replacing" /\ pc'[r] = "updating"
        /\ memo'[r].hand = memo[r].hand
    BY <1>2, <1>7 DEF FindPhoto, photoVars, AtPhotoStep, PhotoLabels, PhotoMemo
  <2>2. \E f \in File : memo[r].hand = {f}
    BY <2>1 DEF AccountedInv, Hands
  <2> QED
    BY <1>1, <2>1, <2>2, SameRowsAccount DEF HeldBy, AtPhotoStep, PhotoLabels, Early
<1>8. CASE UnlinkFile(r)
  <2>1. /\ UNCHANGED photos /\ pc'[r] = "done" /\ files' \subseteq files
        /\ leaked \subseteq leaked' /\ \A f \in files' : f \in memo[r].hand => f \in leaked'
    BY <1>8 DEF UnlinkFile, Leaks
  <2> QED
    BY <1>1, <2>1, SameRowsAccount DEF HeldBy, Early
<1>9. CASE ReadPath(r)
  <2>1. /\ UNCHANGED <<photos, files, leaked>> /\ pc[r] = "idle" /\ pc'[r] = "deletingPhoto"
        /\ memo'[r].hand = {}
    BY <1>9 DEF ReadPath, Asks, Job, photoVars
  <2> QED
    BY <1>1, <2>1, SameRowsAccount DEF HeldBy, AtPhotoStep, PhotoLabels, Early
<1>10. CASE DeletePhotoFails(r) \/ DeletionFails(r)
  <2>1. /\ UNCHANGED <<photos, files, leaked>> /\ pc'[r] = "rejected" /\ memo[r].hand = {}
    BY <1>10 DEF DeletePhotoFails, DeletionFails, photoVars, AccountedInv, Hands
  <2> QED
    BY <1>1, <2>1, SameRowsAccount DEF HeldBy, Early
<1>11. CASE ReadForDeletion(r)
  <2>1. UNCHANGED <<photos, files, leaked>> /\ pc[r] = "idle" /\ pc'[r] = "unlinkingAll"
    BY <1>11 DEF ReadForDeletion, Asks
  <2> QED
    BY <1>1, <2>1, SameRowsAccount DEF HeldBy, AtPhotoStep, PhotoLabels, Early
<1>12. CASE UnlinkNext(r)
  <2>1. PICK f \in memo[r].hand :
             /\ memo'[r] = [memo[r] EXCEPT !.hand = @ \ {f}]
             /\ \/ files' = files \ {f} /\ UNCHANGED leaked
                \/ Leaks({f}) /\ UNCHANGED files
    BY <1>12 DEF UnlinkNext
  <2>2. /\ UNCHANGED <<photos, pc>> /\ pc[r] = "unlinkingAll"
        /\ memo'[r].hand = memo[r].hand \ {f}
        /\ files' \subseteq files /\ leaked \subseteq leaked'
        /\ f \in files' => f \in leaked'
    BY <1>2, <1>12, <2>1 DEF UnlinkNext, Leaks, AtPhotoStep, PhotoLabels, PhotoMemo
  <2> QED
    BY <1>1, <2>2, SameRowsAccount DEF HeldBy, AtPhotoStep
<1>13. CASE RecordPhotos(r)
  <2>1. /\ UNCHANGED <<files, leaked>> /\ pc[r] = "recording" /\ pc'[r] = "done"
        /\ memo[r].hand \subseteq OwnFiles(r) \cap File
        /\ photos' = [p \in PhotoId |->
              IF p \in memo[r].hand THEN [inspection |-> memo[r].inspection, path |-> p]
              ELSE photos[p]]
    BY <1>2, <1>13 DEF RecordPhotos, Givers, AtPhotoStep, PhotoLabels, PhotoMemo
  <2>2. \A p \in memo[r].hand : p \in File /\ p[1] = r /\ p \notin Photos
    BY <2>1 DEF OwnFiles, AccountedInv, Hands, Used, Early
  <2>3. \A p \in memo[r].hand : p \in Photos' /\ photos'[p].path = p
    <3>1. memo[r].inspection \in InspectionId
      BY <1>13 DEF RecordPhotos, Inspections
    <3> QED
      BY <2>1, <3>1, PhotoAssumption DEF Photos, PhotoId, Photo
  <2>4. \A p \in Photos : p \in Photos' /\ photos'[p] = photos[p]
    BY <2>1, <2>2 DEF Photos
  <2>5. Photos' \subseteq Photos \cup memo[r].hand
    BY <2>1 DEF Photos
  <2>6. Hands'
    BY <1>1, <2>1, <2>2, <2>5, StepKeepsHands DEF AccountedInv, Early
  <2>7. FilesAccounted'
    BY <1>1, <2>1, <2>3, <2>4, StepAccounts DEF HeldBy, Known
  <2> QED
    BY <2>6, <2>7 DEF AccountedInv
<1>14. CASE ReplacePath(r)
  <2> DEFINE p == memo[r].photo
  <2>1. /\ UNCHANGED files /\ pc[r] = "updating" /\ pc'[r] = "unlinking" /\ p \in Photos
        /\ leaked' = leaked \cup ({photos[p].path} \ {memo[r].old})
        /\ memo'[r].hand = {memo[r].old}
    BY <1>2, <1>14 DEF ReplacePath, Leaks, AtPhotoStep, PhotoLabels, PhotoMemo
  <2>2. PICK f \in memo[r].hand : photos' = [photos EXCEPT ![p].path = f]
    BY <1>14 DEF ReplacePath
  <2>3. memo[r].hand = {f} /\ f \in File
    BY <1>2, <2>1, <2>2 DEF AccountedInv, Hands, AtPhotoStep, PhotoLabels, PhotoMemo
  <2>4. photos[p] \in Photo /\ p \in PhotoId
    BY <2>1 DEF Photos, PhotoRows
  <2>5. [photos[p] EXCEPT !.path = f] \in Photo
    BY <2>3, <2>4 DEF Photo
  <2>6. /\ p \in Photos' /\ photos'[p].path = f
        /\ Photos' \subseteq Photos
        /\ \A q \in Photos : q # p => q \in Photos' /\ photos'[q] = photos[q]
    BY <2>1, <2>2, <2>4, <2>5, PhotoAssumption DEF Photos, PhotoRows, Photo
  <2>7. Hands'
    BY <1>1, <2>1, <2>6, StepKeepsHands DEF AccountedInv, Early
  <2>8. \A g : HeldBy(r, g) => g = f
    BY <2>1, <2>3 DEF HeldBy, AtPhotoStep, PhotoLabels
  <2>9. ASSUME NEW q \in Photos
        PROVE  \E g : g = photos[q].path /\ Known(r, g)'
    <3> DEFINE g == photos[q].path
    <3>1. CASE q # p
      BY <2>6, <3>1 DEF Known
    <3>2. CASE q = p
      <4>1. g \in leaked' \/ g \in memo'[r].hand
        BY <2>1, <3>2
      <4> QED
        BY <2>1, <4>1 DEF Known, HeldBy, AtPhotoStep, PhotoLabels
    <3> QED
      BY <3>1, <3>2
  <2>10. FilesAccounted'
    BY <1>1, <2>1, <2>6, <2>8, <2>9, StepAccounts DEF Known
  <2> QED
    BY <2>7, <2>10 DEF AccountedInv
<1>15. CASE DeletePhotoRow(r)
  <2> DEFINE p == memo[r].photo
  <2>1. /\ UNCHANGED files /\ pc[r] = "deletingPhoto" /\ pc'[r] = "unlinking" /\ p \in Photos
        /\ leaked' = leaked \cup ({photos[p].path} \ {memo[r].old})
        /\ memo'[r].hand = {memo[r].old}
        /\ photos' = [photos EXCEPT ![p] = None]
    BY <1>2, <1>15 DEF DeletePhotoRow, Leaks, AtPhotoStep, PhotoLabels, PhotoMemo
  <2>2. /\ Photos' \subseteq Photos
        /\ \A q \in Photos : q # p => q \in Photos' /\ photos'[q] = photos[q]
    BY <2>1 DEF Photos, PhotoRows
  <2>3. Hands'
    BY <1>1, <2>1, <2>2, StepKeepsHands DEF AccountedInv, Early
  <2>4. \A g : ~HeldBy(r, g)
    BY <2>1 DEF HeldBy, AccountedInv, Hands
  <2>5. ASSUME NEW q \in Photos
        PROVE  \E g : g = photos[q].path /\ Known(r, g)'
    <3> DEFINE g == photos[q].path
    <3>1. CASE q # p
      BY <2>2, <3>1 DEF Known
    <3>2. CASE q = p
      <4>1. g \in leaked' \/ g \in memo'[r].hand
        BY <2>1, <3>2
      <4> QED
        BY <2>1, <4>1 DEF Known, HeldBy, AtPhotoStep, PhotoLabels
    <3> QED
      BY <3>1, <3>2
  <2>6. FilesAccounted'
    BY <1>1, <2>1, <2>4, <2>5, StepAccounts
  <2> QED
    BY <2>3, <2>6 DEF AccountedInv
<1>16. CASE CommitDeletion(r)
  <2> DEFINE gone == PhotosOf(memo[r].inspection)
  <2>1. /\ UNCHANGED files /\ pc'[r] = "done" /\ memo[r].hand = {}
        /\ leaked' = leaked \cup ({photos[p].path : p \in gone} \cap files)
        /\ photos' = [p \in PhotoId |-> IF p \in gone THEN None ELSE photos[p]]
    BY <1>16 DEF CommitDeletion, Leaks, PathsOf
  <2>2. /\ Photos' \subseteq Photos
        /\ \A p \in Photos : p \in gone \/ (p \in Photos' /\ photos'[p] = photos[p])
    BY <2>1 DEF Photos
  <2>3. Hands'
    BY <1>1, <2>1, <2>2, StepKeepsHands DEF AccountedInv, Early
  <2>4. ASSUME NEW p \in Photos, photos[p].path \in files'
        PROVE  \E g : g = photos[p].path /\ Known(r, g)'
    <3>1. CASE p \in gone
      <4>1. photos[p].path \in leaked'
        BY <2>1, <2>4, <3>1
      <4> QED
        BY <4>1 DEF Known
    <3>2. CASE p \notin gone
      BY <2>2, <3>2 DEF Known
    <3> QED
      BY <3>1, <3>2
  <2>5. FilesAccounted'
    BY <1>1, <2>1, <2>4, StepAccounts DEF HeldBy
  <2> QED
    BY <2>3, <2>5 DEF AccountedInv
<1> QED
  BY <1>3, <1>4, <1>5, <1>6, <1>7, <1>8, <1>9, <1>10, <1>11, <1>12, <1>13, <1>14, <1>15, <1>16
     DEF PhotoStep

-----------------------------------------------------------------------------
(* The theorems                                                            *)

\* A step of BackendNext is one of InspectionCreation, InspectionPhotos or a
\* restart, or leaves rows, numbers and files alone.
LEMMA StepsOfBackend ==
    ASSUME Shape, DOMAIN rows = InspectionId, [BackendNext]_backendVars
    PROVE  \/ \E r \in Request : CreationStep(r) /\ UNCHANGED photoVars
           \/ \E r \in Request : PhotoStep(r)
           \/ Restart
           \/ Aside
<1>1. CASE UNCHANGED backendVars
  BY <1>1 DEF backendVars, dashboardVars, queriesVars, photosVars, creationVars, photoVars, tables,
              Aside, Numbering, Serving, Holding, Shape
<1>2. CASE AccountsStep
  BY <1>2, AccountsAside DEF AccountsStep
<1>3. CASE RecordsStep
  <2>1. CASE \E r \in Request : DashboardStep(r)
    BY <2>1, DashboardAside
  <2>2. CASE \E r \in Request : QueryStep(r)
    BY <2>2, QueriesAside
  <2>3. CASE \E r \in Request : ChangeStatus(r)
    BY <2>3, StatusAside
  <2>4. CASE PhotosNext
    BY <2>4 DEF PhotosNext, CreationNext
  <2> QED
    BY <1>3, <2>1, <2>2, <2>3, <2>4 DEF RecordsStep, DashboardNext, OtherStep, QueriesNext, WriteStep
<1> QED
  BY <1>1, <1>2, <1>3 DEF BackendNext

LEMMA NumbersInvInductive == BackendSpec => []NumbersInv
<1>1. BackendInit => NumbersInv
  <2> SUFFICES ASSUME CreationInit
               PROVE  NumbersInv
    BY DEF BackendInit, DashboardInit, QueriesInit, PhotosInit
  <2>1. Shape /\ DOMAIN rows = InspectionId /\ issued = {}
    BY DEF CreationInit, Shape
  <2>2. branches \in [BranchId -> BranchRow \cup {None}]
    BY CreationAssumption DEF CreationInit, BranchRow, Code, BranchId
  <2>3. sequence \in [Key -> Nat] /\ \A k \in Key : 1..sequence[k] = {}
    BY DEF CreationInit
  <2>4. CreateMemos
    BY DEF CreationInit, CreateMemos, CreateLabels
  <2>5. NumbersDense
    BY <2>1, <2>3 DEF CreationInit, NumbersDense, Inspections
  <2> QED
    BY <2>1, <2>2, <2>3, <2>4, <2>5 DEF NumbersInv
<1>2. NumbersInv /\ [BackendNext]_backendVars => NumbersInv'
  <2> SUFFICES ASSUME NumbersInv, [BackendNext]_backendVars
               PROVE  NumbersInv'
    OBVIOUS
  <2>1. Shape /\ DOMAIN rows = InspectionId
    BY DEF NumbersInv
  <2>2. CASE \E r \in Request : CreationStep(r)
    BY <2>2, CreationKeepsNumbers
  <2>3. CASE Numbering
    BY <2>3, NumberingKeepsInv
  <2> QED
    BY <2>1, <2>2, <2>3, StepsOfBackend, PhotosNumbering, RestartNumbering DEF Aside
<1> QED
  BY <1>1, <1>2, PTL DEF BackendSpec

\* generateNextInspectionId, whatever other requests do: the inspections of a
\* branch code and day are numbered 1, 2, 3, ... without gap or repetition,
\* for any number of requests, branches and days.
THEOREM NumbersAreDense == BackendSpec => []NumbersDense
<1>1. NumbersInv => NumbersDense
  BY DEF NumbersInv
<1> QED
  BY <1>1, NumbersInvInductive, PTL

LEMMA FilesInvInductive == BackendSpec => []FilesInv
<1>1. BackendInit => FilesInv
  <2> SUFFICES ASSUME PhotosInit
               PROVE  FilesInv
    BY DEF BackendInit, DashboardInit, QueriesInit
  <2>1. Shape /\ \A r \in Request : pc[r] \in {"arriving", "idle"}
    BY DEF PhotosInit, CreationInit, Shape
  <2>2. Old \X {1} \subseteq PhotoId
    BY BatchAssumption DEF PhotoId, File, InspectionId
  <2>3. /\ photos \in [PhotoId -> Photo \cup {None}]
        /\ \A p \in Photos : p \in Old \X {1} /\ photos[p].path = p
    BY <2>2 DEF PhotosInit, Photos, Photo, PhotoId, InspectionId
  <2>4. PhotoRows
    BY <2>2, <2>3, CreationAssumption DEF PhotoRows, Used, PhotoId
  <2>5. RecordHasFile
    BY <2>3 DEF RecordHasFile, PhotosInit
  <2> QED
    BY <2>1, <2>4, <2>5 DEF FilesInv, PhotoMemos, AtPhotoStep, PhotoLabels, Givers, Readers, Removers
<1>2. FilesInv /\ NumbersInv /\ [BackendNext]_backendVars => FilesInv'
  <2> SUFFICES ASSUME FilesInv, NumbersInv, [BackendNext]_backendVars
               PROVE  FilesInv'
    OBVIOUS
  <2>1. Shape /\ DOMAIN rows = InspectionId
    BY DEF NumbersInv
  <2>2. CASE \E r \in Request : PhotoStep(r)
    BY <2>2, PhotosKeepFiles
  <2>3. CASE Serving
    BY <2>3, ServingKeepsInv
  <2> QED
    BY <2>1, <2>2, <2>3, StepsOfBackend, CreationServing, RestartServing DEF Aside
<1> QED
  BY <1>1, <1>2, NumbersInvInductive, PTL DEF BackendSpec

\* PhotosService and deleteInspectionPermanently: a photo that the API lists
\* can be served, for any number of requests, photos and restarts.
THEOREM PhotosHaveFiles == BackendSpec => []RecordHasFile
<1>1. FilesInv => RecordHasFile
  BY DEF FilesInv
<1> QED
  BY <1>1, FilesInvInductive, PTL

LEMMA AccountedInvInductive == BackendSpec => []AccountedInv
<1>1. BackendInit => AccountedInv
  <2> SUFFICES ASSUME PhotosInit
               PROVE  AccountedInv
    BY DEF BackendInit, DashboardInit, QueriesInit
  <2>1. Old \X {1} \subseteq PhotoId
    BY BatchAssumption DEF PhotoId, File, InspectionId
  <2>2. \A p \in Photos : p \in Old \X {1}
    BY DEF PhotosInit, Photos
  <2>3. Hands
    BY <2>1, <2>2, CreationAssumption DEF PhotosInit, CreationInit, Hands, Used, PhotoId
  <2>4. ASSUME NEW f \in files
        PROVE  f \in Photos /\ photos[f].path = f
    <3>1. photos[f] = [inspection |-> f[1], path |-> f] /\ f \in PhotoId /\ f[1] \in InspectionId
      BY <2>1, <2>4 DEF PhotosInit, InspectionId
    <3>2. photos[f] \in Photo
      BY <3>1 DEF Photo, PhotoId
    <3> QED
      BY <3>1, <3>2, PhotoAssumption DEF Photos
  <2> QED
    BY <2>3, <2>4 DEF AccountedInv, FilesAccounted
<1>2. AccountedInv /\ FilesInv /\ NumbersInv /\ [BackendNext]_backendVars => AccountedInv'
  <2> SUFFICES ASSUME AccountedInv, FilesInv, NumbersInv, [BackendNext]_backendVars
               PROVE  AccountedInv'
    OBVIOUS
  <2>1. Shape /\ DOMAIN rows = InspectionId
    BY DEF NumbersInv
  <2>2. CASE \E r \in Request : PhotoStep(r)
    BY <2>2, PhotosAccount
  <2>3. CASE Restart
    BY <2>3, RestartAccounts
  <2>4. CASE Serving /\ Holding
    BY <2>4, HoldingKeepsInv
  <2> QED
    BY <2>1, <2>2, <2>3, <2>4, StepsOfBackend, CreationServing, CreationHolding DEF Aside
<1> QED
  BY <1>1, <1>2, NumbersInvInductive, FilesInvInductive, PTL DEF BackendSpec

\* No file on disk is lost track of: it is a photo's, in the hand of a
\* handler, or known to be left behind.
THEOREM FilesAreAccounted == BackendSpec => []FilesAccounted
<1>1. AccountedInv => FilesAccounted
  BY DEF AccountedInv
<1> QED
  BY <1>1, AccountedInvInductive, PTL
=============================================================================
