---------------------------- MODULE AccountsProofs ----------------------------
(***************************************************************************)
(* Proofs about the users and sessions of Backend: accounts stay unique    *)
(* and are found under the address they signed up with                     *)
(* (SelfRegisteredFound), and the handlers of guarded routes run for whom  *)
(* the guards saw (AcceptedRequestsAreCurrent).                            *)
(*                                                                         *)
(* A user is named by the request that created it, and a request runs      *)
(* once: the argument is that a user who is gone never comes back, so that *)
(* a user and a token found now were valid before, when the request came.  *)
(***************************************************************************)
EXTENDS BackendProofs

-----------------------------------------------------------------------------
(* The invariant                                                           *)

AccountLabels == {"arriving", "authenticating", "loading", "idle", "registering", "handling",
                  "insertingUser", "writing", "refreshing", "storing"}

\* A request at one of these has not created a user, and at one of the others
\* of AccountLabels not handed out a token.
BeforeUser == {"arriving", "authenticating", "loading", "idle", "registering", "handling",
               "insertingUser"}

Born(u) == u \in FirstUser \/ (u \in Request /\ pc[u] \notin BeforeUser)

UserRows ==
    /\ users \in [UserId -> User \cup {None}]
    /\ \A u \in Users : Born(u)
    /\ \A u, v \in Users : u # v =>
          /\ users[u].email # users[v].email
          /\ users[u].google # None => users[u].google # users[v].google
    /\ \A u \in Users : users[u].branch \in Branches \cup {None}

Sessions ==
    /\ tokens \in [Token -> [user: UserId, role: Role] \cup {None}]
    /\ blacklist \subseteq Issued
    /\ \A t \in Issued : Born(tokens[t].user)
    /\ \A r \in Request : pc[r] \in BeforeUser \cup {"refreshing", "storing"} => tokens[r] = None

SignUps ==
    /\ registered \in [UserId -> Address \cup {None}]
    /\ \A u \in UserId : registered[u] # None =>
          /\ Born(u)
          /\ u \in Users => users[u].email = Norm[registered[u]]

\* What the handler of a request keeps.
Keeping(r) ==
    /\ pc[r] \in AccountLabels \ {"arriving", "idle"} => memo[r] \in AccountMemo
    /\ pc[r] \in AccountLabels \ {"arriving", "idle", "registering"} =>
          memo[r].user \in UserId /\ Born(memo[r].user)
    /\ pc[r] \in {"authenticating", "loading", "handling", "insertingUser", "writing"} =>
          memo[r].token \in Issued
    /\ pc[r] \in {"handling", "insertingUser", "writing"} => op[r] \in TokenOps
    /\ pc[r] \in {"registering", "insertingUser"} => memo[r].address \in Address

\* What the guards will find of a user who is still there was so when the
\* request came, and its role is one of those since.
Guarding(r) ==
    /\ pc[r] = "authenticating" /\ memo[r].token \notin blacklist /\ memo[r].user \in Users =>
          memo[r].fresh
    /\ pc[r] = "loading" /\ memo[r].user \in Users => memo[r].fresh
    /\ pc[r] \in {"authenticating", "loading"} /\ memo[r].user \in Users =>
          users[memo[r].user].role \in memo[r].roles
    /\ Accepted(r) => memo[r].fresh /\ memo[r].role \in memo[r].roles \cap MayCall(op[r])
    /\ admitted[r] # None =>
          admitted[r].fresh /\ admitted[r].role \in admitted[r].roles \cap MayCall(op[r])

Handlers == \A r \in Request : Keeping(r) /\ Guarding(r)

AccountsInv ==
    /\ Shape
    /\ DOMAIN admitted = Request
    /\ UserRows
    /\ Sessions
    /\ SignUps
    /\ Handlers

-----------------------------------------------------------------------------
(* What a step leaves alone                                                *)

\* Users who are there were there before, unless the step creates them, in
\* the same role; tokens stay, and those that are out of use stay so.
Ages ==
    /\ Issued \subseteq Issued'
    /\ blacklist \subseteq blacklist'
    /\ \A u \in UserId : Born(u) => Born(u)'
    /\ \A u \in Users' : Born(u) => u \in Users /\ users'[u].role = users[u].role

LEMMA OthersKeep ==
    ASSUME AccountsInv, UNCHANGED op, Ages, NEW q \in Request,
           pc'[q] \in AccountLabels => pc'[q] = pc[q] /\ memo'[q] = memo[q],
           admitted'[q] = admitted[q]
    PROVE  Keeping(q)' /\ Guarding(q)'
<1>1. Keeping(q) /\ Guarding(q)
  BY DEF AccountsInv, Handlers
<1>2. Keeping(q)'
  BY <1>1 DEF Keeping, AccountLabels, Ages
<1>3. Guarding(q)'
  <2>1. ASSUME pc'[q] \in {"authenticating", "loading"}
        PROVE  /\ pc'[q] = pc[q] /\ memo'[q] = memo[q]
               /\ memo[q].user \in Users' =>
                     memo[q].user \in Users /\ users'[memo[q].user].role = users[memo[q].user].role
    BY <1>1, <2>1 DEF Keeping, AccountLabels, Ages
  <2>2. Accepted(q)' => Accepted(q) /\ memo'[q] = memo[q]
    BY DEF Accepted, AccountLabels
  <2> QED
    BY <1>1, <2>1, <2>2 DEF Guarding, Ages
<1> QED
  BY <1>2, <1>3

\* What the requests for records leave alone.
Resting ==
    /\ Shape'
    /\ UNCHANGED op
    /\ \A q \in Request : pc'[q] \in AccountLabels => pc'[q] = pc[q] /\ memo'[q] = memo[q]

LEMMA RestingKeepsInv ==
    ASSUME AccountsInv, Resting, ReleasesBranches,
           UNCHANGED <<tokens, blacklist, registered, admitted>>
    PROVE  AccountsInv'
<1> USE DEF AccountsInv, Resting
<1>1. \A u \in UserId : Born(u) => Born(u)'
  BY DEF Born, BeforeUser, AccountLabels
<1>2. /\ DOMAIN users' = UserId
      /\ \A u \in UserId : users'[u] # None =>
            /\ users[u] # None /\ users[u] \in User
            /\ \/ users'[u] = users[u]
               \/ users'[u] = [users[u] EXCEPT !.branch = None]
            /\ users'[u].branch \in Branches' \cup {None}
  <2>1. ASSUME NEW u \in UserId, users'[u] # None
        PROVE  /\ users[u] # None /\ users[u] \in User
               /\ \/ users'[u] = users[u]
                  \/ users'[u] = [users[u] EXCEPT !.branch = None]
               /\ users'[u].branch \in Branches' \cup {None}
    BY <2>1 DEF ReleasesBranches, UserRows, Users, User, Branches
  <2> QED
    BY <2>1 DEF ReleasesBranches
<1>3. \A u \in Users' :
         /\ u \in Users /\ users[u] \in User /\ users'[u] \in User
         /\ users'[u].email = users[u].email /\ users'[u].google = users[u].google
         /\ users'[u].role = users[u].role
  BY <1>2 DEF Users, User
<1>4. UserRows'
  <2>1. users' \in [UserId -> User \cup {None}]
    <3>1. \A u \in UserId : users'[u] \in User \cup {None}
      BY <1>3 DEF Users
    <3>2. users' = [u \in UserId |-> users'[u]]
      BY DEF ReleasesBranches
    <3> QED
      BY <3>1, <3>2
  <2>2. \A u \in Users' : Born(u)'
    BY <1>1, <1>3 DEF UserRows, Users
  <2>3. \A u \in Users' : users'[u].branch \in Branches' \cup {None}
    BY <1>2 DEF Users
  <2>4. \A u, v \in Users' : u # v =>
           /\ users'[u].email # users'[v].email
           /\ users'[u].google # None => users'[u].google # users'[v].google
    BY <1>3 DEF UserRows
  <2> QED
    BY <2>1, <2>2, <2>3, <2>4 DEF UserRows
<1>5. Sessions'
  <2>1. Issued' = Issued /\ \A t \in Issued : tokens[t].user \in UserId
    BY DEF Sessions, Issued
  <2>2. \A r \in Request :
           pc'[r] \in BeforeUser \cup {"refreshing", "storing"} => pc'[r] = pc[r]
    BY DEF BeforeUser, AccountLabels
  <2> QED
    BY <1>1, <2>1, <2>2 DEF Sessions
<1>6. SignUps'
  BY <1>1, <1>3 DEF SignUps
<1>7. Ages
  BY <1>1, <1>3 DEF Ages, Issued
<1>8. Handlers'
  BY <1>7, OthersKeep DEF Handlers
<1> QED
  BY <1>4, <1>5, <1>6, <1>8

-----------------------------------------------------------------------------
(* Requests for records                                                    *)

LEMMA HandlerRests ==
    ASSUME NEW r \in Request, Shape, UNCHANGED op, Others(r), pc'[r] \notin AccountLabels
    PROVE  Resting
BY DEF Resting, Others, Shape

LEMMA CreationRests ==
    ASSUME NEW r \in Request, Shape, CreationStep(r)
    PROVE  Resting
<1> USE DEF Keeps, Goto, Ends, Shape, Others, AccountLabels
<1>1. CASE ReadInspector(r) \/ ReadBranch(r) \/ ReadBranchFails(r)
  BY <1>1, HandlerRests DEF ReadInspector, ReadBranch, ReadBranchFails
<1>2. CASE BeginCreate(r) \/ CommitCreate(r) \/ AbortCreate(r)
  BY <1>2, HandlerRests DEF BeginCreate, CommitCreate, AbortCreate
<1>3. CASE CreateBranch(r) \/ UpdateBranch(r) \/ RemoveBranch(r)
  BY <1>3, HandlerRests DEF CreateBranch, UpdateBranch, RemoveBranch
<1>4. CASE ReadActive(r) \/ ToggleActive(r) \/ ToggleFails(r)
  BY <1>4, HandlerRests DEF ReadActive, ToggleActive, ToggleFails
<1> QED
  BY <1>1, <1>2, <1>3, <1>4 DEF CreationStep

LEMMA PhotosRest ==
    ASSUME NEW r \in Request, Shape, PhotoStep(r)
    PROVE  Resting
<1> USE DEF Keeps, Goto, Ends, Shape, AccountLabels
<1>1. Others(r)
  BY PhotoStepMovesOne
<1>2. CASE Upload(r) \/ InvalidFile(r) \/ RefuseUpload(r)
  BY <1>1, <1>2, HandlerRests DEF Upload, InvalidFile, RefuseUpload
<1>3. CASE EnsureInspectionExists(r) \/ RecordPhotos(r) \/ RecordFails(r)
  BY <1>1, <1>3, HandlerRests DEF EnsureInspectionExists, RecordPhotos, RecordFails
<1>4. CASE UploadReplacement(r) \/ FindPhoto(r) \/ ReplacePath(r)
  BY <1>1, <1>4, HandlerRests DEF UploadReplacement, FindPhoto, ReplacePath
<1>5. CASE ReplaceFails(r) \/ UnlinkFile(r)
  BY <1>1, <1>5, HandlerRests DEF ReplaceFails, UnlinkFile
<1>6. CASE ReadPath(r) \/ DeletePhotoRow(r) \/ DeletePhotoFails(r)
  BY <1>1, <1>6, HandlerRests DEF ReadPath, DeletePhotoRow, DeletePhotoFails
<1>7. CASE ReadForDeletion(r) \/ UnlinkNext(r) \/ CommitDeletion(r) \/ DeletionFails(r)
  BY <1>1, <1>7, HandlerRests DEF ReadForDeletion, UnlinkNext, CommitDeletion, DeletionFails
<1> QED
  BY <1>2, <1>3, <1>4, <1>5, <1>6, <1>7 DEF PhotoStep

LEMMA QueriesRest ==
    ASSUME NEW r \in Request, Shape, QueryStep(r) \/ ChangeStatus(r)
    PROVE  Resting
<1> USE DEF Keeps, Goto, Ends, Shape, Others, AccountLabels
<1>1. CASE AskForPages(r) \/ CountRows(r)
  BY <1>1, HandlerRests DEF AskForPages, CountRows
<1>2. CASE ListRows(r)
  BY <1>2, HandlerRests DEF ListRows
<1>3. CASE FindOne(r) \/ PublicFindOne(r)
  BY <1>3, HandlerRests DEF FindOne, PublicFindOne
<1>4. CASE FindPlate(r) \/ ReadPlate(r)
  BY <1>4, HandlerRests DEF FindPlate, ReadPlate
<1>5. CASE ReadLatest(r) \/ ReadViews(r)
  BY <1>5, HandlerRests DEF ReadLatest, ReadViews
<1>6. CASE ChangeStatus(r)
  BY <1>6, HandlerRests DEF ChangeStatus
<1> QED
  BY <1>1, <1>2, <1>3, <1>4, <1>5, <1>6 DEF QueryStep

LEMMA DashboardRests ==
    ASSUME NEW r \in Request, Shape, DashboardStep(r)
    PROVE  Resting
<1> USE DEF Keeps, Goto, Shape, Others, AccountLabels
<1>1. CASE ReadCities(r) \/ CountTotal(r)
  BY <1>1, HandlerRests DEF ReadCities, CountTotal
<1>2. CASE CountBranch(r)
  BY <1>2, HandlerRests DEF CountBranch
<1>3. CASE CountPreviousTotal(r)
  BY <1>3, HandlerRests DEF CountPreviousTotal
<1>4. CASE AskCounters(r) \/ CountPeriod(r)
  BY <1>4, HandlerRests DEF AskCounters, CountPeriod
<1>5. CASE AskTrend(r)
  BY <1>5, HandlerRests DEF AskTrend
<1> QED
  BY <1>1, <1>2, <1>3, <1>4, <1>5 DEF DashboardStep

LEMMA RecordsRest ==
    ASSUME Shape, DashboardNext
    PROVE  Resting
<1>1. CASE \E r \in Request : DashboardStep(r)
  BY <1>1, DashboardRests
<1>2. CASE \E r \in Request : QueryStep(r) \/ ChangeStatus(r)
  BY <1>2, QueriesRest
<1>3. CASE \E r \in Request : CreationStep(r)
  BY <1>3, CreationRests
<1>4. CASE \E r \in Request : PhotoStep(r)
  BY <1>4, PhotosRest
<1>5. CASE Restart
  BY <1>5 DEF Restart, InFlight, Shape, AccountLabels, Resting
<1> QED
  BY <1>1, <1>2, <1>3, <1>4, <1>5
     DEF DashboardNext, OtherStep, QueriesNext, WriteStep, PhotosNext, CreationNext

-----------------------------------------------------------------------------
(* Handlers that only read                                                 *)

\* A step of one handler, whatever it does to the tables.
LEMMA StepKeepsHandlers ==
    ASSUME AccountsInv, NEW r \in Request, Others(r), UNCHANGED op, Ages,
           \A q \in Request \ {r} : admitted'[q] = admitted[q],
           Keeping(r)', Guarding(r)'
    PROVE  Handlers'
BY OthersKeep DEF Others, Handlers

LEMMA ReadingKeepsInv ==
    ASSUME AccountsInv, NEW r \in Request, Others(r),
           UNCHANGED <<op, branches, users, tokens, blacklist, registered>>,
           DOMAIN admitted' = Request,
           \A q \in Request \ {r} : admitted'[q] = admitted[q],
           pc'[r] \in BeforeUser => pc[r] \in BeforeUser,
           pc'[r] \in BeforeUser \cup {"refreshing", "storing"} =>
               pc[r] \in BeforeUser \cup {"refreshing", "storing"},
           Keeping(r)', Guarding(r)'
    PROVE  AccountsInv'
<1> USE DEF AccountsInv
<1>1. \A u \in UserId : Born(u) => Born(u)'
  BY DEF Born, Others, UserId
<1>2. Users' = Users /\ Issued' = Issued /\ Branches' = Branches
  BY DEF Users, Issued, Branches
<1>3. UserRows'
  BY <1>1, <1>2 DEF UserRows, Users
<1>4. Sessions'
  <2>1. \A t \in Issued : tokens[t].user \in UserId
    BY DEF Sessions, Issued
  <2> QED
    BY <1>1, <1>2, <2>1 DEF Sessions, Others
<1>5. SignUps'
  BY <1>1, <1>2 DEF SignUps
<1>6. Ages
  BY <1>1, <1>2 DEF Ages
<1>7. Handlers'
  BY <1>6, StepKeepsHandlers
<1> QED
  BY <1>3, <1>4, <1>5, <1>7 DEF Others, Shape

LEMMA ArriveKeepsInv ==
    ASSUME AccountsInv, NEW r \in Request, Arrive(r)
    PROVE  AccountsInv'
<1> USE DEF AccountsInv, Shape, Goto, Keeps
<1>1. /\ Others(r)
      /\ UNCHANGED <<op, branches, users, tokens, blacklist, registered, admitted>>
      /\ pc[r] = "arriving" /\ pc'[r] = "authenticating"
  BY DEF Arrive, Others, tables, accountVars
<1>2. PICK t \in Issued, fresh \in BOOLEAN, roles \in SUBSET Role :
           /\ memo'[r] = [Blank EXCEPT !.user = tokens[t].user, !.token = t,
                                       !.roles = roles, !.fresh = fresh]
           /\ t \notin blacklist /\ tokens[t].user \in Users => fresh
           /\ tokens[t].user \in Users => users[tokens[t].user].role \in roles
  <2>1. PICK t \in Issued :
             memo'[r] = [Blank EXCEPT !.user = tokens[t].user, !.token = t,
                 !.roles = {users[v].role : v \in {tokens[t].user} \cap Users},
                 !.fresh = t \notin blacklist /\ tokens[t].user \in Users]
    BY DEF Arrive
  <2> DEFINE roles == {users[v].role : v \in {tokens[t].user} \cap Users}
             fresh == t \notin blacklist /\ tokens[t].user \in Users
  <2>2. roles \in SUBSET Role /\ (tokens[t].user \in Users => users[tokens[t].user].role \in roles)
    BY DEF UserRows, Users, User
  <2>3. fresh \in BOOLEAN /\ (t \notin blacklist /\ tokens[t].user \in Users => fresh)
    OBVIOUS
  <2>4. memo'[r] = [Blank EXCEPT !.user = tokens[t].user, !.token = t,
                                 !.roles = roles, !.fresh = fresh]
    BY <2>1
  <2> HIDE DEF roles, fresh
  <2> QED
    BY <2>2, <2>3, <2>4
<1>3. t \in Token /\ tokens[t].user \in UserId /\ Born(tokens[t].user)
  BY DEF Sessions, Issued
<1>4. memo'[r] \in AccountMemo
  BY <1>2, <1>3 DEF Blank, AccountMemo, Role
<1>5. /\ memo'[r].user = tokens[t].user /\ memo'[r].token = t
      /\ memo'[r].fresh = fresh /\ memo'[r].roles = roles
  BY <1>2 DEF Blank
<1>6. Born(tokens[t].user)'
  BY <1>1, <1>3 DEF Born, Others, BeforeUser
<1>7. Keeping(r)'
  BY <1>1, <1>3, <1>4, <1>5, <1>6 DEF Keeping, Issued
<1>8. Guarding(r)'
  BY <1>1, <1>2, <1>5 DEF Guarding, Accepted, Users, Handlers
<1> QED
  BY <1>1, <1>7, <1>8, ReadingKeepsInv DEF BeforeUser

\* The token is not on the blacklist, so it was not when the request came.
LEMMA CheckBlacklistKeepsInv ==
    ASSUME AccountsInv, NEW r \in Request, CheckBlacklist(r)
    PROVE  AccountsInv'
<1> USE DEF AccountsInv, Shape, Goto
<1>1. /\ Others(r)
      /\ UNCHANGED <<op, memo, branches, users, tokens, blacklist, registered, admitted>>
      /\ pc[r] = "authenticating" /\ pc'[r] = "loading" /\ memo[r].token \notin blacklist
  BY DEF CheckBlacklist, Others, tables, accountVars
<1>2. Keeping(r) /\ Guarding(r)
  BY DEF Handlers
<1>3. Keeping(r)'
  BY <1>1, <1>2 DEF Keeping, AccountLabels, Born, Others, BeforeUser, Issued
<1>4. Guarding(r)'
  BY <1>1, <1>2 DEF Guarding, Accepted, Users
<1> QED
  BY <1>1, <1>3, <1>4, ReadingKeepsInv DEF BeforeUser

\* The user is still there, so was there when the request came.
LEMMA LoadUserKeepsInv ==
    ASSUME AccountsInv, NEW r \in Request, LoadUser(r)
    PROVE  AccountsInv'
<1> USE DEF AccountsInv, Shape, Goto, Keeps, Ends
<1> DEFINE u == memo[r].user
<1>1. /\ Others(r)
      /\ UNCHANGED <<op, branches, users, tokens, blacklist, registered>>
      /\ pc[r] = "loading" /\ pc'[r] \in {"handling", "idle"}
      /\ u \in Users /\ users[u].role \in MayCall(op[r])
      /\ DOMAIN admitted' = Request
      /\ \A q \in Request \ {r} : admitted'[q] = admitted[q]
  BY DEF LoadUser, Admits, Others, tables
<1>2. /\ Keeping(r) /\ Guarding(r)
      /\ memo[r] \in AccountMemo /\ u \in UserId /\ Born(u) /\ memo[r].token \in Issued
      /\ memo[r].fresh /\ users[u].role \in memo[r].roles
  BY <1>1 DEF Handlers, Keeping, Guarding, AccountLabels
<1>3. users[u].role \in Role
  BY <1>1 DEF UserRows, Users, User
<1>4. CASE op[r] \in TokenOps
  <2>1. /\ pc'[r] = "handling" /\ admitted' = admitted
        /\ memo'[r] = [memo[r] EXCEPT !.role = users[u].role]
    BY <1>4 DEF LoadUser, Admits
  <2>2. /\ memo'[r] \in AccountMemo /\ memo'[r].user = u /\ memo'[r].token = memo[r].token
        /\ memo'[r].fresh = memo[r].fresh /\ memo'[r].roles = memo[r].roles
        /\ memo'[r].role = users[u].role
    BY <1>2, <1>3, <2>1 DEF AccountMemo
  <2>3. Keeping(r)'
    BY <1>1, <1>2, <1>4, <2>1, <2>2 DEF Keeping, Born, Others, BeforeUser, Issued
  <2>4. Guarding(r)'
    BY <1>1, <1>2, <2>1, <2>2 DEF Guarding, Accepted
  <2> QED
    BY <1>1, <2>1, <2>3, <2>4, ReadingKeepsInv DEF BeforeUser
<1>5. CASE op[r] \notin TokenOps
  <2>1. /\ pc'[r] = "idle"
        /\ admitted'[r] = [role |-> users[u].role, roles |-> memo[r].roles, fresh |-> memo[r].fresh]
    BY <1>5 DEF LoadUser, Admits
  <2>2. Keeping(r)'
    BY <2>1 DEF Keeping, AccountLabels
  <2>3. Guarding(r)'
    BY <1>1, <1>2, <2>1 DEF Guarding, Accepted
  <2> QED
    BY <1>1, <2>1, <2>2, <2>3, ReadingKeepsInv DEF BeforeUser
<1> QED
  BY <1>4, <1>5

\* A handler that ends, and does nothing else.
LEMMA FailureKeepsInv ==
    ASSUME AccountsInv, NEW r \in Request, AccountStepFails(r)
    PROVE  AccountsInv'
<1> USE DEF AccountsInv, Shape, Goto, Keeps, Ends
<1>1. /\ Others(r)
      /\ UNCHANGED <<op, branches, users, tokens, blacklist, registered, admitted>>
      /\ pc'[r] = "rejected"
  BY DEF AccountStepFails, Refused, Others, tables, accountVars
<1>2. Guarding(r)
  BY DEF Handlers
<1>3. Keeping(r)'
  BY <1>1 DEF Keeping, AccountLabels
<1>4. Guarding(r)'
  BY <1>1, <1>2 DEF Guarding, Accepted
<1> QED
  BY <1>1, <1>3, <1>4, ReadingKeepsInv DEF BeforeUser

\* Who signs in, or refreshes a session, is a user.
LEMMA SigningInKeepsInv ==
    ASSUME AccountsInv, NEW r \in Request,
           LoginLocal(r) \/ LoginInspector(r) \/ Refresh(r) \/ RefreshTokens(r)
    PROVE  AccountsInv'
<1> USE DEF AccountsInv, Shape, Goto, Keeps, SignsIn, Asks
<1>1. /\ Others(r)
      /\ UNCHANGED <<op, branches, users, tokens, blacklist, registered, admitted>>
      /\ pc[r] \in {"idle", "refreshing"} /\ pc'[r] \in {"refreshing", "storing"}
  BY DEF LoginLocal, LoginInspector, Refresh, RefreshTokens, Others, tables, accountVars
<1>2. PICK u \in Users, role \in Role : memo'[r] = [Blank EXCEPT !.user = u, !.role = role]
  <2>1. \A u \in Users : users[u].role \in Role
    BY DEF UserRows, Users, User
  <2>2. CASE LoginLocal(r) \/ LoginInspector(r)
    BY <2>1, <2>2 DEF LoginLocal, LoginInspector, Found
  <2>3. CASE Refresh(r)
    <3>1. PICK u \in Users : memo'[r] = [Blank EXCEPT !.user = u]
      BY <2>3 DEF Refresh
    <3>2. memo'[r] = [Blank EXCEPT !.user = u, !.role = "CUSTOMER"] /\ "CUSTOMER" \in Role
      BY <3>1 DEF Blank, Role
    <3> QED
      BY <3>2
  <2>4. CASE RefreshTokens(r)
    BY <2>1, <2>4 DEF RefreshTokens
  <2> QED
    BY <2>2, <2>3, <2>4
<1>3. u \in UserId /\ Born(u)
  BY DEF UserRows, Users
<1>4. memo'[r] \in AccountMemo /\ memo'[r].user = u
  BY <1>2, <1>3 DEF Blank, AccountMemo, Role
<1>5. Guarding(r)
  BY DEF Handlers
<1>6. Keeping(r)'
  BY <1>1, <1>3, <1>4 DEF Keeping, Born, Others, BeforeUser
<1>7. Guarding(r)'
  BY <1>1, <1>5 DEF Guarding, Accepted
<1> QED
  BY <1>1, <1>6, <1>7, ReadingKeepsInv DEF BeforeUser

LEMMA CheckAddressKeepsInv ==
    ASSUME AccountsInv, NEW r \in Request, CheckAddress(r)
    PROVE  AccountsInv'
<1> USE DEF AccountsInv, Shape, Goto, Keeps, Asks
<1>1. /\ Others(r)
      /\ UNCHANGED <<op, branches, users, tokens, blacklist, registered, admitted>>
      /\ pc[r] = "idle" /\ pc'[r] = "registering"
  BY DEF CheckAddress, Others, tables, accountVars
<1>2. PICK a \in Address : memo'[r] = [Blank EXCEPT !.address = a]
  BY DEF CheckAddress
<1>3. memo'[r] \in AccountMemo /\ memo'[r].address = a
  BY <1>2 DEF Blank, AccountMemo, Role
<1>4. Guarding(r)
  BY DEF Handlers
<1>5. Keeping(r)'
  BY <1>1, <1>3 DEF Keeping
<1>6. Guarding(r)'
  BY <1>1, <1>4 DEF Guarding, Accepted
<1> QED
  BY <1>1, <1>5, <1>6, ReadingKeepsInv DEF BeforeUser

\* The handler goes on with what the guards found.
LEMMA HandlingKeepsInv ==
    ASSUME AccountsInv, NEW r \in Request, CheckNewUser(r) \/ FindTarget(r)
    PROVE  AccountsInv'
<1> USE DEF AccountsInv, Shape, Goto, Keeps
<1>1. /\ Others(r)
      /\ UNCHANGED <<op, branches, users, tokens, blacklist, registered, admitted>>
      /\ pc[r] = "handling" /\ pc'[r] \in {"insertingUser", "writing"}
  BY DEF CheckNewUser, FindTarget, Others, tables, accountVars
<1>2. memo[r] \in AccountMemo /\ op[r] \in TokenOps /\ Keeping(r) /\ Guarding(r)
  BY <1>1 DEF Handlers, Keeping, AccountLabels
<1>3. /\ memo'[r] \in AccountMemo
      /\ memo'[r].user = memo[r].user /\ memo'[r].token = memo[r].token
      /\ memo'[r].role = memo[r].role /\ memo'[r].roles = memo[r].roles
      /\ memo'[r].fresh = memo[r].fresh
      /\ pc'[r] = "insertingUser" => memo'[r].address \in Address
  <2>1. CASE CheckNewUser(r)
    <3>1. PICK a \in Address, b \in BranchId \cup {None}, role \in Role :
               memo'[r] = [memo[r] EXCEPT !.address = a, !.branch = b, !.was = role]
      <4>1. CASE op[r] = "createInspector"
        BY <1>2, <2>1, <4>1 DEF CheckNewUser, Branches, Role
      <4>2. CASE op[r] = "createAdmin"
        <5>1. PICK a \in Address, role \in {"ADMIN", "SUPERADMIN"} :
                   memo'[r] = [memo[r] EXCEPT !.address = a, !.was = role]
          BY <2>1, <4>2 DEF CheckNewUser
        <5>2. memo'[r] = [memo[r] EXCEPT !.address = a, !.branch = memo[r].branch, !.was = role]
          BY <1>2, <5>1 DEF AccountMemo
        <5>3. memo[r].branch \in BranchId \cup {None} /\ role \in Role
          BY <1>2 DEF AccountMemo, Role
        <5> QED
          BY <5>2, <5>3
      <4> QED
        BY <2>1, <4>1, <4>2 DEF CheckNewUser
    <3> QED
      BY <1>2, <3>1 DEF AccountMemo
  <2>2. CASE FindTarget(r)
    <3>1. PICK u \in Users : memo'[r] = [memo[r] EXCEPT !.target = u, !.was = users[u].role]
      BY <2>2 DEF FindTarget
    <3>2. u \in UserId /\ users[u].role \in Role
      BY DEF UserRows, Users, User
    <3> QED
      BY <1>2, <2>2, <3>1, <3>2 DEF AccountMemo, FindTarget
  <2> QED
    BY <2>1, <2>2
<1>4. Keeping(r)'
  BY <1>1, <1>2, <1>3 DEF Keeping, AccountLabels, Born, Others, BeforeUser, Issued
<1>5. Guarding(r)'
  BY <1>1, <1>2, <1>3 DEF Guarding, Accepted
<1> QED
  BY <1>1, <1>4, <1>5, ReadingKeepsInv DEF BeforeUser

-----------------------------------------------------------------------------
(* Handlers that write                                                     *)

\* A new row for a user whom no one has, with an address that no one has.
LEMMA AddingKeepsInv ==
    ASSUME AccountsInv, NEW r \in Request, Others(r),
           UNCHANGED <<op, branches, tokens, blacklist, admitted>>,
           NEW row \in User, users' = [users EXCEPT ![r] = row],
           EmailFree(row.email),
           row.google # None => \A v \in Users : users[v].google # row.google,
           row.branch \in Branches \cup {None},
           \/ registered' = registered
           \/ \E a \in Address : /\ registered' = [registered EXCEPT ![r] = a]
                                 /\ row.email = Norm[a],
           pc[r] \in BeforeUser, pc'[r] \in {"storing", "done"},
           Keeping(r)'
    PROVE  AccountsInv'
<1> USE DEF AccountsInv
<1>1. /\ r \in UserId /\ ~Born(r) /\ r \notin Users /\ registered[r] = None
      /\ Born(r)' /\ tokens[r] = None
  BY AccountsAssumption DEF Born, BeforeUser, UserRows, SignUps, Sessions, UserId
<1>2. \A u \in UserId : Born(u) => Born(u)'
  BY DEF Born, Others, BeforeUser, UserId
<1>3. /\ users' \in [UserId -> User \cup {None}] /\ users'[r] = row
      /\ \A u \in Users' : u = r \/ (u \in Users /\ users'[u] = users[u])
      /\ Branches' = Branches /\ Issued' = Issued
  BY <1>1 DEF UserRows, Users, Branches, Issued
<1>4. UserRows'
  <2>1. \A u \in Users' : Born(u)'
    BY <1>1, <1>2, <1>3 DEF UserRows, Users
  <2>2. \A u \in Users' : users'[u].branch \in Branches' \cup {None}
    BY <1>3 DEF UserRows
  <2>3. ASSUME NEW u \in Users', NEW v \in Users', u # v
        PROVE  /\ users'[u].email # users'[v].email
               /\ users'[u].google # None => users'[u].google # users'[v].google
    <3>1. CASE u = r
      BY <1>3, <2>3, <3>1 DEF EmailFree
    <3>2. CASE v = r
      BY <1>3, <2>3, <3>2 DEF EmailFree
    <3>3. CASE u # r /\ v # r
      BY <1>3, <2>3, <3>3 DEF UserRows
    <3> QED
      BY <3>1, <3>2, <3>3
  <2> QED
    BY <1>3, <2>1, <2>2, <2>3 DEF UserRows
<1>5. Sessions'
  <2>1. \A t \in Issued : tokens[t].user \in UserId
    BY DEF Sessions, Issued
  <2> QED
    BY <1>1, <1>2, <1>3, <2>1 DEF Sessions, Others
<1>6. SignUps'
  <2>1. registered' \in [UserId -> Address \cup {None}]
    BY <1>1 DEF SignUps
  <2>2. ASSUME NEW u \in UserId, registered'[u] # None
        PROVE  Born(u)' /\ (u \in Users' => users'[u].email = Norm[registered'[u]])
    <3>1. CASE u = r
      BY <1>1, <1>3, <2>2, <3>1 DEF SignUps
    <3>2. CASE u # r
      BY <1>2, <1>3, <2>2, <3>2 DEF SignUps
    <3> QED
      BY <3>1, <3>2
  <2> QED
    BY <2>1, <2>2 DEF SignUps
<1>7. Ages
  BY <1>1, <1>2, <1>3 DEF Ages
<1>8. Guarding(r)'
  BY DEF Guarding, Accepted, Handlers
<1>9. Handlers'
  BY <1>7, <1>8, StepKeepsHandlers
<1> QED
  BY <1>4, <1>5, <1>6, <1>9 DEF Others, Shape

\* The row of one user changes or goes; a session may be stored with it.
LEMMA UpdatingKeepsInv ==
    ASSUME AccountsInv, NEW r \in Request, Others(r),
           UNCHANGED <<op, branches, blacklist, admitted>>,
           NEW u \in Users, NEW row \in User \cup {None},
           users' = [users EXCEPT ![u] = row],
           row # None =>
               /\ row.role = users[u].role
               /\ \A v \in Users \ {u} :
                     /\ users[v].email # row.email
                     /\ row.google # None => users[v].google # row.google
               /\ row.branch \in Branches \cup {None},
           NEW kept \in {registered[u], None},
           registered' = [registered EXCEPT ![u] = kept],
           row # None /\ kept # None => row.email = users[u].email,
           \/ tokens' = tokens
           \/ /\ pc[r] = "storing" /\ pc'[r] = "done"
              /\ tokens' = [tokens EXCEPT ![r] = [user |-> memo[r].user, role |-> memo[r].role]],
           pc'[r] = "done" \/ (pc[r] = "idle" /\ pc'[r] = "storing"),
           Keeping(r)'
    PROVE  AccountsInv'
<1> USE DEF AccountsInv
<1>1. u \in UserId /\ users[u] # None /\ users[u] \in User /\ Born(u)
  BY DEF Users, UserRows
<1>2. \A v \in UserId : Born(v) => Born(v)'
  BY DEF Born, Others, BeforeUser, UserId
<1>3. /\ users' \in [UserId -> User \cup {None}] /\ users'[u] = row
      /\ \A v \in Users' : v \in Users /\ (v # u => users'[v] = users[v])
      /\ u \in Users' => row # None
      /\ Branches' = Branches
  BY <1>1 DEF UserRows, Users, Branches
<1>4. UserRows'
  <2>1. \A v \in Users' : Born(v)'
    BY <1>2, <1>3 DEF UserRows, Users
  <2>2. \A v \in Users' : users'[v].branch \in Branches' \cup {None}
    BY <1>3 DEF UserRows
  <2>3. ASSUME NEW v \in Users', NEW w \in Users', v # w
        PROVE  /\ users'[v].email # users'[w].email
               /\ users'[v].google # None => users'[v].google # users'[w].google
    <3>1. CASE v = u
      BY <1>3, <2>3, <3>1
    <3>2. CASE w = u
      BY <1>3, <2>3, <3>2
    <3>3. CASE v # u /\ w # u
      BY <1>3, <2>3, <3>3 DEF UserRows
    <3> QED
      BY <3>1, <3>2, <3>3
  <2> QED
    BY <1>3, <2>1, <2>2, <2>3 DEF UserRows
<1>5. Sessions' /\ Issued \subseteq Issued'
  <2>1. \A t \in Issued : tokens[t].user \in UserId
    BY DEF Sessions, Issued
  <2>2. CASE tokens' = tokens
    BY <1>2, <2>1, <2>2 DEF Sessions, Others, Issued, BeforeUser
  <2>3. CASE tokens' # tokens
    <3> DEFINE t == [user |-> memo[r].user, role |-> memo[r].role]
    <3>1. /\ pc[r] = "storing" /\ pc'[r] = "done" /\ tokens' = [tokens EXCEPT ![r] = t]
          /\ memo[r] \in AccountMemo /\ memo[r].user \in UserId /\ Born(memo[r].user)
      BY <2>3 DEF Handlers, Keeping, AccountLabels
    <3>2. r \in Token /\ tokens[r] = None /\ t \in [user: UserId, role: Role]
      BY <3>1 DEF Sessions, Token, UserId, AccountMemo
    <3>3. /\ tokens' \in [Token -> [user: UserId, role: Role] \cup {None}]
          /\ Issued \subseteq Issued'
          /\ \A x \in Issued' : x = r \/ (x \in Issued /\ tokens'[x] = tokens[x])
          /\ tokens'[r].user = memo[r].user
      BY <3>1, <3>2 DEF Sessions, Issued
    <3>4. (\A x \in Issued : Born(tokens[x].user))'
      <4>1. \A v \in UserId :
               Born(v) => v \in FirstUser \/ (v \in Request /\ pc'[v] \notin BeforeUser)
        BY <1>2 DEF Born
      <4>2. \A x \in Issued' : \E v \in UserId : Born(v) /\ tokens'[x].user = v
        BY <2>1, <3>1, <3>3 DEF Sessions
      <4> QED
        BY <4>1, <4>2 DEF Born
    <3>5. \A q \in Request : pc'[q] \in BeforeUser \cup {"refreshing", "storing"} => tokens'[q] = None
      BY <3>1, <3>3 DEF Sessions, Others, BeforeUser
    <3> QED
      BY <3>3, <3>4, <3>5 DEF Sessions
  <2> QED
    BY <2>2, <2>3
<1>6. SignUps'
  <2>1. registered' \in [UserId -> Address \cup {None}]
    BY <1>1 DEF SignUps
  <2>2. ASSUME NEW v \in UserId, registered'[v] # None
        PROVE  Born(v)' /\ (v \in Users' => users'[v].email = Norm[registered'[v]])
    <3>1. CASE v = u
      BY <1>1, <1>2, <1>3, <2>2, <3>1 DEF SignUps
    <3>2. CASE v # u
      BY <1>2, <1>3, <2>2, <3>2 DEF SignUps
    <3> QED
      BY <3>1, <3>2
  <2> QED
    BY <2>1, <2>2 DEF SignUps
<1>7. Ages
  BY <1>2, <1>3, <1>5 DEF Ages
<1>8. Guarding(r)'
  BY DEF Guarding, Accepted, Handlers
<1>9. Handlers'
  BY <1>7, <1>8, StepKeepsHandlers
<1> QED
  BY <1>4, <1>5, <1>6, <1>9 DEF Others, Shape

\* By form: the address is stored normalized.
LEMMA RegisterUserKeepsInv ==
    ASSUME AccountsInv, NEW r \in Request, RegisterUser(r)
    PROVE  AccountsInv'
<1> USE DEF Shape, Goto, Keeps, Ends
<1> DEFINE a == memo[r].address
           row == [NewUser EXCEPT !.email = Norm[a], !.password = TRUE]
<1>1. /\ Others(r)
      /\ UNCHANGED <<op, branches, tokens, blacklist, admitted>>
      /\ pc[r] = "registering" /\ pc'[r] = "done" /\ EmailFree(Norm[a])
      /\ users' = [users EXCEPT ![r] = row]
      /\ registered' = [registered EXCEPT ![r] = a]
  BY DEF RegisterUser, Others, tables, Adds, AccountsInv
<1>2. a \in Address /\ Norm[a] \in Address
  BY <1>1, AccountsAssumption DEF AccountsInv, Handlers, Keeping
<1>3. /\ row \in User /\ row.email = Norm[a] /\ row.google = None /\ row.branch = None
  BY <1>2 DEF NewUser, User, Role
<1>4. Keeping(r)'
  BY <1>1 DEF Keeping, AccountLabels
<1> HIDE DEF row, a
<1> QED
  BY <1>1, <1>2, <1>3, <1>4, AddingKeepsInv DEF BeforeUser

\* By Google, for the first time: an address and an account that no one has.
LEMMA GoogleInsertKeepsInv ==
    ASSUME AccountsInv, NEW r \in Request, Asks(r, "google"),
           NEW a \in Address, NEW g \in GoogleId, Found(a) = {},
           \A v \in Users : users[v].google # g,
           users' = [users EXCEPT ![r] = [NewUser EXCEPT !.email = Norm[a], !.google = g]],
           registered' = [registered EXCEPT ![r] = a],
           SignsIn(r, r, "CUSTOMER"),
           UNCHANGED <<tables, tokens, blacklist, admitted>>
    PROVE  AccountsInv'
<1> USE DEF Shape, Goto, Keeps
<1> DEFINE row == [NewUser EXCEPT !.email = Norm[a], !.google = g]
<1>1. /\ Others(r) /\ UNCHANGED <<op, branches>>
      /\ pc[r] = "idle" /\ pc'[r] = "storing" /\ memo'[r] = [Blank EXCEPT !.user = r, !.role = "CUSTOMER"]
  BY DEF SignsIn, Others, tables, Asks, AccountsInv
<1>2. Norm[a] \in Address /\ EmailFree(Norm[a])
  BY AccountsAssumption DEF Found, EmailFree
<1>3. /\ row \in User /\ row.email = Norm[a] /\ row.google = g /\ row.branch = None
  BY <1>2 DEF NewUser, User, Role
<1>4. memo'[r] \in AccountMemo /\ memo'[r].user = r
  BY <1>1 DEF Blank, AccountMemo, Role, UserId
<1>5. Keeping(r)'
  BY <1>1, <1>4 DEF Keeping, Born, BeforeUser, UserId
<1> HIDE DEF row
<1>6. users' = [users EXCEPT ![r] = row]
  BY DEF row
<1> QED
  BY <1>1, <1>2, <1>3, <1>5, <1>6, AddingKeepsInv DEF BeforeUser

\* By Google, again: the account becomes the user's.
LEMMA GoogleUpdateKeepsInv ==
    ASSUME AccountsInv, NEW r \in Request, Asks(r, "google"),
           NEW u \in Users, NEW g \in GoogleId,
           \A v \in Users \ {u} : users[v].google # g,
           users' = [users EXCEPT ![u].google = g],
           SignsIn(r, u, users[u].role),
           UNCHANGED <<tables, tokens, blacklist, registered, admitted>>
    PROVE  AccountsInv'
<1> USE DEF Shape, Goto, Keeps
<1> DEFINE row == [users[u] EXCEPT !.google = g]
<1>1. /\ Others(r) /\ UNCHANGED <<op, branches, tokens, blacklist, admitted>>
      /\ pc[r] = "idle" /\ pc'[r] = "storing"
      /\ memo'[r] = [Blank EXCEPT !.user = u, !.role = users[u].role]
  BY DEF SignsIn, Others, tables, Asks, AccountsInv
<1>2. /\ u \in UserId /\ users[u] \in User /\ users[u].role \in Role /\ Born(u)
      /\ users[u].branch \in Branches \cup {None}
      /\ registered' = [registered EXCEPT ![u] = registered[u]]
      /\ \A v \in Users \ {u} : users[v].email # users[u].email
  BY DEF AccountsInv, UserRows, SignUps, Users, User
<1>3. /\ row \in User /\ row.email = users[u].email /\ row.google = g
      /\ row.branch = users[u].branch /\ row.role = users[u].role
  BY <1>2 DEF User
<1>4. memo'[r] \in AccountMemo /\ memo'[r].user = u
  BY <1>1, <1>2 DEF Blank, AccountMemo, Role
<1>5. Keeping(r)'
  BY <1>1, <1>2, <1>4 DEF Keeping, Born, BeforeUser, Others, AccountsInv
<1>6. users' = [users EXCEPT ![u] = row]
  BY <1>2
<1> DEFINE kept == registered[u]
<1>7. kept \in {registered[u], None} /\ registered' = [registered EXCEPT ![u] = kept]
  BY <1>2
<1>8. \A v \in Users \ {u} :
         /\ users[v].email # row.email
         /\ row.google # None => users[v].google # row.google
  BY <1>2, <1>3
<1> HIDE DEF row, kept
<1> QED
  BY <1>1, <1>2, <1>3, <1>5, <1>6, <1>7, <1>8, UpdatingKeepsInv

\* By an administrator: the address is stored in lower case.
LEMMA InsertUserKeepsInv ==
    ASSUME AccountsInv, NEW r \in Request, InsertUser(r)
    PROVE  AccountsInv'
<1> USE DEF Shape, Goto, Keeps, Ends
<1> DEFINE pin == IF op[r] = "createInspector" THEN r ELSE None
           password == (op[r] = "createAdmin")
           row == [NewUser EXCEPT !.email = memo[r].address, !.role = memo[r].was,
                                  !.branch = memo[r].branch, !.pin = pin, !.password = password]
<1>1. /\ Others(r)
      /\ UNCHANGED <<op, branches, tokens, blacklist, registered, admitted>>
      /\ pc[r] = "insertingUser" /\ pc'[r] = "done" /\ EmailFree(memo[r].address)
      /\ memo[r].branch \in Branches \cup {None}
      /\ users' = [users EXCEPT ![r] = row]
  BY DEF InsertUser, Others, tables, Adds, AccountsInv
<1>2. /\ memo[r] \in AccountMemo /\ memo[r].address \in Address
      /\ memo[r].was \in Role /\ memo[r].branch \in BranchId \cup {None}
  BY <1>1 DEF AccountsInv, Handlers, Keeping, AccountLabels, AccountMemo
<1>3. pin \in Request \cup {None} /\ password \in BOOLEAN
  OBVIOUS
<1> HIDE DEF pin, password
<1>4. /\ row \in User /\ row.email = memo[r].address /\ row.google = None
      /\ row.branch = memo[r].branch
  BY <1>2, <1>3 DEF NewUser, User
<1>5. Keeping(r)'
  BY <1>1 DEF Keeping, AccountLabels
<1> HIDE DEF row
<1> QED
  BY <1>1, <1>4, <1>5, AddingKeepsInv DEF BeforeUser

\* The session of a user who is still there; the token is named by its
\* request, which hands out no other.
LEMMA StoreSessionKeepsInv ==
    ASSUME AccountsInv, NEW r \in Request, StoreSession(r)
    PROVE  AccountsInv'
<1> USE DEF Shape, Goto, Keeps, Ends
<1> DEFINE u == memo[r].user
           row == [users[u] EXCEPT !.refreshToken = TRUE]
           kept == registered[u]
<1>1. /\ Others(r) /\ UNCHANGED <<op, branches, blacklist, admitted>>
      /\ pc[r] = "storing" /\ pc'[r] = "done" /\ u \in Users
      /\ users' = [users EXCEPT ![u] = row]
      /\ tokens' = [tokens EXCEPT ![r] = [user |-> memo[r].user, role |-> memo[r].role]]
  BY DEF StoreSession, Others, tables, AccountsInv
<1>2. /\ u \in UserId /\ users[u] \in User
      /\ users[u].branch \in Branches \cup {None}
      /\ kept \in {registered[u], None} /\ registered' = [registered EXCEPT ![u] = kept]
      /\ \A v \in Users \ {u} :
            /\ users[v].email # users[u].email
            /\ users[u].google # None => users[v].google # users[u].google
  BY <1>1 DEF StoreSession, AccountsInv, UserRows, SignUps, Users
<1>3. /\ row \in User /\ row.email = users[u].email /\ row.google = users[u].google
      /\ row.branch = users[u].branch /\ row.role = users[u].role
  BY <1>2 DEF User
<1>4. Keeping(r)'
  BY <1>1 DEF Keeping, AccountLabels
<1>5. \A v \in Users \ {u} :
         /\ users[v].email # row.email
         /\ row.google # None => users[v].google # row.google
  BY <1>2, <1>3
<1> HIDE DEF row, kept, u
<1> QED
  BY <1>1, <1>2, <1>3, <1>4, <1>5, UpdatingKeepsInv DEF u

\* A PIN for an inspector.
LEMMA WritePinKeepsInv ==
    ASSUME AccountsInv, NEW r \in Request, WritePin(r)
    PROVE  AccountsInv'
<1> USE DEF Shape, Goto, Keeps, Ends
<1> DEFINE u == memo[r].target
           row == [users[u] EXCEPT !.pin = r]
           kept == registered[u]
<1>1. /\ Others(r) /\ UNCHANGED <<op, branches, tokens, blacklist, admitted>>
      /\ pc'[r] = "done" /\ u \in Users
      /\ users' = [users EXCEPT ![u] = row]
  BY DEF WritePin, Others, tables, AccountsInv
<1>2. /\ u \in UserId /\ users[u] \in User
      /\ users[u].branch \in Branches \cup {None}
      /\ kept \in {registered[u], None} /\ registered' = [registered EXCEPT ![u] = kept]
      /\ \A v \in Users \ {u} :
            /\ users[v].email # users[u].email
            /\ users[u].google # None => users[v].google # users[u].google
  BY <1>1 DEF WritePin, AccountsInv, UserRows, SignUps, Users
<1>3. /\ row \in User /\ row.email = users[u].email /\ row.google = users[u].google
      /\ row.branch = users[u].branch /\ row.role = users[u].role
  BY <1>2 DEF User
<1>4. Keeping(r)'
  BY <1>1 DEF Keeping, AccountLabels
<1>5. \A v \in Users \ {u} :
         /\ users[v].email # row.email
         /\ row.google # None => users[v].google # row.google
  BY <1>2, <1>3
<1> HIDE DEF row, kept, u
<1> QED
  BY <1>1, <1>2, <1>3, <1>4, <1>5, UpdatingKeepsInv

\* A new address for an inspector or for any user, which no one else has.
LEMMA RenamingKeepsInv ==
    ASSUME AccountsInv, NEW r \in Request, Others(r),
           UNCHANGED <<op, branches, tokens, blacklist, admitted>>, pc'[r] = "done",
           NEW u \in Users, NEW a \in Address, Renames(u, a),
           NEW row \in User, users' = [users EXCEPT ![u] = row],
           row.email = a, row.google = users[u].google, row.role = users[u].role,
           row.branch \in Branches \cup {None}
    PROVE  AccountsInv'
<1> DEFINE kept == IF a = users[u].email THEN registered[u] ELSE None
<1>1. /\ kept \in {registered[u], None} /\ registered' = [registered EXCEPT ![u] = kept]
      /\ kept # None => row.email = users[u].email
  BY DEF Renames
<1>2. \A v \in Users \ {u} :
         /\ users[v].email # row.email
         /\ row.google # None => users[v].google # row.google
  BY DEF Renames, AccountsInv, UserRows
<1>3. Keeping(r)'
  BY DEF Keeping, AccountLabels
<1> HIDE DEF kept
<1> QED
  BY <1>1, <1>2, <1>3, UpdatingKeepsInv

LEMMA WriteInspectorKeepsInv ==
    ASSUME AccountsInv, NEW r \in Request, WriteInspector(r)
    PROVE  AccountsInv'
<1> USE DEF Shape, Goto, Keeps, Ends
<1> DEFINE u == memo[r].target
<1>1. /\ Others(r) /\ UNCHANGED <<op, branches, tokens, blacklist, admitted>>
      /\ pc'[r] = "done" /\ u \in Users
  BY DEF WriteInspector, Others, tables, AccountsInv
<1>2. users[u] \in User
  BY <1>1 DEF AccountsInv, UserRows, Users
<1>3. PICK a \in Address, active \in BOOLEAN, b \in Branches :
           /\ Renames(u, a)
           /\ users' = [users EXCEPT ![u] =
                           [users[u] EXCEPT !.email = a, !.isActive = active, !.branch = b]]
  BY DEF WriteInspector
<1> DEFINE row == [users[u] EXCEPT !.email = a, !.isActive = active, !.branch = b]
<1>4. /\ row \in User /\ row.email = a /\ row.google = users[u].google
      /\ row.role = users[u].role /\ row.branch \in Branches \cup {None}
  BY <1>2 DEF User, Branches
<1>5. users' = [users EXCEPT ![u] = row]
  BY <1>3
<1> HIDE DEF row, u
<1> QED
  BY <1>1, <1>3, <1>4, <1>5, RenamingKeepsInv

LEMMA UpdateUserKeepsInv ==
    ASSUME AccountsInv, NEW r \in Request, UpdateUser(r)
    PROVE  AccountsInv'
<1> USE DEF Shape, Goto, Keeps, Ends
<1>1. /\ Others(r) /\ UNCHANGED <<op, branches, tokens, blacklist, admitted>>
      /\ pc'[r] = "done"
  BY DEF UpdateUser, Others, tables, AccountsInv
<1>2. PICK u \in Users, a \in Address, pin \in Request \cup {None}, token \in BOOLEAN :
           /\ Renames(u, a)
           /\ pin \in {users[u].pin, r}
           /\ token => users[u].refreshToken
           /\ users' = [users EXCEPT ![u] =
                           [users[u] EXCEPT !.email = a, !.pin = pin, !.refreshToken = token]]
  BY DEF UpdateUser
<1>3. users[u] \in User /\ users[u].branch \in Branches \cup {None}
  BY DEF AccountsInv, UserRows, Users
<1> DEFINE row == [users[u] EXCEPT !.email = a, !.pin = pin, !.refreshToken = token]
<1>4. /\ row \in User /\ row.email = a /\ row.google = users[u].google
      /\ row.role = users[u].role /\ row.branch \in Branches \cup {None}
  BY <1>3 DEF User
<1>5. users' = [users EXCEPT ![u] = row]
  BY <1>2
<1> HIDE DEF row
<1> QED
  BY <1>1, <1>2, <1>4, <1>5, RenamingKeepsInv

LEMMA DeleteUserKeepsInv ==
    ASSUME AccountsInv, NEW r \in Request, DeleteUser(r)
    PROVE  AccountsInv'
<1> USE DEF Shape, Goto, Keeps, Ends
<1>1. /\ Others(r) /\ UNCHANGED <<op, branches, tokens, blacklist, admitted>>
      /\ pc'[r] = "done"
  BY DEF DeleteUser, Others, tables, AccountsInv
<1>2. PICK u \in Users : /\ users' = [users EXCEPT ![u] = None]
                         /\ registered' = [registered EXCEPT ![u] = None]
  BY DEF DeleteUser
<1>3. Keeping(r)'
  BY <1>1 DEF Keeping, AccountLabels
<1> DEFINE row == None
           kept == None
<1>4. /\ row \in User \cup {None} /\ kept \in {registered[u], None} /\ row = None
      /\ users' = [users EXCEPT ![u] = row] /\ registered' = [registered EXCEPT ![u] = kept]
  BY <1>2
<1> HIDE DEF row, kept
<1> QED
  BY <1>1, <1>3, <1>4, UpdatingKeepsInv

\* A new role: those of the user's requests that are in flight remember it
\* too.
LEMMA WriteRoleKeepsInv ==
    ASSUME AccountsInv, NEW r \in Request, WriteRole(r)
    PROVE  AccountsInv'
<1> USE DEF AccountsInv, Shape, Goto
<1> DEFINE u == memo[r].target
           Noting(q) == /\ Accepted(q) \/ pc[q] \in {"authenticating", "loading"}
                        /\ memo[q].user = u
<1>1. /\ UNCHANGED <<op, branches, tokens, blacklist, registered, admitted>>
      /\ pc'[r] = "done" /\ pc[r] = "writing" /\ u \in Users
      /\ DOMAIN pc' = Request /\ DOMAIN memo' = Request
      /\ \A q \in Request \ {r} : pc'[q] = pc[q]
  BY DEF WriteRole, tables
<1>2. PICK role \in Role :
           /\ users' = [users EXCEPT ![u].role = role]
           /\ memo' = [q \in Request |->
                  IF q = r THEN None
                  ELSE IF Noting(q) THEN [memo[q] EXCEPT !.roles = @ \cup {role}]
                       ELSE memo[q]]
  BY DEF WriteRole
<1>3. /\ u \in UserId /\ users[u] \in User
      /\ \A v \in UserId : users'[v] = IF v = u THEN [users[u] EXCEPT !.role = role] ELSE users[v]
      /\ users' \in [UserId -> User \cup {None}]
  BY <1>1, <1>2 DEF UserRows, Users, User
<1>4. /\ Users' \subseteq Users /\ Issued' = Issued /\ Branches' = Branches
      /\ \A v \in Users' : /\ users'[v].email = users[v].email
                           /\ users'[v].google = users[v].google
                           /\ users'[v].branch = users[v].branch
                           /\ users'[v].role = IF v = u THEN role ELSE users[v].role
  BY <1>1, <1>3 DEF Users, Issued, Branches, User
<1>5. \A v \in UserId : Born(v) => Born(v)'
  BY <1>1 DEF Born, BeforeUser, UserId
<1>6. UserRows'
  BY <1>3, <1>4, <1>5 DEF UserRows, Users
<1>7. Sessions'
  <2>1. \A t \in Issued : tokens[t].user \in UserId
    BY DEF Sessions, Issued
  <2> QED
    BY <1>1, <1>4, <1>5, <2>1 DEF Sessions, BeforeUser
<1>8. SignUps'
  BY <1>1, <1>4, <1>5 DEF SignUps
<1>9. ASSUME NEW q \in Request
      PROVE  Keeping(q)' /\ Guarding(q)'
  <2>1. Keeping(q) /\ Guarding(q)
    BY DEF Handlers
  <2>2. CASE q = r
    <3>1. Keeping(q)'
      BY <1>1, <2>2 DEF Keeping, AccountLabels
    <3>2. Guarding(q)'
      BY <1>1, <2>1, <2>2 DEF Guarding, Accepted
    <3> QED
      BY <3>1, <3>2
  <2>3. CASE q # r /\ ~Noting(q)
    <3>1. pc'[q] = pc[q] /\ memo'[q] = memo[q]
      BY <1>1, <1>2, <2>3
    <3>2. Keeping(q)'
      BY <1>1, <1>4, <1>5, <2>1, <3>1 DEF Keeping, AccountLabels
    <3>3. Guarding(q)'
      BY <1>1, <1>4, <2>1, <2>3, <3>1 DEF Guarding, Accepted
    <3> QED
      BY <3>2, <3>3
  <2>4. CASE q # r /\ Noting(q)
    <3>1. memo[q] \in AccountMemo
      BY <2>1, <2>4 DEF Keeping, Accepted, AccountLabels
    <3>2. memo'[q] = [memo[q] EXCEPT !.roles = memo[q].roles \cup {role}]
      BY <1>2, <2>4, <3>1 DEF AccountMemo
    <3>3. /\ pc'[q] = pc[q] /\ memo'[q] \in AccountMemo
          /\ memo'[q].user = u /\ memo[q].user = u
          /\ memo'[q].token = memo[q].token /\ memo'[q].role = memo[q].role
          /\ memo'[q].fresh = memo[q].fresh /\ memo'[q].address = memo[q].address
          /\ memo'[q].roles = memo[q].roles \cup {role}
      BY <1>1, <2>4, <3>1, <3>2 DEF AccountMemo
    <3>4. Keeping(q)'
      BY <1>1, <1>3, <1>4, <1>5, <2>1, <3>3 DEF Keeping, AccountLabels
    <3>5. Guarding(q)'
      BY <1>1, <1>4, <2>1, <3>3 DEF Guarding, Accepted
    <3> QED
      BY <3>4, <3>5
  <2> QED
    BY <2>2, <2>3, <2>4
<1> QED
  BY <1>1, <1>6, <1>7, <1>8, <1>9 DEF Handlers

\* A token more on the blacklist, for the user who shows it.
LEMMA LogoutKeepsInv ==
    ASSUME AccountsInv, NEW r \in Request, Logout(r)
    PROVE  AccountsInv'
<1> USE DEF AccountsInv, Shape, Goto, Keeps, Ends
<1>1. /\ Others(r)
      /\ UNCHANGED <<op, branches, users, tokens, registered, admitted>>
      /\ pc[r] = "handling" /\ pc'[r] = "done"
      /\ blacklist' = blacklist \cup {memo[r].token}
  BY DEF Logout, Others, tables
<1>2. memo[r].token \in Issued /\ Guarding(r)
  BY <1>1 DEF Handlers, Keeping
<1>3. \A u \in UserId : Born(u) => Born(u)'
  BY <1>1 DEF Born, Others, BeforeUser, UserId
<1>4. Users' = Users /\ Issued' = Issued /\ Branches' = Branches
  BY <1>1 DEF Users, Issued, Branches
<1>5. UserRows'
  BY <1>1, <1>3, <1>4 DEF UserRows, Users
<1>6. Sessions'
  <2>1. \A t \in Issued : tokens[t].user \in UserId
    BY DEF Sessions, Issued
  <2> QED
    BY <1>1, <1>2, <1>3, <1>4, <2>1 DEF Sessions, Others, BeforeUser
<1>7. SignUps'
  BY <1>1, <1>3, <1>4 DEF SignUps
<1>8. Ages
  BY <1>1, <1>3, <1>4 DEF Ages
<1>9. Keeping(r)' /\ Guarding(r)'
  BY <1>1, <1>2 DEF Keeping, Guarding, Accepted, AccountLabels
<1> QED
  BY <1>1, <1>5, <1>6, <1>7, <1>8, <1>9, StepKeepsHandlers DEF Others

-----------------------------------------------------------------------------
(* The theorems                                                            *)

LEMMA AccountStepKeepsInv ==
    ASSUME AccountsInv, NEW r \in Request, AccountStep(r)
    PROVE  AccountsInv'
<1>1. CASE GoogleUpsert(r)
  <2>1. PICK a \in Address, g \in GoogleId :
           \/ /\ Found(a) = {}
              /\ \A v \in Users : users[v].google # g
              /\ Adds(r, [NewUser EXCEPT !.email = Norm[a], !.google = g])
              /\ registered' = [registered EXCEPT ![r] = a]
              /\ SignsIn(r, r, "CUSTOMER")
           \/ \E u \in Found(a) :
              /\ \A v \in Users \ {u} : users[v].google # g
              /\ users' = [users EXCEPT ![u].google = g]
              /\ SignsIn(r, u, users[u].role)
              /\ UNCHANGED registered
    BY <1>1 DEF GoogleUpsert
  <2>2. Asks(r, "google") /\ UNCHANGED <<tables, tokens, blacklist, admitted>>
    BY <1>1 DEF GoogleUpsert
  <2>3. CASE Found(a) = {} /\ Adds(r, [NewUser EXCEPT !.email = Norm[a], !.google = g])
             /\ registered' = [registered EXCEPT ![r] = a] /\ SignsIn(r, r, "CUSTOMER")
             /\ \A v \in Users : users[v].google # g
    BY <2>2, <2>3, GoogleInsertKeepsInv DEF Adds
  <2>4. CASE \E u \in Found(a) :
              /\ \A v \in Users \ {u} : users[v].google # g
              /\ users' = [users EXCEPT ![u].google = g]
              /\ SignsIn(r, u, users[u].role)
              /\ UNCHANGED registered
    BY <2>2, <2>4, GoogleUpdateKeepsInv DEF Found
  <2> QED
    BY <2>1, <2>3, <2>4
<1>2. CASE LoginLocal(r) \/ LoginInspector(r) \/ Refresh(r) \/ RefreshTokens(r)
  BY <1>2, SigningInKeepsInv
<1>3. CASE Arrive(r) \/ CheckBlacklist(r) \/ LoadUser(r) \/ AccountStepFails(r)
  BY <1>3, ArriveKeepsInv, CheckBlacklistKeepsInv, LoadUserKeepsInv, FailureKeepsInv
<1>4. CASE CheckAddress(r) \/ CheckNewUser(r) \/ FindTarget(r)
  BY <1>4, CheckAddressKeepsInv, HandlingKeepsInv
<1>5. CASE RegisterUser(r) \/ InsertUser(r)
  BY <1>5, RegisterUserKeepsInv, InsertUserKeepsInv
<1>6. CASE StoreSession(r) \/ Logout(r)
  BY <1>6, StoreSessionKeepsInv, LogoutKeepsInv
<1>7. CASE WriteRole(r) \/ WriteInspector(r) \/ WritePin(r)
  BY <1>7, WriteRoleKeepsInv, WriteInspectorKeepsInv, WritePinKeepsInv
<1>8. CASE UpdateUser(r) \/ DeleteUser(r)
  BY <1>8, UpdateUserKeepsInv, DeleteUserKeepsInv
<1> QED
  BY <1>1, <1>2, <1>3, <1>4, <1>5, <1>6, <1>7, <1>8 DEF AccountStep

LEMMA StutterKeepsAccounts ==
    ASSUME AccountsInv, UNCHANGED backendVars
    PROVE  AccountsInv'
<1> USE DEF AccountsInv
<1>1. UNCHANGED <<op, pc, memo, branches, users, tokens, blacklist, registered, admitted>>
  BY DEF backendVars, dashboardVars, queriesVars, photosVars, creationVars, tables, accountVars
<1>2. Users' = Users /\ Issued' = Issued /\ Branches' = Branches
  BY <1>1 DEF Users, Issued, Branches
<1>3. \A u \in UserId : Born(u) => Born(u)'
  BY <1>1 DEF Born
<1>4. UserRows'
  BY <1>1, <1>2, <1>3 DEF UserRows, Users
<1>5. Sessions'
  <2>1. \A t \in Issued : tokens[t].user \in UserId
    BY DEF Sessions, Issued
  <2> QED
    BY <1>1, <1>2, <1>3, <2>1 DEF Sessions
<1>6. SignUps'
  BY <1>1, <1>2, <1>3 DEF SignUps
<1>7. Ages
  BY <1>1, <1>2, <1>3 DEF Ages
<1>8. Handlers'
  BY <1>1, <1>7, OthersKeep DEF Handlers
<1> QED
  BY <1>1, <1>4, <1>5, <1>6, <1>8 DEF Shape

LEMMA AccountsInvAtFirst ==
    ASSUME BackendInit
    PROVE  AccountsInv
<1> USE AccountsAssumption DEF BackendInit, AccountsInit, CreationInit
<1>1. Shape /\ DOMAIN admitted = Request
  BY DEF Shape
<1>2. \A r \in Request : pc[r] \in {"arriving", "idle"} /\ admitted[r] = None
  OBVIOUS
<1>3. UserRows
  <2>1. \A u \in FirstUser : users[u] \in User /\ users[u].email = FirstEmail[u]
                             /\ users[u].google = None /\ users[u].branch = None
    BY DEF User, NewUser, UserId
  <2>2. Users \subseteq FirstUser
    BY DEF Users, UserId
  <2>3. users \in [UserId -> User \cup {None}]
    <3> HIDE DEF User
    <3>1. \A u \in UserId : users[u] \in User \cup {None}
      BY <2>1 DEF UserId
    <3> QED
      BY <3>1
  <2>4. \A u \in Users : Born(u) /\ users[u].google = None /\ users[u].branch = None
    BY <2>1, <2>2 DEF Born
  <2>5. ASSUME NEW u \in Users, NEW v \in Users, u # v
        PROVE  users[u].email # users[v].email
    <3>1. u \in FirstUser /\ v \in FirstUser /\ FirstEmail[u] # FirstEmail[v]
      BY <2>2, <2>5
    <3> QED
      BY <2>1, <3>1
  <2> QED
    BY <2>3, <2>4, <2>5 DEF UserRows
<1>4. Sessions
  <2>1. /\ \A t \in FirstUser : tokens[t] = [user |-> t, role |-> FirstRole[t]]
        /\ \A t \in Request : tokens[t] = None
    BY DEF Token, UserId
  <2>2. tokens \in [Token -> [user: UserId, role: Role] \cup {None}]
    <3>1. \A t \in Token : tokens[t] \in [user: UserId, role: Role] \cup {None}
      BY <2>1 DEF Token, UserId
    <3> QED
      BY <3>1
  <2> QED
    BY <2>1, <2>2 DEF Sessions, Born, Issued, Token, UserId
<1>5. SignUps
  BY DEF SignUps
<1>6. Handlers
  BY <1>2 DEF Handlers, Keeping, Guarding, Accepted
<1> QED
  BY <1>1, <1>3, <1>4, <1>5, <1>6 DEF AccountsInv

\* The invariant that the theorems below rest on.
LEMMA AccountsInvInductive == BackendSpec => []AccountsInv
<1>1. BackendInit => AccountsInv
  BY AccountsInvAtFirst
<1>2. AccountsInv /\ [BackendNext]_backendVars => AccountsInv'
  <2> SUFFICES ASSUME AccountsInv, [BackendNext]_backendVars
               PROVE  AccountsInv'
    OBVIOUS
  <2>1. CASE RecordsStep
    BY <2>1, RecordsRest, RestingKeepsInv DEF RecordsStep, AccountsInv
  <2>2. CASE AccountsStep
    BY <2>2, AccountStepKeepsInv DEF AccountsStep
  <2>3. CASE UNCHANGED backendVars
    BY <2>3, StutterKeepsAccounts
  <2> QED
    BY <2>1, <2>2, <2>3 DEF BackendNext
<1> QED
  BY <1>1, <1>2, PTL DEF BackendSpec

\* Whoever signed up is found under the address as it was typed.
THEOREM SignUpsAreFound == BackendSpec => []SelfRegisteredFound
<1>1. AccountsInv => SelfRegisteredFound
  <2> SUFFICES ASSUME AccountsInv, NEW u \in Users, registered[u] # None
               PROVE  Found(registered[u]) = {u}
    BY DEF SelfRegisteredFound
  <2>1. users[u].email = Norm[registered[u]]
    BY DEF AccountsInv, SignUps, Users
  <2>2. \A v \in Users : v # u => users[v].email # users[u].email
    BY DEF AccountsInv, UserRows
  <2> QED
    BY <2>1, <2>2 DEF Found
<1> QED
  BY <1>1, AccountsInvInductive, PTL

\* The handlers of guarded routes run for a token that was valid, a user who
\* existed when the request came, and a role that the user had then or since.
THEOREM GuardsHold == BackendSpec => []AcceptedRequestsAreCurrent
<1>1. AccountsInv => AcceptedRequestsAreCurrent
  BY DEF AccountsInv, Handlers, Guarding, AcceptedRequestsAreCurrent
<1> QED
  BY <1>1, AccountsInvInductive, PTL

\* Types, unique columns and the foreign key of the users.
THEOREM AccountsTyped == BackendSpec => []AccountsTypeOK
<1>1. AccountsInv => AccountsTypeOK
  <2> SUFFICES ASSUME AccountsInv
               PROVE  AccountsTypeOK
    OBVIOUS
  <2>1. \A r \in Request : Accepted(r) => memo[r] \in AccountMemo
    BY DEF AccountsInv, Handlers, Keeping, Accepted, AccountLabels
  <2> QED
    BY <2>1 DEF AccountsTypeOK, AccountsInv, UserRows, Sessions, SignUps
<1> QED
  BY <1>1, AccountsInvInductive, PTL
=============================================================================
