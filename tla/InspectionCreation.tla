------------------------- MODULE InspectionCreation -------------------------
(***************************************************************************)
(* Creation of inspections and administration of branches:                 *)
(* create and generateNextInspectionId of InspectionsService               *)
(* (src/inspections/inspections.service.ts:488), InspectionBranchesService *)
(* (src/inspection-branches/inspection-branches.service.ts).               *)
(*                                                                         *)
(* Every HTTP request is a process, cut into steps at the awaits after     *)
(* which it acts on what it read before.  The Serializable transaction of  *)
(* create is two steps: its snapshot of the counter row and its commit,    *)
(* which fails when another transaction wrote that row in between.  An     *)
(* existence check immediately followed by an update or delete by id is    *)
(* one step: its two failures, 404 and 500, change nothing.                *)
(*                                                                         *)
(* Data: a city is a model value and Prefix its first three letters in     *)
(* upper case; a new row is named by the request that created it; a day is *)
(* the ddMMyyyy of the inspection date, which the client chooses.          *)
(***************************************************************************)
EXTENDS Integers, FiniteSets, Routes

CONSTANTS
    Request,      \* the HTTP requests of a behaviour, each served once
    Workloads,    \* what they may ask for: a set of functions Request -> Op
    AtDoor,       \* those of Workloads in which the guards are still ahead
    City,         \* names of cities
    Prefix,       \* City -> Code: the first three letters of a name
    FirstBranch,  \* ids of the branches that exist at first
    FirstCity,    \* FirstBranch -> City
    Old,          \* inspections created before the counters were introduced
    OldPretty,    \* Old -> Key \X Nat: their ids
    OldBranch,    \* Old -> FirstBranch
    Day,          \* inspection dates
    None          \* SQL NULL, or no such row

Code == {Prefix[c] : c \in City}
Key == Code \X Day
BranchId == FirstBranch \cup Request
InspectionId == Old \cup Request

ASSUME CreationAssumption ==
    /\ AtDoor \subseteq Workloads
    /\ DOMAIN Prefix = City
    /\ FirstCity \in [FirstBranch -> City]
    \* the unique constraint on code
    /\ \A b, c \in FirstBranch : Prefix[FirstCity[b]] = Prefix[FirstCity[c]] => b = c
    /\ OldPretty \in [Old -> Key \X Nat]
    \* the unique constraint on pretty_id
    /\ \A i, j \in Old : OldPretty[i] = OldPretty[j] => i = j
    /\ OldBranch \in [Old -> FirstBranch]
    /\ Request \cap (FirstBranch \cup Old) = {}
    /\ None \notin BranchId \cup InspectionId \cup Request

VARIABLES
    op,         \* what each request asks for; never changes
    branches,   \* the table inspection_branch_city
    sequence,   \* the table inspection_sequences, 0 where there is no row
    rows,       \* the table inspections
    issued,     \* history: <<pretty_id, inspection>> of every creation
    pc,         \* where the handler of each request stands
    memo        \* what the handler of each request keeps between its steps

-----------------------------------------------------------------------------
(* Rows                                                                    *)

BranchRow == [city: City, code: Code, isActive: BOOLEAN]

InspectionRow == [pretty_id: Key \X Nat, branch: BranchId \cup {None}]

\* A row is not the same as no row.
ASSUME RowAssumption == None \notin BranchRow \cup InspectionRow

\* What create() has found out: branch and day, then the code, then the
\* counter as its transaction sees it.
CreateMemo == [branch: BranchId, day: Day, code: Code \cup {None}, seen: Nat]

CreationInit ==
    /\ op \in Workloads
    /\ branches = [b \in BranchId |->
           IF b \in FirstBranch
           THEN [city |-> FirstCity[b], code |-> Prefix[FirstCity[b]], isActive |-> TRUE]
           ELSE None]
    /\ sequence = [k \in Key |-> 0]
    /\ rows = [i \in InspectionId |->
           IF i \in Old THEN [pretty_id |-> OldPretty[i], branch |-> OldBranch[i]] ELSE None]
    /\ issued = {}
    /\ pc = [r \in Request |->
           IF op \in AtDoor /\ op[r] \in GuardedOps THEN "arriving" ELSE "idle"]
    /\ memo = [r \in Request |-> None]

Branches == {b \in BranchId : branches[b] # None}
Inspections == {i \in InspectionId : rows[i] # None}

Asks(r, o) == op[r] = o /\ pc[r] = "idle"
Goto(r, l) == pc' = [pc EXCEPT ![r] = l] /\ UNCHANGED op
Keeps(r, m) == memo' = [memo EXCEPT ![r] = m]
Ends(r, l) == Goto(r, l) /\ Keeps(r, None)

tables == <<branches, sequence, rows, issued>>
creationVars == <<op, tables, pc, memo>>

-----------------------------------------------------------------------------
(* Faulty variants for mutation runs; not part of the model.               *)

\* The counter is incremented outside the transaction.
AbortCreateKeepingNumber(r) ==
    /\ pc[r] = "inserting"
    /\ sequence' = [sequence EXCEPT ![<<memo[r].code, memo[r].day>>] = @ + 1]
    /\ Ends(r, "rejected")
    /\ UNCHANGED <<branches, rows, issued>>

-----------------------------------------------------------------------------
(* InspectionsService.create                                               *)

\* The inspector's profile names the branch; without one the request does,
\* which may name a branch that is gone.
ReadInspector(r) ==
    /\ Asks(r, "create")
    /\ \E b \in BranchId, d \in Day :
           Keeps(r, [branch |-> b, day |-> d, code |-> None, seen |-> 0])
    /\ Goto(r, "readingBranch")
    /\ UNCHANGED tables

\* The code of the branch becomes part of the id.
ReadBranch(r) ==
    /\ pc[r] = "readingBranch"
    /\ memo[r].branch \in Branches
    /\ Keeps(r, [memo[r] EXCEPT !.code = branches[memo[r].branch].code])
    /\ Goto(r, "readyToInsert")
    /\ UNCHANGED tables

ReadBranchFails(r) ==
    /\ pc[r] = "readingBranch"
    /\ memo[r].branch \notin Branches
    /\ Ends(r, "rejected")
    /\ UNCHANGED tables

KeyOf(m) == <<m.code, m.day>>

\* The transaction starts: the upsert of generateNextInspectionId sees this
\* counter.
BeginCreate(r) ==
    /\ pc[r] = "readyToInsert"
    /\ Keeps(r, [memo[r] EXCEPT !.seen = sequence[KeyOf(memo[r])]])
    /\ Goto(r, "inserting")
    /\ UNCHANGED tables

\* The upsert returns the counter after its increment.
Pretty(m) == <<KeyOf(m), m.seen + 1>>

Taken(m) == \E i \in Inspections : rows[i].pretty_id = Pretty(m)

CommitCreate(r) ==
    /\ pc[r] = "inserting"
    /\ sequence[KeyOf(memo[r])] = memo[r].seen
    /\ memo[r].branch \in Branches
    /\ ~Taken(memo[r])
    /\ sequence' = [sequence EXCEPT ![KeyOf(memo[r])] = memo[r].seen + 1]
    /\ rows' = [rows EXCEPT ![r] = [pretty_id |-> Pretty(memo[r]),
                                    branch |-> memo[r].branch]]
    /\ issued' = issued \cup {<<Pretty(memo[r]), r>>}
    /\ Ends(r, "created")
    /\ UNCHANGED branches

\* P2002 on pretty_id, a vanished branch, a serialization failure or any
\* other error: everything is rolled back, the counter too.
AbortCreate(r) ==
    /\ pc[r] = "inserting"
    /\ Ends(r, "rejected")
    /\ UNCHANGED tables

-----------------------------------------------------------------------------
(* InspectionBranchesService                                               *)

\* city and code are unique columns.
CreateBranch(r) ==
    /\ Asks(r, "createBranch")
    /\ \E c \in City, active \in BOOLEAN :
           /\ \A b \in Branches : branches[b].city # c /\ branches[b].code # Prefix[c]
           /\ branches' = [branches EXCEPT ![r] =
                               [city |-> c, code |-> Prefix[c], isActive |-> active]]
    /\ Ends(r, "done")
    /\ UNCHANGED <<sequence, rows, issued>>

\* The code stays, whatever the new name is.
UpdateBranch(r) ==
    /\ Asks(r, "updateBranch")
    /\ \E b \in Branches, c \in City, active \in BOOLEAN :
           /\ \A d \in Branches \ {b} : branches[d].city # c
           /\ branches' = [branches EXCEPT ![b].city = c, ![b].isActive = active]
    /\ Ends(r, "done")
    /\ UNCHANGED <<sequence, rows, issued>>

\* The foreign key of the inspections is set to NULL.
RemoveBranch(r) ==
    /\ Asks(r, "removeBranch")
    /\ \E b \in Branches :
           /\ branches' = [branches EXCEPT ![b] = None]
           /\ rows' = [i \in InspectionId |->
                  IF i \in Inspections /\ rows[i].branch = b
                  THEN [rows[i] EXCEPT !.branch = None] ELSE rows[i]]
    /\ Ends(r, "done")
    /\ UNCHANGED <<sequence, issued>>

ReadActive(r) ==
    /\ Asks(r, "toggleActive")
    /\ \E b \in Branches : Keeps(r, [branch |-> b, isActive |-> branches[b].isActive])
    /\ Goto(r, "toggling")
    /\ UNCHANGED tables

ToggleActive(r) ==
    /\ pc[r] = "toggling"
    /\ memo[r].branch \in Branches
    /\ branches' = [branches EXCEPT ![memo[r].branch].isActive = ~memo[r].isActive]
    /\ Ends(r, "done")
    /\ UNCHANGED <<sequence, rows, issued>>

ToggleFails(r) ==
    /\ pc[r] = "toggling"
    /\ memo[r].branch \notin Branches
    /\ Ends(r, "rejected")
    /\ UNCHANGED tables

CreationStep(r) ==
    \/ ReadInspector(r) \/ ReadBranch(r) \/ ReadBranchFails(r)
    \/ BeginCreate(r) \/ CommitCreate(r) \/ AbortCreate(r)
    \/ CreateBranch(r) \/ UpdateBranch(r) \/ RemoveBranch(r)
    \/ ReadActive(r) \/ ToggleActive(r) \/ ToggleFails(r)

CreationNext == \E r \in Request : CreationStep(r)

CreationSpec == CreationInit /\ [][CreationNext]_creationVars

-----------------------------------------------------------------------------
(* Properties                                                              *)

\* generateNextInspectionId: the inspections created for one branch code and
\* day are numbered 1, 2, 3, ... without gap or repetition, although the
\* first creation has to make the counter row, concurrent ones meet on it,
\* failed ones roll it back, branches come and go and inspections are
\* deleted; and an inspection keeps the id it was given.
NumbersDense ==
    /\ \A k \in Key : {x[1][2] : x \in {y \in issued : y[1][1] = k}} = 1..sequence[k]
    /\ \A x, y \in issued : x[1] = y[1] => x = y
    /\ \A i \in Inspections \ Old : <<rows[i].pretty_id, i>> \in issued
=============================================================================
