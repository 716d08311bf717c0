-------------------------- MODULE InspectionQueries --------------------------
(***************************************************************************)
(* Reading inspections while others write them: findAll, findOne,          *)
(* findByVehiclePlateNumber and findLatestArchivedInspections of           *)
(* InspectionsService                                                      *)
(* (src/inspections/inspections.service.ts:844, 1299, 2738) with their     *)
(* handlers, over the tables of InspectionPhotos.                          *)
(*                                                                         *)
(* A page takes two queries, the count and the rows, a list takes as many  *)
(* requests as it has pages, and no transaction spans any two of them.     *)
(*                                                                         *)
(* Data: the columns read here are status, createdAt and the branch.  In-  *)
(* spectionLifecycle has the steps of a status and InspectionEditing the   *)
(* log of edits; here any of the moves of a status may happen at once, and *)
(* an approval may bring any branch.  createdAt is chosen before the       *)
(* INSERT commits: two rows may have the same one, and commits need not    *)
(* come in its order.  Every photo is a front view, and a search finds any *)
(* one row that matches, or none.                                          *)
(***************************************************************************)
EXTENDS InspectionPhotos

CONSTANTS
    OldStatus,      \* Old -> Status
    AskedStatuses,  \* what a request may ask for: a set of sets of statuses
    PageSizes,
    LatestLimit     \* 5

\* FAIL_ARCHIVE, which nothing writes any more, is left out.
Status == {"NEED_REVIEW", "APPROVED", "ARCHIVED", "DEACTIVATED"}

ASSUME QueriesAssumption ==
    /\ OldStatus \in [Old -> Status]
    /\ AskedStatuses \in SUBSET SUBSET Status
    /\ PageSizes \in SUBSET (Nat \ {0})
    /\ LatestLimit \in Nat

\* A count of rows counts finitely many.
ASSUME FiniteAssumption == IsFiniteSet(InspectionId)

VARIABLES
    status,     \* the column status
    createdAt,  \* the column createdAt, chosen beforehand
    steady      \* history: for a walk through the pages, the rows that it
                \* should meet; see Watch

queryVars == <<status, createdAt, steady>>
queriesVars == <<photosVars, queryVars>>

ReadOps == {"pages", "latest", "find", "publicFind", "search", "counters"}

QueriesInit ==
    /\ PhotosInit
    /\ status = [i \in InspectionId |-> IF i \in Old THEN OldStatus[i] ELSE "NEED_REVIEW"]
    /\ createdAt \in {c \in [InspectionId -> 0..2] :
           \A i \in InspectionId :
               IF i \in Old THEN c[i] = 0
               ELSE IF op[i] = "create" /\ \E r \in Request : op[r] \in ReadOps
                    THEN c[i] > 0 ELSE c[i] = 1}
    /\ steady = [r \in Request |-> {}]

Matching(f) == {i \in Inspections : status[i] \in f}
Untied(S) == {i \in S : \A j \in S \ {i} : createdAt[j] # createdAt[i]}

-----------------------------------------------------------------------------
(* Faulty variants for mutation runs; not part of the model.               *)

\* Pages are numbered from 0.
SkipFromZero(page, size) == page * size

\* The rows of the first query are answered as they are.
WithFrontUnfiltered(S) == S

-----------------------------------------------------------------------------
(* findAll, page after page                                                *)

\* Statuses asked for come before the default of the role, which the request
\* names: the handler takes it from the query, not from the user.
WhereStatus(viewer, asked) ==
    IF asked # {} THEN asked
    ELSE IF viewer \in Staff THEN Status ELSE {"ARCHIVED"}

\* orderBy createdAt desc: rows of the same time come in any order.
Orders(S) ==
    {q \in [1..Cardinality(S) -> S] :
        \A j, k \in DOMAIN q : j < k => q[j] # q[k] /\ createdAt[q[j]] >= createdAt[q[k]]}

Skip(page, size) == (page - 1) * size
TotalPages(total, size) == (total + size - 1) \div size

AskForPages(r) ==
    /\ Asks(r, "pages")
    /\ \E viewer \in Role, asked \in AskedStatuses, size \in PageSizes :
           LET f == WhereStatus(viewer, asked) IN
           /\ Keeps(r, [filter |-> f, size |-> size, page |-> 1, total |-> 0, seen |-> {}])
           /\ steady' = [steady EXCEPT ![r] = Untied(Matching(f))]
    /\ Goto(r, "countingRows")
    /\ UNCHANGED <<tables, photoVars, status, createdAt>>

CountRows(r) ==
    /\ pc[r] = "countingRows"
    /\ Keeps(r, [memo[r] EXCEPT !.total = Cardinality(Matching(memo[r].filter))])
    /\ Goto(r, "listingRows")
    /\ UNCHANGED <<tables, photoVars, queryVars>>

\* The client asks for the next page as long as there is one.
ListRows(r) ==
    /\ pc[r] = "listingRows"
    /\ \E q \in Orders(Matching(memo[r].filter)) :
           LET first == Skip(memo[r].page, memo[r].size) + 1
               last == first + memo[r].size - 1
           IN Keeps(r, [memo[r] EXCEPT
                  !.seen = @ \cup {q[k] : k \in DOMAIN q \cap (first..last)},
                  !.page = @ + 1])
    /\ Goto(r, IF memo[r].page < TotalPages(memo[r].total, memo[r].size)
               THEN "countingRows" ELSE "answered")
    /\ UNCHANGED <<tables, photoVars, queryVars>>

-----------------------------------------------------------------------------
(* findOne, the searches and the list of the public page                   *)

Sees(viewer, i) == i \in Inspections /\ (viewer \in Staff \/ status[i] = "ARCHIVED")

\* findOne, for the role of the user.
FindOne(r) ==
    /\ Asks(r, "find")
    /\ \E i \in InspectionId, viewer \in MayCall("find") :
           \/ Sees(viewer, i) /\ Keeps(r, [found |-> i]) /\ Goto(r, "answered")
           \/ ~Sees(viewer, i) /\ Ends(r, "rejected")
    /\ UNCHANGED <<tables, photoVars, queryVars>>

\* findOne of PublicApiService looks at no status.
PublicFindOne(r) ==
    /\ Asks(r, "publicFind")
    /\ \E i \in InspectionId :
           \/ i \in Inspections /\ Keeps(r, [found |-> i]) /\ Goto(r, "answered")
           \/ i \notin Inspections /\ Ends(r, "rejected")
    /\ UNCHANGED <<tables, photoVars, queryVars>>

\* findByVehiclePlateNumber: the id of a row with this number,
FindPlate(r) ==
    /\ Asks(r, "search")
    /\ \/ \E i \in Inspections : Keeps(r, [found |-> i]) /\ Goto(r, "readingRow")
       \/ Ends(r, "rejected")
    /\ UNCHANGED <<tables, photoVars, queryVars>>

\* and the row, which may be gone.
ReadPlate(r) ==
    /\ pc[r] = "readingRow"
    /\ \/ memo[r].found \in Inspections /\ Goto(r, "answered") /\ UNCHANGED memo
       \/ memo[r].found \notin Inspections /\ Ends(r, "rejected")
    /\ UNCHANGED <<tables, photoVars, queryVars>>

\* Prisma reads the rows that have a front view, then the views; rows left
\* without one are taken out.
ReadLatest(r) ==
    /\ Asks(r, "latest")
    /\ LET shown == {i \in Matching({"ARCHIVED"}) : PhotosOf(i) # {}}
       IN \E S \in SUBSET shown :
              /\ Cardinality(S) = IF Cardinality(shown) < LatestLimit
                                  THEN Cardinality(shown) ELSE LatestLimit
              /\ Keeps(r, [found |-> S])
    /\ Goto(r, "readingViews")
    /\ UNCHANGED <<tables, photoVars, queryVars>>

WithFront(S) == {i \in S : PhotosOf(i) # {}}

\* The answer of a row without a view is an error, for the whole list.
ReadViews(r) ==
    /\ pc[r] = "readingViews"
    /\ \/ /\ \A i \in WithFront(memo[r].found) : PhotosOf(i) # {}
          /\ Keeps(r, [found |-> WithFront(memo[r].found)])
          /\ Goto(r, "answered")
       \/ /\ \E i \in WithFront(memo[r].found) : PhotosOf(i) = {}
          /\ Ends(r, "rejected")
    /\ UNCHANGED <<tables, photoVars, queryVars>>

-----------------------------------------------------------------------------
(* What happens to a status, see InspectionLifecycle                       *)

\* Most writes go by id and may come late, so they meet any status; a failed
\* approval or archive writes back the status it began with.
Moves ==
    ({"approve", "bulkApprove"} \X Status \X {"APPROVED", "NEED_REVIEW"})
    \cup ({"archive"} \X Status \X {"ARCHIVED", "APPROVED"})
    \cup ({"confirm"} \X Status \X {"ARCHIVED"})
    \cup {<<"deactivate", "ARCHIVED", "DEACTIVATED">>, <<"activate", "DEACTIVATED", "ARCHIVED">>}
    \cup ({"rollback"} \X Status \X {"NEED_REVIEW"})
    \cup ({"revert"} \X Status \X {"APPROVED"})

\* An approval's transaction connects the branch of the newest edit in the
\* log, which has to exist; it stays connected if the approval fails later.
Connected(o, i) ==
    {rows[i].branch} \cup IF o \in {"approve", "bulkApprove"} THEN Branches ELSE {}

ChangeStatus(r) ==
    /\ Asks(r, op[r])
    /\ \E i \in Inspections, s \in Status :
           /\ <<op[r], status[i], s>> \in Moves
           /\ status' = [status EXCEPT ![i] = s]
           /\ \E b \in Connected(op[r], i) : rows' = [rows EXCEPT ![i].branch = b]
    /\ Ends(r, "done")
    /\ UNCHANGED <<branches, sequence, issued, photoVars, createdAt>>

-----------------------------------------------------------------------------
QueryStep(r) ==
    \/ AskForPages(r) \/ CountRows(r) \/ ListRows(r)
    \/ FindOne(r) \/ PublicFindOne(r) \/ FindPlate(r) \/ ReadPlate(r) \/ ReadLatest(r) \/ ReadViews(r)

\* A walk expects nothing any more of rows that share their time, and gives
\* up when a row leaves the list, or joins it between the two queries of one
\* page.
Watch ==
    steady' = [r \in Request |->
        IF pc[r] \notin {"countingRows", "listingRows"} THEN steady[r]
        ELSE LET before == Matching(memo[r].filter)
                 after == {i \in InspectionId :
                               rows'[i] # None /\ status'[i] \in memo[r].filter}
             IN IF before \subseteq after /\ (pc[r] = "listingRows" => after = before)
                THEN steady[r] \cap Untied(after) ELSE {}]

WriteStep ==
    /\ \/ PhotosNext /\ UNCHANGED <<status, createdAt>>
       \/ \E r \in Request : ChangeStatus(r)
    /\ Watch

QueriesNext == WriteStep \/ \E r \in Request : QueryStep(r)

QueriesSpec == QueriesInit /\ [][QueriesNext]_queriesVars

-----------------------------------------------------------------------------
(* Properties                                                              *)

\* findAll: whoever turns the pages to the last one has seen every row that
\* was in the list all the time, whatever was added to the list meanwhile.
\* The README says what the code does when a row leaves the list, when two
\* rows have the same time, or when one is added between the count and the
\* rows of a page: a row may then be missed.
PagesMissNothing ==
    \A r \in Request : op[r] = "pages" /\ pc[r] = "answered" => steady[r] \subseteq memo[r].seen

\* findLatestArchivedInspections: the public page gets its list, although
\* photos and inspections are deleted between the query for the rows and the
\* query for their views.
LatestIsAnswered ==
    \A r \in Request : op[r] = "latest" => pc[r] # "rejected"
=============================================================================
