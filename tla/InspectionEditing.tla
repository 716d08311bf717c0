-------------------------- MODULE InspectionEditing --------------------------
(***************************************************************************)
(* Editing an inspection: update() compares a request with the row and     *)
(* stores the differences as change-log entries, approveInspection applies *)
(* the entries.  The life of the row is that of InspectionLifecycle, whose *)
(* actions are part of this specification.                                 *)
(*                                                                         *)
(* An edit is a process with two steps: the read of the row, and the       *)
(* createMany that stores all its entries at once; nothing ties the two    *)
(* together.  Log rows are kept in the order of changedAt; entries of one  *)
(* createMany form a batch: a new value or None for each path.             *)
(*                                                                         *)
(* Data: the inspector with the name copied into identityDetails stands    *)
(* for inspector and branch, which are logged in two places each; doc      *)
(* stands for a JSON column with one sub-object (detailedAssessment.fitur) *)
(* and its leaves; notes for notesFontSizes, a JSON column whose           *)
(* documented keys contain a dot ("inspectionSummary.mesinNotes"): flat is *)
(* the value at such a key, nested the value at the key's second half in a *)
(* sub-object named by its first half.  A user's name is the user.  In     *)
(* rows older than a column or sub-object it is NULL or missing.           *)
(* The status entries of a rollback or revert name no updatable field and  *)
(* are left out.  changedAt tells batches apart: two createMany in one     *)
(* millisecond are not modelled.                                           *)
(***************************************************************************)
EXTENDS InspectionLifecycle, Sequences

CONSTANTS
    Edit,       \* the update requests of a behaviour, each served once
    User,       \* inspectors
    SubKey,     \* the leaves of the sub-object
    Val,        \* their values
    Dtos,       \* the bodies of update requests in this instance
    LegacyData  \* inspections that may be older than a column or sub-object

VARIABLES
    data,       \* the editable columns of each row
    logs,       \* the batches of inspection_change_logs of each row, oldest first
    epc,        \* where each edit stands
    eon,        \* the inspection an edit is about
    staged      \* the entries an edit has computed and not yet stored

editVars == <<data, logs, epc, eon, staged>>
allVars == <<vars, editVars>>

-----------------------------------------------------------------------------
(* Rows, requests, paths                                                   *)

Part == [SubKey -> Val \cup {None}]
Notes == [flat: Val \cup {None}, nested: Val \cup {None}]
Data == [inspector: User, namaInspektor: User,
         doc: {None} \cup [part: Part \cup {None}], notes: Notes]
Dto == [inspector: User \cup {None}, part: Part \cup {None}, note: Val \cup {None}]

ASSUME EditingAssumption ==
    /\ None \notin User \cup Val \cup Part \cup [part: Part \cup {None}]
    /\ Dtos \subseteq Dto

\* fieldName, subFieldName and subsubfieldname of an entry.
InspectorPath == <<"inspector">>
NamePath      == <<"identityDetails", "namaInspektor">>
DocPath       == <<"doc">>
PartPath      == <<"doc", "part">>
LeafPath(k)   == <<"doc", "part", k>>
NotePath      == <<"notesFontSizes", "inspectionSummary.mesinNotes">>

WholePath == {DocPath, PartPath}
Path == {InspectorPath, NamePath, NotePath} \cup WholePath \cup {LeafPath(k) : k \in SubKey}

\* Where the approval stores an entry: it joins the parts of the path with "."
\* to a key and splits the key at every ".".
NestedPath == <<"notesFontSizes", "inspectionSummary", "mesinNotes">>
JoinedAndSplit(p) == IF p = NotePath THEN NestedPath ELSE p

NoChanges == [p \in Path |-> None]

\* The column and its sub-object are there; create() requires both.
Complete(d) == d.doc # None /\ d.doc.part # None

\* What row d holds at the path of an inspector, a name, a note or a leaf.
Stored(d, p) ==
    CASE p = InspectorPath -> d.inspector
      [] p = NamePath      -> d.namaInspektor
      [] p = NotePath      -> d.notes.flat
      [] p = NestedPath    -> d.notes.nested
      [] OTHER             -> IF Complete(d) THEN d.doc.part[p[3]] ELSE None

\* create() copies the inspector's name and takes the notes as documented.
InitialData(i) ==
    {d \in Data : /\ d.namaInspektor = d.inspector
                  /\ i \in LegacyData \/ Complete(d)
                  /\ d.notes.nested = None}

EditingInit ==
    /\ Init
    /\ logs = [i \in Inspection |-> <<>>]
    /\ data \in {d \in [Inspection -> Data] : \A i \in Inspection : d[i] \in InitialData(i)}
    /\ epc = [e \in Edit |-> "idle"]
    /\ eon \in [Edit -> Inspection]
    /\ staged = [e \in Edit |-> NoChanges]

-----------------------------------------------------------------------------
(* update                                                                  *)

\* The paths at which the request differs from the row.  Inspector and name
\* are logged together; of a sub-object only the leaves the request names,
\* unless the row has no such object: then all of it is one entry.
ChangedPaths(d, dto) ==
    (IF dto.inspector \in {None, d.inspector} THEN {} ELSE {InspectorPath, NamePath})
    \cup
    (IF dto.part = None THEN {}
     ELSE IF d.doc = None THEN {DocPath}
     ELSE IF d.doc.part = None THEN {PartPath}
     ELSE {LeafPath(k) : k \in {k \in SubKey : dto.part[k] \notin {None, d.doc.part[k]}}})
    \cup
    (IF dto.note \in {None, d.notes.flat} THEN {} ELSE {NotePath})

Requested(dto, p) ==
    CASE p \in {InspectorPath, NamePath} -> dto.inspector
      [] p \in {DocPath, PartPath}       -> dto.part
      [] p = NotePath                    -> dto.note
      [] OTHER                           -> dto.part[p[3]]

Changes(d, dto) ==
    [p \in Path |-> IF p \in ChangedPaths(d, dto) THEN Requested(dto, p) ELSE None]

-----------------------------------------------------------------------------
(* The application of the log by approveInspection                         *)

\* The batches with an entry for path p, and the newest of them.
At(log, p) == {n \in DOMAIN log : log[n][p] # None}

Newest(log, p) == CHOOSE n \in At(log, p) : \A m \in At(log, p) : m <= n

Latest(log, p, old) == IF At(log, p) = {} THEN old ELSE log[Newest(log, p)][p]

\* The newest entry of each path is applied, the newest of all first: where a
\* sub-object was logged as a whole and by leaves, the older entry comes last
\* and stays.  An entry for a whole column is not applied.  One for a key with
\* a dot goes to the nested place: the value at the key itself stays.
LatestLeaf(d, log, k) ==
    IF At(log, PartPath) # {} /\ (At(log, LeafPath(k)) = {}
                                  \/ Newest(log, LeafPath(k)) > Newest(log, PartPath))
    THEN log[Newest(log, PartPath)][PartPath][k]
    ELSE Latest(log, LeafPath(k),
                IF At(log, PartPath) # {} \/ ~Complete(d) THEN None ELSE d.doc.part[k])

DocLogged(log) == \E p \in {PartPath} \cup {LeafPath(k) : k \in SubKey} : At(log, p) # {}

Applied(d, log) ==
    [inspector     |-> Latest(log, InspectorPath, d.inspector),
     namaInspektor |-> Latest(log, NamePath, d.namaInspektor),
     doc           |-> IF DocLogged(log)
                       THEN [part |-> [k \in SubKey |-> LatestLeaf(d, log, k)]]
                       ELSE d.doc,
     notes         |-> [d.notes EXCEPT !.nested = Latest(log, NotePath, @)]]

-----------------------------------------------------------------------------
(* Faulty variants of ApproveAndApply for mutation runs: each is a         *)
(* plausible bug that a property has to catch.  None of them is part of    *)
(* the model.                                                              *)

\* A new inspector clears the copied name.
ApproveAndApplyClearingName(r) ==
    LET old == data[on[r]]
        new == Applied(old, logs[on[r]])
    IN /\ ApproveTransaction(r)
       /\ data' = [data EXCEPT ![on[r]] =
                      IF new.inspector = old.inspector THEN new
                      ELSE [new EXCEPT !.namaInspektor = None]]
       /\ UNCHANGED <<logs, epc, eon, staged>>

\* The change of the relation is dropped as one of an unknown column.
ApproveAndApplyWithoutRelation(r) ==
    /\ ApproveTransaction(r)
    /\ data' = [data EXCEPT ![on[r]] =
                   [Applied(@, logs[on[r]]) EXCEPT !.inspector = data[on[r]].inspector]]
    /\ UNCHANGED <<logs, epc, eon, staged>>

\* The log is read newest first and each entry overwrites the one before.
ApproveAndApplyOldest(r) ==
    LET log == logs[on[r]]
    IN /\ ApproveTransaction(r)
       /\ data' = [data EXCEPT ![on[r]] =
                      Applied(@, [n \in DOMAIN log |-> log[Len(log) + 1 - n]])]
       /\ UNCHANGED <<logs, epc, eon, staged>>

-----------------------------------------------------------------------------
(* Steps                                                                   *)

\* An edit reads the row; a row under review or hidden may be edited.
UpdateRead(e, dto) ==
    LET changes == Changes(data[eon[e]], dto)
    IN /\ epc[e] = "idle"
       /\ eon[e] \in live
       /\ db[eon[e]].status \notin {"APPROVED", "ARCHIVED", "ARCHIVING"}
       /\ staged' = [staged EXCEPT ![e] = changes]
       /\ epc' = [epc EXCEPT ![e] = IF changes = NoChanges THEN "unchanged" ELSE "logging"]
       /\ UNCHANGED <<vars, data, logs, eon>>

\* createMany: the entries refer to a row that must exist.
UpdateLog(e) ==
    /\ epc[e] = "logging"
    /\ eon[e] \in live
    /\ logs' = [logs EXCEPT ![eon[e]] = Append(@, staged[e])]
    /\ staged' = [staged EXCEPT ![e] = NoChanges]
    /\ epc' = [epc EXCEPT ![e] = "logged"]
    /\ UNCHANGED <<vars, data, eon>>

UpdateFails(e) ==
    /\ epc[e] = "logging"
    /\ "database" \in Faults \/ eon[e] \notin live
    /\ staged' = [staged EXCEPT ![e] = NoChanges]
    /\ epc' = [epc EXCEPT ![e] = "failed"]
    /\ UNCHANGED <<vars, data, logs, eon>>

\* The approval's transaction also reads the log and applies it.
ApproveAndApply(r) ==
    /\ ApproveTransaction(r)
    /\ data' = [data EXCEPT ![on[r]] = Applied(@, logs[on[r]])]
    /\ UNCHANGED <<logs, epc, eon, staged>>

\* The entries go with their row (onDelete: Cascade).
DeleteWithLogs(r) ==
    /\ DeleteCommit(r)
    /\ logs' = [logs EXCEPT ![on[r]] = <<>>]
    /\ UNCHANGED <<data, epc, eon, staged>>

\* No other step of a request touches the editable columns or the log.
OtherSteps(r) ==
    /\ Arrive(r) \/ Continue(r) \/ ClientStep(r)
    /\ live' = live /\ pc'[r] # "generating"
    /\ UNCHANGED editVars

CrashWithEdits ==
    /\ Crash
    /\ epc' = [e \in Edit |-> IF epc[e] = "logging" THEN "lost" ELSE epc[e]]
    /\ staged' = [e \in Edit |-> NoChanges]
    /\ UNCHANGED <<data, logs, eon>>

EditingNext ==
    \/ \E e \in Edit : (\E dto \in Dtos : UpdateRead(e, dto)) \/ UpdateLog(e) \/ UpdateFails(e)
    \/ \E r \in Request : ApproveAndApply(r) \/ DeleteWithLogs(r) \/ OtherSteps(r)
    \/ CrashWithEdits

EditingSpec == EditingInit /\ [][EditingNext]_allVars

-----------------------------------------------------------------------------
(* Properties                                                              *)

ValueAt(p) ==
    CASE p \in {InspectorPath, NamePath} -> User
      [] p \in {DocPath, PartPath}       -> Part
      [] OTHER                           -> Val

Batch == {b \in [Path -> User \cup Val \cup Part \cup {None}] :
              \A p \in Path : b[p] \in ValueAt(p) \cup {None}}

EditingTypeOK ==
    /\ TypeOK
    /\ data \in [Inspection -> Data]
    /\ logs \in [Inspection -> Seq(Batch)]
    /\ epc \in [Edit -> {"idle", "logging", "unchanged", "logged", "failed", "lost"}]
    /\ eon \in [Edit -> Inspection]
    /\ staged \in [Edit -> Batch]

\* The name printed as the inspector is that of the inspector the row refers
\* to, although both are logged, selected and applied as separate entries,
\* from several edits in flight and over repeated approvals.
InspectorNamed ==
    \A i \in live : data[i].namaInspektor = data[i].inspector

\* A change was stored for the sub-object as a whole.
LoggedWhole(i) == \E n \in DOMAIN logs[i] : logs[i][n][PartPath] # None

\* The entries of p in the log of i.
Entries(i, p) == {n \in DOMAIN logs[i] : logs[i][n][p] # None}

\* An approval stores the newest entry of every path, and leaves a path
\* without an entry as it was, however often the log was applied before and
\* whichever edits were in flight, as long as no change was stored for the
\* sub-object as a whole.  It stores the entry where joining and splitting the
\* path leads: the field itself, but for a key with a dot, whose newest value
\* goes to another place while the field keeps what it held.
LatestChangesApplied ==
    [][\A r \in Request : LET i == on[r] IN
          pc[r] = "idle" /\ pc'[r] = "generating" /\ ~LoggedWhole(i) =>
              \A p \in Path \ WholePath :
                  LET place == JoinedAndSplit(p) IN
                  /\ \/ Entries(i, p) = {} /\ Stored(data'[i], place) = Stored(data[i], place)
                     \/ \E n \in Entries(i, p) :
                           /\ \A m \in Entries(i, p) : m <= n
                           /\ Stored(data'[i], place) = logs[i][n][p]
                  /\ place # p => Stored(data'[i], p) = Stored(data[i], p)]_allVars
=============================================================================
