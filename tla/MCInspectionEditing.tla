------------------------- MODULE MCInspectionEditing -------------------------
(***************************************************************************)
(* Instances of InspectionEditing for TLC, and the loop of                 *)
(* approveInspection as a reference for the operator Applied.              *)
(***************************************************************************)
EXTENDS InspectionEditing, MCInspectionLifecycle, SequencesExt

\* Requests that name the inspector, or one leaf of the sub-object and a note
\* with another value.
OneLeaf(l, v) == [k \in SubKey |-> IF k = l THEN v ELSE None]

SmallDtos ==
    {[inspector |-> u, part |-> None, note |-> None] : u \in User}
    \cup {[inspector |-> None, part |-> OneLeaf(l, v), note |-> w] :
              <<l, v, w>> \in {t \in SubKey \X Val \X Val : t[2] # t[3]}}

EditSymmetry ==
    Permutations(Request) \cup Permutations(Edit) \cup Permutations(User) \cup Permutations(Val)

-----------------------------------------------------------------------------

\* The keys of latestChanges in their order: newest entry first.
LatestChangesOrder(log) ==
    SetToSortSeq({p \in Path : At(log, p) # {}},
                 LAMBDA p, q : Newest(log, p) > Newest(log, q))

ApplyEntry(log, d, p) ==
    LET value == log[Newest(log, p)][p]
        part  == IF Complete(d) THEN d.doc.part ELSE [k \in SubKey |-> None]
    IN CASE p = InspectorPath -> [d EXCEPT !.inspector = value]
         [] p = NamePath      -> [d EXCEPT !.namaInspektor = value]
         [] p = DocPath       -> d
         [] p = NotePath      -> [d EXCEPT !.notes.nested = value]
         [] p = PartPath      -> [d EXCEPT !.doc = [part |-> value]]
         [] OTHER             -> [d EXCEPT !.doc = [part |-> [part EXCEPT ![p[3]] = value]]]

ApplyLoop(d, log) ==
    FoldLeft(LAMBDA acc, p : ApplyEntry(log, acc, p), d, LatestChangesOrder(log))

\* Batches as update() makes them from any row, in any order.
SomeBatches == {Changes(d, dto) : d \in UNION {InitialData(i) : i \in Inspection}, dto \in Dtos}

ASSUME AppliedIsTheLoop ==
    \A d \in UNION {InitialData(i) : i \in Inspection} :
        \A n \in 0..3 : \A log \in [1..n -> SomeBatches] :
            Applied(d, log) = ApplyLoop(d, log)
=============================================================================
