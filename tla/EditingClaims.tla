--------------------------- MODULE EditingClaims ---------------------------
(***************************************************************************)
(* What update() answers and the approval does not keep.                   *)
(***************************************************************************)
EXTENDS MCInspectionEditing

\* The row has what the request asks for.
Satisfies(d, dto) ==
    /\ dto.inspector \in {None, d.inspector}
    /\ dto.note \in {None, Stored(d, NotePath)}
    /\ dto.part # None =>
          \A k \in SubKey : dto.part[k] \in {None, Stored(d, LeafPath(k))}

\* inspections.service.ts:1281: "No significant changes detected": a request
\* answered so asks for nothing but what the next approval stores.
NoChangeNeeded ==
    [][\A e \in Edit, dto \in Dtos :
          UpdateRead(e, dto) /\ epc'[e] = "unchanged" =>
              Satisfies(Applied(data[eon[e]], logs[eon[e]]), dto)]_allVars
=============================================================================
