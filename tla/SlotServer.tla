----------------------------- MODULE SlotServer ------------------------------
(***************************************************************************)
(* What the queues of inspections.service.ts promise to their callers: a   *)
(* first-come-first-served server with a fixed number of slots.  A task    *)
(* that arrives while a slot is free is served at once, otherwise it joins *)
(* the line; when a task departs, the first of the line takes its slot.    *)
(***************************************************************************)
EXTENDS Naturals, Sequences, FiniteSets

CONSTANTS Task, Slots

VARIABLES line, serving, seen

ServerInit == line = <<>> /\ serving = {} /\ seen = {}

ServedAtOnce(t) ==
    /\ Cardinality(serving) < Slots
    /\ line = <<>>
    /\ serving' = serving \cup {t}
    /\ UNCHANGED line

JoinsLine(t) ==
    /\ Cardinality(serving) >= Slots
    /\ line' = Append(line, t)
    /\ UNCHANGED serving

\* A task comes once and is either taken or turned away.
Arrives(t) ==
    /\ t \notin seen
    /\ seen' = seen \cup {t}
    /\ ServedAtOnce(t) \/ JoinsLine(t) \/ UNCHANGED <<line, serving>>

Departs(t) ==
    /\ t \in serving
    /\ IF line = <<>>
       THEN serving' = serving \ {t} /\ UNCHANGED line
       ELSE serving' = (serving \ {t}) \cup {Head(line)} /\ line' = Tail(line)
    /\ UNCHANGED seen

ServerNext == \E t \in Task : Arrives(t) \/ Departs(t)

ServerSpec == ServerInit /\ [][ServerNext]_<<line, serving, seen>>
=============================================================================
