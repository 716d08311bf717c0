--------------------------- MODULE TaskQueueProofs ---------------------------
(***************************************************************************)
(* Proofs about TaskQueue and the renderings that are its tasks.           *)
(*                                                                         *)
(* What each property of the queue needs of the others: the head of the    *)
(* queue can be started because the waiting tasks are distinct and really  *)
(* waiting (Waiting), the slot it takes exists because running counts the  *)
(* occupied ones (SlotsCounted), and one call of processQueue is enough    *)
(* because the queue never stalls (NeverStalls).                           *)
(*                                                                         *)
(* A rendering does to the queue what a task may do (RenderingsAreTasks),  *)
(* so these theorems hold of PdfRendering.  A task has its browser only at *)
(* the stages between launch and finally block (Opened), which a task      *)
(* leaves before it settles; mapped to its task, no two browsers share a   *)
(* slot.                                                                   *)
(***************************************************************************)
EXTENDS PdfRendering, FiniteSetTheorems, SequenceTheorems, TLAPS

Slots(ph) == {t \in Task : ph[t] \in {"running"} \cup Settled}

\* q holds distinct tasks, all of them waiting according to ph.
Waiting(q, ph) ==
    /\ \A k \in 1..Len(q) : ph[q[k]] = "queued"
    /\ \A j, k \in 1..Len(q) : q[j] = q[k] => j = k

\* Counter, queue and phases agree.
Agree(n, q, ph) ==
    /\ q \in Seq(Task)
    /\ ph \in [Task -> Phase]
    /\ Waiting(q, ph)
    /\ n \in 0..MaxConcurrent
    /\ n = Cardinality(Slots(ph))

QueueInv ==
    /\ Agree(running, queue, phase)
    /\ NeverStalls
    /\ started \in Seq(Task)
    /\ accepted \in Seq(Task)
    /\ FirstComeFirstServed

-----------------------------------------------------------------------------

LEMMA SlotsFinite ==
    ASSUME NEW ph
    PROVE  IsFiniteSet(Slots(ph)) /\ Cardinality(Slots(ph)) \in Nat
<1>1. Slots(ph) \subseteq Task
  BY DEF Slots
<1> QED
  BY <1>1, QueueAssumption, FS_Subset, FS_CardinalityType

LEMMA SlotTaken ==
    ASSUME NEW ph \in [Task -> Phase], NEW t \in Task, ph[t] = "queued"
    PROVE  Cardinality(Slots([ph EXCEPT ![t] = "running"])) = Cardinality(Slots(ph)) + 1
<1>1. Slots([ph EXCEPT ![t] = "running"]) = Slots(ph) \cup {t} /\ t \notin Slots(ph)
  BY DEF Slots, Settled
<1> QED
  BY <1>1, SlotsFinite, FS_AddElement

LEMMA SlotReleased ==
    ASSUME NEW ph \in [Task -> Phase], NEW t \in Task, ph[t] \in Settled
    PROVE  /\ Cardinality(Slots([ph EXCEPT ![t] = "released"])) = Cardinality(Slots(ph)) - 1
           /\ Cardinality(Slots(ph)) >= 1
<1>1. Slots([ph EXCEPT ![t] = "released"]) = Slots(ph) \ {t} /\ t \in Slots(ph)
  BY DEF Slots, Settled
<1>2. Cardinality(Slots(ph) \ {t}) = Cardinality(Slots(ph)) - 1
  BY <1>1, SlotsFinite, FS_RemoveElement
<1>3. Cardinality(Slots(ph) \ {t}) \in Nat
  BY SlotsFinite, FS_Difference, FS_CardinalityType
<1>4. Cardinality(Slots(ph)) >= 1
  BY <1>2, <1>3, SlotsFinite
<1> QED
  BY <1>1, <1>2, <1>4

\* processQueue keeps the agreement and the order, and if it leaves tasks
\* waiting then because the slots are taken or because there were two.
LEMMA ProcessQueueAgrees ==
    ASSUME NEW n, NEW q, NEW ph, Agree(n, q, ph), started \in Seq(Task),
           ProcessQueue(n, q, ph)
    PROVE  /\ Agree(running', queue', phase')
           /\ started' \in Seq(Task)
           /\ started' \o queue' = started \o q
           /\ queue' # <<>> => running' = MaxConcurrent \/ (Len(q) >= 2 /\ running' = n + 1)
<1>1. CASE n >= MaxConcurrent \/ q = <<>>
  <2>1. running' = n /\ queue' = q /\ phase' = ph /\ started' = started
    BY <1>1 DEF ProcessQueue
  <2>2. queue' # <<>> => running' = MaxConcurrent
    BY <1>1, <2>1, QueueAssumption DEF Agree
  <2>3. Agree(running', queue', phase') /\ started' \in Seq(Task)
    BY <2>1
  <2>4. started' \o queue' = started \o q
    BY <2>1
  <2> QED
    BY <2>2, <2>3, <2>4
<1>2. CASE ~(n >= MaxConcurrent \/ q = <<>>)
  <2>1. /\ running' = n + 1 /\ queue' = Tail(q)
        /\ phase' = [ph EXCEPT ![Head(q)] = "running"]
        /\ started' = Append(started, Head(q))
    BY <1>2 DEF ProcessQueue
  <2>2. q \in Seq(Task) /\ q # <<>> /\ Head(q) \in Task /\ ph[Head(q)] = "queued"
    BY <1>2 DEF Agree, Waiting
  <2>3. Cardinality(Slots(phase')) = n + 1
    BY <2>1, <2>2, SlotTaken DEF Agree
  <2>4. queue' \in Seq(Task) /\ phase' \in [Task -> Phase] /\ n + 1 \in 0..MaxConcurrent
    BY <1>2, <2>1, <2>2, QueueAssumption DEF Agree, Phase
  <2>5. Waiting(queue', phase')
    BY <2>1, <2>2 DEF Agree, Waiting
  <2>6. started' \in Seq(Task) /\ started' \o queue' = started \o q
    BY <2>1, <2>2
  <2>7. queue' # <<>> => Len(q) >= 2
    BY <2>1, <2>2
  <2> QED
    BY <2>1, <2>3, <2>4, <2>5, <2>6, <2>7 DEF Agree
<1> QED
  BY <1>1, <1>2

-----------------------------------------------------------------------------

LEMMA AppendWaits ==
    ASSUME NEW q \in Seq(Task), NEW ph \in [Task -> Phase], Waiting(q, ph),
           NEW t \in Task, ph[t] = "new"
    PROVE  Waiting(Append(q, t), [ph EXCEPT ![t] = "queued"])
<1>1. \A k \in 1..Len(q) : q[k] # t
  BY DEF Waiting
<1> QED
  BY <1>1 DEF Waiting

LEMMA AddStep ==
    ASSUME QueueInv, NEW t \in Task, Add(t)
    PROVE  QueueInv'
<1> DEFINE q == Append(queue, t)
           ph == [phase EXCEPT ![t] = "queued"]
<1>1. phase[t] = "new" /\ ProcessQueue(running, q, ph) /\ accepted' = Append(accepted, t)
  BY DEF Add
<1>2. Slots(ph) = Slots(phase)
  BY <1>1 DEF Slots, Settled, QueueInv, Agree
<1>3. Agree(running, q, ph)
  <2>1. q \in Seq(Task) /\ ph \in [Task -> Phase]
    BY DEF QueueInv, Agree, Phase
  <2>2. Waiting(q, ph)
    BY <1>1, AppendWaits DEF QueueInv, Agree
  <2> QED
    BY <1>2, <2>1, <2>2 DEF QueueInv, Agree
<1>4. /\ Agree(running', queue', phase') /\ started' \in Seq(Task)
      /\ started' \o queue' = started \o q
      /\ queue' # <<>> => running' = MaxConcurrent \/ (Len(q) >= 2 /\ running' = running + 1)
  BY <1>1, <1>3, ProcessQueueAgrees DEF QueueInv
<1>5. NeverStalls'
  <2>1. Len(q) >= 2 => running = MaxConcurrent
    BY DEF QueueInv, NeverStalls, Agree
  <2>2. running' \in 0..MaxConcurrent
    BY <1>4 DEF Agree
  <2> QED
    BY <1>4, <2>1, <2>2, QueueAssumption DEF NeverStalls
<1>6. accepted' \in Seq(Task) /\ accepted' = started' \o queue'
  <2>1. queue \in Seq(Task) /\ started \in Seq(Task) /\ accepted = started \o queue
    BY DEF QueueInv, FirstComeFirstServed, Agree
  <2>2. Append(started \o queue, t) = started \o Append(queue, t)
    <3>1. started \o queue \in Seq(Task) /\ <<t>> \in Seq(Task)
      BY <2>1
    <3>2. Append(started \o queue, t) = (started \o queue) \o <<t>>
      BY <3>1, AppendIsConcat
    <3>3. (started \o queue) \o <<t>> = started \o (queue \o <<t>>)
      BY <2>1, <3>1, ConcatAssociative
    <3>4. Append(queue, t) = queue \o <<t>>
      BY <2>1, AppendIsConcat
    <3> QED
      BY <3>2, <3>3, <3>4
  <2> QED
    BY <1>1, <1>4, <2>1, <2>2
<1> QED
  BY <1>4, <1>5, <1>6 DEF QueueInv, FirstComeFirstServed

LEMMA ReleaseStep ==
    ASSUME QueueInv, NEW t \in Task, Release(t)
    PROVE  QueueInv'
<1> DEFINE ph == [phase EXCEPT ![t] = "released"]
<1>1. phase[t] \in Settled /\ ProcessQueue(running - 1, queue, ph) /\ accepted' = accepted
  BY DEF Release
<1>2. Cardinality(Slots(ph)) = running - 1 /\ running >= 1
  BY <1>1, SlotReleased DEF QueueInv, Agree
<1>3. Waiting(queue, ph)
  BY <1>1 DEF QueueInv, Agree, Waiting, Settled
<1>4. Agree(running - 1, queue, ph)
  BY <1>1, <1>2, <1>3, QueueAssumption DEF QueueInv, Agree, Phase
<1>5. /\ Agree(running', queue', phase') /\ started' \in Seq(Task)
      /\ started' \o queue' = started \o queue
      /\ queue' # <<>> =>
            running' = MaxConcurrent \/ (Len(queue) >= 2 /\ running' = (running - 1) + 1)
  BY <1>1, <1>4, ProcessQueueAgrees DEF QueueInv
<1>6. NeverStalls'
  <2>1. Len(queue) >= 2 => running = MaxConcurrent
    BY DEF QueueInv, NeverStalls, Agree
  <2> QED
    BY <1>2, <1>5, <2>1, QueueAssumption DEF NeverStalls, QueueInv, Agree
<1> QED
  BY <1>1, <1>5, <1>6 DEF QueueInv, FirstComeFirstServed

\* A step that only settles or refuses a task.
LEMMA PhaseStep ==
    ASSUME QueueInv, NEW t \in Task, phase[t] # "queued", NEW l \in Phase \ {"queued"},
           phase' = [phase EXCEPT ![t] = l],
           phase[t] \in {"running"} \cup Settled <=> l \in {"running"} \cup Settled,
           UNCHANGED <<queue, running, accepted, started>>
    PROVE  QueueInv'
<1>1. Slots(phase') = Slots(phase)
  BY DEF Slots, QueueInv, Agree
<1>2. Waiting(queue, phase')
  BY DEF Waiting, QueueInv, Agree
<1>3. phase' \in [Task -> Phase]
  BY DEF QueueInv, Agree
<1> QED
  BY <1>1, <1>2, <1>3 DEF QueueInv, Agree, NeverStalls, FirstComeFirstServed

LEMMA QueueStep == QueueInv /\ [Next]_vars => QueueInv'
<1> SUFFICES ASSUME QueueInv, [Next]_vars PROVE QueueInv'
  OBVIOUS
<1>1. ASSUME NEW t \in Task, Add(t) PROVE QueueInv'
  BY <1>1, AddStep
<1>2. ASSUME NEW t \in Task, AddRefused(t) PROVE QueueInv'
  BY <1>2, PhaseStep DEF AddRefused, Phase, Settled, history
<1>3. ASSUME NEW t \in Task, TaskResolves(t) PROVE QueueInv'
  BY <1>3, PhaseStep DEF TaskResolves, Phase, Settled
<1>4. ASSUME NEW t \in Task, TaskRejects(t) PROVE QueueInv'
  BY <1>4, PhaseStep DEF TaskRejects, Phase, Settled
<1>5. ASSUME NEW t \in Task, Release(t) PROVE QueueInv'
  BY <1>5, ReleaseStep
<1>6. CASE CooldownEnds \/ UNCHANGED vars
  BY <1>6 DEF CooldownEnds, vars, history, QueueInv, Agree, NeverStalls,
              FirstComeFirstServed, Waiting, Slots
<1> QED
  BY <1>1, <1>2, <1>3, <1>4, <1>5, <1>6 DEF Next, Settles

LEMMA QueueInit == Init => QueueInv
<1> SUFFICES ASSUME Init PROVE QueueInv
  OBVIOUS
<1>1. Slots(phase) = {}
  BY DEF Init, Slots, Settled
<1>2. Cardinality(Slots(phase)) = 0
  BY <1>1, FS_EmptySet
<1> QED
  BY <1>2, QueueAssumption
     DEF Init, QueueInv, Agree, Waiting, Phase, NeverStalls, FirstComeFirstServed

LEMMA QueueInvariant == Spec => []QueueInv
BY QueueInit, QueueStep, PTL DEF Spec

-----------------------------------------------------------------------------
\* The counter that processQueue compares with maxConcurrent is the number of
\* occupied slots and never exceeds it, although tasks start and give their
\* slot back in different turns of the event loop.
THEOREM SlotsAreCounted == Spec => []SlotsCounted
<1>1. QueueInv => SlotsCounted
  BY QueueAssumption DEF QueueInv, Agree, SlotsCounted, InSlot, Slots
<1> QED
  BY <1>1, QueueInvariant, PTL

\* No task waits while a slot is free, although processQueue starts at most
\* one task per call.
THEOREM QueueNeverStalls == Spec => []NeverStalls
<1>1. QueueInv => NeverStalls
  BY DEF QueueInv
<1> QED
  BY <1>1, QueueInvariant, PTL

\* Accepted tasks start in the order in which they were accepted; none is
\* lost and none starts twice.
THEOREM ServedInOrder == Spec => []FirstComeFirstServed
<1>1. QueueInv => FirstComeFirstServed
  BY DEF QueueInv
<1> QED
  BY <1>1, QueueInvariant, PTL

-----------------------------------------------------------------------------
(* Counters                                                                *)

Finished(ph) == {t \in Task : ph[t] \in Settled \cup {"released"}}

CounterInv ==
    /\ phase \in [Task -> Phase]
    /\ totalProcessed \in Nat
    /\ totalErrors \in Nat
    /\ consecutiveErrors \in Nat
    /\ breakerOpen \in BOOLEAN
    /\ outcomes \in Seq({"ok", "error"})
    /\ Accounting
    /\ StreakCounted

LEMMA FinishedFinite ==
    ASSUME NEW ph
    PROVE  IsFiniteSet(Finished(ph)) /\ Cardinality(Finished(ph)) \in Nat
<1>1. Finished(ph) \subseteq Task
  BY DEF Finished
<1> QED
  BY <1>1, QueueAssumption, FS_Subset, FS_CardinalityType

LEMMA AccountingShape == Accounting <=> (totalProcessed + totalErrors = Cardinality(Finished(phase)))
BY DEF Accounting, Finished

LEMMA TaskFinishes ==
    ASSUME NEW ph \in [Task -> Phase], NEW t \in Task, ph[t] = "running", NEW l \in Settled
    PROVE  Cardinality(Finished([ph EXCEPT ![t] = l])) = Cardinality(Finished(ph)) + 1
<1>1. Finished([ph EXCEPT ![t] = l]) = Finished(ph) \cup {t} /\ t \notin Finished(ph)
  BY DEF Finished, Settled
<1> QED
  BY <1>1, FinishedFinite, FS_AddElement

\* A success ends the run of errors, an error makes it one longer.
LEMMA StreakAfterSuccess ==
    ASSUME outcomes \in Seq({"ok", "error"}), outcomes' = Append(outcomes, "ok"),
           consecutiveErrors' = 0
    PROVE  outcomes' \in Seq({"ok", "error"}) /\ StreakCounted'
BY DEF StreakCounted, LastErrors

LEMMA StreakAfterError ==
    ASSUME outcomes \in Seq({"ok", "error"}), consecutiveErrors \in Nat, StreakCounted,
           outcomes' = Append(outcomes, "error"),
           consecutiveErrors' = consecutiveErrors + 1
    PROVE  outcomes' \in Seq({"ok", "error"}) /\ StreakCounted'
<1>1. \A n \in Nat : LastErrors(n + 1)' <=> LastErrors(n)
  <2> SUFFICES ASSUME NEW n \in Nat PROVE LastErrors(n + 1)' <=> LastErrors(n)
    OBVIOUS
  <2>1. Len(outcomes') = Len(outcomes) + 1 /\ outcomes'[Len(outcomes')] = "error"
    OBVIOUS
  <2>2. \A k \in 1..Len(outcomes) : outcomes'[k] = outcomes[k]
    OBVIOUS
  <2>3. ASSUME n <= Len(outcomes), NEW k \in 1..n
        PROVE  outcomes'[Len(outcomes') + 1 - (k + 1)] = outcomes[Len(outcomes) + 1 - k]
    BY <2>1, <2>2, <2>3
  <2>4. ASSUME LastErrors(n) PROVE LastErrors(n + 1)'
    <3>1. ASSUME NEW k \in 1..(n + 1)
          PROVE  outcomes'[Len(outcomes') + 1 - k] = "error"
      <4>1. CASE k = 1
        BY <2>1, <4>1
      <4>2. CASE k # 1
        <5>1. k - 1 \in 1..n /\ k = (k - 1) + 1
          BY <4>2
        <5> QED
          BY <2>3, <2>4, <5>1 DEF LastErrors
      <4> QED
        BY <4>1, <4>2
    <3> QED
      BY <2>1, <2>4, <3>1 DEF LastErrors
  <2>5. ASSUME LastErrors(n + 1)' PROVE LastErrors(n)
    <3>1. n <= Len(outcomes)
      BY <2>1, <2>5 DEF LastErrors
    <3>2. ASSUME NEW k \in 1..n PROVE outcomes[Len(outcomes) + 1 - k] = "error"
      <4>1. k + 1 \in 1..(n + 1)
        OBVIOUS
      <4>2. outcomes'[Len(outcomes') + 1 - (k + 1)] = "error"
        BY <2>5, <4>1 DEF LastErrors
      <4> QED
        BY <2>3, <3>1, <4>2
    <3> QED
      BY <3>1, <3>2 DEF LastErrors
  <2> QED
    BY <2>4, <2>5
<1>2. StreakCounted'
  BY <1>1 DEF StreakCounted
<1> QED
  BY <1>2

\* Starting a task finishes none.
LEMMA ProcessQueueFinishesNone ==
    ASSUME NEW n, NEW q, NEW ph, Agree(n, q, ph), ProcessQueue(n, q, ph)
    PROVE  phase' \in [Task -> Phase] /\ Finished(phase') = Finished(ph)
<1>1. CASE n >= MaxConcurrent \/ q = <<>>
  BY <1>1 DEF ProcessQueue, Agree
<1>2. CASE ~(n >= MaxConcurrent \/ q = <<>>)
  <2>1. Head(q) \in Task /\ ph[Head(q)] = "queued"
    BY <1>2 DEF Agree, Waiting
  <2>2. phase' = [ph EXCEPT ![Head(q)] = "running"]
    BY <1>2 DEF ProcessQueue
  <2> QED
    BY <2>1, <2>2 DEF Agree, Finished, Settled, Phase
<1> QED
  BY <1>1, <1>2

LEMMA CounterStep == QueueInv /\ CounterInv /\ [Next]_vars => CounterInv'
<1> SUFFICES ASSUME QueueInv, CounterInv, [Next]_vars PROVE CounterInv'
  OBVIOUS
<1>1. ASSUME UNCHANGED <<totalProcessed, totalErrors, consecutiveErrors, outcomes>>,
             breakerOpen' \in BOOLEAN, phase' \in [Task -> Phase],
             Finished(phase') = Finished(phase)
      PROVE  CounterInv'
  BY <1>1, AccountingShape DEF CounterInv, StreakCounted, LastErrors, Accounting, Finished
<1>2. ASSUME NEW t \in Task, Add(t) PROVE CounterInv'
  <2> DEFINE q == Append(queue, t)
             ph == [phase EXCEPT ![t] = "queued"]
  <2>1. phase[t] = "new" /\ ProcessQueue(running, q, ph)
    BY <1>2 DEF Add
  <2>2. Slots(ph) = Slots(phase) /\ Finished(ph) = Finished(phase)
    BY <2>1 DEF Slots, Finished, Settled, CounterInv
  <2>3. Agree(running, q, ph)
    <3>1. q \in Seq(Task) /\ ph \in [Task -> Phase]
      BY DEF QueueInv, Agree, Phase
    <3>2. Waiting(q, ph)
      BY <2>1, AppendWaits DEF QueueInv, Agree
    <3> QED
      BY <2>2, <3>1, <3>2 DEF QueueInv, Agree
  <2>4. phase' \in [Task -> Phase] /\ Finished(phase') = Finished(phase)
    BY <2>1, <2>2, <2>3, ProcessQueueFinishesNone
  <2> QED
    BY <1>1, <1>2, <2>4 DEF Add, counters, CounterInv
<1>3. ASSUME NEW t \in Task, Release(t) PROVE CounterInv'
  <2> DEFINE ph == [phase EXCEPT ![t] = "released"]
  <2>1. phase[t] \in Settled /\ ProcessQueue(running - 1, queue, ph)
    BY <1>3 DEF Release
  <2>2. Cardinality(Slots(ph)) = running - 1 /\ running >= 1
    BY <2>1, SlotReleased DEF QueueInv, Agree
  <2>3. Waiting(queue, ph)
    BY <2>1 DEF QueueInv, Agree, Waiting, Settled
  <2>4. Agree(running - 1, queue, ph)
    BY <2>1, <2>2, <2>3, QueueAssumption DEF QueueInv, Agree, Phase
  <2>5. Finished(ph) = Finished(phase)
    BY <2>1 DEF Finished, CounterInv
  <2>6. phase' \in [Task -> Phase] /\ Finished(phase') = Finished(phase)
    BY <2>1, <2>4, <2>5, ProcessQueueFinishesNone
  <2> QED
    BY <1>1, <1>3, <2>6 DEF Release, counters, CounterInv
<1>4. ASSUME NEW t \in Task, AddRefused(t) PROVE CounterInv'
  <2>1. phase' \in [Task -> Phase] /\ Finished(phase') = Finished(phase)
    BY <1>4 DEF AddRefused, Finished, Settled, CounterInv, Phase
  <2> QED
    BY <1>1, <1>4, <2>1 DEF AddRefused, counters, history, CounterInv
<1>5. ASSUME NEW t \in Task, TaskResolves(t) PROVE CounterInv'
  <2>1. Cardinality(Finished(phase')) = Cardinality(Finished(phase)) + 1
        /\ phase' \in [Task -> Phase]
    BY <1>5, TaskFinishes DEF TaskResolves, CounterInv, Settled, Phase
  <2>2. outcomes' \in Seq({"ok", "error"}) /\ StreakCounted'
    BY <1>5, StreakAfterSuccess DEF TaskResolves, CounterInv
  <2>3. Accounting'
    <3>1. totalProcessed + totalErrors = Cardinality(Finished(phase))
      BY AccountingShape DEF CounterInv
    <3>2. totalProcessed' + totalErrors' = totalProcessed + totalErrors + 1
      BY <1>5 DEF TaskResolves, CounterInv
    <3>3. totalProcessed' + totalErrors' = Cardinality(Finished(phase'))
      BY <2>1, <3>1, <3>2
    <3> QED
      BY <3>3 DEF Accounting, Finished
  <2> QED
    BY <1>5, <2>1, <2>2, <2>3 DEF TaskResolves, CounterInv
<1>6. ASSUME NEW t \in Task, TaskRejects(t) PROVE CounterInv'
  <2>1. Cardinality(Finished(phase')) = Cardinality(Finished(phase)) + 1
        /\ phase' \in [Task -> Phase]
    BY <1>6, TaskFinishes DEF TaskRejects, CounterInv, Settled, Phase
  <2>2. outcomes' \in Seq({"ok", "error"}) /\ StreakCounted'
    BY <1>6, StreakAfterError DEF TaskRejects, CounterInv
  <2>3. Accounting'
    <3>1. totalProcessed + totalErrors = Cardinality(Finished(phase))
      BY AccountingShape DEF CounterInv
    <3>2. totalProcessed' + totalErrors' = totalProcessed + totalErrors + 1
      BY <1>6 DEF TaskRejects, CounterInv
    <3>3. totalProcessed' + totalErrors' = Cardinality(Finished(phase'))
      BY <2>1, <3>1, <3>2
    <3> QED
      BY <3>3 DEF Accounting, Finished
  <2>4. breakerOpen' \in BOOLEAN
    BY <1>6 DEF TaskRejects, CounterInv
  <2> QED
    BY <1>6, <2>1, <2>2, <2>3, <2>4 DEF TaskRejects, CounterInv
<1>7. CASE CooldownEnds \/ UNCHANGED vars
  BY <1>1, <1>7 DEF CooldownEnds, vars, counters, history, CounterInv
<1> QED
  BY <1>2, <1>3, <1>4, <1>5, <1>6, <1>7 DEF Next, Settles

LEMMA CounterInit == Init => CounterInv
<1> SUFFICES ASSUME Init PROVE CounterInv
  OBVIOUS
<1>1. Finished(phase) = {}
  BY DEF Init, Finished, Settled
<1>2. Cardinality(Finished(phase)) = 0
  BY <1>1, FS_EmptySet
<1> QED
  <2>1. Accounting
    BY <1>2, AccountingShape DEF Init
  <2>2. StreakCounted
    BY DEF Init, StreakCounted, LastErrors
  <2>3. outcomes \in Seq({"ok", "error"}) /\ phase \in [Task -> Phase]
    BY DEF Init, Phase
  <2>4. /\ totalProcessed \in Nat /\ totalErrors \in Nat /\ consecutiveErrors \in Nat
        /\ breakerOpen \in BOOLEAN
    BY DEF Init
  <2> QED
    BY <2>1, <2>2, <2>3, <2>4 DEF CounterInv

LEMMA CounterInvariant == Spec => [](QueueInv /\ CounterInv)
BY QueueInit, QueueStep, CounterInit, CounterStep, PTL DEF Spec

\* Every reachable state is well typed.
THEOREM TypeCorrect == Spec => []TypeOK
<1>1. QueueInv /\ CounterInv => TypeOK
  BY DEF QueueInv, Agree, CounterInv, TypeOK
<1> QED
  BY <1>1, CounterInvariant, PTL

\* Every outcome is counted exactly once, as processed or as an error.
THEOREM OutcomesAreCounted == Spec => []Accounting
<1>1. CounterInv => Accounting
  BY DEF CounterInv
<1> QED
  BY <1>1, CounterInvariant, PTL

\* The error count is the length of the current run of failures, whatever the
\* order in which concurrent tasks end.
THEOREM StreakIsCounted == Spec => []StreakCounted
<1>1. CounterInv => StreakCounted
  BY DEF CounterInv
<1> QED
  BY <1>1, CounterInvariant, PTL

LEMMA OnlyErrorsOpenBreaker ==
    ASSUME QueueInv, CounterInv, Next, ~breakerOpen, breakerOpen'
    PROVE  LastErrors(MaxConsecutiveErrors)'
<1>1. PICK t \in Task : TaskRejects(t)
  BY DEF Next, Add, AddRefused, Settles, TaskResolves, Release, CooldownEnds, counters,
         CounterInv
<1>2. /\ MaxConsecutiveErrors <= consecutiveErrors'
      /\ consecutiveErrors' \in Nat
  BY <1>1 DEF TaskRejects, CounterInv
<1>3. LastErrors(consecutiveErrors)'
  BY CounterStep DEF CounterInv, StreakCounted
<1> QED
  BY <1>2, <1>3, QueueAssumption DEF LastErrors

\* "Open circuit breaker if too many consecutive errors": the breaker opens only on the last of
\* MaxConsecutiveErrors failures in a row, in whatever order the tasks of the
\* slots end.
THEOREM BreakerOpensInTime == Spec => BreakerOpensAfterStreak
<1>1. QueueInv /\ CounterInv /\ [Next]_vars
          => [~breakerOpen /\ breakerOpen' => LastErrors(MaxConsecutiveErrors)']_vars
  BY OnlyErrorsOpenBreaker
<1> QED
  BY <1>1, CounterInvariant, PTL DEF Spec, BreakerOpensAfterStreak

-----------------------------------------------------------------------------
(* Refinement                                                              *)

\* The server counts with the same operator.
LEMMA SameCardinality == \A S : Server!Cardinality(S) = Cardinality(S)
BY DEF Server!Cardinality, Cardinality

LEMMA ServerStep ==
    QueueInv /\ [Next]_vars
        => [Server!ServerNext]_<<queue, InSlot, {t \in Task : phase[t] # "new"}>>
<1> DEFINE seen == {u \in Task : phase[u] # "new"}
           stutter == UNCHANGED <<queue, InSlot, seen>>
<1> SUFFICES ASSUME QueueInv, [Next]_vars
             PROVE  (\E t \in Task : Server!Arrives(t) \/ Server!Departs(t)) \/ stutter
  BY DEF Server!ServerNext
<1>1. ASSUME NEW t \in Task, Add(t) PROVE Server!Arrives(t)
  <2> DEFINE ph == [phase EXCEPT ![t] = "queued"]
  <2>1. phase[t] = "new" /\ ProcessQueue(running, Append(queue, t), ph)
    BY <1>1 DEF Add
  <2>2. /\ running \in Nat /\ running = Cardinality(InSlot) /\ running <= MaxConcurrent
        /\ queue \in Seq(Task) /\ phase \in [Task -> Phase]
        /\ queue # <<>> => running = MaxConcurrent
    BY QueueAssumption DEF QueueInv, Agree, InSlot, Slots, NeverStalls
  <2>3. CASE running >= MaxConcurrent
    <3>1. queue' = Append(queue, t) /\ phase' = ph
      BY <2>1, <2>3 DEF ProcessQueue
    <3>2. InSlot' = InSlot /\ seen' = seen \cup {t} /\ t \notin seen
      BY <2>1, <2>2, <3>1 DEF InSlot, Settled
    <3> QED
      <4>1. Cardinality(InSlot) >= MaxConcurrent
        BY <2>2, <2>3
      <4>2. Server!JoinsLine(t)
        BY <3>1, <3>2, <4>1, SameCardinality DEF Server!JoinsLine
      <4> QED
        BY <3>2, <4>2 DEF Server!Arrives
  <2>4. CASE ~(running >= MaxConcurrent)
    <3>1. queue = <<>>
      BY <2>2, <2>4, QueueAssumption
    <3>2. Head(Append(queue, t)) = t /\ Tail(Append(queue, t)) = <<>> /\ Append(queue, t) # <<>>
      BY <3>1, <2>2
    <3>3. queue' = <<>> /\ phase' = [ph EXCEPT ![t] = "running"]
      BY <2>1, <2>4, <3>2 DEF ProcessQueue
    <3>4. InSlot' = InSlot \cup {t} /\ seen' = seen \cup {t} /\ t \notin seen
      BY <2>1, <2>2, <3>3 DEF InSlot, Settled
    <3>5. Cardinality(InSlot) < MaxConcurrent
      BY <2>2, <2>4, QueueAssumption
    <3> QED
      <4>1. Server!ServedAtOnce(t)
        BY <3>1, <3>3, <3>4, <3>5, SameCardinality DEF Server!ServedAtOnce
      <4> QED
        BY <3>4, <4>1 DEF Server!Arrives
  <2> QED
    BY <2>3, <2>4
<1>2. ASSUME NEW t \in Task, AddRefused(t) PROVE Server!Arrives(t)
  <2>1. InSlot' = InSlot /\ seen' = seen \cup {t} /\ t \notin seen /\ queue' = queue
    BY <1>2 DEF AddRefused, InSlot, Settled, QueueInv, Agree
  <2> QED
    BY <2>1 DEF Server!Arrives
<1>3. ASSUME NEW t \in Task, Settles(t) PROVE stutter
  BY <1>3 DEF Settles, TaskResolves, TaskRejects, InSlot, Settled, QueueInv, Agree
<1>4. ASSUME NEW t \in Task, Release(t) PROVE Server!Departs(t)
  <2> DEFINE ph == [phase EXCEPT ![t] = "released"]
  <2>1. phase[t] \in Settled /\ ProcessQueue(running - 1, queue, ph)
    BY <1>4 DEF Release
  <2>2. /\ running \in Nat /\ running <= MaxConcurrent
        /\ queue \in Seq(Task) /\ phase \in [Task -> Phase] /\ Waiting(queue, phase)
    BY QueueAssumption DEF QueueInv, Agree
  <2>3. t \in InSlot
    BY <2>1 DEF InSlot
  <2>4. CASE queue = <<>>
    <3>1. queue' = <<>> /\ phase' = ph
      BY <2>1, <2>4 DEF ProcessQueue
    <3>2. InSlot' = InSlot \ {t} /\ seen' = seen
      BY <2>1, <2>2, <3>1 DEF InSlot, Settled
    <3> QED
      BY <2>3, <2>4, <3>1, <3>2 DEF Server!Departs
  <2>5. CASE queue # <<>>
    <3>1. queue' = Tail(queue) /\ phase' = [ph EXCEPT ![Head(queue)] = "running"]
      BY <2>1, <2>2, <2>5, QueueAssumption DEF ProcessQueue
    <3>2. Head(queue) \in Task /\ phase[Head(queue)] = "queued"
      BY <2>2, <2>5 DEF Waiting
    <3>3. InSlot' = (InSlot \ {t}) \cup {Head(queue)} /\ seen' = seen
      BY <2>1, <2>2, <3>1, <3>2 DEF InSlot, Settled
    <3> QED
      BY <2>3, <2>5, <3>1, <3>3 DEF Server!Departs
  <2> QED
    BY <2>4, <2>5
<1>5. CASE CooldownEnds \/ UNCHANGED vars
  BY <1>5 DEF CooldownEnds, vars, InSlot
<1> QED
  BY <1>1, <1>2, <1>3, <1>4, <1>5 DEF Next

\* Each queue implements the first-come-first-served server with MaxConcurrent
\* slots: a call of add is an arrival, the finally block a departure, and the
\* settlement of a task, the counters and the breaker's cooldown are invisible.
THEOREM QueueImplementsServer == Spec => ImplementsServer
<1>1. Init => Server!ServerInit
  BY DEF Init, Server!ServerInit, InSlot, Settled
<1> QED
  BY <1>1, QueueInvariant, ServerStep, PTL
     DEF Spec, ImplementsServer, Server!ServerSpec

-----------------------------------------------------------------------------
(* Renderings                                                              *)

\* The stages at which the browser of the attempt under way is open.
Opened == {"open", "reloading", "loaded", "printed", "broken"}

RenderInv ==
    /\ stage \in [Task -> Stage]
    /\ attempt \in [Task -> Nat]
    /\ browsers \subseteq Task \X Nat
    /\ \A b \in browsers :
          /\ phase[b[1]] = "running"
          /\ stage[b[1]] \in Opened
          /\ b[2] = attempt[b[1]]

-----------------------------------------------------------------------------

LEMMA RenderStepIsTaskStep ==
    ASSUME NEW t \in Task, RenderStep(t)
    PROVE  Next \/ UNCHANGED vars
<1>1. Settles(t) \/ UNCHANGED vars
  BY DEF RenderStep, Launches, LaunchFails, Loads, LoadsOnceMore, Prints, AttemptFails,
         Closes, Pins, Writes, SavingFails, AttemptOver, Settles
<1> QED
  BY <1>1 DEF Next

\* RenderSpec implements Spec of TaskQueue: rendering a report is a task of
\* the queue like any other (processQueue calls it, its promise settles).
THEOREM RenderingsAreTasks == RenderSpec => Spec
<1>1. RenderInit => Init
  BY DEF RenderInit
<1>2. [RenderNext]_allVars => [Next]_vars
  <2> SUFFICES ASSUME [RenderNext]_allVars
               PROVE  Next \/ UNCHANGED vars
    OBVIOUS
  <2>1. CASE \E t \in Task : RenderStep(t)
    BY <2>1, RenderStepIsTaskStep
  <2>2. CASE QueueOnly
    BY <2>2 DEF QueueOnly, Next
  <2>3. CASE UNCHANGED allVars
    BY <2>3 DEF allVars
  <2> QED
    BY <2>1, <2>2, <2>3 DEF RenderNext
<1> QED
  BY <1>1, <1>2, PTL DEF RenderSpec, Spec

-----------------------------------------------------------------------------
\* The queue never stops a running task.
LEMMA QueueKeepsRunning ==
    ASSUME TypeOK, QueueOnly, NEW u \in Task, phase[u] = "running"
    PROVE  phase'[u] = "running"
<1> USE DEF TypeOK
<1>1. ASSUME NEW t \in Task, Add(t)
      PROVE  phase'[u] = "running"
  BY <1>1 DEF Add, ProcessQueue
<1>2. ASSUME NEW t \in Task, AddRefused(t)
      PROVE  phase'[u] = "running"
  BY <1>2 DEF AddRefused
<1>3. ASSUME NEW t \in Task, Release(t)
      PROVE  phase'[u] = "running"
  BY <1>3 DEF Release, ProcessQueue, Settled
<1>4. CASE CooldownEnds
  BY <1>4 DEF CooldownEnds
<1> QED
  BY <1>1, <1>2, <1>3, <1>4 DEF QueueOnly

\* After a failed attempt a task without a browser is repeated or settles.
LEMMA AttemptOverKeeps ==
    ASSUME TypeOK, NEW t \in Task, AttemptOver(t),
           stage \in [Task -> Stage], attempt \in [Task -> Nat]
    PROVE  /\ stage' \in [Task -> Stage]
           /\ attempt' \in [Task -> Nat]
           /\ \A u \in Task \ {t} : /\ phase'[u] = phase[u]
                                    /\ stage'[u] = stage[u]
                                    /\ attempt'[u] = attempt[u]
<1> USE DEF TypeOK, Becomes, Stage
<1>1. CASE TaskRejects(t) /\ Becomes(t, "over") /\ UNCHANGED attempt
  BY <1>1 DEF TaskRejects
<1>2. CASE attempt' = [attempt EXCEPT ![t] = @ + 1] /\ Becomes(t, "pausing") /\ UNCHANGED vars
  BY <1>2 DEF vars
<1> QED
  BY <1>1, <1>2 DEF AttemptOver

LEMMA RenderStepKeepsInv ==
    ASSUME TypeOK, RenderInv, NEW t \in Task, RenderStep(t)
    PROVE  RenderInv'
<1> USE DEF RenderInv, At, Becomes, Opened, Stage
<1>1. CASE Launches(t)
  BY <1>1 DEF Launches, vars
<1>2. CASE LaunchFails(t)
  <2>1. AttemptOver(t) /\ browsers' = browsers
    BY <1>2 DEF LaunchFails
  <2>2. \A b \in browsers : b[1] \in Task \ {t}
    BY <1>2 DEF LaunchFails
  <2> QED
    BY <2>1, <2>2, AttemptOverKeeps
<1>3. CASE Loads(t) \/ LoadsOnceMore(t) \/ Prints(t) \/ AttemptFails(t) \/ Pins(t)
  BY <1>3 DEF Loads, LoadsOnceMore, Prints, AttemptFails, Pins, vars
<1>4. CASE Closes(t)
  <2>1. browsers' = browsers \ {<<t, attempt[t]>>}
    BY <1>4 DEF Closes
  <2>2. \A b \in browsers' : b \in browsers /\ b[1] \in Task \ {t}
    BY <2>1
  <2>3. CASE stage[t] = "printed" /\ Becomes(t, "rendered") /\ UNCHANGED <<vars, attempt>>
    BY <2>1, <2>2, <2>3 DEF vars
  <2>4. CASE AttemptOver(t)
    BY <2>1, <2>2, <2>4, AttemptOverKeeps
  <2> QED
    BY <1>4, <2>3, <2>4 DEF Closes
<1>5. CASE Writes(t)
  BY <1>5 DEF Writes, TaskResolves, TypeOK
<1>6. CASE SavingFails(t)
  BY <1>6 DEF SavingFails, TaskRejects, TypeOK
<1> QED
  BY <1>1, <1>2, <1>3, <1>4, <1>5, <1>6 DEF RenderStep

LEMMA RenderInvInductive == RenderSpec => []RenderInv
<1>1. RenderInit => RenderInv
  BY DEF RenderInit, Init, RenderInv, Stage
<1>2. TypeOK /\ RenderInv /\ [RenderNext]_allVars => RenderInv'
  <2> SUFFICES ASSUME TypeOK, RenderInv, [RenderNext]_allVars
               PROVE  RenderInv'
    OBVIOUS
  <2>1. CASE \E t \in Task : RenderStep(t)
    BY <2>1, RenderStepKeepsInv
  <2>2. CASE QueueOnly /\ UNCHANGED renderVars
    BY <2>2, QueueKeepsRunning DEF RenderInv, renderVars
  <2>3. CASE UNCHANGED allVars
    BY <2>3 DEF RenderInv, allVars, vars, renderVars
  <2> QED
    BY <2>1, <2>2, <2>3 DEF RenderNext
<1>3. RenderSpec => []TypeOK
  BY RenderingsAreTasks, TypeCorrect, PTL
<1> QED
  BY <1>1, <1>2, <1>3, PTL DEF RenderSpec

\* Whatever fails and is repeated (retryWithBackoff, generatePdfFromUrl):
\* there are never more browsers than slots of the queue.
THEOREM BrowsersStayWithinSlots == RenderSpec => []BrowsersWithinSlots
<1>1. RenderInv /\ SlotsCounted => BrowsersWithinSlots
  <2> SUFFICES ASSUME RenderInv, SlotsCounted
               PROVE  BrowsersWithinSlots
    OBVIOUS
  <2> DEFINE task == [b \in browsers |-> b[1]]
  <2>1. task \in Injection(browsers, InSlot)
    <3>1. \A b \in browsers : task[b] \in InSlot
      BY DEF RenderInv, InSlot
    <3>2. \A b, c \in browsers : task[b] = task[c] => b = c
      BY DEF RenderInv
    <3> QED
      BY <3>1, <3>2, Zenon DEF Injection, IsInjective
  <2>2. IsFiniteSet(InSlot)
    BY QueueAssumption, FS_Subset DEF InSlot
  <2>3. /\ Cardinality(browsers) <= Cardinality(InSlot)
        /\ Cardinality(browsers) \in Nat /\ Cardinality(InSlot) \in Nat
    BY <2>1, <2>2, FS_Injection, FS_CardinalityType
  <2>4. Cardinality(browsers) <= MaxConcurrent
    BY <2>3, QueueAssumption DEF SlotsCounted
  <2> QED
    BY <2>4 DEF RenderInv, BrowsersWithinSlots
<1>2. RenderSpec => []SlotsCounted
  BY RenderingsAreTasks, SlotsAreCounted, PTL
<1> QED
  BY <1>1, <1>2, RenderInvInductive, PTL
=============================================================================
