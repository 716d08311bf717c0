------------------------------ MODULE TaskQueue ------------------------------
(***************************************************************************)
(* PdfGenerationQueue and BlockchainMintingQueue of inspections.service.ts *)
(* (two classes with the same code): an in-memory FIFO queue that runs at  *)
(* most MaxConcurrent tasks at a time, counts what happened and, after     *)
(* MaxConsecutiveErrors failures in a row, refuses new tasks for a while.  *)
(*                                                                         *)
(* One action per piece of code the event loop runs without a break:       *)
(* add() up to its return, the settlement of a task's promise inside the   *)
(* wrapper, and the finally block of processQueue(), which runs a few      *)
(* microtasks after the settlement.  Wall-clock time is abstract: an open  *)
(* breaker may close at any moment.                                        *)
(***************************************************************************)
EXTENDS Naturals, Sequences, FiniteSets

CONSTANTS
    Task,                  \* the tasks a behaviour may add, each once
    MaxConcurrent,         \* 5 for PDFs, 1 for minting
    MaxConsecutiveErrors   \* 8 for PDFs, 5 for minting

ASSUME QueueAssumption ==
    /\ IsFiniteSet(Task)
    /\ MaxConcurrent \in Nat \ {0}
    /\ MaxConsecutiveErrors \in Nat \ {0}

VARIABLES
    queue,               \* the wrappers waiting, oldest first
    running,             \* the counter compared with MaxConcurrent
    phase,               \* where each task stands
    totalProcessed,
    totalErrors,
    consecutiveErrors,
    breakerOpen,         \* Date.now() < circuitBreakerOpenUntil
    accepted,            \* history: the tasks add() accepted, in order
    started,             \* history: the tasks processQueue() started, in order
    outcomes             \* history: how the settled tasks ended, in order

counters == <<totalProcessed, totalErrors, consecutiveErrors, breakerOpen>>
history == <<accepted, started, outcomes>>
vars == <<queue, running, phase, counters, history>>

\* "resolved" and "rejected": settled, the finally block has not run yet.
Settled == {"resolved", "rejected"}
Phase == {"new", "refused", "queued", "running", "released"} \cup Settled

Init ==
    /\ queue = <<>>
    /\ running = 0
    /\ phase = [t \in Task |-> "new"]
    /\ totalProcessed = 0
    /\ totalErrors = 0
    /\ consecutiveErrors = 0
    /\ breakerOpen = FALSE
    /\ accepted = <<>>
    /\ started = <<>>
    /\ outcomes = <<>>

-----------------------------------------------------------------------------
(* Faulty variants of the definitions below, for mutation runs: each is a  *)
(* plausible bug that one of the properties has to catch.  None of them is *)
(* part of the model.                                                      *)

\* Off by one at the limit.
ProcessQueueOffByOne(n, q, ph) ==
    IF n > MaxConcurrent \/ q = <<>>
    THEN running' = n /\ queue' = q /\ phase' = ph /\ UNCHANGED started
    ELSE /\ running' = n + 1
         /\ queue' = Tail(q)
         /\ phase' = [ph EXCEPT ![Head(q)] = "running"]
         /\ started' = Append(started, Head(q))

\* pop() in place of shift().
ProcessQueueFromTheEnd(n, q, ph) ==
    IF n >= MaxConcurrent \/ q = <<>>
    THEN running' = n /\ queue' = q /\ phase' = ph /\ UNCHANGED started
    ELSE /\ running' = n + 1
         /\ queue' = SubSeq(q, 1, Len(q) - 1)
         /\ phase' = [ph EXCEPT ![q[Len(q)]] = "running"]
         /\ started' = Append(started, q[Len(q)])

\* add() does not call processQueue().
AddWithoutProcessing(t) ==
    /\ phase[t] = "new"
    /\ ~breakerOpen
    /\ queue' = Append(queue, t)
    /\ phase' = [phase EXCEPT ![t] = "queued"]
    /\ accepted' = Append(accepted, t)
    /\ UNCHANGED <<running, started, counters, outcomes>>

\* A success does not reset the error count.
TaskResolvesWithoutReset(t) ==
    /\ phase[t] = "running"
    /\ phase' = [phase EXCEPT ![t] = "resolved"]
    /\ totalProcessed' = totalProcessed + 1
    /\ outcomes' = Append(outcomes, "ok")
    /\ UNCHANGED <<queue, running, totalErrors, consecutiveErrors, breakerOpen,
                   accepted, started>>

\* The catch block gives the slot back, and so does the finally block.
TaskRejectsGivesSlotBack(t) ==
    /\ phase[t] = "running"
    /\ phase' = [phase EXCEPT ![t] = "rejected"]
    /\ running' = running - 1
    /\ totalErrors' = totalErrors + 1
    /\ consecutiveErrors' = consecutiveErrors + 1
    /\ breakerOpen' = (breakerOpen \/ consecutiveErrors + 1 >= MaxConsecutiveErrors)
    /\ outcomes' = Append(outcomes, "error")
    /\ UNCHANGED <<queue, totalProcessed, accepted, started>>

-----------------------------------------------------------------------------
\* processQueue() with n slots in use, q waiting and the tasks in phases ph:
\* it starts the oldest task if there is one and a slot for it.
ProcessQueue(n, q, ph) ==
    IF n >= MaxConcurrent \/ q = <<>>
    THEN /\ running' = n
         /\ queue' = q
         /\ phase' = ph
         /\ UNCHANGED started
    ELSE /\ running' = n + 1
         /\ queue' = Tail(q)
         /\ phase' = [ph EXCEPT ![Head(q)] = "running"]
         /\ started' = Append(started, Head(q))

Add(t) ==
    /\ phase[t] = "new"
    /\ ~breakerOpen
    /\ ProcessQueue(running, Append(queue, t), [phase EXCEPT ![t] = "queued"])
    /\ accepted' = Append(accepted, t)
    /\ UNCHANGED <<counters, outcomes>>

\* add() throws while the breaker is open.
AddRefused(t) ==
    /\ phase[t] = "new"
    /\ breakerOpen
    /\ phase' = [phase EXCEPT ![t] = "refused"]
    /\ UNCHANGED <<queue, running, counters, history>>

\* The task's promise resolves: the wrapper counts and resolves the caller's.
TaskResolves(t) ==
    /\ phase[t] = "running"
    /\ phase' = [phase EXCEPT ![t] = "resolved"]
    /\ totalProcessed' = totalProcessed + 1
    /\ consecutiveErrors' = 0
    /\ outcomes' = Append(outcomes, "ok")
    /\ UNCHANGED <<queue, running, totalErrors, breakerOpen, accepted, started>>

\* The task's promise rejects: the wrapper counts and may open the breaker.
TaskRejects(t) ==
    /\ phase[t] = "running"
    /\ phase' = [phase EXCEPT ![t] = "rejected"]
    /\ totalErrors' = totalErrors + 1
    /\ consecutiveErrors' = consecutiveErrors + 1
    /\ breakerOpen' = (breakerOpen \/ consecutiveErrors + 1 >= MaxConsecutiveErrors)
    /\ outcomes' = Append(outcomes, "error")
    /\ UNCHANGED <<queue, running, totalProcessed, accepted, started>>

\* The finally block: give the slot back and look at the queue again.
Release(t) ==
    /\ phase[t] \in Settled
    /\ ProcessQueue(running - 1, queue, [phase EXCEPT ![t] = "released"])
    /\ UNCHANGED <<counters, accepted, outcomes>>

\* The time circuitBreakerOpenUntil is reached; the error count is kept.
CooldownEnds ==
    /\ breakerOpen
    /\ breakerOpen' = FALSE
    /\ UNCHANGED <<queue, running, phase, totalProcessed, totalErrors,
                   consecutiveErrors, history>>

Settles(t) == TaskResolves(t) \/ TaskRejects(t)

Next ==
    \/ \E t \in Task : Add(t) \/ AddRefused(t) \/ Settles(t) \/ Release(t)
    \/ CooldownEnds

Spec == Init /\ [][Next]_vars

-----------------------------------------------------------------------------
(* Safety                                                                  *)

TypeOK ==
    /\ queue \in Seq(Task)
    /\ running \in 0..MaxConcurrent
    /\ phase \in [Task -> Phase]
    /\ totalProcessed \in Nat
    /\ totalErrors \in Nat
    /\ consecutiveErrors \in Nat
    /\ breakerOpen \in BOOLEAN
    /\ accepted \in Seq(Task)
    /\ started \in Seq(Task)
    /\ outcomes \in Seq({"ok", "error"})

\* The tasks that occupy a slot.
InSlot == {t \in Task : phase[t] \in {"running"} \cup Settled}

\* The counter is the number of occupied slots and never exceeds the limit,
\* although starting and releasing happen in different turns of the event loop.
SlotsCounted == running = Cardinality(InSlot) /\ running <= MaxConcurrent

\* No task waits while a slot is free: the queue never stalls.
NeverStalls == queue # <<>> => running = MaxConcurrent

\* Tasks start in the order in which they were accepted, none is lost and
\* none starts twice.
FirstComeFirstServed == accepted = started \o queue

\* Each outcome is counted once, and only outcomes are counted.
Accounting ==
    totalProcessed + totalErrors = Cardinality({t \in Task : phase[t] \in Settled \cup {"released"}})

\* The last n outcomes were all errors.
LastErrors(n) ==
    /\ n <= Len(outcomes)
    /\ \A k \in 1..n : outcomes[Len(outcomes) + 1 - k] = "error"

\* The error count is the length of the current run of errors, whatever the
\* order in which concurrent tasks end.
StreakCounted == LastErrors(consecutiveErrors) /\ ~LastErrors(consecutiveErrors + 1)

\* The breaker opens only after MaxConsecutiveErrors failures with no success
\* in between.
BreakerOpensAfterStreak ==
    [][~breakerOpen /\ breakerOpen' => LastErrors(MaxConsecutiveErrors)']_vars

-----------------------------------------------------------------------------
(* Refinement and liveness                                                 *)

Server == INSTANCE SlotServer WITH
    Slots   <- MaxConcurrent,
    line    <- queue,
    serving <- InSlot,
    seen    <- {t \in Task : phase[t] # "new"}

\* Each queue implements the first-come-first-served server: the counters,
\* the breaker and the delayed release are not visible to its callers.
ImplementsServer == Server!ServerSpec

\* Every accepted task is run to its end, also those that were in the queue
\* when the breaker opened.
AcceptedTasksFinish ==
    \A t \in Task : phase[t] \in {"queued", "running"} ~> phase[t] = "released"
=============================================================================
