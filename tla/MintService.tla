----------------------------- MODULE MintService -----------------------------
(***************************************************************************)
(* BlockchainService.mintInspectionNft (src/blockchain/blockchain.service  *)
(* .ts): concurrent calls that share the server's wallet.  A call takes    *)
(* the SimpleMutex of the wallet address, selects UTxOs, builds and signs  *)
(* a transaction and submits it; while the node answers that inputs are    *)
(* spent it rebuilds and resubmits, and when no UTxO was usable it leaves  *)
(* the mutex and tries again later.                                        *)
(*                                                                         *)
(* External: the ledger (unspent outputs of the wallet, numbered in the    *)
(* order of creation) and its provider, whose answer may still be the      *)
(* outputs before the last transaction, and whose answer to a submission   *)
(* may be lost.  Amounts are abstract: any nonempty selection may be the   *)
(* one the builder chooses, and outputs may all be below the minimum.      *)
(***************************************************************************)
EXTENDS Naturals, Sequences, FiniteSets

CONSTANTS
    Call,               \* concurrent calls of mintInspectionNft
    MAX_RETRIES,        \* rounds of the outer loop (5 in the code)
    SUBMIT_MAX_RETRIES, \* resubmissions in one round (3 in the code)
    Outputs             \* unspent outputs of the wallet at the start

ASSUME MintAssumption ==
    /\ MAX_RETRIES \in Nat \ {0}
    /\ SUBMIT_MAX_RETRIES \in Nat
    /\ Outputs \in Nat

VARIABLES
    locked,         \* SimpleMutex._locked
    waiters,        \* SimpleMutex._waiters
    pc,             \* where each call stands
    inputs,         \* the inputs of the transaction a call has signed
    stale,          \* history: were they selected from a view out of date?
    submitAttempts, \* failed submissions of the current round
    retries,        \* rounds given up because no UTxO was usable
    unspent,        \* the wallet's outputs on the ledger
    previous,       \* ... before the last transaction
    created,        \* outputs created so far
    tokens          \* tokens minted by each call

mutex == <<locked, waiters>>
ledger == <<unspent, previous, created, tokens>>
vars == <<mutex, pc, inputs, stale, submitAttempts, retries, ledger>>

InMutex == {"critical", "signed", "rebuilding"}
Answered == {"minted", "failed"}
PC == {"start", "waiting"} \cup InMutex \cup Answered

Init ==
    /\ locked = FALSE
    /\ waiters = <<>>
    /\ pc = [m \in Call |-> "start"]
    /\ inputs = [m \in Call |-> {}]
    /\ stale = [m \in Call |-> FALSE]
    /\ submitAttempts = [m \in Call |-> 0]
    /\ retries = [m \in Call |-> 0]
    /\ unspent = 1..Outputs
    /\ previous = 1..Outputs
    /\ created = Outputs
    /\ tokens = [m \in Call |-> 0]

\* What the wallet and Blockfrost may show.
Views == {unspent, previous}

-----------------------------------------------------------------------------
(* Faulty variants of the definitions below, for mutation runs: each is a  *)
(* plausible bug that one of the properties has to catch.  None of them is *)
(* part of the model.                                                      *)

\* Nobody waits for the mutex.
AcquireWithoutWaiting(m) ==
    /\ locked' = TRUE
    /\ pc' = [pc EXCEPT ![m] = "critical"]
    /\ UNCHANGED waiters

\* The mutex is unlocked although it is handed to a waiter.
ReleaseUnlocksAlways(m, l) ==
    /\ locked' = FALSE
    /\ IF waiters = <<>>
       THEN pc' = [pc EXCEPT ![m] = l] /\ UNCHANGED waiters
       ELSE /\ pc' = [pc EXCEPT ![m] = l, ![Head(waiters)] = "critical"]
            /\ waiters' = Tail(waiters)

\* The waiters are not woken.
ReleaseWithoutWaking(m, l) ==
    /\ locked' = FALSE
    /\ pc' = [pc EXCEPT ![m] = l]
    /\ UNCHANGED waiters

\* The call ends without an answer its caller knows.
BalanceCheckFailsSilently(m) ==
    /\ pc[m] = "start"
    /\ pc' = [pc EXCEPT ![m] = "insufficient"]
    /\ UNCHANGED <<mutex, inputs, stale, submitAttempts, retries, ledger>>

\* A lost answer is treated like a rejected transaction.
SubmitFailsIsRetried(m) ==
    /\ pc[m] = "signed"
    /\ \/ UNCHANGED ledger
       \/ /\ inputs[m] \subseteq unspent
          /\ created' = created + 1
          /\ unspent' = (unspent \ inputs[m]) \cup {created + 1}
          /\ previous' = unspent
          /\ tokens' = [tokens EXCEPT ![m] = @ + 1]
    /\ submitAttempts[m] < SUBMIT_MAX_RETRIES
    /\ submitAttempts' = [submitAttempts EXCEPT ![m] = @ + 1]
    /\ pc' = [pc EXCEPT ![m] = "rebuilding"]
    /\ UNCHANGED <<mutex, inputs, stale, retries>>

\* Off by one at the limit; the last attempt keeps the mutex until it ends.
SubmitRejectedOffByOne(m) ==
    /\ pc[m] = "signed"
    /\ ~(inputs[m] \subseteq unspent)
    /\ submitAttempts[m] <= SUBMIT_MAX_RETRIES + 1
    /\ submitAttempts' = [submitAttempts EXCEPT ![m] = @ + 1]
    /\ pc' = [pc EXCEPT ![m] = "rebuilding"]
    /\ UNCHANGED <<mutex, inputs, stale, retries, ledger>>

-----------------------------------------------------------------------------
(* SimpleMutex                                                             *)

\* acquire(): take the free mutex or wait for it.
Acquire(m) ==
    IF locked
    THEN /\ waiters' = Append(waiters, m)
         /\ pc' = [pc EXCEPT ![m] = "waiting"]
         /\ UNCHANGED locked
    ELSE /\ locked' = TRUE
         /\ pc' = [pc EXCEPT ![m] = "critical"]
         /\ UNCHANGED waiters

\* release() by m, which goes on at l: the first waiter gets the mutex without
\* its being unlocked in between.
Release(m, l) ==
    IF waiters = <<>>
    THEN /\ locked' = FALSE
         /\ pc' = [pc EXCEPT ![m] = l]
         /\ UNCHANGED waiters
    ELSE /\ pc' = [pc EXCEPT ![m] = l, ![Head(waiters)] = "critical"]
         /\ waiters' = Tail(waiters)
         /\ UNCHANGED locked

-----------------------------------------------------------------------------
(* One round of the outer loop                                             *)

\* The balance is sufficient: enter runExclusive.
EnterRound(m) ==
    /\ pc[m] = "start"
    /\ Acquire(m)
    /\ submitAttempts' = [submitAttempts EXCEPT ![m] = 0]
    /\ UNCHANGED <<inputs, stale, retries, ledger>>

\* Less than 5 ADA, or the wallet cannot be read.
BalanceCheckFails(m) ==
    /\ pc[m] = "start"
    /\ pc' = [pc EXCEPT ![m] = "failed"]
    /\ UNCHANGED <<mutex, inputs, stale, submitAttempts, retries, ledger>>

\* Call m holds a signed transaction that spends some of the outputs shown.
Signs(m) ==
    /\ \E view \in Views : \E chosen \in SUBSET view \ {{}} :
          /\ inputs' = [inputs EXCEPT ![m] = chosen]
          /\ stale' = [stale EXCEPT ![m] = view # unspent]
    /\ pc' = [pc EXCEPT ![m] = "signed"]

\* Select among the usable outputs, build and sign.
SelectAndSign(m) ==
    /\ pc[m] = "critical"
    /\ Signs(m)
    /\ UNCHANGED <<mutex, submitAttempts, retries, ledger>>

\* No output, or none above the minimum: the message names "unspent outputs",
\* so the outer loop goes round again while it may.
NoUsableOutput(m) ==
    /\ pc[m] = "critical"
    /\ IF retries[m] < MAX_RETRIES - 1
       THEN /\ Release(m, "start")
            /\ retries' = [retries EXCEPT ![m] = @ + 1]
       ELSE /\ Release(m, "failed")
            /\ UNCHANGED retries
    /\ UNCHANGED <<inputs, stale, submitAttempts, ledger>>

\* Any other error while building or signing ends the call.
BuildFails(m) ==
    /\ pc[m] = "critical"
    /\ Release(m, "failed")
    /\ UNCHANGED <<inputs, stale, submitAttempts, retries, ledger>>

\* The node accepts the signed transaction; the change is a new output.
Accepted(m) ==
    /\ inputs[m] \subseteq unspent
    /\ created' = created + 1
    /\ unspent' = (unspent \ inputs[m]) \cup {created + 1}
    /\ previous' = unspent
    /\ tokens' = [tokens EXCEPT ![m] = @ + 1]

SubmitSucceeds(m) ==
    /\ pc[m] = "signed"
    /\ Accepted(m)
    /\ Release(m, "minted")
    /\ UNCHANGED <<inputs, stale, submitAttempts, retries>>

\* The submission fails with an error that is not about inputs, among them a
\* lost answer to an accepted transaction: it is not sent again.
SubmitFails(m) ==
    /\ pc[m] = "signed"
    /\ Accepted(m) \/ UNCHANGED ledger
    /\ Release(m, "failed")
    /\ UNCHANGED <<inputs, stale, submitAttempts, retries>>

\* BadInputsUTxO and the like: some input is spent.
SubmitRejected(m) ==
    /\ pc[m] = "signed"
    /\ ~(inputs[m] \subseteq unspent)
    /\ submitAttempts' = [submitAttempts EXCEPT ![m] = @ + 1]
    /\ IF submitAttempts[m] + 1 <= SUBMIT_MAX_RETRIES
       THEN pc' = [pc EXCEPT ![m] = "rebuilding"] /\ UNCHANGED mutex
       ELSE Release(m, "failed")
    /\ UNCHANGED <<inputs, stale, retries, ledger>>

Rebuild(m) ==
    /\ pc[m] = "rebuilding"
    /\ Signs(m)
    /\ UNCHANGED <<mutex, submitAttempts, retries, ledger>>

\* A failed rebuild leaves the old transaction to be submitted again, unless
\* the attempts are exhausted.
RebuildFails(m) ==
    /\ pc[m] = "rebuilding"
    /\ IF submitAttempts[m] >= SUBMIT_MAX_RETRIES
       THEN Release(m, "failed")
       ELSE pc' = [pc EXCEPT ![m] = "signed"] /\ UNCHANGED mutex
    /\ UNCHANGED <<inputs, stale, submitAttempts, retries, ledger>>

Step(m) ==
    \/ EnterRound(m)
    \/ BalanceCheckFails(m)
    \/ SelectAndSign(m)
    \/ NoUsableOutput(m)
    \/ BuildFails(m)
    \/ SubmitSucceeds(m)
    \/ SubmitFails(m)
    \/ SubmitRejected(m)
    \/ Rebuild(m)
    \/ RebuildFails(m)

Next == \E m \in Call : Step(m)

Spec == Init /\ [][Next]_vars

\* Every awaited call of the wallet and the provider settles.
FairSpec == Spec /\ \A m \in Call : WF_vars(Step(m))

-----------------------------------------------------------------------------
(* Properties                                                              *)

TypeOK ==
    /\ locked \in BOOLEAN
    /\ waiters \in Seq(Call)
    /\ pc \in [Call -> PC]
    /\ inputs \in [Call -> SUBSET Nat]
    /\ stale \in [Call -> BOOLEAN]
    /\ submitAttempts \in [Call -> Nat]
    /\ retries \in [Call -> Nat]
    /\ unspent \subseteq Nat
    /\ previous \subseteq Nat
    /\ created \in Nat
    /\ tokens \in [Call -> Nat]

Holders == {m \in Call : pc[m] \in InMutex}

\* One call at a time is between UTxO selection and the end of submission,
\* and the mutex is locked exactly then: a hand-over is never lost and never
\* lets a late caller in.
MutualExclusion ==
    /\ \A m, n \in Holders : m = n
    /\ locked <=> Holders # {}

\* Exactly the waiting calls are queued, each once, and only behind a holder.
WaitersQueued ==
    /\ \A m \in Call : pc[m] = "waiting" <=> \E k \in DOMAIN waiters : waiters[k] = m
    /\ \A j, k \in DOMAIN waiters : waiters[j] = waiters[k] => j = k
    /\ waiters # <<>> => locked

\* "This prevents near-concurrent mint builders in the same process from
\* attempting to use the same UTXOs": a signed transaction has a spent input
\* only if the provider was behind when it was built, never because another
\* call of this process spent it in between.
NoConflictingInputs ==
    \A m \in Call : pc[m] = "signed" /\ ~stale[m] => inputs[m] \subseteq unspent

\* Over all its rounds and resubmissions a call mints at most one token, and
\* exactly one if it reports success.
OneTokenPerCall ==
    \A m \in Call :
        /\ tokens[m] <= 1
        /\ pc[m] = "minted" => tokens[m] = 1
        /\ pc[m] \notin Answered => tokens[m] = 0

\* A round submits at most SUBMIT_MAX_RETRIES + 1 times and a call has at most
\* MAX_RETRIES rounds.
BoundedAttempts ==
    \A m \in Call :
        submitAttempts[m] <= SUBMIT_MAX_RETRIES + 1 /\ retries[m] < MAX_RETRIES

\* Every call answers, also when the provider never catches up.
CallsAnswer == \A m \in Call : <>(pc[m] \in Answered)
=============================================================================
