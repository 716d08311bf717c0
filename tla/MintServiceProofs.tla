-------------------------- MODULE MintServiceProofs --------------------------
(***************************************************************************)
(* Proofs about MintService.  The mutex invariants carry each other: that  *)
(* the waiters are distinct and really waiting makes a hand-over produce   *)
(* one holder, and that waiters exist only while the mutex is locked makes *)
(* unlocking safe.  On top of mutual exclusion, a signed transaction keeps *)
(* its inputs.                                                             *)
(***************************************************************************)
EXTENDS MintService, TLAPS

MutexInv ==
    /\ locked \in BOOLEAN
    /\ waiters \in Seq(Call)
    /\ pc \in [Call -> PC]
    /\ MutualExclusion
    /\ WaitersQueued

\* The parts of the invariants, with the waiters counted from 1.
LEMMA MutexShape ==
    ASSUME waiters \in Seq(Call)
    PROVE  WaitersQueued <=>
             /\ \A m \in Call : pc[m] = "waiting" <=> \E k \in 1..Len(waiters) : waiters[k] = m
             /\ \A j, k \in 1..Len(waiters) : waiters[j] = waiters[k] => j = k
             /\ waiters # <<>> => locked
BY DEF WaitersQueued

\* A call that starts takes the free mutex or joins the waiters.
LEMMA AcquireKeepsMutex ==
    ASSUME MutexInv, NEW m \in Call, pc[m] = "start", Acquire(m)
    PROVE  MutexInv'
<1>1. CASE locked
  <2>1. /\ waiters' = Append(waiters, m) /\ pc' = [pc EXCEPT ![m] = "waiting"]
        /\ locked' = locked
    BY <1>1 DEF Acquire
  <2>2. waiters' \in Seq(Call) /\ pc' \in [Call -> PC] /\ Len(waiters') = Len(waiters) + 1
    BY <2>1 DEF MutexInv, PC
  <2>3. \A k \in 1..Len(waiters) : waiters'[k] = waiters[k] /\ waiters[k] # m
    BY <2>1, MutexShape DEF MutexInv
  <2>4. waiters'[Len(waiters')] = m
    BY <2>1 DEF MutexInv
  <2>5. Holders' = Holders
    BY <2>1 DEF Holders, InMutex, MutexInv
  <2>6. MutualExclusion'
    BY <2>1, <2>5 DEF MutexInv, MutualExclusion
  <2>7. WaitersQueued'
    <3>1. \A n \in Call : pc'[n] = "waiting" <=> \E k \in 1..Len(waiters') : waiters'[k] = n
      <4>1. \A n \in Call :
               (\E k \in 1..Len(waiters') : waiters'[k] = n)
                 <=> n = m \/ \E k \in 1..Len(waiters) : waiters[k] = n
        BY <2>2, <2>3, <2>4 DEF MutexInv
      <4> QED
        BY <2>1, <4>1, MutexShape DEF MutexInv
    <3>2. \A j, k \in 1..Len(waiters') : waiters'[j] = waiters'[k] => j = k
      BY <2>2, <2>3, <2>4, MutexShape DEF MutexInv
    <3>3. locked'
      BY <1>1, <2>1
    <3> QED
      BY <2>2, <3>1, <3>2, <3>3 DEF WaitersQueued
  <2> QED
    BY <2>1, <2>2, <2>6, <2>7 DEF MutexInv
<1>2. CASE ~locked
  <2>1. waiters' = waiters /\ pc' = [pc EXCEPT ![m] = "critical"] /\ locked' = TRUE
    BY <1>2 DEF Acquire
  <2>2. waiters = <<>>
    BY <1>2 DEF MutexInv, WaitersQueued
  <2>3. Holders = {}
    BY <1>2 DEF MutexInv, MutualExclusion
  <2>4. Holders' = {m}
    BY <2>1, <2>3 DEF Holders, InMutex, MutexInv
  <2>5. MutualExclusion'
    BY <2>1, <2>4 DEF MutualExclusion
  <2>6. WaitersQueued'
    BY <2>1, <2>2 DEF MutexInv, WaitersQueued
  <2> QED
    BY <2>1, <2>5, <2>6 DEF MutexInv, PC, InMutex
<1> QED
  BY <1>1, <1>2 DEF MutexInv

\* The holder leaves: the first waiter holds the mutex next, or nobody does.
LEMMA ReleaseKeepsMutex ==
    ASSUME MutexInv, NEW m \in Call, pc[m] \in InMutex,
           NEW l \in {"start"} \cup Answered, Release(m, l)
    PROVE  MutexInv'
<1>1. Holders = {m} /\ locked = TRUE
  BY DEF MutexInv, MutualExclusion, Holders
<1>2. CASE waiters = <<>>
  <2>1. waiters' = waiters /\ pc' = [pc EXCEPT ![m] = l] /\ locked' = FALSE
    BY <1>2 DEF Release
  <2>2. Holders' = {}
    BY <1>1, <2>1 DEF Holders, InMutex, Answered, MutexInv
  <2>3. MutualExclusion'
    BY <2>1, <2>2 DEF MutualExclusion
  <2>4. WaitersQueued'
    BY <1>2, <2>1 DEF MutexInv, WaitersQueued, InMutex, Answered
  <2> QED
    BY <2>1, <2>3, <2>4 DEF MutexInv, PC
<1>3. CASE waiters # <<>>
  <2> DEFINE h == Head(waiters)
  <2>1. /\ pc' = [pc EXCEPT ![m] = l, ![h] = "critical"]
        /\ waiters' = Tail(waiters) /\ locked' = locked
    BY <1>3 DEF Release
  <2>2. /\ h \in Call /\ h = waiters[1] /\ 1 \in 1..Len(waiters)
        /\ Tail(waiters) \in Seq(Call) /\ Len(Tail(waiters)) = Len(waiters) - 1
        /\ \A k \in 1..Len(Tail(waiters)) : Tail(waiters)[k] = waiters[k + 1]
    BY <1>3 DEF MutexInv
  <2>3. pc[h] = "waiting" /\ h # m
    BY <2>2, MutexShape DEF MutexInv, InMutex
  <2>4. /\ \A n \in Call \ {m, h} : pc'[n] = pc[n]
        /\ pc'[m] = l /\ pc'[h] = "critical" /\ pc' \in [Call -> PC]
    BY <2>1, <2>2, <2>3 DEF MutexInv, PC, InMutex
  <2>5. Holders' = {h}
    BY <1>1, <2>2, <2>4 DEF Holders, InMutex, Answered
  <2>6. MutualExclusion'
    BY <1>1, <2>1, <2>5 DEF MutualExclusion
  <2>7. WaitersQueued'
    <3>1. \A n \in Call \ {h} :
             (\E k \in 1..Len(waiters) : waiters[k] = n)
               <=> \E k \in 1..Len(waiters') : waiters'[k] = n
      <4>1. ASSUME NEW n \in Call \ {h}, NEW k \in 1..Len(waiters), waiters[k] = n
            PROVE  \E j \in 1..Len(waiters') : waiters'[j] = n
        <5>1. k - 1 \in 1..Len(waiters') /\ waiters'[k - 1] = n
          BY <2>1, <2>2, <4>1 DEF MutexInv
        <5> QED
          BY <5>1
      <4>2. ASSUME NEW n \in Call, NEW k \in 1..Len(waiters'), waiters'[k] = n
            PROVE  \E j \in 1..Len(waiters) : waiters[j] = n
        <5>1. k + 1 \in 1..Len(waiters) /\ waiters[k + 1] = n
          BY <2>1, <2>2, <4>2 DEF MutexInv
        <5> QED
          BY <5>1
      <4> QED
        BY <4>1, <4>2
    <3>2. \A k \in 1..Len(waiters') : waiters'[k] # h
      <4>1. ASSUME NEW k \in 1..Len(waiters'), waiters'[k] = h PROVE FALSE
        <5>1. k + 1 \in 1..Len(waiters) /\ waiters[k + 1] = waiters[1] /\ k + 1 # 1
          BY <2>1, <2>2, <4>1 DEF MutexInv
        <5> QED
          BY <2>2, <5>1, MutexShape DEF MutexInv
      <4> QED
        BY <4>1
    <3>3. \A n \in Call : pc'[n] = "waiting" <=> \E k \in 1..Len(waiters') : waiters'[k] = n
      <4>1. \A n \in Call : pc[n] = "waiting" <=> \E k \in 1..Len(waiters) : waiters[k] = n
        BY MutexShape DEF MutexInv
      <4>2. ~\E k \in 1..Len(waiters) : waiters[k] = m
        BY <4>1 DEF InMutex
      <4>3. ASSUME NEW n \in Call
            PROVE  pc'[n] = "waiting" <=> \E k \in 1..Len(waiters') : waiters'[k] = n
        <5>1. CASE n = h
          BY <2>4, <3>2, <5>1
        <5>2. CASE n = m
          BY <2>3, <2>4, <3>1, <4>2, <5>2 DEF Answered
        <5>3. CASE n # h /\ n # m
          BY <2>4, <3>1, <4>1, <5>3
        <5> QED
          BY <5>1, <5>2, <5>3
      <4> QED
        BY <4>3
    <3>4. \A j, k \in 1..Len(waiters') : waiters'[j] = waiters'[k] => j = k
      <4>1. ASSUME NEW j \in 1..Len(waiters'), NEW k \in 1..Len(waiters'),
                   waiters'[j] = waiters'[k]
            PROVE  j = k
        <5>1. /\ j + 1 \in 1..Len(waiters) /\ k + 1 \in 1..Len(waiters)
              /\ waiters[j + 1] = waiters[k + 1]
          BY <2>1, <2>2, <4>1 DEF MutexInv
        <5>2. j + 1 = k + 1
          BY <5>1, MutexShape DEF MutexInv
        <5> QED
          BY <2>1, <2>2, <5>2
      <4> QED
        BY <4>1
    <3>5. waiters' \in Seq(Call) /\ locked'
      BY <1>1, <2>1, <2>2
    <3> QED
      BY <3>3, <3>4, <3>5 DEF WaitersQueued
  <2> QED
    BY <2>1, <2>2, <2>4, <2>6, <2>7 DEF MutexInv
<1> QED
  BY <1>2, <1>3

\* A holder goes on inside, or a call outside gives up.
LEMMA MoveKeepsMutex ==
    ASSUME MutexInv, NEW m \in Call, NEW l \in PC \ {"waiting"}, pc[m] # "waiting",
           pc[m] \in InMutex <=> l \in InMutex,
           pc' = [pc EXCEPT ![m] = l], UNCHANGED mutex
    PROVE  MutexInv'
<1>1. locked' = locked /\ waiters' = waiters /\ pc' \in [Call -> PC]
  BY DEF mutex, MutexInv
<1>2. Holders' = Holders
  BY DEF Holders, MutexInv
<1>3. MutualExclusion'
  BY <1>1, <1>2 DEF MutexInv, MutualExclusion
<1>4. WaitersQueued'
  BY <1>1 DEF MutexInv, WaitersQueued
<1> QED
  BY <1>1, <1>3, <1>4 DEF MutexInv

LEMMA MutexStep == MutexInv /\ [Next]_vars => MutexInv'
<1> SUFFICES ASSUME MutexInv, [Next]_vars PROVE MutexInv'
  OBVIOUS
<1> USE DEF PC, InMutex, Answered
<1>1. ASSUME NEW m \in Call, EnterRound(m) PROVE MutexInv'
  BY <1>1, AcquireKeepsMutex DEF EnterRound
<1>2. ASSUME NEW m \in Call, BalanceCheckFails(m) PROVE MutexInv'
  BY <1>2, MoveKeepsMutex DEF BalanceCheckFails
<1>3. ASSUME NEW m \in Call, SelectAndSign(m) PROVE MutexInv'
  BY <1>3, MoveKeepsMutex DEF SelectAndSign, Signs
<1>4. ASSUME NEW m \in Call, NoUsableOutput(m) PROVE MutexInv'
  BY <1>4, ReleaseKeepsMutex DEF NoUsableOutput
<1>5. ASSUME NEW m \in Call, BuildFails(m) PROVE MutexInv'
  BY <1>5, ReleaseKeepsMutex DEF BuildFails
<1>6. ASSUME NEW m \in Call, SubmitSucceeds(m) PROVE MutexInv'
  BY <1>6, ReleaseKeepsMutex DEF SubmitSucceeds
<1>7. ASSUME NEW m \in Call, SubmitFails(m) PROVE MutexInv'
  BY <1>7, ReleaseKeepsMutex DEF SubmitFails
<1>8. ASSUME NEW m \in Call, SubmitRejected(m) PROVE MutexInv'
  BY <1>8, ReleaseKeepsMutex, MoveKeepsMutex DEF SubmitRejected
<1>9. ASSUME NEW m \in Call, Rebuild(m) PROVE MutexInv'
  BY <1>9, MoveKeepsMutex DEF Rebuild, Signs
<1>10. ASSUME NEW m \in Call, RebuildFails(m) PROVE MutexInv'
  BY <1>10, ReleaseKeepsMutex, MoveKeepsMutex DEF RebuildFails
<1>11. CASE UNCHANGED vars
  BY <1>11 DEF vars, mutex, MutexInv, MutualExclusion, WaitersQueued, Holders
<1> QED
  BY <1>1, <1>2, <1>3, <1>4, <1>5, <1>6, <1>7, <1>8, <1>9, <1>10, <1>11 DEF Next, Step

LEMMA MutexInvariant == Spec => []MutexInv
<1>1. Init => MutexInv
  <2> SUFFICES ASSUME Init PROVE MutexInv
    OBVIOUS
  <2>1. locked = FALSE /\ waiters = <<>> /\ pc \in [Call -> PC]
        /\ \A m \in Call : pc[m] = "start"
    BY DEF Init, PC
  <2>2. Holders = {}
    BY <2>1 DEF Holders, InMutex
  <2>3. MutualExclusion
    BY <2>1, <2>2 DEF MutualExclusion
  <2>4. WaitersQueued
    BY <2>1 DEF WaitersQueued
  <2>5. waiters \in Seq(Call)
    BY <2>1
  <2> QED
    BY <2>1, <2>3, <2>4, <2>5 DEF MutexInv
<1> QED
  BY <1>1, MutexStep, PTL DEF Spec

-----------------------------------------------------------------------------
\* At most one call is between UTxO selection and the end of submission, and
\* the mutex is locked exactly then, for any number of calls.
THEOREM MintsAreExclusive == Spec => []MutualExclusion
<1>1. MutexInv => MutualExclusion
  BY DEF MutexInv
<1> QED
  BY <1>1, MutexInvariant, PTL

\* The waiting calls are exactly those in the mutex's queue, each once, and
\* there are some only while the mutex is held: no call waits forgotten.
THEOREM WaitersAreQueued == Spec => []WaitersQueued
<1>1. MutexInv => WaitersQueued
  BY DEF MutexInv
<1> QED
  BY <1>1, MutexInvariant, PTL

-----------------------------------------------------------------------------
(* The calls and the wallet                                                *)

CallInv(m) ==
    /\ pc[m] = "minted" => tokens[m] = 1
    /\ tokens[m] \in {0, 1}
    /\ pc[m] \notin Answered => tokens[m] = 0
    /\ submitAttempts[m] \in Nat
    /\ submitAttempts[m] <= SUBMIT_MAX_RETRIES + 1
    /\ pc[m] \in {"waiting"} \cup InMutex => submitAttempts[m] <= SUBMIT_MAX_RETRIES
    /\ retries[m] \in Nat /\ retries[m] < MAX_RETRIES
    /\ pc[m] \in {"signed", "rebuilding"} /\ ~stale[m] => inputs[m] \subseteq unspent

WalletInv ==
    /\ inputs \in [Call -> SUBSET Nat] /\ stale \in [Call -> BOOLEAN]
    /\ submitAttempts \in [Call -> Nat]
    /\ retries \in [Call -> Nat]
    /\ tokens \in [Call -> Nat]
    /\ unspent \subseteq Nat /\ previous \subseteq Nat /\ created \in Nat
    /\ \A m \in Call : CallInv(m)

\* While m takes a step the others stand still, except that a waiter may be
\* handed the mutex.
OthersStand(m) ==
    \A n \in Call \ {m} :
        pc'[n] = pc[n] \/ (pc[n] = "waiting" /\ pc'[n] = "critical")

LEMMA ReleaseMoves ==
    ASSUME MutexInv, NEW m \in Call, pc[m] \in InMutex, NEW l \in PC, Release(m, l)
    PROVE  pc'[m] = l /\ OthersStand(m)
<1>1. CASE waiters = <<>>
  BY <1>1 DEF Release, MutexInv, OthersStand
<1>2. CASE waiters # <<>>
  <2>1. pc' = [pc EXCEPT ![m] = l, ![Head(waiters)] = "critical"]
    BY <1>2 DEF Release
  <2>2. Head(waiters) \in Call /\ Head(waiters) = waiters[1] /\ 1 \in 1..Len(waiters)
    BY <1>2 DEF MutexInv
  <2>3. pc[Head(waiters)] = "waiting"
    BY <2>2, MutexShape DEF MutexInv
  <2> QED
    BY <2>1, <2>2, <2>3 DEF MutexInv, OthersStand, InMutex
<1> QED
  BY <1>1, <1>2

LEMMA AcquireMoves ==
    ASSUME MutexInv, NEW m \in Call, Acquire(m)
    PROVE  pc'[m] \in {"waiting", "critical"} /\ OthersStand(m)
BY DEF Acquire, MutexInv, OthersStand

\* A step of m that leaves the ledger alone keeps what is known of the others.
LEMMA OthersKeep ==
    ASSUME WalletInv, NEW m \in Call, OthersStand(m), NEW n \in Call \ {m},
           inputs'[n] = inputs[n], stale'[n] = stale[n], submitAttempts'[n] = submitAttempts[n],
           retries'[n] = retries[n], tokens'[n] = tokens[n],
           unspent' = unspent \/ pc[n] \notin InMutex
    PROVE  CallInv(n)'
BY DEF WalletInv, OthersStand, CallInv, Answered, InMutex

\* A step that does not touch the ledger: CallInv(m) has to be shown for m.
LEMMA NoLedgerStep ==
    ASSUME WalletInv, NEW m \in Call, OthersStand(m), CallInv(m)', UNCHANGED ledger,
           \A n \in Call \ {m} : /\ inputs'[n] = inputs[n]
                                 /\ stale'[n] = stale[n]
                                 /\ submitAttempts'[n] = submitAttempts[n]
                                 /\ retries'[n] = retries[n],
           inputs' \in [Call -> SUBSET Nat], stale' \in [Call -> BOOLEAN], submitAttempts' \in [Call -> Nat],
           retries' \in [Call -> Nat]
    PROVE  WalletInv'
<1>1. \A n \in Call \ {m} : CallInv(n)'
  BY OthersKeep DEF ledger
<1> QED
  BY <1>1 DEF WalletInv, ledger

\* A transaction of m is accepted and m answers.
LEMMA AcceptedStep ==
    ASSUME MutexInv, WalletInv, NEW m \in Call, pc[m] = "signed", Accepted(m),
           NEW l \in Answered, Release(m, l), UNCHANGED <<inputs, stale, submitAttempts, retries>>
    PROVE  WalletInv'
<1>1. pc'[m] = l /\ OthersStand(m)
  BY ReleaseMoves DEF InMutex, PC
<1>2. ASSUME NEW n \in Call \ {m} PROVE CallInv(n)'
  <2>1. pc[n] \notin InMutex
    BY DEF MutexInv, MutualExclusion, Holders, InMutex
  <2>2. tokens'[n] = tokens[n]
    BY DEF Accepted, WalletInv
  <2> QED
    BY <1>1, <2>1, <2>2, OthersKeep
<1>3. CallInv(m) /\ tokens[m] = 0 /\ tokens'[m] = 1
  BY DEF WalletInv, CallInv, Answered, Accepted
<1>4. CallInv(m)'
  BY <1>1, <1>3 DEF CallInv, Answered, InMutex
<1>5. /\ tokens' \in [Call -> Nat] /\ created' \in Nat
      /\ unspent' \subseteq Nat /\ previous' \subseteq Nat
  <2>1. created' \in Nat /\ created' = created + 1
    BY DEF Accepted, WalletInv
  <2>2. unspent' = (unspent \ inputs[m]) \cup {created'} /\ previous' = unspent
    BY DEF Accepted
  <2>3. unspent' \subseteq Nat /\ previous' \subseteq Nat
    BY <2>1, <2>2 DEF WalletInv
  <2>4. tokens' \in [Call -> Nat]
    BY DEF Accepted, WalletInv
  <2> QED
    BY <2>1, <2>3, <2>4
<1> QED
  BY <1>2, <1>4, <1>5 DEF WalletInv

LEMMA WalletStep == MutexInv /\ WalletInv /\ [Next]_vars => WalletInv'
<1> SUFFICES ASSUME MutexInv, WalletInv, [Next]_vars PROVE WalletInv'
  OBVIOUS
<1> USE MintAssumption DEF PC, InMutex, Answered
<1>1. ASSUME NEW m \in Call, EnterRound(m) PROVE WalletInv'
  <2>1. CallInv(m) /\ pc'[m] \in {"waiting", "critical"} /\ OthersStand(m)
    BY <1>1, AcquireMoves DEF EnterRound, WalletInv
  <2>2. CallInv(m)'
    BY <1>1, <2>1 DEF EnterRound, CallInv, WalletInv, ledger
  <2> QED
    BY <1>1, <2>1, <2>2, NoLedgerStep DEF EnterRound, WalletInv
<1>2. ASSUME NEW m \in Call, BalanceCheckFails(m) PROVE WalletInv'
  <2>1. CallInv(m) /\ pc'[m] = "failed" /\ OthersStand(m)
    BY <1>2 DEF BalanceCheckFails, WalletInv, MutexInv, OthersStand
  <2>2. CallInv(m)'
    BY <1>2, <2>1 DEF BalanceCheckFails, CallInv, WalletInv, ledger
  <2> QED
    BY <1>2, <2>1, <2>2, NoLedgerStep DEF BalanceCheckFails, WalletInv
<1>3. ASSUME NEW m \in Call, SelectAndSign(m) PROVE WalletInv'
  <2>1. CallInv(m) /\ pc'[m] = "signed" /\ OthersStand(m)
    BY <1>3 DEF SelectAndSign, Signs, WalletInv, MutexInv, OthersStand
  <2>2. /\ inputs' \in [Call -> SUBSET Nat] /\ stale' \in [Call -> BOOLEAN]
        /\ \A n \in Call \ {m} : inputs'[n] = inputs[n] /\ stale'[n] = stale[n]
    BY <1>3 DEF SelectAndSign, Signs, Views, WalletInv
  <2>3. ~stale'[m] => inputs'[m] \subseteq unspent
    BY <1>3 DEF SelectAndSign, Signs, Views, WalletInv
  <2>4. CallInv(m)'
    BY <1>3, <2>1, <2>3 DEF SelectAndSign, CallInv, ledger
  <2> QED
    BY <1>3, <2>1, <2>2, <2>4, NoLedgerStep DEF SelectAndSign, WalletInv
<1>4. ASSUME NEW m \in Call, NoUsableOutput(m) PROVE WalletInv'
  <2>1. CallInv(m) /\ pc[m] = "critical"
    BY <1>4 DEF NoUsableOutput, WalletInv
  <2>2. OthersStand(m) /\ pc'[m] \in {"start", "failed"}
    BY <1>4, ReleaseMoves DEF NoUsableOutput
  <2>3. /\ retries' \in [Call -> Nat] /\ retries'[m] < MAX_RETRIES
        /\ \A n \in Call \ {m} : retries'[n] = retries[n]
    BY <1>4, <2>1 DEF NoUsableOutput, WalletInv, CallInv
  <2>4. CallInv(m)'
    BY <1>4, <2>1, <2>2, <2>3 DEF NoUsableOutput, CallInv, ledger
  <2> QED
    BY <1>4, <2>2, <2>3, <2>4, NoLedgerStep DEF NoUsableOutput, WalletInv
<1>5. ASSUME NEW m \in Call, BuildFails(m) PROVE WalletInv'
  <2>1. CallInv(m) /\ pc'[m] = "failed" /\ OthersStand(m)
    BY <1>5, ReleaseMoves DEF BuildFails, WalletInv
  <2>2. CallInv(m)'
    BY <1>5, <2>1 DEF BuildFails, CallInv, ledger
  <2> QED
    BY <1>5, <2>1, <2>2, NoLedgerStep DEF BuildFails, WalletInv
<1>6. ASSUME NEW m \in Call, SubmitSucceeds(m) PROVE WalletInv'
  BY <1>6, AcceptedStep DEF SubmitSucceeds
<1>7. ASSUME NEW m \in Call, SubmitFails(m) PROVE WalletInv'
  <2>1. CASE Accepted(m)
    BY <1>7, <2>1, AcceptedStep DEF SubmitFails
  <2>2. CASE UNCHANGED ledger
    <3>1. CallInv(m) /\ pc'[m] = "failed" /\ OthersStand(m)
      BY <1>7, ReleaseMoves DEF SubmitFails, WalletInv
    <3>2. CallInv(m)'
      BY <1>7, <2>2, <3>1 DEF SubmitFails, CallInv, ledger
    <3> QED
      BY <1>7, <2>2, <3>1, <3>2, NoLedgerStep DEF SubmitFails, WalletInv
  <2> QED
    BY <1>7, <2>1, <2>2 DEF SubmitFails
<1>8. ASSUME NEW m \in Call, SubmitRejected(m) PROVE WalletInv'
  <2>1. CallInv(m) /\ pc[m] = "signed" /\ ~(inputs[m] \subseteq unspent)
    BY <1>8 DEF SubmitRejected, WalletInv, CallInv
  <2>2. /\ submitAttempts' \in [Call -> Nat] /\ submitAttempts'[m] = submitAttempts[m] + 1
        /\ \A n \in Call \ {m} : submitAttempts'[n] = submitAttempts[n]
    BY <1>8 DEF SubmitRejected, WalletInv
  <2>3. CASE submitAttempts[m] + 1 <= SUBMIT_MAX_RETRIES
    <3>1. pc'[m] = "rebuilding" /\ OthersStand(m)
      BY <1>8, <2>3 DEF SubmitRejected, MutexInv, OthersStand
    <3>2. CallInv(m)'
      BY <1>8, <2>1, <2>2, <2>3, <3>1 DEF SubmitRejected, CallInv, ledger
    <3> QED
      BY <1>8, <2>2, <3>1, <3>2, NoLedgerStep DEF SubmitRejected, WalletInv
  <2>4. CASE ~(submitAttempts[m] + 1 <= SUBMIT_MAX_RETRIES)
    <3>1. pc'[m] = "failed" /\ OthersStand(m)
      BY <1>8, <2>4, ReleaseMoves DEF SubmitRejected
    <3>2. CallInv(m)'
      BY <1>8, <2>1, <2>2, <2>4, <3>1 DEF SubmitRejected, CallInv, ledger
    <3> QED
      BY <1>8, <2>2, <3>1, <3>2, NoLedgerStep DEF SubmitRejected, WalletInv
  <2> QED
    BY <2>3, <2>4
<1>9. ASSUME NEW m \in Call, Rebuild(m) PROVE WalletInv'
  <2>1. CallInv(m) /\ pc[m] = "rebuilding" /\ pc'[m] = "signed" /\ OthersStand(m)
    BY <1>9 DEF Rebuild, Signs, WalletInv, MutexInv, OthersStand
  <2>2. /\ inputs' \in [Call -> SUBSET Nat] /\ stale' \in [Call -> BOOLEAN]
        /\ \A n \in Call \ {m} : inputs'[n] = inputs[n] /\ stale'[n] = stale[n]
    BY <1>9 DEF Rebuild, Signs, Views, WalletInv
  <2>3. ~stale'[m] => inputs'[m] \subseteq unspent
    BY <1>9 DEF Rebuild, Signs, Views, WalletInv
  <2>4. CallInv(m)'
    BY <1>9, <2>1, <2>3 DEF Rebuild, CallInv, ledger
  <2> QED
    BY <1>9, <2>1, <2>2, <2>4, NoLedgerStep DEF Rebuild, WalletInv
<1>10. ASSUME NEW m \in Call, RebuildFails(m) PROVE WalletInv'
  <2>1. CallInv(m) /\ pc[m] = "rebuilding"
    BY <1>10 DEF RebuildFails, WalletInv
  <2>2. OthersStand(m) /\ pc'[m] \in {"failed", "signed"}
    BY <1>10, ReleaseMoves DEF RebuildFails, MutexInv, OthersStand
  <2>3. CallInv(m)'
    BY <1>10, <2>1, <2>2 DEF RebuildFails, CallInv, ledger
  <2> QED
    BY <1>10, <2>2, <2>3, NoLedgerStep DEF RebuildFails, WalletInv
<1>11. CASE UNCHANGED vars
  BY <1>11 DEF vars, mutex, ledger, WalletInv, CallInv
<1> QED
  BY <1>1, <1>2, <1>3, <1>4, <1>5, <1>6, <1>7, <1>8, <1>9, <1>10, <1>11 DEF Next, Step

LEMMA WalletInit == Init => WalletInv
<1> SUFFICES ASSUME Init PROVE WalletInv
  OBVIOUS
<1>1. /\ inputs \in [Call -> SUBSET Nat] /\ stale \in [Call -> BOOLEAN] /\ submitAttempts \in [Call -> Nat]
      /\ retries \in [Call -> Nat] /\ tokens \in [Call -> Nat]
      /\ unspent \subseteq Nat /\ previous \subseteq Nat /\ created \in Nat
  BY MintAssumption DEF Init
<1>2. \A m \in Call : CallInv(m)
  BY MintAssumption DEF Init, CallInv, Answered, InMutex
<1> QED
  BY <1>1, <1>2 DEF WalletInv

LEMMA WalletInvariant == Spec => [](MutexInv /\ WalletInv)
BY MutexInvariant, WalletInit, WalletStep, PTL DEF Spec

\* Every reachable state is well typed.
THEOREM TypeCorrect == Spec => []TypeOK
<1>1. MutexInv /\ WalletInv => TypeOK
  BY DEF MutexInv, WalletInv, TypeOK
<1> QED
  BY <1>1, WalletInvariant, PTL

\* A call mints one token at most over all its rounds and resubmissions, one
\* exactly if it reports success, none before it answers.
THEOREM CallsMintOnce == Spec => []OneTokenPerCall
<1>1. WalletInv => OneTokenPerCall
  BY DEF WalletInv, CallInv, OneTokenPerCall
<1> QED
  BY <1>1, WalletInvariant, PTL

\* A transaction built from a current view never has a spent input when it is
\* submitted: the mutex keeps concurrent calls off each other's outputs.
THEOREM InputsDoNotConflict == Spec => []NoConflictingInputs
<1>1. WalletInv => NoConflictingInputs
  BY DEF WalletInv, CallInv, NoConflictingInputs
<1> QED
  BY <1>1, WalletInvariant, PTL

\* A round submits at most SUBMIT_MAX_RETRIES + 1 times, a call has at most
\* MAX_RETRIES rounds.
THEOREM AttemptsAreBounded == Spec => []BoundedAttempts
<1>1. WalletInv => BoundedAttempts
  BY DEF WalletInv, CallInv, BoundedAttempts
<1> QED
  BY <1>1, WalletInvariant, PTL
=============================================================================
