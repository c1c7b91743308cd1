------------------------ MODULE PolicyExecutorProofs ------------------------
(* Proofs about PolicyExecutor, for any configuration and set of callers.    *)
EXTENDS PolicyExecutor, FiniteSetTheorems, TLAPS

\* The callers that own an element of the semaphore.
Holders == {p \in Callers : pc[p] \in Holding}

\* A timestamp is held only where its critical section comes next, and lies in
\* the past.
StampInv ==
    \A p \in Callers : at[p] # NoTime =>
        /\ at[p] <= clock
        /\ \/ pc[p] = "limit" /\ HasLimiter
           \/ pc[p] \in {"gate", "fail"} /\ HasBreaker

\* A call that waits for its next attempt has one left.
AttemptInv == \A p \in Callers : pc[p] = "backoff" => attempt[p] < NormalAttempts

\* One permit for each holder; without a semaphore nothing is counted.
PermitInv == sem = IF HasSem THEN Cardinality(Holders) ELSE 0

IInv == TypeOK /\ StampInv /\ AttemptInv /\ PermitInv /\ OneVerdictPerCall

-----------------------------------------------------------------------------
\* Holders is finite, so the theorems about cardinality apply to it.
LEMMA HoldersFinite == IsFiniteSet(Holders)
  BY ExecutorAssumption, FS_Subset DEF Holders

\* normalize leaves at least one attempt.
LEMMA AttemptsPositive == NormalAttempts \in Nat /\ NormalAttempts >= 1
  BY ExecutorAssumption DEF NormalAttempts, Max1

\* A step of p that keeps p on its side of the semaphore keeps the holders.
LEMMA SameHolders ==
    ASSUME TypeOK, NEW p \in Callers, NEW label, Goto(p, label),
           pc[p] \in Holding <=> label \in Holding
    PROVE  Holders' = Holders
  BY DEF Holders, Goto, TypeOK

\* A new executor satisfies the invariant.
LEMMA InitIInv == Init => IInv
<1> SUFFICES ASSUME Init PROVE IInv
  OBVIOUS
<1> USE ExecutorAssumption
<1>1. NormalBurst * Per \in Int
  BY DEF NormalBurst
<1>2. /\ at \in [Callers -> (0..MaxClock) \cup {NoTime}]
      /\ pc \in [Callers -> {"idle", "limit", "gate", "acquire"} \cup Holding]
      /\ cancelled \in [Callers -> BOOLEAN]
      /\ verdicts \in [Callers -> Nat]
  BY DEF Init
<1>3. attempt \in [Callers -> 1..NormalAttempts]
  BY AttemptsPositive DEF Init
<1>4. TypeOK
  BY <1>1, <1>2, <1>3 DEF Init, TypeOK, HasBreaker
<1>5. StampInv /\ AttemptInv /\ OneVerdictPerCall
  BY DEF Init, StampInv, AttemptInv, OneVerdictPerCall
<1>6. PermitInv
  <2>1. Holders = {}
    BY DEF Init, Holders, Holding
  <2>. QED
    BY <2>1, FS_EmptySet DEF Init, PermitInv
<1>. QED
  BY <1>4, <1>5, <1>6 DEF IInv

\* A step of a caller that moves on without touching the semaphore.
LEMMA Keeps ==
    ASSUME IInv, NEW p \in Callers, NEW label, Goto(p, label), sem' = sem,
           pc[p] \in Holding <=> label \in Holding
    PROVE  PermitInv'
<1>1. Holders' = Holders
  BY SameHolders DEF IInv
<1>. QED
  BY <1>1 DEF IInv, PermitInv

\* Every step preserves the invariant.
LEMMA NextIInv == IInv /\ [Next]_vars => IInv'
<1> SUFFICES ASSUME IInv, [Next]_vars PROVE IInv'
  OBVIOUS
<1> USE ExecutorAssumption, AttemptsPositive DEF IInv, limiterVars, breakerVars, Holding
<1>1. CASE Tick
  <2>1. Holders' = Holders
    BY <1>1 DEF Tick, Holders
  <2>2. TypeOK'
    BY <1>1 DEF Tick, TypeOK, HasBreaker
  <2>3. StampInv' /\ AttemptInv' /\ OneVerdictPerCall'
    BY <1>1 DEF Tick, TypeOK, StampInv, AttemptInv, OneVerdictPerCall
  <2>4. PermitInv'
    BY <1>1, <2>1 DEF Tick, PermitInv
  <2>. QED
    BY <2>2, <2>3, <2>4
<1>2. ASSUME NEW p \in Callers, Capture(p)
      PROVE  IInv'
  <2>1. Holders' = Holders
    BY <1>2 DEF Capture, Holders
  <2>2. TypeOK'
    BY <1>2 DEF Capture, TypeOK
  <2>3. StampInv' /\ AttemptInv' /\ OneVerdictPerCall'
    BY <1>2 DEF Capture, TypeOK, StampInv, AttemptInv, OneVerdictPerCall
  <2>4. PermitInv'
    BY <1>2, <2>1 DEF Capture, PermitInv
  <2>. QED
    BY <2>2, <2>3, <2>4
<1>3. ASSUME NEW p \in Callers, Start(p)
      PROVE  IInv'
  <2>2. TypeOK'
    BY <1>3 DEF Start, Goto, TypeOK
  <2>3. StampInv' /\ AttemptInv' /\ OneVerdictPerCall'
    BY <1>3 DEF Start, Goto, TypeOK, StampInv, AttemptInv, OneVerdictPerCall
  <2>4. PermitInv'
    BY <1>3, Keeps DEF Start
  <2>. QED
    BY <2>2, <2>3, <2>4
<1>4. ASSUME NEW p \in Callers, CancelContext(p)
      PROVE  IInv'
  <2>1. Holders' = Holders
    BY <1>4 DEF CancelContext, Holders
  <2>2. TypeOK'
    BY <1>4 DEF CancelContext, TypeOK
  <2>3. StampInv' /\ AttemptInv' /\ OneVerdictPerCall'
    BY <1>4 DEF CancelContext, StampInv, AttemptInv, OneVerdictPerCall
  <2>4. PermitInv'
    BY <1>4, <2>1 DEF CancelContext, PermitInv
  <2>. QED
    BY <2>2, <2>3, <2>4
<1>5. ASSUME NEW p \in Callers, Limit(p)
      PROVE  IInv'
  <2> DEFINE full == Smaller(NormalBurst * Per, tokens + (at[p] - last) * Requests)
  <2>1. PICK label \in {"idle", "gate"} : Goto(p, label)
    BY <1>5 DEF Limit
  <2>2. CASE ~HasLimiter
    <3>1. TypeOK'
      BY <1>5, <2>1, <2>2 DEF Limit, Goto, TypeOK
    <3>2. StampInv'
      BY <1>5, <2>1, <2>2 DEF Limit, Goto, TypeOK, StampInv
    <3>. QED
      BY <1>5, <2>1, <3>1, <3>2, Keeps DEF Limit, Goto, TypeOK, AttemptInv, OneVerdictPerCall
  <2>3. CASE HasLimiter
    <3>1. at[p] \in 0..MaxClock
      BY <1>5, <2>3 DEF Limit, TypeOK
    <3>2. full \in Int
      BY <3>1 DEF TypeOK, NormalBurst, Smaller
    <3>3. tokens' \in Int /\ admitted' \in Nat /\ newest' \in 0..MaxClock /\ last' \in 0..MaxClock
      <4>1. newest' \in 0..MaxClock /\ last' \in 0..MaxClock
        BY <1>5, <2>3, <3>1 DEF Limit, Larger, TypeOK
      <4>2. \/ tokens' = full /\ admitted' = admitted
            \/ tokens' = full - Per /\ admitted' = admitted + 1
        BY <1>5, <2>3 DEF Limit
      <4>. QED
        BY <3>2, <4>1, <4>2 DEF TypeOK
    <3>4. TypeOK'
      BY <1>5, <2>1, <2>3, <3>3 DEF Limit, Goto, Forget, TypeOK
    <3>5. StampInv' /\ AttemptInv' /\ OneVerdictPerCall'
      BY <1>5, <2>1, <2>3 DEF Limit, Goto, Forget, TypeOK, StampInv, AttemptInv, OneVerdictPerCall
    <3>6. PermitInv'
      BY <1>5, <2>1, Keeps DEF Limit
    <3>. QED
      BY <3>4, <3>5, <3>6
  <2>. QED
    BY <2>2, <2>3
<1>6. ASSUME NEW p \in Callers, Gate(p)
      PROVE  IInv'
  <2>1. PICK label \in {"idle", "acquire"} : Goto(p, label)
    BY <1>6 DEF Gate
  <2>2. TypeOK'
    BY <1>6, <2>1 DEF Gate, Goto, Forget, TypeOK
  <2>3. StampInv' /\ AttemptInv' /\ OneVerdictPerCall'
    BY <1>6, <2>1 DEF Gate, Goto, Forget, TypeOK, StampInv, AttemptInv, OneVerdictPerCall
  <2>4. PermitInv'
    BY <1>6, <2>1, Keeps DEF Gate
  <2>. QED
    BY <2>2, <2>3, <2>4
<1>7. ASSUME NEW p \in Callers, Acquire(p)
      PROVE  IInv'
  <2>1. CASE HasSem /\ sem = ConcurrencyLimit
    <3>1. Goto(p, "idle") /\ sem' = sem
      BY <1>7, <2>1 DEF Acquire
    <3>2. PermitInv'
      BY <1>7, <3>1, Keeps DEF Acquire
    <3>. QED
      BY <1>7, <3>1, <3>2 DEF Acquire, Goto, TypeOK, StampInv, AttemptInv, OneVerdictPerCall
  <2>2. CASE ~(HasSem /\ sem = ConcurrencyLimit)
    <3>1. Goto(p, "call") /\ sem' = IF HasSem THEN sem + 1 ELSE sem
      BY <1>7, <2>2 DEF Acquire
    <3>2. Holders' = Holders \cup {p} /\ p \notin Holders
      BY <1>7, <3>1 DEF Acquire, Goto, TypeOK, Holders
    <3>3. Cardinality(Holders \cup {p}) = Cardinality(Holders) + 1
      BY <3>2, HoldersFinite, FS_AddElement
    <3>4. PermitInv'
      BY <3>1, <3>2, <3>3 DEF PermitInv
    <3>5. TypeOK'
      BY <1>7, <2>2, <3>1 DEF Acquire, Goto, TypeOK, HasSem
    <3>. QED
      BY <1>7, <3>1, <3>4, <3>5 DEF Acquire, Goto, TypeOK, StampInv, AttemptInv, OneVerdictPerCall
  <2>. QED
    BY <2>1, <2>2
<1>8. ASSUME NEW p \in Callers, NEW result \in Results, FnReturn(p, result)
      PROVE  IInv'
  <2>1. PICK label \in {"succeed", "fail", "backoff"} :
           Goto(p, label) /\ (label = "backoff" => attempt[p] # NormalAttempts)
    BY <1>8 DEF FnReturn
  <2>2. TypeOK'
    BY <1>8, <2>1 DEF FnReturn, Goto, TypeOK
  <2>3. AttemptInv'
    BY <1>8, <2>1 DEF FnReturn, Goto, TypeOK, AttemptInv
  <2>4. StampInv' /\ OneVerdictPerCall'
    BY <1>8, <2>1 DEF FnReturn, Goto, TypeOK, StampInv, OneVerdictPerCall
  <2>5. PermitInv'
    BY <1>8, <2>1, Keeps DEF FnReturn
  <2>. QED
    BY <2>2, <2>3, <2>4, <2>5
<1>9. ASSUME NEW p \in Callers, BackoffOver(p)
      PROVE  IInv'
  <2>1. TypeOK'
    BY <1>9 DEF BackoffOver, Goto, TypeOK, AttemptInv
  <2>2. StampInv' /\ AttemptInv' /\ OneVerdictPerCall'
    BY <1>9 DEF BackoffOver, Goto, TypeOK, StampInv, AttemptInv, OneVerdictPerCall
  <2>3. PermitInv'
    BY <1>9, Keeps DEF BackoffOver
  <2>. QED
    BY <2>1, <2>2, <2>3
<1>10. ASSUME NEW p \in Callers, BackoffCancelled(p)
       PROVE  IInv'
  <2>1. TypeOK'
    BY <1>10 DEF BackoffCancelled, Goto, TypeOK
  <2>2. StampInv' /\ AttemptInv' /\ OneVerdictPerCall'
    BY <1>10 DEF BackoffCancelled, Goto, TypeOK, StampInv, AttemptInv, OneVerdictPerCall
  <2>3. PermitInv'
    BY <1>10, Keeps DEF BackoffCancelled
  <2>. QED
    BY <2>1, <2>2, <2>3
<1>11. ASSUME NEW p \in Callers, Success(p)
       PROVE  IInv'
  <2>1. TypeOK'
    BY <1>11 DEF Success, Goto, TypeOK, HasBreaker
  <2>2. StampInv' /\ AttemptInv' /\ OneVerdictPerCall'
    BY <1>11 DEF Success, Goto, TypeOK, StampInv, AttemptInv, OneVerdictPerCall
  <2>3. PermitInv'
    BY <1>11, Keeps DEF Success
  <2>. QED
    BY <2>1, <2>2, <2>3
<1>12. ASSUME NEW p \in Callers, Failure(p)
       PROVE  IInv'
  <2>1. TypeOK'
    <3>1. HasBreaker => at[p] \in 0..MaxClock /\ at[p] <= clock
      BY <1>12 DEF Failure, TypeOK, StampInv
    <3>2. /\ consecutive' \in Nat /\ openUntil' \in 0..(MaxClock + OpenFor)
          /\ HasBreaker => consecutive' < Failures /\ openUntil' <= clock + OpenFor
      BY <1>12, <3>1 DEF Failure, TypeOK, HasBreaker
    <3>. QED
      BY <1>12, <3>2 DEF Failure, Goto, Forget, TypeOK
  <2>2. StampInv' /\ AttemptInv' /\ OneVerdictPerCall'
    BY <1>12 DEF Failure, Goto, Forget, TypeOK, StampInv, AttemptInv, OneVerdictPerCall
  <2>3. PermitInv'
    BY <1>12, Keeps DEF Failure
  <2>. QED
    BY <2>1, <2>2, <2>3
<1>13. ASSUME NEW p \in Callers, Release(p)
       PROVE  IInv'
  <2>1. Holders' = Holders \ {p} /\ p \in Holders
    BY <1>13 DEF Release, Goto, TypeOK, Holders
  <2>2. Cardinality(Holders \ {p}) = Cardinality(Holders) - 1 /\ Cardinality(Holders) \in Nat
    BY <2>1, HoldersFinite, FS_RemoveElement, FS_CardinalityType
  <2>3. PermitInv'
    BY <1>13, <2>1, <2>2 DEF Release, PermitInv
  <2>4. HasSem => sem >= 1
    <3>1. Cardinality(Holders) # 0
      BY <2>1, HoldersFinite, FS_EmptySet
    <3>. QED
      BY <2>2, <3>1 DEF PermitInv
  <2>5. TypeOK'
    BY <1>13, <2>4 DEF Release, Goto, TypeOK
  <2>. QED
    BY <1>13, <2>3, <2>5 DEF Release, Goto, TypeOK, StampInv, AttemptInv, OneVerdictPerCall
<1>14. CASE UNCHANGED vars
  <2>1. Holders' = Holders
    BY <1>14 DEF vars, Holders
  <2>. QED
    BY <1>14, <2>1 DEF vars, TypeOK, StampInv, AttemptInv, PermitInv, OneVerdictPerCall
<1>. QED
  BY <1>1, <1>2, <1>3, <1>4, <1>5, <1>6, <1>7, <1>8, <1>9, <1>10, <1>11, <1>12, <1>13, <1>14
     DEF Next, Step

\* The inductive invariant holds in every behaviour of the executor.
THEOREM Invariance == Spec => []IInv
  BY InitIInv, NextIInv, PTL DEF Spec

\* Types; no Do makes more attempts than Retry.Attempts and the circuit is never
\* open for longer than OpenFor from now (policy.go:120-137, 413-421).
THEOREM TypeCorrect == Spec => []TypeOK
<1>1. IInv => TypeOK
  BY DEF IInv
<1>. QED
  BY <1>1, Invariance, PTL

\* Every path out of Do gives back its permit and no other, and the limit is
\* never exceeded (policy.go:109-116).
THEOREM PermitsBalance == Spec => []PermitsMatchCalls
<1>1. IInv => PermitsMatchCalls
  BY ExecutorAssumption DEF IInv, TypeOK, PermitInv, PermitsMatchCalls, Holders
<1>. QED
  BY <1>1, Invariance, PTL

\* The breaker hears of an admitted call once and of a refused one never
\* (policy.go:103-147).
THEOREM BreakerHearsOnce == Spec => []OneVerdictPerCall
<1>1. IInv => OneVerdictPerCall
  BY DEF IInv
<1>. QED
  BY <1>1, Invariance, PTL

-----------------------------------------------------------------------------
(* The executor implements the limiter.                                    *)

\* The bucket of a new executor is that of a new limiter.
LEMMA LimiterInit == Init => Limiter!Init
  BY DEF Init, Limiter!Init, Limiter!Capacity

\* Every step of the executor is a step of the limiter's callers or leaves the
\* limiter alone.
LEMMA LimiterNext == IInv /\ [Next]_vars => [Limiter!Next]_(Limiter!vars)
<1> SUFFICES ASSUME IInv, [Next]_vars PROVE [Limiter!Next]_(Limiter!vars)
  OBVIOUS
<1> DEFINE mapped == [p \in Callers |-> IF pc[p] = "limit" THEN at[p] ELSE NoTime]
<1> USE DEF limiterVars, Limiter!vars, Limiter!limiterVars, Limiter!history
<1>1. CASE Tick
  BY <1>1 DEF Tick, Limiter!Next, Limiter!Tick
<1>2. ASSUME NEW p \in Callers, Capture(p)
      PROVE  [Limiter!Next]_(Limiter!vars)
  <2>1. CASE pc[p] = "limit"
    <3>1. Limiter!Capture(p)
      BY <1>2, <2>1 DEF Capture, Limiter!Capture, IInv, TypeOK
    <3>. QED
      BY <3>1 DEF Limiter!Next
  <2>2. CASE pc[p] # "limit"
    <3>1. mapped' = mapped
      BY <1>2, <2>2 DEF Capture, IInv, TypeOK
    <3>. QED
      BY <1>2, <3>1 DEF Capture
  <2>. QED
    BY <2>1, <2>2
<1>3. ASSUME NEW p \in Callers, Limit(p)
      PROVE  [Limiter!Next]_(Limiter!vars)
  <2>1. CASE HasLimiter
    <3>1. mapped' = [mapped EXCEPT ![p] = NoTime] /\ mapped[p] = at[p]
      BY <1>3, <2>1 DEF Limit, Goto, Forget, IInv, TypeOK
    <3>2. Limiter!Allow(p)
      BY <1>3, <2>1, <3>1 DEF Limit, Limiter!Allow, Limiter!Refilled, Limiter!Capacity,
                         Limiter!Smaller, Limiter!Larger, Smaller, Larger
    <3>. QED
      BY <3>2 DEF Limiter!Next
  <2>2. CASE ~HasLimiter
    <3>1. mapped' = mapped
      BY <1>3, <2>2 DEF Limit, Goto, IInv, TypeOK, StampInv
    <3>. QED
      BY <1>3, <2>2, <3>1 DEF Limit
  <2>. QED
    BY <2>1, <2>2
<1>4. ASSUME NEW p \in Callers, NEW label \in {"idle", "limit", "gate", "acquire"} \cup Holding,
             Goto(p, label), pc[p] # "limit", label = "limit" => at[p] = NoTime,
             \A q \in Callers : q # p => at'[q] = at[q], label = "limit" => at' = at,
             UNCHANGED <<clock, limiterVars>>
      PROVE  [Limiter!Next]_(Limiter!vars)
  <2>1. mapped' = mapped
    BY <1>4 DEF Goto, IInv, TypeOK
  <2>. QED
    BY <1>4, <2>1
<1>5. ASSUME NEW p \in Callers, Start(p)
      PROVE  [Limiter!Next]_(Limiter!vars)
  BY <1>4, <1>5 DEF Start, IInv, StampInv
<1>6. ASSUME NEW p \in Callers, CancelContext(p)
      PROVE  [Limiter!Next]_(Limiter!vars)
  BY <1>6 DEF CancelContext
<1>7. ASSUME NEW p \in Callers,
             Gate(p) \/ Acquire(p) \/ (\E result \in Results : FnReturn(p, result))
               \/ BackoffOver(p) \/ BackoffCancelled(p) \/ Success(p) \/ Failure(p) \/ Release(p)
      PROVE  [Limiter!Next]_(Limiter!vars)
  <2>1. PICK label \in {"idle", "acquire"} \cup Holding : Goto(p, label)
    BY <1>7 DEF Gate, Acquire, FnReturn, BackoffOver, BackoffCancelled, Success, Failure,
                Release, Holding
  <2>2. pc[p] # "limit" /\ UNCHANGED <<clock, limiterVars>>
    BY <1>7 DEF Gate, Acquire, FnReturn, BackoffOver, BackoffCancelled, Success, Failure,
                Release
  <2>3. \A q \in Callers : q # p => at'[q] = at[q]
    BY <1>7 DEF Gate, Acquire, FnReturn, BackoffOver, BackoffCancelled, Success, Failure,
                Release, Forget, IInv, TypeOK
  <2>. QED
    BY <1>4, <2>1, <2>2, <2>3 DEF Holding
<1>8. CASE UNCHANGED vars
  BY <1>8 DEF vars
<1>. QED
  BY <1>1, <1>2, <1>3, <1>5, <1>6, <1>7, <1>8 DEF Next, Step

\* Seen by the limiter, the calls of Do are callers of Allow and nothing else
\* touches the bucket (policy.go:103).
THEOREM ExecutorImplementsLimiter == Spec => ImplementsLimiter
  BY LimiterInit, LimiterNext, Invariance, PTL DEF Spec, ImplementsLimiter, Limiter!Spec

-----------------------------------------------------------------------------
(* What is proved of the limiter holds for the calls of Do.                *)

LimiterProofs == INSTANCE RateLimiterProofs WITH
    Burst <- NormalBurst, base <- 0, since <- 0,
    at <- [p \in Callers |-> IF pc[p] = "limit" THEN at[p] ELSE NoTime]

\* However the calls of Do interleave, the limiter lets through a burst and the
\* steady rate since the executor was made and no more (policy.go:103, 374-385).
THEOREM AdmissionBound ==
    ASSUME HasLimiter
    PROVE  Spec => []Limiter!WindowBound
<1>1. LimiterProofs!LimiterAssumption
  BY ExecutorAssumption DEF HasLimiter, NormalBurst, LimiterProofs!LimiterAssumption
<1>2. LimiterProofs!Spec => []LimiterProofs!WindowBound
  BY <1>1, LimiterProofs!RateIsBounded
<1>3. Limiter!Init => LimiterProofs!Init
  BY DEF Limiter!Init, Limiter!Capacity, LimiterProofs!Init, LimiterProofs!Capacity
<1>4. [Limiter!Next]_(Limiter!vars) => [LimiterProofs!Next]_(LimiterProofs!vars)
  BY DEF Limiter!Next, Limiter!vars, Limiter!limiterVars, Limiter!history, Limiter!Tick,
         Limiter!Capture, Limiter!Allow, Limiter!Observe, Limiter!Refilled, Limiter!Capacity,
         Limiter!Smaller, Limiter!Larger, LimiterProofs!Next, LimiterProofs!vars,
         LimiterProofs!limiterVars, LimiterProofs!history, LimiterProofs!Tick,
         LimiterProofs!Capture, LimiterProofs!Allow, LimiterProofs!Observe,
         LimiterProofs!Refilled, LimiterProofs!Capacity, LimiterProofs!Smaller,
         LimiterProofs!Larger
<1>5. LimiterProofs!WindowBound => Limiter!WindowBound
  BY DEF LimiterProofs!WindowBound, Limiter!WindowBound, LimiterProofs!Capacity, Limiter!Capacity
<1>. QED
  BY <1>2, <1>3, <1>4, <1>5, ExecutorImplementsLimiter, PTL
     DEF ImplementsLimiter, Limiter!Spec, LimiterProofs!Spec
=============================================================================
