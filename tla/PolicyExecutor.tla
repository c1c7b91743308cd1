--------------------------- MODULE PolicyExecutor ---------------------------
(***************************************************************************)
(* The shared policy executor of src/sdk/policy/policy.go: Executor.Do     *)
(* called by several goroutines at once.  One step is one critical section *)
(* of the limiter, of the breaker or of the semaphore, one call of the     *)
(* wrapped function, or one reading of the clock.                          *)
(*                                                                         *)
(* A call of the wrapped function ends in "ok", in an error shouldRetry    *)
(* accepts ("retryable": deadlines, unavailable, aborted, unknown, 5xx) or *)
(* in one it refuses ("fatal": cancelled, invalid argument and the like).  *)
(*                                                                         *)
(* Tokens are counted in units of 1/Per, as in module RateLimiter, which   *)
(* this module implements.                                                 *)
(***************************************************************************)
EXTENDS Integers, FiniteSets

CONSTANTS
    Callers,           \* goroutines calling Do
    Requests,          \* RateLimit.Requests; 0: no limiter
    Per,               \* RateLimit.Per in ticks
    Burst,             \* RateLimit.Burst; 0: the default
    Failures,          \* CircuitBreaker.Failures; 0: no breaker
    OpenFor,           \* CircuitBreaker.OpenFor in ticks
    ConcurrencyLimit,  \* 0: no semaphore
    Attempts,          \* Retry.Attempts
    HasBackoff,        \* Retry.Backoff is positive
    MaxClock,          \* bound on the clock
    NoTime             \* the caller holds no timestamp

ASSUME ExecutorAssumption ==
    /\ Requests \in Nat /\ Per \in Nat /\ Burst \in Nat
    /\ Failures \in Nat /\ OpenFor \in Nat
    /\ ConcurrencyLimit \in Nat /\ Attempts \in Nat
    /\ HasBackoff \in BOOLEAN
    /\ MaxClock \in Nat
    /\ NoTime \notin Int
    /\ IsFiniteSet(Callers)

VARIABLES
    clock,        \* the monotonic clock
    at,           \* at[p]: a timestamp p took for the next critical section
    pc,           \* pc[p]: where p is in Do
    attempt,      \* attempt[p]: number of the current attempt, from 1
    cancelled,    \* cancelled[p]: the context p gave to Do is cancelled
    tokens, last, \* the limiter
    consecutive,  \* the breaker's count of failures in a row
    openUntil,    \* the breaker rejects before this time; 0 is the zero time
    sem,          \* number of elements in the semaphore channel

    (* History: no part of the program. *)
    admitted,     \* calls the limiter admitted
    newest,       \* the largest timestamp the limiter saw
    verdicts      \* verdicts[p]: outcomes the current Do reported to the breaker

limiterVars == <<tokens, last, admitted, newest>>
breakerVars == <<consecutive, openUntil>>
vars == <<clock, at, pc, attempt, cancelled, limiterVars, breakerVars, sem, verdicts>>

-----------------------------------------------------------------------------
(* NewExecutor: defaults, and which of the three guards exist.             *)

Max1(n) == IF n <= 0 THEN 1 ELSE n
NormalBurst == IF Requests > 0 /\ Burst <= 0 THEN Requests ELSE Burst
NormalAttempts == Max1(Attempts)

HasLimiter == Requests > 0 /\ Per > 0
HasBreaker == Failures > 0 /\ OpenFor > 0
HasSem == ConcurrencyLimit > 0

ShouldRetry(result) == result = "retryable"

Init ==
    /\ clock = 0
    /\ at = [p \in Callers |-> NoTime]
    /\ pc = [p \in Callers |-> "idle"]
    /\ attempt = [p \in Callers |-> 1]
    /\ cancelled = [p \in Callers |-> FALSE]
    /\ tokens = NormalBurst * Per
    /\ last = 0
    /\ admitted = 0
    /\ newest = 0
    /\ consecutive = 0
    /\ openUntil = 0
    /\ sem = 0
    /\ verdicts = [p \in Callers |-> 0]

Goto(p, label) == pc' = [pc EXCEPT ![p] = label]
Forget(p) == at' = [at EXCEPT ![p] = NoTime]

\* time.Now() is evaluated for the critical section p enters next.
Capture(p) ==
    /\ \/ pc[p] = "limit" /\ HasLimiter
       \/ pc[p] = "gate" /\ HasBreaker
       \/ pc[p] = "fail" /\ HasBreaker
    /\ at[p] = NoTime
    /\ at' = [at EXCEPT ![p] = clock]
    /\ UNCHANGED <<clock, pc, attempt, cancelled, limiterVars, breakerVars, sem, verdicts>>

Start(p) ==
    /\ pc[p] = "idle"
    /\ Goto(p, "limit")
    /\ attempt' = [attempt EXCEPT ![p] = 1]
    /\ cancelled' = [cancelled EXCEPT ![p] = FALSE]
    /\ verdicts' = [verdicts EXCEPT ![p] = 0]
    /\ UNCHANGED <<clock, at, limiterVars, breakerVars, sem>>

Smaller(a, b) == IF a < b THEN a ELSE b
Larger(a, b) == IF a < b THEN b ELSE a

\* Mutant: a refused call takes a token all the same.
LimitChargesRefusal(p) ==
    /\ pc[p] = "limit"
    /\ HasLimiter
    /\ at[p] # NoTime
    /\ LET full == Smaller(NormalBurst * Per, tokens + (at[p] - last) * Requests) IN
       /\ tokens' = full - Per
       /\ admitted' = IF full < Per THEN admitted ELSE admitted + 1
       /\ Goto(p, IF full < Per THEN "idle" ELSE "gate")
    /\ last' = at[p]
    /\ newest' = Larger(newest, at[p])
    /\ Forget(p)
    /\ UNCHANGED <<clock, attempt, cancelled, breakerVars, sem, verdicts>>

\* limiter.Allow(now); a refusal ends Do with ErrRateLimited.
Limit(p) ==
    LET now == at[p]
        full == Smaller(NormalBurst * Per, tokens + (now - last) * Requests)
    IN
    /\ pc[p] = "limit"
    /\ \/ /\ ~HasLimiter
          /\ Goto(p, "gate")
          /\ UNCHANGED <<limiterVars, at>>
       \/ /\ HasLimiter
          /\ now # NoTime
          /\ last' = now
          /\ newest' = Larger(newest, now)
          /\ Forget(p)
          /\ IF full < Per
               THEN /\ tokens' = full
                    /\ Goto(p, "idle")
                    /\ UNCHANGED admitted
               ELSE /\ tokens' = full - Per
                    /\ admitted' = admitted + 1
                    /\ Goto(p, "gate")
    /\ UNCHANGED <<clock, attempt, cancelled, breakerVars, sem, verdicts>>

\* breaker.Open(now); a refusal ends Do with ErrCircuitOpen.
Gate(p) ==
    /\ pc[p] = "gate"
    /\ \/ ~HasBreaker /\ Goto(p, "acquire")
       \/ /\ HasBreaker
          /\ at[p] # NoTime
          /\ Goto(p, IF at[p] < openUntil THEN "idle" ELSE "acquire")
    /\ Forget(p)
    /\ UNCHANGED <<clock, attempt, cancelled, limiterVars, breakerVars, sem, verdicts>>

\* The non-blocking send on the semaphore; a full one ends Do with
\* ErrConcurrencyLimited.
Acquire(p) ==
    /\ pc[p] = "acquire"
    /\ IF HasSem /\ sem = ConcurrencyLimit
         THEN Goto(p, "idle") /\ UNCHANGED sem
         ELSE Goto(p, "call") /\ sem' = IF HasSem THEN sem + 1 ELSE sem
    /\ UNCHANGED <<clock, at, attempt, cancelled, limiterVars, breakerVars, verdicts>>

\* The wrapped function returns; the last attempt and errors that are not
\* retried leave the loop.
FnReturn(p, result) ==
    /\ pc[p] = "call"
    /\ Goto(p, IF result = "ok" THEN "succeed"
               ELSE IF attempt[p] = NormalAttempts \/ ~ShouldRetry(result) THEN "fail"
               ELSE "backoff")
    /\ UNCHANGED <<clock, at, attempt, cancelled, limiterVars, breakerVars, sem, verdicts>>

\* Mutant: every failed attempt is counted by the breaker.
BackoffOverCounts(p) ==
    /\ pc[p] = "backoff"
    /\ Goto(p, "call")
    /\ attempt' = [attempt EXCEPT ![p] = @ + 1]
    /\ consecutive' = (consecutive + 1) % Failures
    /\ verdicts' = [verdicts EXCEPT ![p] = @ + 1]
    /\ UNCHANGED <<clock, at, cancelled, limiterVars, openUntil, sem>>

\* Mutant: the attempt is not counted.
BackoffOverForgets(p) ==
    /\ pc[p] = "backoff"
    /\ Goto(p, "call")
    /\ UNCHANGED <<clock, at, attempt, cancelled, limiterVars, breakerVars, sem, verdicts>>

\* sleepContext: the timer fires and the next attempt starts, or the context
\* ends the loop.  Without a backoff the context is not looked at.
BackoffOver(p) ==
    /\ pc[p] = "backoff"
    /\ Goto(p, "call")
    /\ attempt' = [attempt EXCEPT ![p] = @ + 1]
    /\ UNCHANGED <<clock, at, cancelled, limiterVars, breakerVars, sem, verdicts>>

\* Mutant: the early exit on cancellation skips the release.
BackoffCancelledLeaks(p) ==
    /\ pc[p] = "backoff"
    /\ HasBackoff
    /\ cancelled[p]
    /\ Goto(p, "idle")
    /\ UNCHANGED <<clock, at, attempt, cancelled, limiterVars, breakerVars, sem, verdicts>>

BackoffCancelled(p) ==
    /\ pc[p] = "backoff"
    /\ HasBackoff
    /\ cancelled[p]
    /\ Goto(p, "fail")
    /\ UNCHANGED <<clock, at, attempt, cancelled, limiterVars, breakerVars, sem, verdicts>>

CancelContext(p) ==
    /\ pc[p] # "idle"
    /\ ~cancelled[p]
    /\ cancelled' = [cancelled EXCEPT ![p] = TRUE]
    /\ UNCHANGED <<clock, at, pc, attempt, limiterVars, breakerVars, sem, verdicts>>

\* breaker.Success().
Success(p) ==
    /\ pc[p] = "succeed"
    /\ IF HasBreaker
         THEN /\ consecutive' = 0
              /\ openUntil' = 0
              /\ verdicts' = [verdicts EXCEPT ![p] = @ + 1]
         ELSE UNCHANGED <<breakerVars, verdicts>>
    /\ Goto(p, "release")
    /\ UNCHANGED <<clock, at, attempt, cancelled, limiterVars, sem>>

\* Mutant: the count is not reset when the circuit opens.
FailureKeepsCount(p) ==
    /\ pc[p] = "fail"
    /\ HasBreaker => at[p] # NoTime
    /\ verdicts' = [verdicts EXCEPT ![p] = @ + 1]
    /\ consecutive' = consecutive + 1
    /\ openUntil' = IF consecutive + 1 >= Failures THEN at[p] + OpenFor ELSE openUntil
    /\ Forget(p)
    /\ Goto(p, "release")
    /\ UNCHANGED <<clock, attempt, cancelled, limiterVars, sem>>

\* breaker.Failure(now).
Failure(p) ==
    /\ pc[p] = "fail"
    /\ \/ /\ ~HasBreaker
          /\ UNCHANGED <<breakerVars, verdicts>>
       \/ /\ HasBreaker
          /\ at[p] # NoTime
          /\ verdicts' = [verdicts EXCEPT ![p] = @ + 1]
          /\ IF consecutive + 1 >= Failures
               THEN openUntil' = at[p] + OpenFor /\ consecutive' = 0
               ELSE consecutive' = consecutive + 1 /\ UNCHANGED openUntil
    /\ Forget(p)
    /\ Goto(p, "release")
    /\ UNCHANGED <<clock, attempt, cancelled, limiterVars, sem>>

\* The deferred receive from the semaphore, and the return.
Release(p) ==
    /\ pc[p] = "release"
    /\ sem' = IF HasSem THEN sem - 1 ELSE sem
    /\ Goto(p, "idle")
    /\ UNCHANGED <<clock, at, attempt, cancelled, limiterVars, breakerVars, verdicts>>

Tick ==
    /\ clock < MaxClock
    /\ clock' = clock + 1
    /\ UNCHANGED <<at, pc, attempt, cancelled, limiterVars, breakerVars, sem, verdicts>>

Results == {"ok", "retryable", "fatal"}

Step(p) ==
    \/ Capture(p) \/ Limit(p) \/ Gate(p) \/ Acquire(p)
    \/ \E result \in Results : FnReturn(p, result)
    \/ BackoffOver(p) \/ BackoffCancelled(p)
    \/ Success(p) \/ Failure(p) \/ Release(p)

Next == Tick \/ \E p \in Callers : Start(p) \/ CancelContext(p) \/ Step(p)

Spec == Init /\ [][Next]_vars

\* A goroutine inside Do keeps running, a timer fires, and the wrapped function
\* returns (it is handed a context with the per-attempt deadline).
FairSpec == Spec /\ \A p \in Callers : WF_vars(Step(p))

-----------------------------------------------------------------------------
(* Properties.                                                             *)

Holding == {"call", "backoff", "succeed", "fail", "release"}

\* Type correctness; in particular the function is called at most Attempts
\* times in one Do (policy.go:43, "the total number of attempts"), the counter
\* of the breaker starts again when the circuit opens, and the circuit is never
\* open for longer than OpenFor from now, even if timestamps arrive out of
\* order (policy.go:413-421).
TypeOK ==
    /\ clock \in 0..MaxClock
    /\ at \in [Callers -> (0..MaxClock) \cup {NoTime}]
    /\ pc \in [Callers -> {"idle", "limit", "gate", "acquire"} \cup Holding]
    /\ attempt \in [Callers -> 1..NormalAttempts]
    /\ cancelled \in [Callers -> BOOLEAN]
    /\ tokens \in Int
    /\ last \in 0..MaxClock
    /\ admitted \in Nat
    /\ newest \in 0..MaxClock
    /\ consecutive \in Nat
    /\ openUntil \in 0..(MaxClock + OpenFor)
    /\ sem \in 0..ConcurrencyLimit
    /\ verdicts \in [Callers -> Nat]
    /\ HasBreaker => consecutive < Failures /\ openUntil <= clock + OpenFor

\* Every path out of Do gives its permit back and no other: the semaphore
\* holds one element for each caller between its acquisition and its return,
\* and never more than ConcurrencyLimit (policy.go:109-116).
PermitsMatchCalls ==
    HasSem => /\ sem = Cardinality({p \in Callers : pc[p] \in Holding})
              /\ sem <= ConcurrencyLimit

\* The breaker hears of an admitted call exactly once, however many attempts
\* it took and however it ended, and of a rejected call never
\* (policy.go:103-147).
OneVerdictPerCall ==
    \A p \in Callers :
        /\ pc[p] = "release" => verdicts[p] = (IF HasBreaker THEN 1 ELSE 0)
        /\ pc[p] \notin {"release", "idle"} => verdicts[p] = 0

\* Seen by the limiter, the executor is nothing but callers of Allow: what is
\* proved of RateLimiter holds for the calls of Do (policy.go:103).
Limiter == INSTANCE RateLimiter WITH
    Burst <- NormalBurst, base <- 0, since <- 0,
    at <- [p \in Callers |-> IF pc[p] = "limit" THEN at[p] ELSE NoTime]
ImplementsLimiter == Limiter!Spec

\* Do returns (policy.go:120-147).
EveryDoReturns == \A p \in Callers : (pc[p] # "idle") ~> (pc[p] = "idle")

\* What policy.go:62 says of OpenFor: it is the duration the circuit remains
\* open before trying again, so nothing shortens a window that is running.
CircuitStaysOpen == [][clock < openUntil => openUntil' >= openUntil]_vars
=============================================================================
