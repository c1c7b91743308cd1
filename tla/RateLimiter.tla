----------------------------- MODULE RateLimiter -----------------------------
(***************************************************************************)
(* The token bucket of src/sdk/policy/policy.go (type rateLimiter).        *)
(*                                                                         *)
(* A caller evaluates time.Now() and only then takes the lock in Allow, so *)
(* the timestamps reach the bucket in any order: one that is older than    *)
(* `last` gives a negative elapsed time, takes tokens away and moves       *)
(* `last` back.                                                            *)
(*                                                                         *)
(* The program counts tokens in float64 and adds elapsed * Requests / Per. *)
(* Here a token is worth Per units, so a tick adds Requests units and all  *)
(* quantities are integers; the rounding of floats is not modelled.        *)
(***************************************************************************)
EXTENDS Integers

CONSTANTS
    Callers,   \* goroutines that share the limiter
    Requests,  \* RateLimit.Requests: tokens added every Per ticks
    Per,       \* RateLimit.Per, in ticks of the clock
    Burst,     \* RateLimit.Burst, after normalize
    MaxClock,  \* bound on the clock
    NoTime     \* the caller holds no timestamp

ASSUME LimiterAssumption ==
    /\ Requests \in Nat \ {0}
    /\ Per \in Nat \ {0}
    /\ Burst \in Nat \ {0}
    /\ MaxClock \in Nat
    /\ NoTime \notin Int

VARIABLES
    clock,     \* the monotonic clock
    at,        \* at[p]: the timestamp p took and has not used yet
    tokens,    \* units in the bucket; below zero after an old timestamp
    last,      \* timestamp of the latest call of Allow

    (* History: no part of the program. *)
    admitted,  \* number of calls admitted
    newest,    \* the largest timestamp a call of Allow used
    base,      \* value of admitted when the observed window began
    since      \* start of the observed window

limiterVars == <<tokens, last>>
history == <<admitted, newest, base, since>>
vars == <<clock, at, limiterVars, history>>

Capacity == Burst * Per

Smaller(a, b) == IF a < b THEN a ELSE b
Larger(a, b) == IF a < b THEN b ELSE a

\* newRateLimiter: the bucket is full.
Init ==
    /\ clock = 0
    /\ at = [p \in Callers |-> NoTime]
    /\ tokens = Capacity
    /\ last = 0
    /\ admitted = 0
    /\ newest = 0
    /\ base = 0
    /\ since = 0

Tick ==
    /\ clock < MaxClock
    /\ clock' = clock + 1
    /\ UNCHANGED <<at, limiterVars, history>>

\* The argument time.Now() of Allow is evaluated; the lock is not held.
Capture(p) ==
    /\ at[p] = NoTime
    /\ at' = [at EXCEPT ![p] = clock]
    /\ UNCHANGED <<clock, limiterVars, history>>

\* Mutant: the refilled bucket is not capped at burst.
RefilledUncapped(now) == tokens + (now - last) * Requests

\* Mutant: an old timestamp adds nothing but still moves `last` back, so the
\* ticks in between are paid out twice.
RefilledTwice(now) ==
    Smaller(Capacity, tokens + Larger(0, now - last) * Requests)

\* The bucket after the time since the last call is paid in.
Refilled(now) == Smaller(Capacity, tokens + (now - last) * Requests)

\* Mutant: an old timestamp takes tokens away for good, `last` stays.
AllowKeepsLast(p) ==
    LET now == at[p] IN
    /\ now # NoTime
    /\ last' = Larger(last, now)
    /\ IF Refilled(now) < Per
         THEN /\ tokens' = Refilled(now)
              /\ UNCHANGED admitted
         ELSE /\ tokens' = Refilled(now) - Per
              /\ admitted' = admitted + 1
    /\ at' = [at EXCEPT ![p] = NoTime]
    /\ newest' = Larger(newest, now)
    /\ UNCHANGED <<clock, base, since>>

\* Allow, the whole locked section.
Allow(p) ==
    LET now == at[p] IN
    /\ now # NoTime
    /\ last' = now
    /\ IF Refilled(now) < Per
         THEN /\ tokens' = Refilled(now)
              /\ UNCHANGED admitted
         ELSE /\ tokens' = Refilled(now) - Per
              /\ admitted' = admitted + 1
    /\ at' = [at EXCEPT ![p] = NoTime]
    /\ newest' = Larger(newest, now)
    /\ UNCHANGED <<clock, base, since>>

\* An observer starts a window that no timestamp still in flight precedes.
Observe ==
    \E s \in 0..clock :
        /\ \A p \in Callers : at[p] # NoTime => at[p] >= s
        /\ since' = s
        /\ base' = admitted
        /\ UNCHANGED <<clock, at, limiterVars, admitted, newest>>

Next == Tick \/ Observe \/ \E p \in Callers : Capture(p) \/ Allow(p)

Spec == Init /\ [][Next]_vars

-----------------------------------------------------------------------------
(* Properties.                                                             *)

\* Type correctness; the bucket never holds more than a burst.
TypeOK ==
    /\ clock \in 0..MaxClock
    /\ at \in [Callers -> (0..MaxClock) \cup {NoTime}]
    /\ tokens \in Int /\ tokens <= Capacity
    /\ last \in 0..MaxClock
    /\ admitted \in Nat
    /\ newest \in 0..MaxClock
    /\ base \in Nat
    /\ since \in 0..MaxClock

\* In every window, whatever the order in which timestamps reach the bucket,
\* at most Burst calls plus the steady rate over the window are admitted
\* (Allow, policy.go:374-385).
WindowBound ==
    Per * (admitted - base) <= Capacity + Requests * (clock - since)

\* A call whose timestamp is a token's worth of time later than every earlier
\* one is admitted: the tokens that old timestamps take away come back
\* (policy.go:377-384).
SpacedCallsAdmitted ==
    [][\A p \in Callers :
         (Allow(p) /\ Requests * (at[p] - newest) >= Per) => admitted' = admitted + 1]_vars
=============================================================================
