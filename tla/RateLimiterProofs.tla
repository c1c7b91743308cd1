-------------------------- MODULE RateLimiterProofs --------------------------
(* Proofs about RateLimiter, for any rate, period, burst and set of callers. *)
EXTENDS RateLimiter, TLAPS

\* Every timestamp in the system lies in the past, and the ones still in
\* flight lie in the observed window.
TimeInv ==
    /\ last <= newest /\ newest <= clock /\ since <= clock
    /\ \A p \in Callers : at[p] # NoTime => since <= at[p] /\ at[p] <= clock

\* Tokens taken away by old timestamps are matched by time `last` went back.
DebtInv == 0 <= tokens + Requests * (newest - last)

\* Calls admitted in the window were paid from a full bucket and the time since.
PaidInv ==
    \/ admitted = base
    \/ Per * (admitted - base) + tokens <= Capacity + Requests * (last - since)

IInv == TypeOK /\ TimeInv /\ DebtInv /\ PaidInv

-----------------------------------------------------------------------------
\* The little arithmetic on products that the invariant needs.
LEMMA Product ==
    ASSUME NEW a \in Nat, NEW x \in Int, NEW y \in Int
    PROVE  /\ a * x \in Int
           /\ a * (x + y) = a * x + a * y
           /\ a * (x - y) = a * x - a * y
           /\ x <= y => a * x <= a * y
  BY SMTT(30)

\* Order is kept when both sides lose the same.
LEMMA Shift ==
    ASSUME NEW x \in Int, NEW y \in Int, NEW z \in Int, x <= y
    PROVE  x - z <= y - z
  OBVIOUS

\* A new limiter satisfies the invariant.
LEMMA InitIInv == Init => IInv
<1> SUFFICES ASSUME Init PROVE IInv
  OBVIOUS
<1> USE LimiterAssumption
<1>1. Capacity \in Nat
  BY DEF Capacity
<1>2. at \in [Callers -> (0..MaxClock) \cup {NoTime}]
  BY DEF Init
<1>3. TypeOK
  BY <1>1, <1>2 DEF Init, TypeOK
<1>4. TimeInv /\ PaidInv
  BY DEF Init, TimeInv, PaidInv
<1>5. DebtInv
  BY <1>1 DEF Init, DebtInv
<1>. QED
  BY <1>3, <1>4, <1>5 DEF IInv

\* One call of Allow, with a timestamp that may be older than `last`.
LEMMA AllowIInv ==
    ASSUME IInv, NEW p \in Callers, Allow(p)
    PROVE  IInv'
<1> USE LimiterAssumption
<1> DEFINE now == at[p]
           full == Refilled(now)
           paid == Requests * (now - last)
<1>1. /\ now \in 0..MaxClock /\ since <= now /\ now <= clock
      /\ last \in Int /\ newest \in Int /\ tokens \in Int /\ admitted \in Int
      /\ base \in Int /\ since \in Int /\ clock \in Int
  BY DEF Allow, IInv, TypeOK, TimeInv
<1>2. Capacity \in Int /\ paid \in Int /\ (now - last) * Requests = paid
  BY <1>1 DEF Capacity
<1>3. full \in Int /\ full <= Capacity /\ full <= tokens + paid
      /\ (full = Capacity \/ full = tokens + paid)
  BY <1>1, <1>2 DEF Refilled, Smaller
<1>4. newest' \in 0..MaxClock /\ now <= newest' /\ newest <= newest' /\ newest' <= clock
      /\ (newest' = newest \/ newest' = now)
  BY <1>1 DEF Allow, Larger, IInv, TypeOK, TimeInv
<1>5. /\ last' = now /\ clock' = clock /\ base' = base /\ since' = since
      /\ at' = [at EXCEPT ![p] = NoTime]
  BY DEF Allow
<1>6. \/ full < Per /\ tokens' = full /\ admitted' = admitted
      \/ full >= Per /\ tokens' = full - Per /\ admitted' = admitted + 1
  BY <1>1, <1>3 DEF Allow
<1>7. TypeOK'
  BY <1>1, <1>2, <1>3, <1>4, <1>5, <1>6 DEF IInv, TypeOK, Capacity
<1>8. TimeInv'
  BY <1>1, <1>4, <1>5 DEF IInv, TypeOK, TimeInv
<1>9. DebtInv'
  <2> DEFINE back == Requests * (newest' - now)
  <2>1. back \in Int /\ 0 <= back
    <3>1. newest' - now \in Nat
      BY <1>1, <1>4
    <3>. QED
      BY <3>1, Product
  <2>2. 0 <= full + back
    <3>1. CASE full = Capacity
      BY <2>1, <3>1, <1>2, <1>3 DEF Capacity
    <3>2. CASE full = tokens + paid
      <4>1. paid + back = Requests * (newest' - last)
        BY <1>1, <1>4, Product
      <4>2. Requests * (newest - last) <= Requests * (newest' - last)
        <5>1. newest' \in Int /\ newest <= newest'
          BY <1>4
        <5>2. last \in Int /\ newest \in Int
          BY <1>1
        <5>3. newest - last \in Int /\ newest' - last \in Int
          BY <5>1, <5>2
        <5>4. newest - last <= newest' - last
          BY <5>1, <5>2, Shift
        <5>. QED
          BY <5>3, <5>4, Product
      <4>3. Requests * (newest - last) \in Int /\ Requests * (newest' - last) \in Int
        BY <1>1, <1>4, Product
      <4>. QED
        BY <1>1, <1>2, <1>3, <2>1, <3>2, <4>1, <4>2, <4>3 DEF IInv, DebtInv
    <3>. QED
      BY <1>3, <3>1, <3>2
  <2>3. 0 <= tokens' + back
    BY <1>3, <1>6, <2>1, <2>2
  <2>. QED
    BY <1>5, <2>3 DEF DebtInv
<1>10. PaidInv'
  <2> DEFINE span == Requests * (now - since)
  <2>1. span \in Int /\ 0 <= span
    <3>1. now - since \in Nat
      BY <1>1
    <3>. QED
      BY <3>1, Product
  <2>2. CASE admitted' = admitted
    <3>1. CASE admitted = base
      BY <1>5, <2>2, <3>1 DEF PaidInv
    <3>2. CASE admitted # base
      <4>1. Per * (admitted - base) + tokens <= Capacity + Requests * (last - since)
        BY <3>2 DEF IInv, PaidInv
      <4>2. Requests * (last - since) + paid = span
        BY <1>1, Product
      <4>3. tokens' <= tokens + paid
        BY <1>1, <1>2, <1>3, <1>6, <2>2
      <4>4. Per * (admitted - base) \in Int /\ Requests * (last - since) \in Int
        BY <1>1, Product
      <4>5. Per * (admitted - base) + tokens' <= Capacity + span
        BY <1>1, <1>2, <1>3, <1>6, <2>1, <2>2, <4>1, <4>2, <4>3, <4>4
      <4>. QED
        BY <1>5, <2>2, <4>5 DEF PaidInv, Capacity
    <3>. QED
      BY <3>1, <3>2
  <2>3. CASE admitted' = admitted + 1 /\ tokens' = full - Per
    <3>1. Per * (admitted' - base) + tokens' = Per * (admitted - base) + full
      <4>1. Per * (admitted' - base) = Per * (admitted - base) + Per
        BY <1>1, <2>3, Product
      <4>. QED
        BY <1>1, <1>3, <2>3, <4>1, Product
    <3>2. Per * (admitted - base) + full <= Capacity + span
      <4>1. CASE admitted = base
        <5>1. Per * (admitted - base) = 0
          BY <1>1, <4>1
        <5>. QED
          BY <1>2, <1>3, <2>1, <5>1
      <4>2. CASE admitted # base
        <5>1. Per * (admitted - base) + tokens <= Capacity + Requests * (last - since)
          BY <4>2 DEF IInv, PaidInv
        <5>2. Requests * (last - since) + paid = span
          BY <1>1, Product
        <5>3. Per * (admitted - base) \in Int /\ Requests * (last - since) \in Int
          BY <1>1, Product
        <5>. QED
          BY <1>1, <1>2, <1>3, <2>1, <5>1, <5>2, <5>3
      <4>. QED
        BY <4>1, <4>2
    <3>. QED
      BY <1>5, <3>1, <3>2 DEF PaidInv, Capacity
  <2>. QED
    BY <1>6, <2>2, <2>3
<1>. QED
  BY <1>7, <1>8, <1>9, <1>10 DEF IInv

\* Every step preserves the invariant.
LEMMA NextIInv == IInv /\ [Next]_vars => IInv'
<1> SUFFICES ASSUME IInv, [Next]_vars PROVE IInv'
  OBVIOUS
<1> USE LimiterAssumption DEF IInv, limiterVars, history
<1>1. CASE Tick
  <2>1. TypeOK' /\ TimeInv'
    BY <1>1 DEF Tick, TypeOK, TimeInv, Capacity
  <2>2. DebtInv' /\ PaidInv'
    BY <1>1 DEF Tick, DebtInv, PaidInv, Capacity
  <2>. QED
    BY <2>1, <2>2
<1>2. CASE Observe
  <2>1. PICK s \in 0..clock : /\ \A p \in Callers : at[p] # NoTime => at[p] >= s
                              /\ since' = s
                              /\ base' = admitted
                              /\ UNCHANGED <<clock, at, limiterVars, admitted, newest>>
    BY <1>2 DEF Observe
  <2>2. TypeOK' /\ TimeInv'
    BY <2>1 DEF TypeOK, TimeInv, Capacity
  <2>3. DebtInv' /\ PaidInv'
    BY <2>1 DEF DebtInv, PaidInv
  <2>. QED
    BY <2>2, <2>3
<1>3. ASSUME NEW p \in Callers, Capture(p)
      PROVE  IInv'
  <2>1. at' \in [Callers -> (0..MaxClock) \cup {NoTime}]
    BY <1>3 DEF Capture, TypeOK
  <2>2. TypeOK' /\ TimeInv'
    BY <1>3, <2>1 DEF Capture, TypeOK, TimeInv, Capacity
  <2>3. DebtInv' /\ PaidInv'
    BY <1>3 DEF Capture, DebtInv, PaidInv, Capacity
  <2>. QED
    BY <2>2, <2>3
<1>4. ASSUME NEW p \in Callers, Allow(p)
      PROVE  IInv'
  BY <1>4, AllowIInv
<1>5. CASE UNCHANGED vars
  BY <1>5 DEF vars, TypeOK, TimeInv, DebtInv, PaidInv, Capacity
<1>. QED
  BY <1>1, <1>2, <1>3, <1>4, <1>5 DEF Next

\* The inductive invariant holds in every behaviour of the limiter.
THEOREM Invariance == Spec => []IInv
  BY InitIInv, NextIInv, PTL DEF Spec

\* Types, and a bucket that never holds more than a burst (policy.go:379).
THEOREM TypeCorrect == Spec => []TypeOK
<1>1. IInv => TypeOK
  BY DEF IInv
<1>. QED
  BY <1>1, Invariance, PTL

\* However the timestamps are interleaved, no window admits more calls than a
\* burst and the steady rate allow (policy.go:374-385).
THEOREM RateIsBounded == Spec => []WindowBound
<1>1. IInv => WindowBound
  <2> SUFFICES ASSUME IInv PROVE WindowBound
    OBVIOUS
  <2> USE LimiterAssumption
  <2>1. /\ last \in Int /\ newest \in Int /\ tokens \in Int /\ admitted \in Int
        /\ base \in Int /\ since \in Int /\ clock \in Int /\ Capacity \in Int
        /\ newest <= clock /\ since <= clock /\ 0 <= Capacity
    BY DEF IInv, TypeOK, TimeInv, Capacity
  <2>2. Requests * (clock - since) \in Int /\ 0 <= Requests * (clock - since)
    <3>1. clock - since \in Nat
      BY <2>1
    <3>. QED
      BY <3>1, Product
  <2>3. CASE admitted = base
    <3>1. Per * (admitted - base) = 0
      BY <2>1, <2>3
    <3>. QED
      BY <2>1, <2>2, <3>1 DEF WindowBound
  <2>4. CASE admitted # base
    <3>1. Per * (admitted - base) + tokens <= Capacity + Requests * (last - since)
      BY <2>4 DEF IInv, PaidInv
    <3>2. Requests * (last - since) + Requests * (newest - last) = Requests * (newest - since)
      BY <2>1, Product
    <3>3. Requests * (newest - since) <= Requests * (clock - since)
      <4>1. newest - since \in Int /\ clock - since \in Int /\ newest - since <= clock - since
        BY <2>1
      <4>. QED
        BY <4>1, Product
    <3>4. /\ Per * (admitted - base) \in Int /\ Requests * (last - since) \in Int
          /\ Requests * (newest - last) \in Int /\ Requests * (newest - since) \in Int
      BY <2>1, Product
    <3>5. 0 <= tokens + Requests * (newest - last)
      BY DEF IInv, DebtInv
    <3>. QED
      BY <2>1, <2>2, <3>1, <3>2, <3>3, <3>4, <3>5 DEF WindowBound
  <2>. QED
    BY <2>3, <2>4
<1>. QED
  BY <1>1, Invariance, PTL

\* A call that comes a token's worth of time after every earlier one is
\* admitted, whatever old timestamps did to the bucket (policy.go:377-384).
THEOREM SpacedCallsAreAdmitted == Spec => SpacedCallsAdmitted
<1>1. IInv /\ [Next]_vars =>
        [\A p \in Callers :
           (Allow(p) /\ Requests * (at[p] - newest) >= Per) => admitted' = admitted + 1]_vars
  <2> SUFFICES ASSUME IInv, NEW p \in Callers, Allow(p), Requests * (at[p] - newest) >= Per
               PROVE  admitted' = admitted + 1
    OBVIOUS
  <2> USE LimiterAssumption
  <2>1. /\ at[p] \in Int /\ last \in Int /\ newest \in Int /\ tokens \in Int
        /\ Capacity \in Int
    BY DEF Allow, IInv, TypeOK, Capacity
  <2>2. Per <= Capacity
    <3>1. Per * 1 <= Per * Burst
      BY Product
    <3>. QED
      BY <3>1 DEF Capacity
  <2>3. (at[p] - last) * Requests = Requests * (at[p] - newest) + Requests * (newest - last)
    BY <2>1, Product
  <2>4. Requests * (at[p] - newest) \in Int /\ Requests * (newest - last) \in Int
    BY <2>1, Product
  <2>5. tokens + (at[p] - last) * Requests >= Per
    BY <2>1, <2>3, <2>4 DEF IInv, DebtInv
  <2>6. ~(Refilled(at[p]) < Per)
    BY <2>1, <2>2, <2>3, <2>4, <2>5 DEF Refilled, Smaller
  <2>. QED
    BY <2>6 DEF Allow
<1>. QED
  BY <1>1, Invariance, PTL DEF Spec, SpacedCallsAdmitted
=============================================================================
