------------------------- MODULE KafkaConsumerProofs -------------------------
(* Safety of KafkaConsumer for every group, topic and number of failures.    *)
EXTENDS KafkaConsumer, FiniteSetTheorems, TLAPS

\* Only a member in a session has claims.
SessionInv ==
    \A m \in Members, p \in Partitions : stage[m][p] # "none" => mode[m] = "session"

\* A partition has one owner among the members the coordinator knows; evicted
\* members may still be at work on it.
OwnerInv ==
    \A m, n \in group, p \in Partitions :
        stage[m][p] # "none" /\ stage[n][p] # "none" => m = n

\* A claim at work has a message of the log in its hands.
PosInv ==
    \A m \in Members, p \in Partitions :
        stage[m][p] \in {"handling", "marking"} => pos[m][p] < end[p]

\* In a group with committed offsets the offset passes settled messages only.
CommitInv ==
    \A p \in Partitions : 0 <= committed[p] /\ Settled(p, committed[p])

\* So does a claim, evicted or not; the claim of a known member is never behind
\* the committed offset.
ClaimInv ==
    \A m \in Members, p \in Partitions : stage[m][p] # "none" =>
        /\ 0 <= marked[m][p] /\ marked[m][p] <= pos[m][p]
        /\ Settled(p, pos[m][p])
        /\ stage[m][p] = "marking" => Settled(p, pos[m][p] + 1)
        /\ m \in group => committed[p] <= marked[m][p]

IInv ==
    /\ TypeOK /\ SessionInv /\ OwnerInv /\ PosInv
    /\ Established => CommitInv /\ ClaimInv

\* What is settled stays settled when handlers run again.
LEMMA SettledGrows ==
    ASSUME TypeOK, TypeOK',
           \A p \in Partitions, o \in Offsets : times[p][o] <= times'[p][o],
           NEW p \in Partitions, NEW n \in 0..Length, Settled(p, n)
    PROVE  Settled(p, n)'
  <1> SUFFICES ASSUME NEW o \in 0..(n - 1), Decodable(p, o)
               PROVE  times'[p][o] > 0
    BY DEF Settled, Decodable
  <1>1. o \in Offsets
    BY ConsumerAssumption DEF Offsets
  <1>2. times[p][o] > 0
    BY DEF Settled
  <1> QED
    BY <1>1, <1>2 DEF TypeOK

\* The initial state satisfies the invariant.
LEMMA InitIInv == Init => IInv
  <1> SUFFICES ASSUME Init PROVE IInv
    OBVIOUS
  <1> USE ConsumerAssumption DEF Init
  <1>1. TypeOK
    <2>1. /\ end \in [Partitions -> 0..Length]
          /\ committed \in [Partitions -> -1..Length]
          /\ pos \in [Members -> [Partitions -> 0..Length]]
          /\ marked \in [Members -> [Partitions -> -1..Length]]
          /\ times \in [Partitions -> [Offsets -> Nat]]
          /\ faults \in 0..MaxFaults /\ losses \in 0..faults
      OBVIOUS
    <2>2. /\ group \subseteq Members
          /\ failed \subseteq Partitions \X Offsets
          /\ rebalancing \in BOOLEAN
          /\ cancelled \in [Members -> BOOLEAN]
      BY Zenon
    <2>3. /\ mode \in [Members -> {"loop", "join", "session", "wait", "done", "dead"}]
          /\ close \in [Members -> {"open", "closing", "closed"}]
          /\ stage \in [Members -> [Partitions -> Active \cup {"none"}]]
      BY DEF Active
    <2> QED
      BY <2>1, <2>2, <2>3 DEF TypeOK
  <1>2. SessionInv /\ OwnerInv /\ PosInv
    BY DEF SessionInv, OwnerInv, PosInv
  <1>3. Established => CommitInv /\ ClaimInv
    BY DEF CommitInv, ClaimInv, Settled
  <1> QED
    BY <1>1, <1>2, <1>3 DEF IInv

\* A step that leaves claims, offsets and history alone, and only removes
\* members from the group or leaves it, keeps the invariant if the types and
\* the session rule are kept.
LEMMA QuietStep ==
    ASSUME IInv, TypeOK', SessionInv', group' \subseteq group,
           UNCHANGED <<committed, stage, pos, marked, times>>,
           \A p \in Partitions : end[p] <= end'[p]
    PROVE  IInv'
  <1> USE DEF IInv
  <1>1. OwnerInv'
    BY DEF OwnerInv
  <1>2. PosInv'
    BY DEF PosInv, TypeOK
  <1>3. Established => CommitInv' /\ ClaimInv'
    BY DEF CommitInv, ClaimInv, Settled
  <1> QED
    BY <1>1, <1>2, <1>3

\* The steps that only move the loop, the contexts or the group.
LEMMA OuterIInv ==
    ASSUME IInv, NEW m \in Members,
           \/ LoopExit(m) \/ ConsumeError(m) \/ WaitOver(m) \/ Heartbeat(m)
           \/ BeginClose(m) \/ CloseReturns(m) \/ Evict(m) \/ ExpireDead(m) \/ Restart(m)
    PROVE  IInv'
  <1> USE ConsumerAssumption DEF brokerVars, sessionVars, faultVars, Goto, Fault
  <1>1. TypeOK'
    <2>1. CASE LoopExit(m) \/ WaitOver(m)
      BY <2>1 DEF IInv, TypeOK, LoopExit, WaitOver
    <2>6. CASE ConsumeError(m)
      BY <2>6 DEF IInv, TypeOK, ConsumeError
    <2>2. CASE Heartbeat(m)
      <3>1. cancelled' \in [Members -> BOOLEAN]
        BY <2>2, Zenon DEF IInv, TypeOK, Heartbeat
      <3> QED
        BY <2>2, <3>1 DEF IInv, TypeOK, Heartbeat
    <2>3. CASE BeginClose(m) \/ CloseReturns(m)
      BY <2>3 DEF IInv, TypeOK, BeginClose, CloseReturns
    <2>4. CASE Evict(m)
      BY <2>4 DEF IInv, TypeOK, Evict
    <2>5. CASE ExpireDead(m) \/ Restart(m)
      BY <2>5 DEF IInv, TypeOK, ExpireDead, Restart
    <2> QED
      BY <2>1, <2>2, <2>3, <2>4, <2>5, <2>6
  <1>2. SessionInv'
    BY DEF IInv, TypeOK, SessionInv, LoopExit, ConsumeError, WaitOver, Heartbeat,
           BeginClose, CloseReturns, Evict, ExpireDead, Restart
  <1>3. /\ group' \subseteq group
        /\ UNCHANGED <<committed, stage, pos, marked, times, end>>
    BY DEF LoopExit, ConsumeError, WaitOver, Heartbeat, BeginClose,
           CloseReturns, Evict, ExpireDead, Restart
  <1> QED
    BY <1>1, <1>2, <1>3, QuietStep DEF IInv, TypeOK

\* A new message disturbs nothing.
LEMMA AppendIInv ==
    ASSUME IInv, NEW p \in Partitions, Append(p)
    PROVE  IInv'
  <1> USE ConsumerAssumption DEF brokerVars, sessionVars, faultVars, Append
  <1>1. TypeOK'
    BY DEF IInv, TypeOK
  <1>2. SessionInv'
    BY DEF IInv, SessionInv
  <1>3. \A q \in Partitions : end[q] <= end'[q]
    BY DEF IInv, TypeOK
  <1> QED
    BY <1>1, <1>2, <1>3, QuietStep

\* A member that joins has no claim, so it owns nothing.
LEMMA JoinIInv ==
    ASSUME IInv, NEW m \in Members, Join(m)
    PROVE  IInv'
  <1> USE ConsumerAssumption DEF sessionVars, faultVars, Goto, Join
  <1>1. TypeOK'
    BY DEF IInv, TypeOK
  <1>2. \A p \in Partitions : stage[m][p] = "none"
    BY DEF IInv, SessionInv
  <1>3. SessionInv' /\ OwnerInv' /\ PosInv'
    BY <1>2 DEF IInv, TypeOK, SessionInv, OwnerInv, PosInv
  <1>4. Established => CommitInv' /\ ClaimInv'
    BY <1>2 DEF IInv, CommitInv, ClaimInv, Settled
  <1> QED
    BY <1>1, <1>3, <1>4 DEF IInv

\* Before a rebalance the known members hold no claim; after it each partition
\* has one owner, which starts at the committed offset.
LEMMA RebalanceIInv ==
    ASSUME IInv, NEW owner \in [Partitions -> group], Rebalance(owner)
    PROVE  IInv'
  <1> USE ConsumerAssumption DEF faultVars, Rebalance, StartOffset
  <1>1. TypeOK'
    <2> USE DEF IInv, TypeOK
    <2>1. /\ pos' \in [Members -> [Partitions -> 0..Length]]
          /\ marked' \in [Members -> [Partitions -> -1..Length]]
      OBVIOUS
    <2>2. rebalancing' \in BOOLEAN
      BY Zenon
    <2>3. /\ mode' \in [Members -> {"loop", "join", "session", "wait", "done", "dead"}]
          /\ stage' \in [Members -> [Partitions -> Active \cup {"none"}]]
      BY DEF Active
    <2> QED
      BY <2>1, <2>2, <2>3
  <1>2. \A m \in group, p \in Partitions : m \in Members /\ stage[m][p] = "none"
    BY DEF IInv, TypeOK, SessionInv
  <1>3. SessionInv' /\ OwnerInv'
    BY <1>2 DEF IInv, TypeOK, SessionInv, OwnerInv
  <1>4. PosInv'
    BY DEF IInv, TypeOK, PosInv
  <1>5. Established => CommitInv' /\ ClaimInv'
    BY <1>2 DEF IInv, TypeOK, CommitInv, ClaimInv, Settled
  <1> QED
    BY <1>1, <1>3, <1>4, <1>5 DEF IInv

\* What a known member commits is settled and not behind the offset.
LEMMA CommitForward ==
    ASSUME IInv, Established, NEW m \in group, CommitMarks(m), UNCHANGED times
    PROVE  /\ CommitInv'
           /\ \A p \in Partitions : committed[p] <= committed'[p]
           /\ \A p \in Partitions : committed'[p] \in 0..Length
  <1> USE ConsumerAssumption DEF IInv, CommitMarks
  <1> SUFFICES ASSUME NEW p \in Partitions
               PROVE  /\ 0 <= committed'[p] /\ Settled(p, committed[p])'
                      /\ committed[p] <= committed'[p]
                      /\ committed'[p] \in 0..Length
    BY DEF CommitInv
  <1>1. m \in Members
    BY DEF TypeOK
  <1>2. CASE stage[m][p] = "none"
    BY <1>2 DEF TypeOK, CommitInv, Settled
  <1>3. CASE stage[m][p] # "none"
    <2>1. committed'[p] = marked[m][p]
      BY <1>3
    <2>2. /\ 0 <= marked[m][p] /\ marked[m][p] <= pos[m][p]
          /\ Settled(p, pos[m][p])
          /\ committed[p] <= marked[m][p]
      BY <1>1, <1>3 DEF ClaimInv
    <2>3. marked[m][p] \in Int /\ pos[m][p] \in 0..Length
      BY <1>1 DEF TypeOK
    <2>4. Settled(p, committed[p])'
      BY <2>1, <2>2, <2>3 DEF Settled
    <2> QED
      BY <2>1, <2>2, <2>3, <2>4
  <1> QED
    BY <1>2, <1>3

\* The background commit.
LEMMA AutoCommitIInv ==
    ASSUME IInv, NEW m \in Members, AutoCommit(m)
    PROVE  IInv'
  <1> USE ConsumerAssumption DEF sessionVars, faultVars, AutoCommit
  <1>1. TypeOK'
    BY DEF IInv, TypeOK, CommitMarks
  <1>2. SessionInv' /\ OwnerInv' /\ PosInv'
    BY DEF IInv, SessionInv, OwnerInv, PosInv
  <1>3. ASSUME Established PROVE CommitInv' /\ ClaimInv'
    <2>1. CommitInv'
      BY <1>3, CommitForward
    <2>2. ASSUME NEW n \in group, NEW p \in Partitions, stage[n][p] # "none"
          PROVE  committed'[p] <= marked[n][p]
      <3>1. n \in Members /\ committed[p] <= marked[n][p] /\ marked[n][p] \in Int
        BY <1>3, <2>2 DEF IInv, ClaimInv, TypeOK
      <3>2. stage[m][p] # "none" => n = m
        BY <2>2 DEF IInv, OwnerInv
      <3> QED
        BY <3>1, <3>2 DEF CommitMarks
    <2>3. ClaimInv'
      BY <1>3, <2>2 DEF IInv, ClaimInv, Settled
    <2> QED
      BY <2>1, <2>3
  <1> QED
    BY <1>1, <1>2, <1>3 DEF IInv

\* The end of a session, with or without the last commit, and a crash.
LEMMA EndIInv ==
    ASSUME IInv, NEW m \in Members,
           EndSession(m) \/ EndSessionUncommitted(m) \/ Crash(m)
    PROVE  IInv'
  <1> USE ConsumerAssumption DEF faultVars, Goto, Fault, DropSession
  <1>0. \/ m \in group /\ CommitMarks(m)
        \/ UNCHANGED committed
    BY DEF EndSession, EndSessionUncommitted, Crash, brokerVars
  <1>1. TypeOK'
    <2> USE DEF IInv, TypeOK
    <2>1. committed' \in [Partitions -> -1..Length]
      <3>1. CASE m \in group /\ CommitMarks(m)
        BY <3>1 DEF CommitMarks
      <3>2. CASE UNCHANGED committed
        BY <3>2
      <3> QED
        BY <1>0, <3>1, <3>2
    <2>2. cancelled' \in [Members -> BOOLEAN]
      <3>1. cancelled' = [cancelled EXCEPT ![m] = FALSE]
        BY DEF EndSession, EndSessionUncommitted, Crash
      <3> QED
        BY <3>1, Zenon
    <2>3. /\ stage' \in [Members -> [Partitions -> Active \cup {"none"}]]
          /\ pos' \in [Members -> [Partitions -> 0..Length]]
          /\ marked' \in [Members -> [Partitions -> -1..Length]]
      <3>1. /\ stage' = [stage EXCEPT ![m] = [p \in Partitions |-> "none"]]
            /\ pos' = [pos EXCEPT ![m] = [p \in Partitions |-> 0]]
            /\ marked' = [marked EXCEPT ![m] = [p \in Partitions |-> 0]]
        BY DEF EndSession, EndSessionUncommitted, Crash
      <3>2. /\ [p \in Partitions |-> "none"] \in [Partitions -> Active \cup {"none"}]
            /\ [p \in Partitions |-> 0] \in [Partitions -> 0..Length]
            /\ [p \in Partitions |-> 0] \in [Partitions -> -1..Length]
        OBVIOUS
      <3> QED
        BY <3>1, <3>2
    <2>4. /\ mode' \in [Members -> {"loop", "join", "session", "wait", "done", "dead"}]
          /\ faults' \in 0..MaxFaults
          /\ losses' \in 0..faults'
          /\ UNCHANGED <<end, group, rebalancing, close, times, failed>>
      <3>1. CASE EndSession(m)
        BY <3>1 DEF EndSession
      <3>2. CASE EndSessionUncommitted(m)
        BY <3>2 DEF EndSessionUncommitted, brokerVars
      <3>3. CASE Crash(m)
        BY <3>3 DEF Crash, brokerVars
      <3> QED
        BY <3>1, <3>2, <3>3
    <2> QED
      BY <2>1, <2>2, <2>3, <2>4
  <1>2. /\ \A p \in Partitions : stage'[m][p] = "none"
        /\ \A n \in Members \ {m} : /\ stage'[n] = stage[n] /\ pos'[n] = pos[n]
                                    /\ marked'[n] = marked[n] /\ mode'[n] = mode[n]
        /\ UNCHANGED <<end, times, group>>
    BY DEF IInv, TypeOK, EndSession, EndSessionUncommitted, Crash, brokerVars
  <1>3. SessionInv' /\ OwnerInv' /\ PosInv'
    <2>1. SessionInv'
      <3> SUFFICES ASSUME NEW n \in Members, NEW p \in Partitions, stage'[n][p] # "none"
                   PROVE  mode'[n] = "session"
        BY DEF SessionInv
      <3>1. n # m
        BY <1>2
      <3>2. stage'[n] = stage[n] /\ mode'[n] = mode[n]
        BY <1>2, <3>1
      <3> QED
        BY <3>2 DEF IInv, SessionInv
    <2>2. OwnerInv'
      <3> SUFFICES ASSUME NEW a \in group, NEW b \in group, NEW p \in Partitions,
                          stage'[a][p] # "none", stage'[b][p] # "none"
                   PROVE  a = b
        BY <1>2 DEF OwnerInv
      <3>1. a \in Members \ {m} /\ b \in Members \ {m}
        BY <1>2 DEF IInv, TypeOK
      <3>2. stage'[a][p] = stage[a][p] /\ stage'[b][p] = stage[b][p]
        BY <1>2, <3>1
      <3> QED
        BY <3>2 DEF IInv, OwnerInv
    <2>3. PosInv'
      BY <1>2 DEF IInv, TypeOK, PosInv
    <2> QED
      BY <2>1, <2>2, <2>3
  <1>4. ASSUME Established PROVE CommitInv' /\ ClaimInv'
    <2>1. CommitInv'
      BY <1>0, <1>2, <1>4, CommitForward DEF IInv, CommitInv, Settled
    <2>2. ASSUME NEW n \in group, NEW p \in Partitions, n # m, stage[n][p] # "none"
          PROVE  committed'[p] <= marked[n][p]
      <3>1. n \in Members /\ committed[p] <= marked[n][p] /\ marked[n][p] \in Int
        BY <1>4, <2>2 DEF IInv, ClaimInv, TypeOK
      <3>2. m \in group => stage[m][p] = "none"
        BY <2>2 DEF IInv, OwnerInv
      <3> QED
        BY <1>0, <3>1, <3>2 DEF CommitMarks
    <2>3. ClaimInv'
      BY <1>2, <1>4, <2>2 DEF IInv, ClaimInv, Settled
    <2> QED
      BY <2>1, <2>3
  <1> QED
    BY <1>1, <1>3, <1>4 DEF IInv

\* The steps of a claim change one claim only, and a success only adds to what
\* is settled.
LEMMA ClaimIInv ==
    ASSUME IInv, NEW m \in Members, NEW p \in Partitions,
           ClaimStep(m, p) \/ HandlerFails(m, p)
    PROVE  IInv'
  <1> USE ConsumerAssumption
      DEF brokerVars, sessionVars, faultVars, Stage, Fault, ClaimStep
  <1>a. stage[m][p] \in {"select", "handling", "marking"}
    BY DEF Deliver, HandlerSucceeds, Mark, ClaimReturns, HandlerFails
  <1>b. /\ pos[m][p] \in 0..Length /\ marked[m][p] \in -1..Length /\ end[p] \in 0..Length
        /\ mode[m] = "session"
    BY <1>a DEF IInv, TypeOK, SessionInv
  <1>c. stage[m][p] \in {"handling", "marking"} => pos[m][p] < end[p] /\ pos[m][p] \in Offsets
    BY <1>b DEF IInv, PosInv, Offsets
  <1>1. TypeOK'
    <2> USE DEF IInv, TypeOK
    <2>1. CASE Deliver(m, p)
      BY <2>1 DEF Deliver, Active
    <2>2. CASE HandlerSucceeds(m, p)
      BY <2>2, <1>c DEF HandlerSucceeds, Active
    <2>3. CASE Mark(m, p)
      BY <2>3, <1>b, <1>c DEF Mark, Active
    <2>4. CASE ClaimReturns(m, p)
      <3>1. cancelled' \in [Members -> BOOLEAN]
        BY <2>4, Zenon DEF ClaimReturns
      <3> QED
        BY <2>4, <3>1 DEF ClaimReturns, Active
    <2>5. CASE HandlerFails(m, p)
      <3>1. cancelled' \in [Members -> BOOLEAN]
        BY <2>5, Zenon DEF HandlerFails
      <3>2. failed' \subseteq Partitions \X Offsets
        BY <2>5, <1>c DEF HandlerFails
      <3> QED
        BY <2>5, <3>1, <3>2 DEF HandlerFails, Active
    <2> QED
      BY <2>1, <2>2, <2>3, <2>4, <2>5
  <1>2. /\ \A n \in Members, q \in Partitions : n # m \/ q # p =>
              /\ stage'[n][q] = stage[n][q] /\ pos'[n][q] = pos[n][q]
              /\ marked'[n][q] = marked[n][q]
        /\ UNCHANGED <<end, group, committed, mode>>
    BY DEF IInv, TypeOK, Deliver, HandlerSucceeds, Mark, ClaimReturns, HandlerFails
  <1>3. SessionInv' /\ OwnerInv'
    <2>1. SessionInv'
      BY <1>b, <1>2 DEF IInv, SessionInv
    <2>2. \A n \in group, q \in Partitions :
            n \in Members /\ (stage'[n][q] # "none" => stage[n][q] # "none")
      BY <1>a, <1>2 DEF IInv, TypeOK
    <2>3. OwnerInv'
      BY <1>2, <2>2 DEF IInv, OwnerInv
    <2> QED
      BY <2>1, <2>3
  <1>4. PosInv'
    <2>1. stage'[m][p] \in {"handling", "marking"} => pos'[m][p] < end[p]
      BY <1>b, <1>c DEF IInv, TypeOK, Deliver, HandlerSucceeds, Mark, ClaimReturns, HandlerFails
    <2> QED
      BY <1>2, <2>1 DEF IInv, PosInv
  <1>5. ASSUME Established PROVE CommitInv' /\ ClaimInv'
    <2>1. \A q \in Partitions, o \in Offsets : times[q][o] <= times'[q][o]
      <3>1. CASE HandlerSucceeds(m, p)
        BY <3>1, <1>c DEF IInv, TypeOK, HandlerSucceeds
      <3>2. CASE UNCHANGED times
        BY <3>2 DEF IInv, TypeOK
      <3> QED
        BY <3>1, <3>2 DEF Deliver, Mark, ClaimReturns, HandlerFails
    <2>2. \A q \in Partitions, n \in 0..Length : Settled(q, n) => Settled(q, n)'
      BY <1>1, <2>1, SettledGrows DEF IInv
    <2>3. CommitInv'
      <3> SUFFICES ASSUME NEW q \in Partitions
                   PROVE  0 <= committed'[q] /\ Settled(q, committed[q])'
        BY DEF CommitInv
      <3>1. 0 <= committed[q] /\ committed[q] \in 0..Length /\ Settled(q, committed[q])
        BY <1>5 DEF IInv, TypeOK, CommitInv
      <3> QED
        BY <3>1, <2>2, <1>2 DEF Settled
    <2>4. ASSUME NEW n \in Members, NEW q \in Partitions, n # m \/ q # p,
                 stage'[n][q] # "none"
          PROVE  /\ 0 <= marked'[n][q] /\ marked'[n][q] <= pos'[n][q]
                 /\ Settled(q, pos[n][q])'
                 /\ stage'[n][q] = "marking" => Settled(q, pos[n][q] + 1)'
                 /\ n \in group' => committed'[q] <= marked'[n][q]
      <3>1. /\ stage'[n][q] = stage[n][q] /\ pos'[n][q] = pos[n][q]
            /\ marked'[n][q] = marked[n][q]
        BY <1>2, <2>4
      <3>2. /\ 0 <= marked[n][q] /\ marked[n][q] <= pos[n][q]
            /\ Settled(q, pos[n][q])
            /\ stage[n][q] = "marking" => Settled(q, pos[n][q] + 1)
            /\ n \in group => committed[q] <= marked[n][q]
        BY <1>5, <2>4, <3>1 DEF IInv, ClaimInv
      <3>3. /\ pos[n][q] \in 0..Length
            /\ stage[n][q] = "marking" => pos[n][q] + 1 \in 0..Length
        BY DEF IInv, TypeOK, PosInv
      <3>4. /\ Settled(q, pos[n][q])'
            /\ stage[n][q] = "marking" => Settled(q, pos[n][q] + 1)'
        BY <3>1, <3>2, <3>3, <2>2 DEF Settled
      <3> QED
        BY <3>1, <3>2, <3>4, <1>2
    <2>5. /\ 0 <= marked'[m][p] /\ marked'[m][p] <= pos'[m][p]
          /\ Settled(p, pos[m][p])'
          /\ stage'[m][p] = "marking" => Settled(p, pos[m][p] + 1)'
          /\ m \in group' => committed'[p] <= marked'[m][p]
      <3>1. /\ 0 <= marked[m][p] /\ marked[m][p] <= pos[m][p]
            /\ Settled(p, pos[m][p])
            /\ stage[m][p] = "marking" => Settled(p, pos[m][p] + 1)
            /\ m \in group => committed[p] <= marked[m][p]
        BY <1>5, <1>a DEF IInv, ClaimInv
      <3>2. committed[p] \in Int
        BY DEF IInv, TypeOK
      <3>3. CASE Deliver(m, p)
        <4>1. /\ UNCHANGED <<pos, marked, times, committed, group>>
              /\ stage'[m][p] = "marking" => ~Decodable(p, pos[m][p])
          BY <3>3 DEF IInv, TypeOK, Deliver
        <4>2. Settled(p, pos[m][p])'
          BY <3>1, <4>1 DEF Settled
        <4>3. stage'[m][p] = "marking" => Settled(p, pos[m][p] + 1)'
          BY <4>1, <4>2, <1>b DEF Settled
        <4> QED
          BY <3>1, <4>1, <4>2, <4>3
      <3>4. CASE HandlerSucceeds(m, p)
        <4>1. /\ UNCHANGED <<pos, marked, committed, group>>
              /\ stage[m][p] = "handling"
          BY <3>4 DEF HandlerSucceeds
        <4>2. times'[p][pos[m][p]] > 0
          BY <3>4, <4>1, <1>c DEF IInv, TypeOK, HandlerSucceeds
        <4>3. Settled(p, pos[m][p])'
          BY <3>1, <4>1, <2>2, <1>b DEF Settled
        <4>4. Settled(p, pos[m][p] + 1)'
          BY <4>1, <4>2, <4>3, <1>b DEF Settled
        <4> QED
          BY <3>1, <4>1, <4>3, <4>4
      <3>5. CASE Mark(m, p)
        BY <3>1, <3>2, <3>5, <1>b DEF IInv, TypeOK, Mark, Settled
      <3>6. CASE ClaimReturns(m, p) \/ HandlerFails(m, p)
        BY <3>1, <3>6 DEF IInv, TypeOK, ClaimReturns, HandlerFails, Settled
      <3> QED
        BY <3>3, <3>4, <3>5, <3>6
    <2>6. ClaimInv'
      BY <2>4, <2>5 DEF ClaimInv
    <2> QED
      BY <2>3, <2>6
  <1> QED
    BY <1>1, <1>3, <1>4, <1>5 DEF IInv

\* Every step keeps the invariant.
LEMMA NextIInv == IInv /\ [Next]_vars => IInv'
  <1> SUFFICES ASSUME IInv, [Next]_vars PROVE IInv'
    OBVIOUS
  <1>1. CASE \E p \in Partitions : Append(p)
    BY <1>1, AppendIInv
  <1>2. CASE CoordinatorStep
    BY <1>2, RebalanceIInv, OuterIInv DEF CoordinatorStep
  <1>3. CASE \E m \in Members : LoopStep(m)
    BY <1>3, JoinIInv, OuterIInv, EndIInv DEF LoopStep
  <1>4. CASE \E m \in Members : Heartbeat(m) \/ BeginClose(m) \/ Restart(m)
    BY <1>4, OuterIInv
  <1>5. CASE \E m \in Members : AutoCommit(m)
    BY <1>5, AutoCommitIInv
  <1>6. CASE \E m \in Members : FaultStep(m)
    BY <1>6, OuterIInv, EndIInv, ClaimIInv DEF FaultStep
  <1>7. CASE \E m \in Members, p \in Partitions : ClaimStep(m, p)
    BY <1>7, ClaimIInv
  <1>8. CASE UNCHANGED vars
    BY <1>8 DEF vars, brokerVars, sessionVars, faultVars, IInv, TypeOK, SessionInv,
                OwnerInv, PosInv, CommitInv, ClaimInv, Settled
  <1> QED
    BY <1>1, <1>2, <1>3, <1>4, <1>5, <1>6, <1>7, <1>8 DEF Next

\* The inductive invariant holds in every behaviour.
THEOREM Invariance == Spec => []IInv
  <1>1. Init => IInv
    BY InitIInv
  <1>2. IInv /\ [Next]_vars => IInv'
    BY NextIInv
  <1> QED
    BY <1>1, <1>2, PTL DEF Spec

\* The types hold whether or not the group has committed offsets.
THEOREM TypeCorrect == Spec => []TypeOK
  <1>1. IInv => TypeOK
    BY DEF IInv
  <1> QED
    BY <1>1, Invariance, PTL

\* In a group with a committed offset for every partition no message is lost,
\* whatever fails and however often.
THEOREM NoMessageLost == ASSUME Established PROVE Spec => []NothingLost
  <1>1. IInv => NothingLost
    BY DEF IInv, CommitInv, NothingLost
  <1> QED
    BY <1>1, Invariance, PTL

\* The two ways of saying that a prefix of a log is settled agree.
LEMMA SettledMap ==
    ASSUME NEW p \in Partitions, NEW n \in 0..Length, Settled(p, n)
    PROVE  Delivery!Settled(p, n)
  <1> SUFFICES ASSUME NEW o \in 0..(n - 1), Decodable(p, o)
               PROVE  <<p, o>> \in {x \in Partitions \X Offsets : times[x[1]][x[2]] > 0}
    BY DEF Delivery!Settled, Decodable
  <1>1. o \in Offsets
    BY ConsumerAssumption DEF Offsets
  <1>2. times[p][o] > 0
    BY DEF Settled
  <1> QED
    BY <1>1, <1>2

\* A commit by a known member is a commit of the abstract log.
LEMMA CommitStep ==
    ASSUME IInv, IInv', Established, NEW m \in group, CommitMarks(m), UNCHANGED times
    PROVE  Delivery!Commit
  <1>1. /\ \A p \in Partitions : committed[p] <= committed'[p]
        /\ \A p \in Partitions : committed'[p] \in 0..Length
        /\ CommitInv'
    BY CommitForward
  <1>2. committed' \in [Partitions -> 0..Length]
    BY <1>1 DEF CommitMarks
  <1>3. \A p \in Partitions : Delivery!Settled(p, committed'[p])
    <2> TAKE p \in Partitions
    <2>1. committed'[p] \in 0..Length /\ Settled(p, committed[p])'
      BY <1>1 DEF CommitInv
    <2>2. Settled(p, committed'[p])
      BY <2>1 DEF Settled
    <2> QED
      BY <2>1, <2>2, SettledMap
  <1> QED
    BY <1>1, <1>2, <1>3 DEF Delivery!Commit

\* A handler that succeeds is a step of the abstract log: all before its
\* message is settled.
LEMMA HandleStep ==
    ASSUME IInv, Established, NEW m \in Members, NEW p \in Partitions, HandlerSucceeds(m, p)
    PROVE  Delivery!Handle(p, pos[m][p]) /\ pos[m][p] \in Offsets
  <1>1. pos[m][p] \in Offsets /\ pos[m][p] \in 0..Length
    BY ConsumerAssumption DEF IInv, TypeOK, PosInv, HandlerSucceeds, Offsets
  <1>2. Delivery!Settled(p, pos[m][p])
    <2>1. Settled(p, pos[m][p])
      BY DEF IInv, ClaimInv, HandlerSucceeds
    <2> QED
      BY <1>1, <2>1, SettledMap
  <1>3. \A q \in Partitions, o \in Offsets :
          times'[q][o] > 0 <=> times[q][o] > 0 \/ <<q, o>> = <<p, pos[m][p]>>
    BY <1>1 DEF IInv, TypeOK, HandlerSucceeds
  <1>4. {x \in Partitions \X Offsets : times'[x[1]][x[2]] > 0}
          = {x \in Partitions \X Offsets : times[x[1]][x[2]] > 0} \cup {<<p, pos[m][p]>>}
    BY <1>1, <1>3
  <1>5. UNCHANGED committed
    BY DEF HandlerSucceeds, brokerVars
  <1> QED
    BY <1>1, <1>2, <1>4, <1>5 DEF Delivery!Handle

\* In a group with committed offsets the consumer implements in-order,
\* at-least-once delivery with an offset that never goes back.
THEOREM DeliveryRefinement == ASSUME Established PROVE Spec => ImplementsDelivery
  <1>1. Init => Delivery!Init
    BY DEF Init, Delivery!Init
  <1>2. IInv /\ IInv' /\ [Next]_vars => [Delivery!Next]_Delivery!vars
    <2> SUFFICES ASSUME IInv, IInv', [Next]_vars
                 PROVE  Delivery!Next \/ UNCHANGED <<committed, times>>
      BY DEF Delivery!vars
    <2> USE DEF brokerVars, sessionVars, faultVars
    <2>1. CASE \E m \in Members, p \in Partitions : HandlerSucceeds(m, p)
      <3>1. PICK m \in Members, p \in Partitions : HandlerSucceeds(m, p)
        BY <2>1
      <3>2. Delivery!Handle(p, pos[m][p]) /\ pos[m][p] \in 0..(Length - 1)
        BY <3>1, HandleStep DEF Offsets
      <3> QED
        BY <3>2 DEF Delivery!Next, Delivery!Handle, Delivery!Settled
    <2>2. CASE \E m \in Members : AutoCommit(m) \/ EndSession(m)
      <3>1. PICK m \in Members : AutoCommit(m) \/ EndSession(m)
        BY <2>2
      <3>2. \/ m \in group /\ CommitMarks(m) /\ UNCHANGED times
            \/ UNCHANGED <<committed, times>>
        BY <3>1 DEF AutoCommit, EndSession
      <3> QED
        BY <3>2, CommitStep DEF Delivery!Next
    <2>3. CASE \E p \in Partitions : Append(p)
      BY <2>3 DEF Append
    <2>4. CASE CoordinatorStep
      BY <2>4 DEF CoordinatorStep, Rebalance, ExpireDead
    <2>5. CASE \E m \in Members : \/ Join(m) \/ LoopExit(m) \/ WaitOver(m) \/ CloseReturns(m)
                                  \/ Heartbeat(m) \/ BeginClose(m) \/ Restart(m)
      BY <2>5 DEF Join, LoopExit, WaitOver, CloseReturns, Heartbeat, BeginClose, Restart
    <2>6. CASE \E m \in Members : FaultStep(m)
      BY <2>6 DEF FaultStep, ConsumeError, EndSessionUncommitted, Crash, Evict, HandlerFails
    <2>7. CASE \E m \in Members, p \in Partitions :
                 Deliver(m, p) \/ Mark(m, p) \/ ClaimReturns(m, p)
      BY <2>7 DEF Deliver, Mark, ClaimReturns
    <2>8. CASE UNCHANGED vars
      BY <2>8 DEF vars
    <2> QED
      BY <2>1, <2>2, <2>3, <2>4, <2>5, <2>6, <2>7, <2>8 DEF Next, LoopStep, ClaimStep
  <1> QED
    BY <1>1, <1>2, Invariance, PTL DEF Spec, ImplementsDelivery, Delivery!Spec

-----------------------------------------------------------------------------
(* Redelivery is paid for with lost marks.                                 *)

\* A claim never marks past the message it is at.
MarkInv ==
    \A m \in Members, p \in Partitions : stage[m][p] # "none" => marked[m][p] <= pos[m][p]

\* The claim of m on p may still hand message o to the handler.
Ahead(m, p, o) ==
    \/ stage[m][p] \in {"select", "handling"} /\ pos[m][p] <= o
    \/ stage[m][p] = "marking" /\ pos[m][p] < o

\* The evicted members that may still do so.
Strays(p, o) == {m \in Members \ group : Ahead(m, p, o)}

\* The group itself may still hand o to a handler: in the running session or
\* in the next one, as long as it loses no mark.
GroupAhead(p, o) ==
    \/ \E m \in group : /\ stage[m][p] # "none" /\ marked[m][p] <= o
                        /\ ~(stage[m][p] = "marking" /\ pos[m][p] = o)
    \/ committed[p] <= o /\ \A m \in group : stage[m][p] = "none"

\* What was handled and what may still be, without a further loss.
Budget(p, o) ==
    /\ IsFiniteSet(Strays(p, o))
    /\ times[p][o] + Cardinality(Strays(p, o)) + (IF GroupAhead(p, o) THEN 1 ELSE 0) <= 1 + losses

\* A consumer that was closed stays out of its loop.
QuietInv == \A m \in Members : close[m] = "closed" => mode[m] = "done"

RInv == MarkInv /\ QuietInv /\ \A p \in Partitions, o \in Offsets : Budget(p, o)

\* A new group has nothing handled, no stray and everything ahead of it.
LEMMA InitRInv == Init => RInv
  <1> SUFFICES ASSUME Init PROVE RInv
    OBVIOUS
  <1>1. MarkInv /\ QuietInv
    BY DEF Init, MarkInv, QuietInv
  <1>2. ASSUME NEW p \in Partitions, NEW o \in Offsets
        PROVE  Budget(p, o)
    <2>1. Strays(p, o) = {}
      BY DEF Init, Strays, Ahead
    <2>2. IsFiniteSet(Strays(p, o)) /\ Cardinality(Strays(p, o)) = 0
      BY <2>1, FS_EmptySet
    <2> QED
      BY <2>2 DEF Init, Budget
  <1> QED
    BY <1>1, <1>2 DEF RInv

\* The budget of a message is kept when nothing is handled, no stray is added
\* and the group gets a message back only at the price of a loss.
LEMMA BudgetKept ==
    ASSUME TypeOK, TypeOK', NEW p \in Partitions, NEW o \in Offsets, Budget(p, o),
           times'[p][o] = times[p][o], Strays(p, o)' \subseteq Strays(p, o),
           losses <= losses',
           GroupAhead(p, o)' => GroupAhead(p, o) \/ losses < losses'
    PROVE  Budget(p, o)'
  <1>1. /\ IsFiniteSet(Strays(p, o)') /\ Cardinality(Strays(p, o)') <= Cardinality(Strays(p, o))
    BY FS_Subset DEF Budget
  <1>2. Cardinality(Strays(p, o)') \in Nat /\ Cardinality(Strays(p, o)) \in Nat
    BY <1>1, FS_CardinalityType DEF Budget
  <1>3. times[p][o] \in Nat /\ losses \in Nat /\ losses' \in Nat
    BY ConsumerAssumption DEF TypeOK
  <1> QED
    BY <1>1, <1>2, <1>3 DEF Budget

\* Steps outside the claims that move only members without a claim in or out
\* of the group.
LEMMA QuietBudget ==
    ASSUME IInv, IInv', RInv, losses <= losses',
           UNCHANGED <<committed, stage, pos, marked, times>>,
           \A m \in Members, p \in Partitions : stage[m][p] # "none" => (m \in group <=> m \in group')
    PROVE  MarkInv' /\ \A p \in Partitions, o \in Offsets : Budget(p, o)'
  <1>1. MarkInv'
    BY DEF RInv, MarkInv
  <1>2. ASSUME NEW p \in Partitions, NEW o \in Offsets
        PROVE  Budget(p, o)'
    <2>1. Strays(p, o)' \subseteq Strays(p, o)
      BY DEF Strays, Ahead
    <2>2. GroupAhead(p, o)' => GroupAhead(p, o)
      <3>1. group \subseteq Members /\ group' \subseteq Members
        BY DEF IInv, TypeOK
      <3> QED
        BY <3>1 DEF GroupAhead
    <2> QED
      BY <2>1, <2>2, BudgetKept DEF IInv, RInv
  <1> QED
    BY <1>1, <1>2

\* The loop, the contexts, the group and the log.
LEMMA OuterRInv ==
    ASSUME IInv, IInv', RInv, NEW m \in Members,
           \/ Join(m) \/ LoopExit(m) \/ ConsumeError(m) \/ WaitOver(m) \/ Heartbeat(m)
           \/ BeginClose(m) \/ CloseReturns(m) \/ ExpireDead(m) \/ Restart(m)
           \/ Evict(m) /\ mode[m] # "session"
    PROVE  RInv'
  <1> USE DEF brokerVars, sessionVars, faultVars, Goto, Fault
  <1>1. losses' = losses /\ UNCHANGED <<committed, stage, pos, marked, times>>
    BY DEF Join, LoopExit, ConsumeError, WaitOver, Heartbeat, BeginClose, CloseReturns,
           ExpireDead, Restart, Evict
  <1>2. group' = group \/ group' = group \cup {m} \/ group' = group \ {m}
    BY DEF Join, LoopExit, ConsumeError, WaitOver, Heartbeat, BeginClose, CloseReturns,
           ExpireDead, Restart, Evict
  <1>3. group' # group => mode[m] # "session"
    BY DEF Join, LoopExit, ConsumeError, WaitOver, Heartbeat, BeginClose, CloseReturns,
           ExpireDead, Restart, Evict
  <1>4. \A n \in Members, p \in Partitions : stage[n][p] # "none" => (n \in group <=> n \in group')
    BY <1>2, <1>3 DEF IInv, SessionInv
  <1>5. losses <= losses'
    BY <1>1, ConsumerAssumption DEF IInv, TypeOK
  <1>6. QuietInv'
    BY DEF IInv, TypeOK, RInv, QuietInv, Join, LoopExit, ConsumeError, WaitOver, Heartbeat,
           BeginClose, CloseReturns, ExpireDead, Restart, Evict
  <1> QED
    BY <1>1, <1>4, <1>5, <1>6, QuietBudget DEF RInv

\* A new message changes no claim.
LEMMA AppendRInv ==
    ASSUME IInv, IInv', RInv, NEW p \in Partitions, Append(p)
    PROVE  RInv'
  <1> USE DEF brokerVars, sessionVars, faultVars, Append
  <1>1. losses <= losses'
    BY ConsumerAssumption DEF IInv, TypeOK
  <1>2. QuietInv'
    BY DEF RInv, QuietInv
  <1> QED
    BY <1>1, <1>2, QuietBudget DEF RInv

\* A new session starts from the committed offset, so the group has the same
\* messages ahead of it as before.
LEMMA RebalanceRInv ==
    ASSUME IInv, IInv', RInv, NEW owner \in [Partitions -> group], Rebalance(owner)
    PROVE  RInv'
  <1> USE ConsumerAssumption DEF faultVars, Rebalance
  <1>1. \A m \in group, p \in Partitions : m \in Members /\ stage[m][p] = "none"
    BY DEF IInv, TypeOK, SessionInv
  <1>2. MarkInv'
    BY DEF IInv, TypeOK, RInv, MarkInv, StartOffset
  <1>3. QuietInv'
    BY DEF IInv, TypeOK, RInv, QuietInv
  <1>4. ASSUME NEW p \in Partitions, NEW o \in Offsets
        PROVE  Budget(p, o)'
    <2>1. \A m \in Members \ group : /\ stage'[m][p] = stage[m][p] /\ pos'[m][p] = pos[m][p]
      OBVIOUS
    <2>2. Strays(p, o)' \subseteq Strays(p, o)
      BY <2>1 DEF Strays, Ahead
    <2>3. GroupAhead(p, o)' => GroupAhead(p, o)
      <3>1. owner[p] \in group /\ owner[p] \in Members /\ stage'[owner[p]][p] = "select"
        BY <1>1
      <3>2. \A m \in group : stage'[m][p] # "none" => marked'[m][p] = committed[p]
        BY <1>1
      <3> QED
        BY <1>1, <3>1, <3>2 DEF GroupAhead
    <2>4. losses <= losses'
      BY DEF IInv, TypeOK
    <2> QED
      BY <2>2, <2>3, <2>4, BudgetKept DEF IInv, RInv
  <1> QED
    BY <1>2, <1>3, <1>4 DEF RInv


\* A background commit matters to partitions with an owner only, and what the
\* owner has ahead of it is told by its marks.
LEMMA AutoCommitRInv ==
    ASSUME IInv, IInv', RInv, NEW m \in Members, AutoCommit(m)
    PROVE  RInv'
  <1> USE ConsumerAssumption DEF sessionVars, faultVars, AutoCommit
  <1>1. MarkInv' /\ QuietInv'
    BY DEF RInv, MarkInv, QuietInv
  <1>2. ASSUME NEW p \in Partitions, NEW o \in Offsets
        PROVE  Budget(p, o)'
    <2>1. Strays(p, o)' \subseteq Strays(p, o)
      BY DEF Strays, Ahead
    <2>2. stage[m][p] = "none" => committed'[p] = committed[p]
      BY DEF CommitMarks
    <2>3. GroupAhead(p, o)' => GroupAhead(p, o)
      BY <2>2 DEF GroupAhead
    <2>4. losses <= losses'
      BY DEF IInv, TypeOK
    <2> QED
      BY <2>1, <2>3, <2>4, BudgetKept DEF IInv, RInv
  <1> QED
    BY <1>1, <1>2 DEF RInv

\* A session that ends commits its marks, or a mark is lost.
LEMMA EndRInv ==
    ASSUME IInv, IInv', RInv, NEW m \in Members,
           EndSession(m) \/ EndSessionUncommitted(m) \/ Crash(m)
    PROVE  RInv'
  <1> USE ConsumerAssumption DEF faultVars, Goto, Fault, DropSession
  <1>1. /\ \A p \in Partitions : stage'[m][p] = "none"
        /\ \A n \in Members \ {m} : /\ stage'[n] = stage[n] /\ pos'[n] = pos[n]
                                    /\ marked'[n] = marked[n] /\ mode'[n] = mode[n]
        /\ UNCHANGED <<times, group, close>>
    BY DEF IInv, TypeOK, EndSession, EndSessionUncommitted, Crash, brokerVars
  <1>2. \/ EndSession(m) /\ losses' = losses
        \/ losses' = losses + 1 /\ UNCHANGED committed
    BY DEF EndSession, EndSessionUncommitted, Crash, brokerVars
  <1>3. MarkInv'
    BY <1>1 DEF RInv, MarkInv
  <1>4. QuietInv'
    BY <1>1 DEF RInv, QuietInv, EndSession, EndSessionUncommitted, Crash
  <1>5. ASSUME NEW p \in Partitions, NEW o \in Offsets
        PROVE  Budget(p, o)'
    <2>1. Strays(p, o)' \subseteq Strays(p, o)
      <3> SUFFICES ASSUME NEW n \in Members \ group, Ahead(n, p, o)'
                   PROVE  Ahead(n, p, o)
        BY <1>1 DEF Strays
      <3>1. n # m
        BY <1>1 DEF Ahead
      <3> QED
        BY <1>1, <3>1 DEF Ahead
    <2>2. losses \in Int
      BY DEF IInv, TypeOK
    <2>3. CASE losses' = losses + 1
      BY <1>1, <2>1, <2>2, <2>3, BudgetKept DEF IInv, RInv
    <2>4. CASE EndSession(m) /\ losses' = losses
      <3>1. GroupAhead(p, o)' => GroupAhead(p, o)
        <4> SUFFICES ASSUME GroupAhead(p, o)' PROVE GroupAhead(p, o)
          OBVIOUS
        <4>1. CASE \E n \in group : /\ stage'[n][p] # "none" /\ marked'[n][p] <= o
                                    /\ ~(stage'[n][p] = "marking" /\ pos'[n][p] = o)
          <5>1. PICK n \in group : /\ stage'[n][p] # "none" /\ marked'[n][p] <= o
                                   /\ ~(stage'[n][p] = "marking" /\ pos'[n][p] = o)
            BY <4>1
          <5>2. n \in Members \ {m}
            BY <1>1, <5>1 DEF IInv, TypeOK
          <5> QED
            BY <1>1, <5>1, <5>2 DEF GroupAhead
        <4>2. CASE committed'[p] <= o /\ \A n \in group : stage'[n][p] = "none"
          <5>1. \A n \in group : n # m => stage[n][p] = "none"
            BY <1>1, <4>2 DEF IInv, TypeOK
          <5>2. CASE m \in group /\ stage[m][p] # "none"
            <6>1. committed'[p] = marked[m][p] /\ stage[m][p] = "exited"
              BY <2>4, <5>2 DEF EndSession, CommitMarks
            <6> QED
              BY <4>2, <5>2, <6>1 DEF GroupAhead
          <5>3. CASE ~(m \in group /\ stage[m][p] # "none")
            <6>1. committed'[p] = committed[p]
              BY <2>4, <5>3 DEF EndSession, CommitMarks
            <6> QED
              BY <4>2, <5>1, <5>3, <6>1 DEF GroupAhead
          <5> QED
            BY <5>2, <5>3
        <4> QED
          BY <1>1, <4>1, <4>2 DEF GroupAhead
      <3> QED
        BY <1>1, <2>1, <2>2, <2>4, <3>1, BudgetKept DEF IInv, RInv
    <2> QED
      BY <1>2, <2>3, <2>4
  <1> QED
    BY <1>3, <1>4, <1>5 DEF RInv

\* An evicted session becomes a stray and the group starts again behind it: the
\* message is ahead of two, and one loss pays for the second.
LEMMA EvictRInv ==
    ASSUME IInv, IInv', RInv, NEW m \in Members, Evict(m)
    PROVE  RInv'
  <1> USE ConsumerAssumption DEF sessionVars, Evict, Fault
  <1>1. CASE mode[m] # "session"
    BY <1>1, OuterRInv
  <1>2. CASE mode[m] = "session"
    <2>1. MarkInv' /\ QuietInv'
      BY DEF RInv, MarkInv, QuietInv
    <2>2. ASSUME NEW p \in Partitions, NEW o \in Offsets
          PROVE  Budget(p, o)'
      <3>1. losses \in Nat /\ times[p][o] \in Nat /\ losses' = losses + 1 /\ times' = times
        BY <1>2 DEF IInv, TypeOK
      <3>2. Strays(p, o)' \subseteq Strays(p, o) \cup {m}
        BY DEF Strays, Ahead
      <3>3. CASE Ahead(m, p, o)
        <4>1. GroupAhead(p, o)
          <5>1. m \in group /\ stage[m][p] # "none" /\ marked[m][p] <= pos[m][p]
            BY <3>3 DEF RInv, MarkInv, Ahead
          <5>2. pos[m][p] \in Int /\ marked[m][p] \in Int /\ o \in Int
            BY DEF IInv, TypeOK, Offsets
          <5>3. marked[m][p] <= o /\ ~(stage[m][p] = "marking" /\ pos[m][p] = o)
            BY <3>3, <5>1, <5>2 DEF Ahead
          <5> QED
            BY <5>1, <5>3 DEF GroupAhead
        <4>2. /\ IsFiniteSet(Strays(p, o) \cup {m})
              /\ Cardinality(Strays(p, o) \cup {m}) <= Cardinality(Strays(p, o)) + 1
              /\ Cardinality(Strays(p, o)) \in Nat
          <5>1. IsFiniteSet(Strays(p, o))
            BY DEF RInv, Budget
          <5>2. Cardinality(Strays(p, o)) \in Nat
            BY <5>1, FS_CardinalityType
          <5>3. /\ IsFiniteSet(Strays(p, o) \cup {m})
                /\ Cardinality(Strays(p, o) \cup {m})
                     = IF m \in Strays(p, o) THEN Cardinality(Strays(p, o))
                       ELSE Cardinality(Strays(p, o)) + 1
            BY <5>1, FS_AddElement, Zenon
          <5> QED
            BY <5>2, <5>3
        <4>3. /\ IsFiniteSet(Strays(p, o)')
              /\ Cardinality(Strays(p, o)') <= Cardinality(Strays(p, o) \cup {m})
          BY <3>2, <4>2, FS_Subset
        <4>4. Cardinality(Strays(p, o)') \in Nat /\ Cardinality(Strays(p, o) \cup {m}) \in Nat
          BY <4>2, <4>3, FS_CardinalityType
        <4> QED
          BY <3>1, <4>1, <4>2, <4>3, <4>4 DEF RInv, Budget
      <3>4. CASE ~Ahead(m, p, o)
        <4>1. Strays(p, o)' \subseteq Strays(p, o)
          BY <3>4 DEF Strays, Ahead
        <4> QED
          BY <3>1, <4>1, BudgetKept DEF IInv, RInv
      <3> QED
        BY <3>3, <3>4
    <2> QED
      BY <2>1, <2>2 DEF RInv
  <1> QED
    BY <1>1, <1>2

\* A claim goes through its messages forward, and a success uses up what the
\* claim had ahead of it.
LEMMA ClaimRInv ==
    ASSUME IInv, IInv', RInv, NEW m \in Members, NEW p \in Partitions,
           ClaimStep(m, p) \/ HandlerFails(m, p)
    PROVE  RInv'
  <1> USE ConsumerAssumption
      DEF brokerVars, sessionVars, faultVars, Stage, Fault, ClaimStep
  <1>1. /\ stage[m][p] \in {"select", "handling", "marking"}
        /\ UNCHANGED <<committed, group, close, mode, losses>>
    BY DEF Deliver, HandlerSucceeds, Mark, ClaimReturns, HandlerFails
  <1>2. \A n \in Members, q \in Partitions : n # m \/ q # p =>
              /\ stage'[n][q] = stage[n][q] /\ pos'[n][q] = pos[n][q]
              /\ marked'[n][q] = marked[n][q]
    BY DEF IInv, TypeOK, Deliver, HandlerSucceeds, Mark, ClaimReturns, HandlerFails
  <1>3. pos[m][p] \in 0..Length /\ marked[m][p] \in -1..Length /\ marked[m][p] <= pos[m][p]
    BY <1>1 DEF IInv, TypeOK, RInv, MarkInv
  <1>4. /\ stage'[m][p] \in {"select", "handling", "marking", "exited"}
        /\ \/ stage[m][p] = "select" /\ stage'[m][p] \in {"handling", "marking", "exited"}
              /\ pos'[m][p] = pos[m][p] /\ marked'[m][p] = marked[m][p]
           \/ stage[m][p] = "handling" /\ stage'[m][p] \in {"marking", "exited"}
              /\ pos'[m][p] = pos[m][p] /\ marked'[m][p] = marked[m][p]
           \/ stage[m][p] = "marking" /\ stage'[m][p] = "select"
              /\ pos'[m][p] = pos[m][p] + 1 /\ marked'[m][p] = pos[m][p] + 1
    <2>1. CASE Deliver(m, p)
      BY <2>1 DEF IInv, TypeOK, Deliver
    <2>2. CASE HandlerSucceeds(m, p)
      BY <2>2 DEF IInv, TypeOK, HandlerSucceeds
    <2>3. CASE HandlerFails(m, p)
      BY <2>3 DEF IInv, TypeOK, HandlerFails
    <2>4. CASE Mark(m, p)
      BY <2>4, <1>3 DEF IInv, TypeOK, Mark
    <2>5. CASE ClaimReturns(m, p)
      BY <2>5 DEF IInv, TypeOK, ClaimReturns
    <2> QED
      BY <2>1, <2>2, <2>3, <2>4, <2>5
  <1>5. MarkInv'
    BY <1>1, <1>2, <1>3, <1>4 DEF RInv, MarkInv
  <1>6. QuietInv'
    BY <1>1 DEF RInv, QuietInv
  <1>7. \A n \in Members, q \in Partitions, o \in Offsets : Ahead(n, q, o)' => Ahead(n, q, o)
    BY <1>2, <1>3, <1>4 DEF Ahead, Offsets
  <1>8. \A q \in Partitions, o \in Offsets : Strays(q, o)' \subseteq Strays(q, o)
    BY <1>1, <1>7 DEF Strays
  <1>9. \A q \in Partitions, o \in Offsets : GroupAhead(q, o)' => GroupAhead(q, o)
    <2> SUFFICES ASSUME NEW q \in Partitions, NEW o \in Offsets, GroupAhead(q, o)'
                 PROVE  GroupAhead(q, o)
      OBVIOUS
    <2>1. \A n \in group : n \in Members
      BY DEF IInv, TypeOK
    <2>2. CASE \E n \in group : /\ stage'[n][q] # "none" /\ marked'[n][q] <= o
                                /\ ~(stage'[n][q] = "marking" /\ pos'[n][q] = o)
      <3>1. PICK n \in group : /\ stage'[n][q] # "none" /\ marked'[n][q] <= o
                               /\ ~(stage'[n][q] = "marking" /\ pos'[n][q] = o)
        BY <2>2
      <3>2. CASE n = m /\ q = p
        BY <1>1, <1>3, <1>4, <3>1, <3>2 DEF GroupAhead, Offsets
      <3>3. CASE n # m \/ q # p
        BY <1>2, <2>1, <3>1, <3>3 DEF GroupAhead
      <3> QED
        BY <3>2, <3>3
    <2>3. CASE committed[q] <= o /\ \A n \in group : stage'[n][q] = "none"
      BY <1>2, <1>4, <2>1, <2>3 DEF GroupAhead
    <2> QED
      BY <1>1, <2>2, <2>3 DEF GroupAhead
  <1>10. losses <= losses'
    BY <1>1 DEF IInv, TypeOK
  <1>11. ASSUME NEW q \in Partitions, NEW o \in Offsets
         PROVE  Budget(q, o)'
    <2>1. CASE times'[q][o] = times[q][o]
      BY <1>8, <1>9, <1>10, <2>1, BudgetKept DEF IInv, RInv
    <2>2. CASE times'[q][o] # times[q][o]
      <3>1. /\ HandlerSucceeds(m, p) /\ q = p /\ o = pos[m][p]
            /\ times'[q][o] = times[q][o] + 1
        BY <2>2 DEF IInv, TypeOK, Deliver, HandlerSucceeds, Mark, ClaimReturns, HandlerFails
      <3>2. stage[m][p] = "handling" /\ stage'[m][p] = "marking" /\ pos'[m][p] = o
        BY <3>1 DEF HandlerSucceeds, IInv, TypeOK
      <3>3. /\ losses' = losses /\ losses \in Nat /\ times[q][o] \in Nat
            /\ IsFiniteSet(Strays(q, o)) /\ Cardinality(Strays(q, o)) \in Nat
        BY <1>1, FS_CardinalityType DEF IInv, TypeOK, RInv, Budget
      <3>4. CASE m \in group
        <4>1. GroupAhead(q, o)
          BY <1>3, <3>1, <3>2, <3>4 DEF GroupAhead
        <4>2. ~GroupAhead(q, o)'
          <5>1. \A n \in group : stage'[n][q] # "none" => n = m
            BY <1>1, <3>1, <3>2, <3>4 DEF IInv, OwnerInv
          <5> QED
            BY <1>1, <3>1, <3>2, <3>4, <5>1 DEF GroupAhead
        <4>3. /\ IsFiniteSet(Strays(q, o)')
              /\ Cardinality(Strays(q, o)') <= Cardinality(Strays(q, o))
              /\ Cardinality(Strays(q, o)') \in Nat
          BY <1>8, <3>3, FS_Subset, FS_CardinalityType
        <4> QED
          BY <3>1, <3>3, <4>1, <4>2, <4>3 DEF RInv, Budget
      <3>5. CASE m \notin group
        <4>1. m \in Strays(q, o) /\ m \notin Strays(q, o)'
          BY <3>1, <3>2, <3>5, <1>3 DEF Strays, Ahead
        <4>2. /\ IsFiniteSet(Strays(q, o) \ {m})
              /\ Cardinality(Strays(q, o) \ {m}) = Cardinality(Strays(q, o)) - 1
          BY <3>3, <4>1, FS_RemoveElement
        <4>3. Strays(q, o)' \subseteq Strays(q, o) \ {m}
          BY <1>8, <4>1
        <4>4. /\ IsFiniteSet(Strays(q, o)')
              /\ Cardinality(Strays(q, o)') <= Cardinality(Strays(q, o) \ {m})
          BY <4>2, <4>3, FS_Subset
        <4>5. Cardinality(Strays(q, o)') \in Nat
          BY <4>4, FS_CardinalityType
        <4> QED
          BY <1>9, <3>1, <3>3, <4>2, <4>4, <4>5 DEF RInv, Budget
      <3> QED
        BY <3>4, <3>5
    <2> QED
      BY <2>1, <2>2
  <1> QED
    BY <1>5, <1>6, <1>11 DEF RInv

\* Every step keeps the budgets.
LEMMA NextRInv == IInv /\ IInv' /\ RInv /\ [Next]_vars => RInv'
  <1> SUFFICES ASSUME IInv, IInv', RInv, [Next]_vars PROVE RInv'
    OBVIOUS
  <1>1. CASE \E p \in Partitions : Append(p)
    BY <1>1, AppendRInv
  <1>2. CASE CoordinatorStep
    BY <1>2, RebalanceRInv, OuterRInv DEF CoordinatorStep
  <1>3. CASE \E m \in Members : LoopStep(m)
    BY <1>3, OuterRInv, EndRInv DEF LoopStep
  <1>4. CASE \E m \in Members : Heartbeat(m) \/ BeginClose(m) \/ Restart(m)
    BY <1>4, OuterRInv
  <1>5. CASE \E m \in Members : AutoCommit(m)
    BY <1>5, AutoCommitRInv
  <1>6. CASE \E m \in Members : FaultStep(m)
    BY <1>6, OuterRInv, EndRInv, EvictRInv, ClaimRInv DEF FaultStep
  <1>7. CASE \E m \in Members, p \in Partitions : ClaimStep(m, p)
    BY <1>7, ClaimRInv
  <1>8. CASE UNCHANGED vars
    <2>1. losses <= losses' /\ QuietInv'
      BY <1>8, ConsumerAssumption DEF IInv, TypeOK, RInv, QuietInv, vars, faultVars
    <2> QED
      BY <1>8, <2>1, QuietBudget DEF RInv, vars, brokerVars, sessionVars
  <1> QED
    BY <1>1, <1>2, <1>3, <1>4, <1>5, <1>6, <1>7, <1>8 DEF Next

\* The budgets hold in every behaviour.
THEOREM BudgetsKept == Spec => []RInv
  BY InitRInv, NextRInv, Invariance, PTL DEF Spec

\* Every redelivery is paid for by a crash, an eviction or a failed commit, with
\* or without committed offsets and however sessions overlap (kafka.go:331-400).
THEOREM RedeliveryIsPaidFor == Spec => []RedeliveryNeedsLoss
  <1>1. IInv /\ RInv => RedeliveryNeedsLoss
    <2> SUFFICES ASSUME IInv, RInv, NEW p \in Partitions, NEW o \in Offsets
                 PROVE  times[p][o] <= 1 + losses
      BY DEF RedeliveryNeedsLoss
    <2>1. Cardinality(Strays(p, o)) \in Nat
      BY FS_CardinalityType DEF RInv, Budget
    <2>2. times[p][o] \in Nat /\ losses \in Int
      BY ConsumerAssumption DEF IInv, TypeOK
    <2> QED
      BY <2>1, <2>2 DEF RInv, Budget
  <1> QED
    BY <1>1, Invariance, BudgetsKept, PTL

\* When Close has returned the consumer is quiet; when all have, and no mark was
\* lost, all that was handled is committed (kafka.go:290-307).
THEOREM CloseIsQuiet == Spec => []ClosedIsQuiet
  <1>1. IInv /\ RInv => ClosedIsQuiet
    <2> SUFFICES ASSUME IInv, RInv PROVE ClosedIsQuiet
      OBVIOUS
    <2>1. \A m \in Members : close[m] = "closed" =>
            mode[m] = "done" /\ \A p \in Partitions : stage[m][p] = "none"
      BY DEF IInv, SessionInv, RInv, QuietInv
    <2>2. ASSUME losses = 0, \A m \in Members : close[m] = "closed",
                 NEW p \in Partitions, NEW o \in Offsets, times[p][o] > 0
          PROVE  o < committed[p]
      <3>1. Cardinality(Strays(p, o)) \in Nat
        BY FS_CardinalityType DEF RInv, Budget
      <3>2. times[p][o] \in Nat /\ committed[p] \in Int /\ o \in Int
        BY ConsumerAssumption DEF IInv, TypeOK, Offsets
      <3>3. ~GroupAhead(p, o)
        BY <2>2, <3>1, <3>2 DEF RInv, Budget
      <3>4. \A m \in group : stage[m][p] = "none"
        BY <2>1, <2>2 DEF IInv, TypeOK
      <3> QED
        BY <3>2, <3>3, <3>4 DEF GroupAhead
    <2> QED
      BY <2>1, <2>2 DEF ClosedIsQuiet
  <1> QED
    BY <1>1, Invariance, BudgetsKept, PTL

=============================================================================
