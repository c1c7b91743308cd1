---------------------------- MODULE KafkaConsumer ----------------------------
(***************************************************************************)
(* The consumer of src/sdk/transport/queue/kafka/kafka.go.  A member is    *)
(* one process with a Consumer on which one topic is registered: its       *)
(* consume loop, one ConsumeClaim goroutine for each claimed partition,    *)
(* and Close.  Several members form the consumer group.                    *)
(*                                                                         *)
(* Sarama and the broker are external and modelled from the way the code   *)
(* uses them: Consume joins the group, runs a session and returns when     *)
(* every claim has returned; a claim that returns cancels the session;     *)
(* marks are committed in the background and when the session ends; the    *)
(* broker refuses commits of a member it has put out of the group.         *)
(* consumerConfig leaves Offsets.Initial at its default (the newest        *)
(* offset), so a partition with no committed offset starts at the end of   *)
(* its log.                                                                *)
(*                                                                         *)
(* exec.Do is one step: it returns nil only if the handler did (see        *)
(* PolicyExecutor), and an error of the handler, of the limiter or of the  *)
(* breaker alike ends the claim.                                           *)
(***************************************************************************)
EXTENDS Integers, FiniteSets

CONSTANTS
    Members,     \* processes of the consumer group
    Partitions,
    Length,      \* bound on the messages of a partition
    Bad,         \* malformed messages, pairs <<partition, offset>>
    Established, \* the group has a committed offset for every partition
    MaxFaults    \* bound on the number of failures of any kind

ASSUME ConsumerAssumption ==
    /\ Length \in Nat
    /\ Bad \subseteq Partitions \X (0..(Length - 1))
    /\ Established \in BOOLEAN
    /\ MaxFaults \in Nat

VARIABLES
    (* The broker. *)
    end,         \* end[p]: number of messages in the log of p
    committed,   \* committed[p]: the group's offset; -1: there is none
    group,       \* members the coordinator knows
    rebalancing, \* the coordinator waits for every member to join again

    (* The processes. *)
    mode,        \* mode[m]: where the consume loop is; "dead": crashed
    close,       \* close[m]: "open", "closing" (c.stop() called), "closed"
    cancelled,   \* cancelled[m]: the context of m's session is cancelled
    stage,       \* stage[m][p]: where the claim of p is; "none": no claim
    pos,         \* pos[m][p]: offset of the message the claim is at
    marked,      \* marked[m][p]: offset the session would commit

    (* History: no part of the program. *)
    times,       \* times[p][o]: how often a handler processed the message
    failed,      \* messages whose handler failed once or more
    faults,      \* failures so far
    losses       \* those among them that can lose a mark

brokerVars == <<committed, group, rebalancing>>
sessionVars == <<cancelled, stage, pos, marked>>
faultVars == <<faults, losses, failed>>
vars == <<end, brokerVars, mode, close, sessionVars, times, faultVars>>

Offsets == 0..(Length - 1)
Decodable(p, o) == <<p, o>> \notin Bad

Init ==
    /\ end = [p \in Partitions |-> 0]
    /\ committed = [p \in Partitions |-> IF Established THEN 0 ELSE -1]
    /\ group = {}
    /\ rebalancing = FALSE
    /\ mode = [m \in Members |-> "loop"]
    /\ close = [m \in Members |-> "open"]
    /\ cancelled = [m \in Members |-> FALSE]
    /\ stage = [m \in Members |-> [p \in Partitions |-> "none"]]
    /\ pos = [m \in Members |-> [p \in Partitions |-> 0]]
    /\ marked = [m \in Members |-> [p \in Partitions |-> 0]]
    /\ times = [p \in Partitions |-> [o \in Offsets |-> 0]]
    /\ failed = {}
    /\ faults = 0
    /\ losses = 0

Goto(m, label) == mode' = [mode EXCEPT ![m] = label]
Stage(m, p, label) == stage' = [stage EXCEPT ![m][p] = label]
Fault == faults < MaxFaults /\ faults' = faults + 1

\* Somebody publishes a message to p.
Append(p) ==
    /\ end[p] < Length
    /\ end' = [end EXCEPT ![p] = @ + 1]
    /\ UNCHANGED <<brokerVars, mode, close, sessionVars, times, faultVars>>

-----------------------------------------------------------------------------
(* The consume loop.                                                       *)

\* The context is not done and group.Consume asks the coordinator to join.
Join(m) ==
    /\ mode[m] = "loop"
    /\ close[m] = "open"
    /\ Goto(m, "join")
    /\ group' = group \cup {m}
    /\ rebalancing' = TRUE
    /\ UNCHANGED <<end, committed, close, sessionVars, times, faultVars>>

\* The loop sees that the context is done: at its head, when Consume returns
\* an error, or in the pause after one.
LoopExit(m) ==
    /\ mode[m] \in {"loop", "join", "wait"}
    /\ close[m] = "closing"
    /\ Goto(m, "done")
    /\ UNCHANGED <<end, brokerVars, close, sessionVars, times, faultVars>>

\* Consume fails before it has a session.
ConsumeError(m) ==
    /\ mode[m] = "loop"
    /\ close[m] = "open"
    /\ Fault
    /\ Goto(m, "wait")
    /\ UNCHANGED <<end, brokerVars, close, sessionVars, times, losses, failed>>

\* The pause of one second is over.
WaitOver(m) ==
    /\ mode[m] = "wait"
    /\ Goto(m, "loop")
    /\ UNCHANGED <<end, brokerVars, close, sessionVars, times, faultVars>>

\* What a session starts from: the committed offset, or the newest one.
StartOffset(p) == IF committed[p] >= 0 THEN committed[p] ELSE end[p]

\* Every known member has joined: the coordinator gives each partition to one
\* of them and their sessions begin.
Rebalance(owner) ==
    /\ rebalancing
    /\ group # {}
    /\ \A m \in group : mode[m] = "join"
    /\ rebalancing' = FALSE
    /\ mode' = [m \in Members |-> IF m \in group THEN "session" ELSE mode[m]]
    /\ stage' = [m \in Members |-> [p \in Partitions |->
                   IF owner[p] = m THEN "select" ELSE stage[m][p]]]
    /\ pos' = [m \in Members |-> [p \in Partitions |->
                   IF owner[p] = m THEN StartOffset(p) ELSE pos[m][p]]]
    /\ marked' = [m \in Members |-> [p \in Partitions |->
                   IF owner[p] = m THEN committed[p] ELSE marked[m][p]]]
    /\ UNCHANGED <<end, committed, group, close, cancelled, times, faultVars>>

\* The heartbeat tells the session that a rebalance is due or that the member
\* is no longer known.
Heartbeat(m) ==
    /\ mode[m] = "session"
    /\ ~cancelled[m]
    /\ rebalancing \/ m \notin group
    /\ cancelled' = [cancelled EXCEPT ![m] = TRUE]
    /\ UNCHANGED <<end, brokerVars, mode, close, stage, pos, marked, times, faultVars>>

\* The session's context descends from the consumer's.
SessionDone(m) == cancelled[m] \/ close[m] = "closing"

CommitMarks(m) ==
    committed' = [p \in Partitions |->
                    IF stage[m][p] # "none" THEN marked[m][p] ELSE committed[p]]

\* The background commit of the marks.
AutoCommit(m) ==
    /\ mode[m] = "session"
    /\ m \in group
    /\ CommitMarks(m)
    /\ UNCHANGED <<end, group, rebalancing, mode, close, sessionVars, times, faultVars>>

\* The session and its offset manager are gone.
DropSession(m) ==
    /\ cancelled' = [cancelled EXCEPT ![m] = FALSE]
    /\ stage' = [stage EXCEPT ![m] = [p \in Partitions |-> "none"]]
    /\ pos' = [pos EXCEPT ![m] = [p \in Partitions |-> 0]]
    /\ marked' = [marked EXCEPT ![m] = [p \in Partitions |-> 0]]

\* Mutant: the loop ends when a session ends.
EndSessionLeavesLoop(m) ==
    /\ mode[m] = "session"
    /\ SessionDone(m)
    /\ \A p \in Partitions : stage[m][p] \in {"none", "exited"}
    /\ IF m \in group THEN CommitMarks(m) ELSE UNCHANGED committed
    /\ DropSession(m)
    /\ Goto(m, "done")
    /\ UNCHANGED <<end, group, rebalancing, close, times, faultVars>>

\* All claims have returned: the last marks are committed and Consume returns
\* nil, whatever the claims returned.
EndSession(m) ==
    /\ mode[m] = "session"
    /\ SessionDone(m)
    /\ \A p \in Partitions : stage[m][p] \in {"none", "exited"}
    /\ IF m \in group THEN CommitMarks(m) ELSE UNCHANGED committed
    /\ DropSession(m)
    /\ Goto(m, "loop")
    /\ UNCHANGED <<end, group, rebalancing, close, times, faultVars>>

\* As EndSession, but the last commit does not reach the broker.
EndSessionUncommitted(m) ==
    /\ mode[m] = "session"
    /\ SessionDone(m)
    /\ \A p \in Partitions : stage[m][p] \in {"none", "exited"}
    /\ Fault
    /\ losses' = losses + 1
    /\ DropSession(m)
    /\ Goto(m, "loop")
    /\ UNCHANGED <<end, brokerVars, close, times, failed>>

-----------------------------------------------------------------------------
(* ConsumeClaim and consumeMessage.                                        *)

\* A message arrives and its envelope is decoded, or is malformed.
Deliver(m, p) ==
    /\ stage[m][p] = "select"
    /\ pos[m][p] < end[p]
    /\ Stage(m, p, IF Decodable(p, pos[m][p]) THEN "handling" ELSE "marking")
    /\ UNCHANGED <<end, brokerVars, mode, close, cancelled, pos, marked, times, faultVars>>

\* exec.Do returns nil.
HandlerSucceeds(m, p) ==
    /\ stage[m][p] = "handling"
    /\ times' = [times EXCEPT ![p][pos[m][p]] = @ + 1]
    /\ Stage(m, p, "marking")
    /\ UNCHANGED <<end, brokerVars, mode, close, cancelled, pos, marked, faultVars>>

\* Mutant: the error is logged and the claim goes on with the next message.
HandlerFailsGoesOn(m, p) ==
    /\ stage[m][p] = "handling"
    /\ Fault
    /\ failed' = failed \cup {<<p, pos[m][p]>>}
    /\ Stage(m, p, "select")
    /\ pos' = [pos EXCEPT ![m][p] = @ + 1]
    /\ UNCHANGED <<end, brokerVars, mode, close, cancelled, marked, times, losses>>

\* Mutant: the message of a failed handler is marked, as in the code before the
\* fix that docs/superpowers/specs/2026-08-26-kafka-commit-design.md describes.
HandlerFailsMarks(m, p) ==
    /\ stage[m][p] = "handling"
    /\ Fault
    /\ failed' = failed \cup {<<p, pos[m][p]>>}
    /\ Stage(m, p, "marking")
    /\ UNCHANGED <<end, brokerVars, mode, close, cancelled, pos, marked, times, losses>>

\* exec.Do returns an error: no mark, ConsumeClaim returns and the session is
\* cancelled.
HandlerFails(m, p) ==
    /\ stage[m][p] = "handling"
    /\ Fault
    /\ failed' = failed \cup {<<p, pos[m][p]>>}
    /\ Stage(m, p, "exited")
    /\ cancelled' = [cancelled EXCEPT ![m] = TRUE]
    /\ UNCHANGED <<end, brokerVars, mode, close, pos, marked, times, losses>>

\* Mutant: the offset of the message is recorded, not the one after it.
MarkOffByOne(m, p) ==
    /\ stage[m][p] = "marking"
    /\ marked' = [marked EXCEPT ![m][p] = IF @ < pos[m][p] THEN pos[m][p] ELSE @]
    /\ pos' = [pos EXCEPT ![m][p] = @ + 1]
    /\ Stage(m, p, "select")
    /\ UNCHANGED <<end, brokerVars, mode, close, cancelled, times, faultVars>>

\* Mutant: the mark is moved twice for one message.
MarkTwice(m, p) ==
    /\ stage[m][p] = "marking"
    /\ marked' = [marked EXCEPT ![m][p] = pos[m][p] + 2]
    /\ pos' = [pos EXCEPT ![m][p] = @ + 1]
    /\ Stage(m, p, "select")
    /\ UNCHANGED <<end, brokerVars, mode, close, cancelled, times, faultVars>>

\* sess.MarkMessage moves the mark forward only; the claim takes the next
\* message.
Mark(m, p) ==
    /\ stage[m][p] = "marking"
    /\ marked' = [marked EXCEPT ![m][p] = IF @ < pos[m][p] + 1 THEN pos[m][p] + 1 ELSE @]
    /\ pos' = [pos EXCEPT ![m][p] = @ + 1]
    /\ Stage(m, p, "select")
    /\ UNCHANGED <<end, brokerVars, mode, close, cancelled, times, faultVars>>

\* Mutant: the claim listens only to the session that a heartbeat cancels.
ClaimReturnsOnHeartbeat(m, p) ==
    /\ stage[m][p] = "select"
    /\ cancelled[m]
    /\ Stage(m, p, "exited")
    /\ UNCHANGED <<end, brokerVars, mode, close, cancelled, pos, marked, times, faultVars>>

\* A context is done or the message channel is closed.
ClaimReturns(m, p) ==
    /\ stage[m][p] = "select"
    /\ SessionDone(m)
    /\ Stage(m, p, "exited")
    /\ cancelled' = [cancelled EXCEPT ![m] = TRUE]
    /\ UNCHANGED <<end, brokerVars, mode, close, pos, marked, times, faultVars>>

-----------------------------------------------------------------------------
(* Close, crashes and the coordinator's timeouts.                          *)

BeginClose(m) ==
    /\ close[m] = "open"
    /\ mode[m] # "dead"
    /\ close' = [close EXCEPT ![m] = "closing"]
    /\ UNCHANGED <<end, brokerVars, mode, sessionVars, times, faultVars>>

\* Mutant: Close leaves the group without waiting for Consume to return.
CloseReturnsEarly(m) ==
    /\ close[m] = "closing"
    /\ mode[m] # "dead"
    /\ close' = [close EXCEPT ![m] = "closed"]
    /\ group' = group \ {m}
    /\ rebalancing' = TRUE
    /\ UNCHANGED <<end, committed, mode, sessionVars, times, faultVars>>

\* group.Close leaves the group once Consume has returned, and wg.Wait returns
\* once the loop has.
CloseReturns(m) ==
    /\ close[m] = "closing"
    /\ mode[m] = "done"
    /\ close' = [close EXCEPT ![m] = "closed"]
    /\ group' = group \ {m}
    /\ rebalancing' = TRUE
    /\ UNCHANGED <<end, committed, mode, sessionVars, times, faultVars>>

\* The process dies: its session and its marks are gone, and the coordinator
\* has not noticed yet.
Crash(m) ==
    /\ mode[m] # "dead"
    /\ close[m] # "closed"
    /\ Fault
    /\ losses' = losses + 1
    /\ Goto(m, "dead")
    /\ DropSession(m)
    /\ UNCHANGED <<end, brokerVars, close, times, failed>>

\* A live member misses the session or rebalance timeout (a slow handler, a
\* pause): it is put out of the group and runs on without knowing.
Evict(m) ==
    /\ m \in group
    /\ mode[m] \notin {"join", "dead"}
    /\ Fault
    /\ losses' = IF mode[m] = "session" THEN losses + 1 ELSE losses
    /\ group' = group \ {m}
    /\ rebalancing' = TRUE
    /\ UNCHANGED <<end, committed, mode, close, sessionVars, times, failed>>

\* The coordinator notices a crash.
ExpireDead(m) ==
    /\ m \in group
    /\ mode[m] = "dead"
    /\ group' = group \ {m}
    /\ rebalancing' = TRUE
    /\ UNCHANGED <<end, committed, mode, close, sessionVars, times, faultVars>>

\* The process starts again, under a member id of its own: the old one has
\* expired.
Restart(m) ==
    /\ mode[m] = "dead"
    /\ m \notin group
    /\ Goto(m, "loop")
    /\ close' = [close EXCEPT ![m] = "open"]
    /\ UNCHANGED <<end, brokerVars, sessionVars, times, faultVars>>

-----------------------------------------------------------------------------
LoopStep(m) ==
    \/ Join(m) \/ LoopExit(m) \/ WaitOver(m)
    \/ EndSession(m) \/ CloseReturns(m)

ClaimStep(m, p) ==
    \/ Deliver(m, p) \/ HandlerSucceeds(m, p) \/ Mark(m, p) \/ ClaimReturns(m, p)

CoordinatorStep ==
    \/ \E owner \in [Partitions -> group] : Rebalance(owner)
    \/ \E m \in Members : ExpireDead(m)

FaultStep(m) ==
    \/ ConsumeError(m) \/ EndSessionUncommitted(m) \/ Crash(m) \/ Evict(m)
    \/ \E p \in Partitions : HandlerFails(m, p)

Next ==
    \/ \E p \in Partitions : Append(p)
    \/ CoordinatorStep
    \/ \E m \in Members :
         \/ LoopStep(m) \/ Heartbeat(m) \/ AutoCommit(m)
         \/ BeginClose(m) \/ Restart(m) \/ FaultStep(m)
         \/ \E p \in Partitions : ClaimStep(m, p)

Spec == Init /\ [][Next]_vars

\* The goroutines run, handlers return, a crashed process is started again,
\* and the broker goes on serving the group.  Failures, Close and new messages
\* are never owed.
Fairness ==
    /\ WF_vars(CoordinatorStep)
    /\ \A m \in Members :
         /\ WF_vars(LoopStep(m))
         /\ WF_vars(Heartbeat(m))
         /\ WF_vars(AutoCommit(m))
         /\ WF_vars(Restart(m))
         /\ \A p \in Partitions : WF_vars(ClaimStep(m, p))

FairSpec == Spec /\ Fairness

-----------------------------------------------------------------------------
(* Properties.                                                             *)

Active == {"select", "handling", "marking", "exited"}

\* Type correctness.  The mark of a claim never passes the messages it took.
TypeOK ==
    /\ end \in [Partitions -> 0..Length]
    /\ committed \in [Partitions -> -1..Length]
    /\ group \subseteq Members
    /\ rebalancing \in BOOLEAN
    /\ mode \in [Members -> {"loop", "join", "session", "wait", "done", "dead"}]
    /\ close \in [Members -> {"open", "closing", "closed"}]
    /\ cancelled \in [Members -> BOOLEAN]
    /\ stage \in [Members -> [Partitions -> Active \cup {"none"}]]
    /\ pos \in [Members -> [Partitions -> 0..Length]]
    /\ marked \in [Members -> [Partitions -> -1..Length]]
    /\ times \in [Partitions -> [Offsets -> Nat]]
    /\ failed \subseteq Partitions \X Offsets
    /\ faults \in 0..MaxFaults
    /\ losses \in 0..faults

\* The messages of p before offset n are handled or malformed.
Settled(p, n) == \A o \in 0..(n - 1) : Decodable(p, o) => times[p][o] > 0

\* No message is lost: the group's offset passes a decodable message only after
\* a handler processed it, through handler errors, rebalances, evictions,
\* crashes and failed commits.  The design note on commits promises this
\* (docs/superpowers/specs/2026-08-26-kafka-commit-design.md:9) and
\* kafka.go:385-400 is there for it.
NothingLost == \A p \in Partitions : Settled(p, committed[p])

\* What the design note on commits says of a failed handler: the message is not
\* marked and the next session can receive it again
\* (docs/superpowers/specs/2026-08-26-kafka-commit-design.md:21).
FailedIsRedelivered ==
    \A p \in Partitions, o \in Offsets :
        (<<p, o>> \in failed /\ times[p][o] = 0) =>
            \A m \in Members : stage[m][p] # "none" => pos[m][p] <= o

\* A message is handled again only because a mark was lost: without a crash, an
\* eviction or a failed commit every message is handled at most once, although
\* sessions end under running handlers (kafka.go:331-347, 400).
RedeliveryNeedsLoss == \A p \in Partitions, o \in Offsets : times[p][o] <= 1 + losses

\* When Close has returned the loop has ended, no claim of the consumer runs a
\* handler, and unless a mark was lost all that was handled while no session is
\* left is committed (kafka.go:290-307).
ClosedIsQuiet ==
    /\ \A m \in Members : close[m] = "closed" =>
         mode[m] = "done" /\ \A p \in Partitions : stage[m][p] = "none"
    /\ (losses = 0 /\ \A m \in Members : close[m] = "closed") =>
         \A p \in Partitions, o \in Offsets : times[p][o] > 0 => o < committed[p]

\* The consumer group implements at-least-once delivery in order, with an
\* offset that never goes back even when an evicted member commits late.
Delivery == INSTANCE AtLeastOnce WITH
    handled <- {x \in Partitions \X Offsets : times[x[1]][x[2]] > 0}
ImplementsDelivery == Delivery!Spec

\* While a member stays, every message is committed in the end: the loop comes
\* back after every session and every error (kafka.go:260-277).
EverythingCommitted ==
    \/ <>[](\A m \in Members : close[m] # "open")
    \/ \A p \in Partitions : []<>(committed[p] = end[p])

\* Close returns, whatever the loop and the claims are doing (kafka.go:305).
CloseTerminates == \A m \in Members : close[m] = "closing" ~> close[m] # "closing"
=============================================================================
