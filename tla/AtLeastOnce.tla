----------------------------- MODULE AtLeastOnce -----------------------------
(***************************************************************************)
(* What a consumer group of src/sdk/transport/queue/kafka/kafka.go         *)
(* promises: each partition is a log; messages are handled in order, a     *)
(* malformed one is passed over, any message may be handled again, and the *)
(* committed offset only grows and never passes a message that was not     *)
(* handled.                                                                *)
(***************************************************************************)
EXTENDS Integers

CONSTANTS
    Partitions,
    Length,     \* bound on the length of a log
    Bad         \* malformed messages, pairs <<partition, offset>>

VARIABLES
    committed,  \* committed[p]: offset of the first message not committed
    handled     \* messages a handler has processed

vars == <<committed, handled>>

\* Every message of partition p before offset n needs no more handling.
Settled(p, n) == \A o \in 0..(n - 1) : <<p, o>> \in handled \cup Bad

Init ==
    /\ committed = [p \in Partitions |-> 0]
    /\ handled = {}

Handle(p, o) ==
    /\ Settled(p, o)
    /\ handled' = handled \cup {<<p, o>>}
    /\ UNCHANGED committed

Commit ==
    /\ committed' \in [Partitions -> 0..Length]
    /\ \A p \in Partitions :
         committed[p] <= committed'[p] /\ Settled(p, committed'[p])
    /\ UNCHANGED handled

Next ==
    \/ \E p \in Partitions, o \in 0..(Length - 1) : Handle(p, o)
    \/ Commit

Spec == Init /\ [][Next]_vars
=============================================================================
