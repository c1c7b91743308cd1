--------------------------- MODULE MCKafkaConsumer ---------------------------
(* Small instances of KafkaConsumer.                                         *)
EXTENDS KafkaConsumer

CONSTANT p1

\* The second message of partition p1 is malformed.
SecondBad == {<<p1, 1>>}
NoneBad == {}
=============================================================================
