-------------------------- MODULE MCConsumerRunner --------------------------
(* Instances of ConsumerRunner for TLC. *)
EXTENDS ConsumerRunner

CONSTANTS p1, p2, e1, bad

TwoPartitions == {p1, p2}
OnePartition == {p1}
MCEvents == {e1, bad}
MCBad == {bad}
MCOneSchema == {"v2"}
MCSchemaOf == [e \in EventIds |-> "v2"]
MCLogs == [p \in Partitions |-> IF p = p1 THEN 2 ELSE 1]
NoneLate == [s \in Slots |-> 0]
OneLate == [s \in Slots |-> IF s = <<p1, 0>> THEN 1 ELSE 0]
=============================================================================
