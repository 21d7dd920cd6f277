-------------------------- MODULE MCEventPublisher --------------------------
(* Instances of EventPublisher for TLC. *)
EXTENDS EventPublisher

\* A bulk of two events of one product, single events, and a health check.
MCBody == [r \in Requests |->
             CASE r = "bulk" -> <<"a", "b">>
               [] r = "odd" -> <<"a", "x">>
               [] r = "one" -> <<"a">>
               [] r = "bad" -> <<"x">>
               [] r = "health" -> << >>]
MCPartitionOf == [e \in Events |-> IF e = "b" THEN 1 ELSE 0]
OnePartition == [e \in Events |-> 0]
MCVersionOf == [e \in Events |-> 2]
=============================================================================
