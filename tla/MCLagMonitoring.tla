--------------------------- MODULE MCLagMonitoring ---------------------------
(* Instances of LagMonitoring for TLC. *)
EXTENDS LagMonitoring

\* The last two SLOs of slo.yml; the second may have no result or be breached.
MCSlos ==
    << [name |-> "pipeline_freshness", objective |-> Threshold, direction |-> "less_or_equal"],
       [name |-> "cassandra_durability", objective |-> 0, direction |-> "less_or_equal"] >>
NoSlosToCheck == << >>
MCAnswers == {NoData, 1}
=============================================================================
