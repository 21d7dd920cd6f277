---------------------------- MODULE MCHttpMetrics ----------------------------
(* Instances of HttpMetrics for TLC. *)
EXTENDS HttpMetrics, TLC

RequestSymmetry == Permutations(Requests)
=============================================================================
