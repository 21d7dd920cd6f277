--------------------------- MODULE MCServiceLevels ---------------------------
(* Instances of ServiceLevels for TLC. *)
EXTENDS ServiceLevels, TLC

RequestSymmetry == Permutations(Requests)
=============================================================================
