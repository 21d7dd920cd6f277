---------------------------- MODULE MCLagExporter ----------------------------
(* Instance of LagExporter for TLC. *)
EXTENDS LagExporter
=============================================================================
