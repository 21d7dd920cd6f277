------------------------ MODULE MCSchemaRegistration ------------------------
(* Instances of SchemaRegistration for TLC. *)
EXTENDS SchemaRegistration
=============================================================================
