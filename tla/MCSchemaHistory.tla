-------------------------- MODULE MCSchemaHistory --------------------------
(* SchemaHistory for model checking. *)
EXTENDS SchemaHistory
=============================================================================
