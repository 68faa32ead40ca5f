---------------------------- MODULE MCEngineUpdate ----------------------------
(* Small instances of EngineUpdate. *)
EXTENDS EngineUpdate
=============================================================================
