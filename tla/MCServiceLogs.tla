---------------------------- MODULE MCServiceLogs ----------------------------
(* Small instances of ServiceLogs. *)
EXTENDS ServiceLogs
=============================================================================
