---------------------------- MODULE MCPm2Snapshot ----------------------------
(* Small instances of Pm2Snapshot. *)
EXTENDS Pm2Snapshot
=============================================================================
