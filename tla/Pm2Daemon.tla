------------------------------ MODULE Pm2Daemon ------------------------------
(***************************************************************************)
(* The PM2 daemon as the controller sees it: one entry per service, moved   *)
(* by the commands of Pm2Manager and, on its own, by crashes and respawns.  *)
(* The daemon is not part of the repository; the outcomes of a command are  *)
(* those Pm2Manager.start and Pm2Manager.stop can return, whatever the CLI  *)
(* reply was.                                                               *)
(***************************************************************************)
EXTENDS Naturals, FiniteSets

CONSTANT Services

ASSUME ServicesFinite == IsFiniteSet(Services) /\ Services # {}

VARIABLE proc     \* proc[s]: status of the PM2 entry of service s

\* "stopped" stands for every entry PM2 will not bring up by itself (stopped,
\* errored, absent); "waiting" is a crashed entry PM2 is going to respawn.
Status == {"stopped", "waiting", "launching", "online"}

\* Pm2Process.alive
AliveStatus == {"launching", "online"}

Alive(s)  == proc[s] \in AliveStatus
Online(s) == proc[s] = "online"

(***************************************************************************)
(* What Pm2Manager.start can leave behind, as <<status, success>>.  A live  *)
(* entry is refused.  Otherwise the command may be lost, or take effect and *)
(* be confirmed by one of the three state checks, or take effect while      *)
(* every check fails.                                                       *)
(***************************************************************************)
StartOutcomes(status) ==
  IF status \in AliveStatus
  THEN {<<status, FALSE>>}
  ELSE (AliveStatus \X {TRUE}) \cup (Status \X {FALSE})

(***************************************************************************)
(* What Pm2Manager.stop can leave behind.  Success means that one of the    *)
(* state checks found the entry not alive: it is stopped, or it was caught  *)
(* between a crash and its respawn while the command itself had failed.     *)
(***************************************************************************)
StopOutcomes(status) ==
  {<<"stopped", TRUE>>, <<"waiting", TRUE>>, <<"stopped", FALSE>>, <<status, FALSE>>}

-----------------------------------------------------------------------------
(* What PM2 does by itself. *)

Crash(s) ==
  /\ Alive(s)
  /\ \E status \in {"waiting", "stopped"}: proc' = [proc EXCEPT ![s] = status]

Respawn(s) ==
  /\ proc[s] = "waiting"
  /\ proc' = [proc EXCEPT ![s] = "launching"]

Boot(s) ==
  /\ proc[s] = "launching"
  /\ proc' = [proc EXCEPT ![s] = "online"]

Pm2Moves(s) == Crash(s) \/ Respawn(s) \/ Boot(s)
=============================================================================
