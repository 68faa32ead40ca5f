------------------------------- MODULE Recovery -------------------------------
(***************************************************************************)
(* Restarting an unhealthy service (service_operations.py, _recover and      *)
(* poll_once).  The poll thread counts failed health probes of one process;  *)
(* at the threshold it takes the mutation locks, looks again, charges a      *)
(* budget that it stores on disk, and restarts the service.  Users, PM2, the *)
(* engine updater and crashes of the controller come in between.             *)
(***************************************************************************)
EXTENDS Integers, Sequences, FiniteSets

CONSTANTS
  Definitions,   \* the definitions the service may have
  Threshold,     \* failure_threshold
  Grace,         \* startup_grace_seconds, in polls
  Cooldown,      \* cooldown_seconds, in polls
  PerHour,       \* max_restarts_per_hour
  Hour,          \* an hour, in polls
  MaxTime,       \* bound: polls
  MaxPid,        \* bound: processes PM2 starts for the service
  None

ASSUME PolicyNat == /\ Threshold \in Nat \ {0} /\ PerHour \in Nat \ {0}
                    /\ Grace \in Nat /\ Cooldown \in Nat /\ Hour \in Nat \ {0}
ASSUME BoundsNat == MaxTime \in Nat /\ MaxPid \in Nat

Process == [status: {"up", "crashed", "stopped"}, pid: Nat, since: Nat]
Seen    == [def: Definitions, proc: Process]
Probed  == [def: Definitions, pid: Nat]
Counted == [def: Definitions, pid: Nat, count: Nat \ {0}]

ASSUME NoneDistinct == /\ None \notin Definitions \cup Nat /\ None \notin {"poll", "user"}
                       /\ None \notin Seen \cup Probed \cup Counted

VARIABLES
  now,         \* the clock, in polls
  service,     \* the registered definition of the service, or None
  proc,        \* what PM2 runs: status, pid (one per process) and start time
  available,   \* neither maintenance nor shutdown
  busy,        \* a group job is queued or running
  lock,        \* _config_reconcile_lock and the operation locks: None, "poll" or "user"
  pc,          \* where the poll thread is
  polled,      \* _last_poll is the current one
  seen,        \* the process the poll thread took from the listing
  ident,       \* definition and pid of the process it probes
  tally,       \* failures it had counted for that process
  failures,    \* _failures: definition, pid and count, or None
  memory,      \* _history: the attempts and the last one
  disk,        \* events.json
  issued,      \* when the restarts of the registered service were granted
  streak,      \* failed probes of one process under one definition in a row
  moved        \* PM2 moved the process since it was last verified

vars == <<now, service, proc, available, busy, lock, pc, polled, seen, ident, tally,
          failures, memory, disk, issued, streak, moved>>
world   == <<now, service, proc, available, busy>>
history == <<memory, disk, issued>>

Fresh == [attempts |-> <<>>, last |-> None]

\* The attempts of the last hour.  They are in the order of time: the older ones come first.
Recent(times) ==
  LET older == Cardinality({i \in DOMAIN times: times[i] <= now - Hour})
  IN  SubSeq(times, older + 1, Len(times))

Up == proc.status = "up"
Start(p) == [status |-> "up", pid |-> p.pid + 1, since |-> now]

-----------------------------------------------------------------------------
(* Helpers of the poll thread. *)

\* _persist drops what is not registered; it may fail.
Kept(h) == IF service = None THEN Fresh ELSE h
Persist(h) == memory' = Kept(h) /\ disk' = Kept(h)
PersistFails(h) == memory' = Kept(h) /\ UNCHANGED disk

Rest == pc' = "idle" /\ seen' = None /\ ident' = None /\ tally' = 0

\* Mutant of Leave: the lock is kept.
LeaveMut == Rest /\ UNCHANGED lock

\* The poll of the service is over; the lock is given back if it was held.
Leave ==
  /\ Rest
  /\ lock' = IF lock = "poll" THEN None ELSE lock

Forget == failures' = None

\* Mutant of Same: only that some process is up.
SameMut == service = ident.def /\ Up

\* The definition and the process are still those that were probed.
Same == service = ident.def /\ Up /\ proc.pid = ident.pid

\* A probe of the process that is there now failed, or did not.
CountFailure ==
  streak' = IF streak.def = ident.def /\ streak.pid = proc.pid
            THEN [streak EXCEPT !.n = IF @ < Threshold THEN @ + 1 ELSE @]
            ELSE [def |-> ident.def, pid |-> proc.pid, n |-> 1]
ClearFailures == streak' = [def |-> None, pid |-> 0, n |-> 0]

-----------------------------------------------------------------------------
(* poll_once, _observe, _recover *)

\* The listing is read; what changed is stored as an event, which may fail.
Poll ==
  /\ pc = "idle" /\ ~polled /\ available
  /\ polled' = TRUE
  /\ \/ /\ service # None
        /\ seen' = [def |-> service, proc |-> proc]
        /\ pc' = "look"
        /\ UNCHANGED failures
        /\ Persist(memory) \/ UNCHANGED <<memory, disk>>
     \/ /\ UNCHANGED <<pc, seen, memory, disk>>
        /\ Forget
  /\ UNCHANGED <<world, lock, ident, tally, issued, streak, moved>>

\* Nothing to recover: a job is active, or the process is down, young or gone.
LookAway ==
  /\ pc = "look"
  /\ \/ busy
     \/ seen.proc.status # "up"
     \/ now - seen.proc.since < Grace
     \/ proc.pid # seen.proc.pid \/ ~Up
  /\ Leave /\ Forget
  /\ UNCHANGED <<world, polled, history, streak, moved>>

Look ==
  /\ pc = "look"
  /\ ~busy
  /\ seen.proc.status = "up"
  /\ now - seen.proc.since >= Grace
  /\ proc.pid = seen.proc.pid /\ Up
  /\ ident' = [def |-> seen.def, pid |-> proc.pid]
  /\ tally' = IF failures # None /\ failures.def = seen.def /\ failures.pid = proc.pid
              THEN failures.count ELSE 0
  /\ pc' = "probe"
  /\ UNCHANGED <<world, lock, polled, seen, failures, history, streak, moved>>

ProbeFails ==
  /\ pc = "probe"
  /\ Up
  /\ failures' = [def |-> ident.def, pid |-> ident.pid, count |-> tally + 1]
  /\ CountFailure
  /\ IF tally + 1 < Threshold THEN Leave
     ELSE pc' = "request" /\ UNCHANGED <<lock, seen, ident, tally>>
  /\ UNCHANGED <<world, polled, history, moved>>

\* Healthy or inconclusive, before or after the lock was taken.
ProbePasses ==
  /\ pc \in {"probe", "check"}
  /\ Leave /\ Forget
  /\ ClearFailures
  /\ UNCHANGED <<world, polled, history, moved>>

\* _mutation refuses, or the process is another one.
Refused ==
  /\ pc = "request"
  /\ lock = None
  /\ ~available \/ ~Same
  /\ Leave /\ Forget
  /\ UNCHANGED <<world, polled, history, streak, moved>>

Admitted ==
  /\ pc = "request"
  /\ lock = None
  /\ available /\ Same
  /\ lock' = "poll"
  /\ pc' = "check"
  /\ UNCHANGED <<world, polled, seen, ident, tally, failures, history, streak, moved>>

RecheckFails ==
  /\ pc = "check"
  /\ Up
  /\ CountFailure
  /\ pc' = "verify"
  /\ UNCHANGED <<world, lock, polled, seen, ident, tally, failures, history, moved>>

\* Probing may have spanned a restart: the process is looked at again.
Verify ==
  /\ pc = "verify"
  /\ IF Same
     THEN /\ pc' = "budget" /\ moved' = FALSE
          /\ UNCHANGED <<lock, seen, ident, tally, failures>>
     ELSE Leave /\ Forget /\ UNCHANGED moved
  /\ UNCHANGED <<world, polled, history, streak>>

\* The budget of the hour is spent, or the last attempt is too recent.
Exhausted ==
  \/ Len(Recent(memory.attempts)) >= PerHour
  \/ memory.last # None /\ now - memory.last < Cooldown

\* The budget is used up; the count of failures stays.
Deny ==
  /\ pc = "budget"
  /\ Exhausted
  /\ Leave
  /\ UNCHANGED <<world, polled, failures, history, streak, moved>>

Charged == [attempts |-> Append(Recent(memory.attempts), now), last |-> now]

\* Mutant of Charge: the attempt is stored with the outcome only.
ChargeMut ==
  /\ pc = "budget"
  /\ ~Exhausted
  /\ memory' = Charged /\ UNCHANGED disk
  /\ pc' = "restart"
  /\ UNCHANGED <<world, lock, polled, seen, ident, tally, failures, issued, streak, moved>>

\* The attempt is stored before it is made.
Charge ==
  /\ pc = "budget"
  /\ ~Exhausted
  /\ Persist(Charged)
  /\ pc' = "restart"
  /\ UNCHANGED <<world, lock, polled, seen, ident, tally, failures, issued, streak, moved>>

\* It could not be stored: no restart.
ChargeFails ==
  /\ pc = "budget"
  /\ ~Exhausted
  /\ PersistFails(Charged)
  /\ Leave /\ Forget
  /\ UNCHANGED <<world, polled, issued, streak, moved>>

\* Outcomes of Pm2Manager.restart: it works; or it raises, whether or not it had
\* an effect.
Restart ==
  /\ pc = "restart"
  /\ issued' = Append(issued, memory.last)
  /\ Forget
  /\ \/ /\ proc.pid < MaxPid
        /\ proc' = Start(proc)
        /\ pc' = "ready" /\ lock' = None
        /\ UNCHANGED <<seen, ident, tally, memory, disk>>
     \/ /\ \/ UNCHANGED proc
           \/ proc' = [proc EXCEPT !.status = "stopped"]
           \/ proc.pid < MaxPid /\ proc' = Start(proc)
        /\ Leave
        /\ Persist(memory) \/ PersistFails(memory)
  /\ UNCHANGED <<now, service, available, busy, polled, streak, moved>>

\* _wait_ready ends either way, holding the lock only while it looks.
Ready ==
  /\ pc = "ready"
  /\ lock = None
  /\ Rest /\ UNCHANGED lock
  /\ Persist(memory) \/ PersistFails(memory)
  /\ UNCHANGED <<world, polled, failures, issued, streak, moved>>

\* Whatever raises in between: the lock is given back, the count is dropped.
Raises ==
  /\ pc \in {"look", "probe", "check", "verify"}
  /\ Leave /\ Forget
  /\ UNCHANGED <<world, polled, history, streak, moved>>

-----------------------------------------------------------------------------
(* Everything else. *)

ours == <<pc, polled, seen, ident, tally>>

\* A manual action or a step of a job succeeds in PM2 ...
Command ==
  /\ lock = None /\ available /\ service # None
  /\ lock' = "user"
  /\ \/ Up /\ proc' = [proc EXCEPT !.status = "stopped"]
     \/ proc.pid < MaxPid /\ proc' = Start(proc)
  /\ UNCHANGED <<now, service, available, busy, ours, failures, history, streak, moved>>

\* ... and is recorded: _failures is dropped, a failed write is ignored.
RecordAction ==
  /\ lock = "user"
  /\ lock' = None
  /\ Forget
  /\ Persist(memory) \/ UNCHANGED <<memory, disk>>
  /\ UNCHANGED <<world, ours, issued, streak, moved>>

Job == busy' = ~busy /\ UNCHANGED <<now, service, proc, available, lock, ours, failures, history, streak, moved>>

Maintain == available' = ~available /\ UNCHANGED <<now, service, proc, busy, lock, ours, failures, history, streak, moved>>

\* A reload; only a service that is down is removed.  With it goes its budget.
Edit ==
  /\ lock = None
  /\ \E d \in Definitions \cup {None}:
       /\ d # service
       /\ d = None => ~Up
       /\ service' = d
       /\ issued' = IF d = None THEN <<>> ELSE issued
  /\ UNCHANGED <<now, proc, available, busy, lock, ours, failures, memory, disk, streak, moved>>

Pm2Moves ==
  /\ \/ Up /\ proc' = [proc EXCEPT !.status = "crashed"]
     \/ proc.status = "crashed" /\ proc.pid < MaxPid /\ proc' = Start(proc)
  /\ moved' = TRUE
  /\ UNCHANGED <<now, service, available, busy, lock, ours, failures, history, streak>>

Tick ==
  /\ now < MaxTime
  /\ now' = now + 1
  /\ polled' = FALSE
  /\ UNCHANGED <<service, proc, available, busy, lock, pc, seen, ident, tally, failures, history, streak, moved>>

\* _load
Loaded ==
  IF service = None THEN Fresh
  ELSE [attempts |-> Recent(disk.attempts), last |-> disk.last]

\* The controller dies and starts again.
ControllerRestarts ==
  /\ memory' = Loaded
  /\ Rest /\ lock' = None /\ polled' = FALSE /\ busy' = FALSE /\ Forget
  /\ UNCHANGED <<now, service, proc, available, disk, issued, streak, moved>>

-----------------------------------------------------------------------------

Init ==
  /\ now = 0
  /\ service \in Definitions
  /\ proc = [status |-> "up", pid |-> 1, since |-> 0]
  /\ available = TRUE /\ busy = FALSE /\ lock = None
  /\ pc = "idle" /\ polled = FALSE /\ seen = None /\ ident = None /\ tally = 0
  /\ failures = None
  /\ memory = Fresh /\ disk = Fresh
  /\ issued = <<>>
  /\ streak = [def |-> None, pid |-> 0, n |-> 0]
  /\ moved = FALSE

PollStep ==
  \/ Look \/ LookAway \/ ProbeFails \/ ProbePasses \/ Refused \/ Admitted \/ RecheckFails
  \/ Verify \/ Deny \/ Charge \/ ChargeFails \/ Restart \/ Ready \/ Raises

Next ==
  \/ Poll \/ PollStep
  \/ Command \/ RecordAction \/ Job \/ Maintain \/ Edit \/ Pm2Moves \/ Tick
  \/ ControllerRestarts

Spec == Init /\ [][Next]_vars

\* The poll thread runs; the lock is free now and then and then taken.
FairSpec == Spec /\ SF_vars(PollStep) /\ WF_vars(RecordAction)

-----------------------------------------------------------------------------
(* Properties. *)

History == [attempts: Seq(Nat), last: Nat \cup {None}]
PC == {"idle", "look", "probe", "request", "check", "verify", "budget", "restart", "ready"}

\* The poll thread's own state; it holds the lock exactly where it relies on it.
PollOK ==
  /\ now \in Nat
  /\ service \in Definitions \cup {None}
  /\ proc \in Process
  /\ available \in BOOLEAN /\ busy \in BOOLEAN /\ polled \in BOOLEAN /\ moved \in BOOLEAN
  /\ lock \in {None, "poll", "user"}
  /\ pc \in PC
  /\ pc \in {"check", "verify", "budget", "restart"} <=> lock = "poll"
  /\ seen \in Seen \cup {None} /\ ident \in Probed \cup {None} /\ tally \in Nat
  /\ failures \in Counted \cup {None}
  /\ streak \in [def: Definitions \cup {None}, pid: Nat, n: 0..Threshold]

\* The variables have their types.
TypeOK == PollOK /\ memory \in History /\ disk \in History /\ issued \in Seq(Nat)

\* While the service stays registered, its restarts keep to the hourly limit and
\* the cooldown, across crashes of the controller and failed writes (537-550;
\* docs/SPEC/servers.md:49: the budget survives a restart of the controller).
BudgetHolds ==
  \A i \in DOMAIN issued:
    /\ Cardinality({j \in 1..i: issued[j] > issued[i] - Hour}) <= PerHour
    /\ i > 1 => issued[i] - issued[i - 1] >= Cooldown

\* A restart is issued to the very process that failed Threshold probes in a row
\* under the current definition, and is up, unless PM2 itself moved it after it
\* was verified: no manual action, job, edit or respawn is overrun (481-545).
RestartsWhatFailed ==
  [][ Len(issued') > Len(issued) =>
        \/ moved
        \/ Up /\ service = streak.def /\ proc.pid = streak.pid /\ streak.n >= Threshold ]_vars

\* A poll ends and gives the locks back (500-568).
PollsEnd == pc # "idle" ~> pc = "idle"
=============================================================================
