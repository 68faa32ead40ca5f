----------------------------- MODULE EngineUpdate -----------------------------
(***************************************************************************)
(* The replacement of the PM2 engine (pm2-engine.mjs) and the commands that  *)
(* everybody else gives through pm2ctl.sh meanwhile.  An updater is a process of *)
(* its own, started by the dashboard or on the command line; it runs once.   *)
(*                                                                           *)
(* The locks are kernel locks, so that they go with the process that holds   *)
(* them.  The commands of an updater do not inherit them: one that is        *)
(* running when its updater dies goes on, under the lock of the command line *)
(* (server-control-cli.lock) only.                                           *)
(*                                                                           *)
(* The backup of PM2's dump lists the services of the journal, and its copy  *)
(* is not shown.  An updater's snapshots are one step; what PM2 makes of a   *)
(* command is left open.                                                     *)
(***************************************************************************)
EXTENDS Naturals, FiniteSets

CONSTANTS
  Updaters,
  Clients,    \* those who call pm2ctl.sh
  Procs,      \* the services of the dedicated PM2
  Versions,
  Bundled,    \* the engine that comes with the application
  Faults,     \* what may go wrong: command, write, crash, service
  MaxTrouble, \* bound: how often
  None

ASSUME BundledKnown == Bundled \in Versions
ASSUME FaultsKnown == Faults \subseteq {"command", "write", "crash", "service"} /\ MaxTrouble \in Nat
ASSUME Apart == Updaters \cap Clients = {} /\ None \notin Updaters \cup Clients \cup Versions
ASSUME NoRecord == None \notin [before: [Procs -> {"online", "stopped", "absent"}], version: Versions]

VARIABLES
  daemon,    \* the version that runs, None if there is no daemon
  procs,     \* its services: online, stopped (or errored), absent
  releases,  \* the versions installed
  current,   \* the version pm2ctl.sh selects
  journal,   \* recovery.json
  job,       \* job.json
  managed,   \* who holds the lock of the installation
  maint,     \* who holds maintenance.lock
  owner,     \* maintenance-owner is there; the dashboard asks for it, not pm2ctl.sh
  cli,       \* the command that holds the lock of the command line
  up,        \* the updaters
  intent,    \* ghost: what was last asked of each service, or seen before a cutover
  moved,     \* ghost: services that failed by themselves since
  trouble    \* what has gone wrong so far

engine == <<daemon, procs>>
ghosts == <<intent, moved>>
locks  == <<managed, maint, owner>>
vars == <<engine, releases, current, journal, job, locks, cli, up, ghosts, trouble>>

State    == [Procs -> {"online", "stopped", "absent"}]
Recovery == [before: State, version: Versions]
Job      == [id: Updaters, status: {"running", "failed", "succeeded"}, rolled: BOOLEAN]
Command  == [by: Updaters \cup Clients, op: {"update", "resurrect", "restart", "stop", "act"},
             on: Procs \cup {None}, version: Versions]

\* Before, during and after the work of an updater.
Place ==
  {"managed", "maint", "check", "prepare", "cut", "update", "resurrect", "start", "starting",
   "hold", "holding", "verify", "point", "unjournal", "tell", "sorry", "leave", "report",
   "write", "done", "dead"}

\* back once it restores the previous engine; rec is the journal it works with.
Updater ==
  [at: Place, to: Versions \cup {None}, back: BOOLEAN, rec: Recovery \cup {None},
   todo: SUBSET Procs, err: BOOLEAN]

Over(u) == up[u].at \in {"done", "dead"}
Waiting(u) == cli # None /\ cli.by = u
Goes(u, at) == up' = [up EXCEPT ![u].at = at]

\* An updater that has nothing to do any more has nothing to remember.
Fresh == [at |-> "managed", to |-> None, back |-> FALSE, rec |-> None, todo |-> {}, err |-> FALSE]
Ends(u, at)  == [up EXCEPT ![u] = [Fresh EXCEPT !.at = at]]
Quits(u, err) == [up EXCEPT ![u] = [Fresh EXCEPT !.at = "leave", !.err = err]]

Says(u, status, rolled) == job' = [id |-> u, status |-> status, rolled |-> rolled]

\* Whoever connects starts a daemon, without services, if there is none.
Connect(v) ==
  IF daemon = None THEN daemon' = v /\ procs' = [p \in Procs |-> "absent"] ELSE UNCHANGED engine

\* The engine u drives services with.
Engine(u) == IF up[u].back THEN up[u].rec.version ELSE up[u].to

StatesMatch(before, after) == before = after

Trouble(kind) == kind \in Faults /\ trouble < MaxTrouble /\ trouble' = trouble + 1

-----------------------------------------------------------------------------
(* The updater: locks and preparation. *)

\* withManagedLock does not wait.
Managed(u) ==
  /\ up[u].at = "managed"
  /\ IF managed = None THEN managed' = u /\ Goes(u, "maint")
     ELSE Goes(u, "report") /\ UNCHANGED managed
  /\ UNCHANGED <<engine, releases, current, journal, job, maint, owner, cli, ghosts, trouble>>

\* withMaintenanceLock tries for ten seconds.
Maintain(u) ==
  /\ up[u].at = "maint"
  /\ UNCHANGED owner
  /\ \/ maint = None /\ maint' = u /\ Goes(u, "check") /\ UNCHANGED managed
     \/ maint # None /\ managed' = None /\ Goes(u, "report") /\ UNCHANGED maint
  /\ UNCHANGED <<engine, releases, current, journal, job, cli, ghosts, trouble>>

\* Mutant of Interrupted: an unfinished update is not looked for.
InterruptedMut == FALSE

Interrupted == journal # None

\* What an earlier update left behind comes first.
Check(u) ==
  /\ up[u].at = "check"
  /\ Says(u, "running", FALSE)
  /\ IF Interrupted THEN up' = [up EXCEPT ![u].at = "update", ![u].back = TRUE, ![u].rec = journal]
     ELSE Goes(u, "prepare")
  /\ owner' = TRUE
  /\ UNCHANGED <<engine, releases, current, journal, managed, maint, cli, ghosts, trouble>>

\* The first snapshot, the latest version and its installation.
Prepare(u) ==
  /\ up[u].at = "prepare"
  /\ cli = None
  /\ Connect(current)
  /\ daemon' \in releases
  /\ \E latest \in Versions:
       IF daemon' = latest /\ current = latest
       THEN Says(u, "succeeded", FALSE) /\ up' = Quits(u, FALSE) /\ UNCHANGED releases
       ELSE /\ Says(u, "running", FALSE)
            /\ releases' = releases \cup {latest}
            /\ up' = [up EXCEPT ![u].at = "cut", ![u].to = latest,
                                ![u].rec = [before |-> procs', version |-> daemon']]
  /\ UNCHANGED <<current, journal, locks, cli, ghosts, trouble>>

\* The snapshot that counts, and the journal; a state that changed meanwhile ends it.
Cut(u) ==
  /\ up[u].at = "cut"
  /\ cli = None
  /\ IF StatesMatch(up[u].rec.before, procs)
     THEN /\ journal' = [up[u].rec EXCEPT !.before = procs]
          /\ Goes(u, "update")
          /\ intent' = procs /\ moved' = {}
     ELSE /\ up' = Quits(u, TRUE)
          /\ UNCHANGED <<journal, ghosts>>
  /\ UNCHANGED <<engine, releases, current, job, locks, cli, trouble>>

-----------------------------------------------------------------------------
(* The updater: forth with the new engine, or back with the previous one. *)

Issue(u, op, p) ==
  /\ cli = None
  /\ cli' = [by |-> u, op |-> op, on |-> p, version |-> Engine(u)]

\* progress is written first.
Update(u) ==
  /\ up[u].at = "update"
  /\ Issue(u, "update", None)
  /\ Says(u, "running", FALSE)
  /\ UNCHANGED <<engine, releases, current, journal, locks, up, ghosts, trouble>>

Resurrect(u) ==
  /\ up[u].at = "resurrect"
  /\ Issue(u, "resurrect", None)
  /\ UNCHANGED <<engine, releases, current, journal, job, locks, up, ghosts, trouble>>

\* One snapshot says what to restart, the next one what to stop again.
Todo(u) ==
  LET before == up[u].rec.before IN
  IF up[u].at = "start" THEN {p \in Procs: before[p] = "online" /\ procs'[p] = "stopped"}
  ELSE {p \in Procs: before[p] = "stopped" /\ procs'[p] = "online"}

\* With todo left to do.
Adjusting(u, todo) ==
  LET starts == up[u].at \in {"start", "starting"}
      at == IF todo # {} THEN (IF starts THEN "starting" ELSE "holding")
            ELSE IF starts THEN "hold" ELSE "verify"
  IN  [up EXCEPT ![u].at = at, ![u].todo = todo]

Look(u) ==
  /\ up[u].at \in {"start", "hold"}
  /\ cli = None
  /\ Connect(Engine(u))
  /\ up' = Adjusting(u, Todo(u))
  /\ UNCHANGED <<releases, current, journal, job, locks, cli, ghosts, trouble>>

Adjust(u) ==
  /\ up[u].at \in {"starting", "holding"}
  /\ \E p \in up[u].todo: Issue(u, IF up[u].at = "starting" THEN "restart" ELSE "stop", p)
  /\ UNCHANGED <<engine, releases, current, journal, job, locks, up, ghosts, trouble>>

\* The daemon and its services are what they should be.
Verified(u) == daemon' = Engine(u) /\ StatesMatch(up[u].rec.before, procs')

Verify(u) ==
  /\ up[u].at = "verify"
  /\ cli = None
  /\ Connect(Engine(u))
  /\ Verified(u)
  /\ Goes(u, "point")
  /\ moved' = {}
  /\ (IF up[u].back THEN UNCHANGED job ELSE Says(u, "running", FALSE))
  /\ UNCHANGED <<releases, current, journal, locks, cli, intent, trouble>>

\* Mutant of Selected: a restored engine is not selected again.
SelectedMut(u) == IF up[u].back THEN current ELSE Engine(u)

Selected(u) == Engine(u)

\* pointCurrent
Point(u) ==
  /\ up[u].at = "point"
  /\ current' = Selected(u)
  /\ Goes(u, "unjournal")
  /\ UNCHANGED <<engine, releases, journal, job, locks, cli, ghosts, trouble>>

Unjournal(u) ==
  /\ up[u].at = "unjournal"
  /\ journal' = None
  /\ Goes(u, "tell")
  /\ UNCHANGED <<engine, releases, current, job, locks, cli, ghosts, trouble>>

\* A restored engine is a failed update.
Result(u) == IF up[u].back THEN "failed" ELSE "succeeded"

Tell(u) ==
  /\ up[u].at = "tell"
  /\ Says(u, Result(u), up[u].back)
  /\ up' = Quits(u, FALSE)
  /\ UNCHANGED <<engine, releases, current, journal, locks, cli, ghosts, trouble>>

\* Mutant of Restored: that the restoration was tried is enough.
RestoredMut(u) == up[u].back

Restored(u) == FALSE

TellFailed(u) ==
  /\ up[u].at = "sorry"
  /\ Says(u, "failed", Restored(u))
  /\ up' = Quits(u, FALSE)
  /\ UNCHANGED <<engine, releases, current, journal, locks, cli, ghosts, trouble>>

Leave(u) ==
  /\ up[u].at = "leave"
  /\ maint' = None /\ managed' = None /\ owner' = FALSE
  /\ up' = Ends(u, IF up[u].err THEN "report" ELSE "done")
  /\ UNCHANGED <<engine, releases, current, journal, job, cli, ghosts, trouble>>

\* The outermost catch: another updater that is at work keeps its report.
Report(u) ==
  /\ up[u].at = "report"
  /\ LET theirs == job # None /\ job.id # u /\ job.status = "running" /\ ~Over(job.id)
     IN  Goes(u, IF theirs THEN "done" ELSE "write")
  /\ UNCHANGED <<engine, releases, current, journal, job, locks, cli, ghosts, trouble>>

Write(u) ==
  /\ up[u].at = "write"
  /\ Says(u, "failed", FALSE)
  /\ Goes(u, "done")
  /\ UNCHANGED <<engine, releases, current, journal, locks, cli, ghosts, trouble>>

-----------------------------------------------------------------------------
(* What goes wrong. *)

\* An exception: before the cutover, and in a recovery of an interrupted update, it
\* ends the updater; in a cutover the previous engine is restored; in that, no more.
Caught(u) ==
  LET cutting == up[u].to # None /\ up[u].at \notin {"prepare", "cut", "sorry"} IN
  IF up[u].at \in {"report", "write"} THEN Ends(u, "done")
  ELSE IF ~cutting THEN Quits(u, TRUE)
  ELSE IF up[u].back THEN [up EXCEPT ![u].at = "sorry"]
  ELSE [up EXCEPT ![u].at = "update", ![u].back = TRUE, ![u].todo = {}]

\* A file that is not written, a command that is refused or not answered in time.
Breaks(u) ==
  /\ up[u].at \notin {"managed", "maint", "leave", "report", "done", "dead"}
  /\ ~Waiting(u)
  /\ Trouble(IF up[u].at \in {"check", "tell", "sorry", "write"} THEN "write" ELSE "command")
  /\ up' = Caught(u)
  /\ UNCHANGED <<engine, releases, current, journal, job, locks, cli, ghosts>>

\* Mutant of Late: verify waits as long as it takes.
LateMut(u) == FALSE

\* The time is over and the services are not what they should be.
Late(u) == ~Verified(u)

VerifyFails(u) ==
  /\ up[u].at = "verify"
  /\ cli = None
  /\ Connect(Engine(u))
  /\ Late(u)
  /\ up' = Caught(u)
  /\ UNCHANGED <<releases, current, journal, job, locks, cli, ghosts, trouble>>

Crash(u) ==
  /\ ~Over(u) /\ up[u].at # "managed"
  /\ Trouble("crash")
  /\ up' = Ends(u, "dead")
  /\ managed' = IF managed = u THEN None ELSE managed
  /\ maint' = IF maint = u THEN None ELSE maint
  /\ UNCHANGED <<engine, releases, current, journal, job, owner, cli, ghosts>>

ServiceFails(p) ==
  /\ procs[p] = "online"
  /\ Trouble("service")
  /\ procs' = [procs EXCEPT ![p] = "stopped"]
  /\ moved' = moved \cup {p}
  /\ UNCHANGED <<daemon, releases, current, journal, job, locks, cli, up, intent>>

-----------------------------------------------------------------------------
(* The commands. *)

\* update replaces the daemon, or does not although it says so; services come
\* back in any state.  resurrect brings back those that are absent.
Effect ==
  CASE cli.op = "update" -> daemon' \in {daemon, cli.version} /\ daemon' # None /\ procs' \in State
    [] cli.op = "resurrect" ->
         /\ daemon' = IF daemon = None THEN cli.version ELSE daemon
         /\ procs' \in State
         /\ \A p \in Procs: daemon # None /\ procs[p] # "absent" => procs'[p] = procs[p]
    [] OTHER ->
         /\ daemon' = IF daemon = None THEN cli.version ELSE daemon
         /\ \E s \in IF cli.op = "restart" THEN {"online"} ELSE {"stopped"}:
              procs' = [p \in Procs |-> IF p = cli.on THEN s
                                        ELSE IF daemon = None THEN "absent" ELSE procs[p]]

\* What is next once a command has succeeded.
Ended(u) ==
  CASE cli.op = "update" -> [up EXCEPT ![u].at = IF up[u].back THEN "resurrect" ELSE "hold"]
    [] cli.op = "resurrect" -> [up EXCEPT ![u].at = "start"]
    [] OTHER -> Adjusting(u, up[u].todo \ {cli.on})

\* Nobody waits for the command of an updater that has died.
CommandEnds ==
  /\ cli # None /\ cli.by \in Updaters
  /\ Effect
  /\ up' = IF Over(cli.by) THEN up ELSE Ended(cli.by)
  /\ cli' = None
  /\ UNCHANGED <<releases, current, journal, job, locks, ghosts, trouble>>

\* It fails or is killed, with all, part or nothing of its effect.
CommandFails ==
  /\ cli # None /\ cli.by \in Updaters
  /\ Trouble("command")
  /\ \/ Effect
     \/ UNCHANGED engine
     \/ cli.op = "update" /\ daemon' = None /\ procs' = [p \in Procs |-> "absent"]
  /\ up' = IF Over(cli.by) THEN up ELSE Caught(cli.by)
  /\ cli' = None
  /\ UNCHANGED <<releases, current, journal, job, locks, ghosts>>

-----------------------------------------------------------------------------
(* pm2ctl.sh for everybody else. *)

\* Mutant of Admitted: recovery.json is not looked at.
AdmittedMut == TRUE

Admitted == journal = None

\* The lock is taken and recovery.json looked for; otherwise the call is refused.
Enter(c) ==
  /\ maint = None
  /\ Admitted
  /\ maint' = c
  /\ UNCHANGED <<engine, releases, current, journal, job, managed, owner, cli, up, ghosts, trouble>>

\* The lock of the command line, waited for ten seconds.
Call(c) ==
  /\ maint = c /\ ~Waiting(c)
  /\ \/ /\ cli = None
        /\ \E p \in Procs: cli' = [by |-> c, op |-> "act", on |-> p, version |-> current]
        /\ UNCHANGED maint
     \/ /\ cli # None
        /\ maint' = None
        /\ UNCHANGED cli
  /\ UNCHANGED <<engine, releases, current, journal, job, managed, owner, up, ghosts, trouble>>

\* The service is started or stopped.
Return(c) ==
  /\ Waiting(c)
  /\ daemon' = IF daemon = None THEN cli.version ELSE daemon
  /\ \E s \in {"online", "stopped"}:
       /\ procs' = [p \in Procs |-> IF p = cli.on THEN s
                                    ELSE IF daemon = None THEN "absent" ELSE procs[p]]
       /\ intent' = [intent EXCEPT ![cli.on] = s]
  /\ moved' = moved \ {cli.on}
  /\ cli' = None /\ maint' = None
  /\ UNCHANGED <<releases, current, journal, job, managed, owner, up, trouble>>

-----------------------------------------------------------------------------

Init ==
  /\ daemon = Bundled
  /\ procs \in [Procs -> {"online", "stopped"}]
  /\ releases = {Bundled}
  /\ current = Bundled
  /\ journal = None /\ job = None
  /\ managed = None /\ maint = None /\ owner = FALSE
  /\ cli = None
  /\ up = [u \in Updaters |-> Fresh]
  /\ intent = procs /\ moved = {}
  /\ trouble = 0

Step(u) ==
  \/ Maintain(u) \/ Check(u) \/ Prepare(u) \/ Cut(u)
  \/ ~Waiting(u) /\ (Update(u) \/ Resurrect(u) \/ Look(u) \/ Adjust(u))
  \/ Verify(u) \/ VerifyFails(u) \/ Point(u) \/ Unjournal(u)
  \/ Tell(u) \/ TellFailed(u) \/ Leave(u) \/ Report(u) \/ Write(u)

Next ==
  \/ \E u \in Updaters: Managed(u) \/ Step(u) \/ Breaks(u) \/ Crash(u)
  \/ \E p \in Procs: ServiceFails(p)
  \/ CommandEnds \/ CommandFails
  \/ \E c \in Clients: Enter(c) \/ Call(c) \/ Return(c)

Spec == Init /\ [][Next]_vars

\* An updater that has begun goes on, and PM2 answers sooner or later, if only
\* because it is killed (runCaptured).
FairSpec ==
  /\ Spec
  /\ \A u \in Updaters: WF_vars(Step(u))
  /\ WF_vars(CommandEnds)
  /\ \A c \in Clients: WF_vars(Call(c)) /\ WF_vars(Return(c))

-----------------------------------------------------------------------------
(* Properties. *)

\* The variables have their types.
TypeOK ==
  /\ daemon \in Versions \cup {None} /\ procs \in State
  /\ releases \subseteq Versions /\ current \in Versions
  /\ journal \in Recovery \cup {None}
  /\ job \in Job \cup {None}
  /\ managed \in Updaters \cup {None} /\ maint \in Updaters \cup Clients \cup {None}
  /\ owner \in BOOLEAN
  /\ cli \in Command \cup {None}
  /\ up \in [Updaters -> Updater]
  /\ intent \in State /\ moved \subseteq Procs
  /\ trouble \in 0..MaxTrouble

\* Neither an updater at work nor a journal keeps others out.
Unfenced == maint \notin Updaters /\ journal = None

\* Whenever others are let in, the engine that runs is the one they use, whatever
\* failed and whoever died in between (previous_target, pointCurrent, 287-310).
FencedWhileMixed == Unfenced => daemon = current

\* And the services are as they were asked to be, but for those that failed by
\* themselves: no update or recovery starts what was stopped, drops what ran or
\* undoes what somebody asked for (preserveStopped, restore, verify, pm2ctl.sh 60).
StatesPreserved == Unfenced => \A p \in Procs \ moved: procs[p] = intent[p]

\* The states an interrupted update has recorded are those that are restored, by the
\* next updater or the one after it: no journal replaces another (231-238).
JournalKept == [][journal # None /\ journal' # None => journal' = journal]_vars

\* A job reported as succeeded or rolled back has left no journal, and the engine
\* selected is the one that runs (302-315, 233-238).
ReportsTrue ==
  [][ job' # job /\ (job'.status = "succeeded" \/ job'.rolled) =>
        journal' = None /\ daemon' = current' ]_vars

\* An updater that has begun ends, whatever fails or answers too late.
UpdatesEnd == \A u \in Updaters: up[u].at # "managed" ~> Over(u)
=============================================================================
