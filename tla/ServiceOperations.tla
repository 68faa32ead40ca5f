-------------------------- MODULE ServiceOperations --------------------------
(***************************************************************************)
(* Group jobs, manual service actions and autostart (service_operations.py, *)
(* routes/api.py).  Three kinds of thread share one config lock: the HTTP    *)
(* request threads (Clients), one worker thread per group job (JobIds) and   *)
(* the autostart thread (Starter).  Every PM2 command is issued by a thread     *)
(* that holds the lock; PM2 itself moves at any time.                        *)
(*                                                                           *)
(* A thread takes the lock only together with the operation locks of every   *)
(* service, always in the same order, so one variable stands for all of them *)
(* here.  A health probe may fail at any time, as may a PM2 read: a probe or *)
(* read that succeeds is an action with a guard on proc, one that fails is   *)
(* always possible.                                                          *)
(***************************************************************************)
EXTENDS Pm2Daemon, Sequences

CONSTANTS
  Clients,      \* HTTP request threads
  JobIds,       \* identifiers of group jobs
  Starter,         \* the autostart thread
  Groups,       \* group names
  Registries,   \* the valid configurations: functions from services to definitions
  JobLimit,     \* JOB_LIMIT, how many jobs the table keeps
  MaxGen,       \* bound: explicit actions recorded per service
  Faults,       \* bound: the disturbances an instance allows
  None

Action == {"start", "stop", "restart"}

\* The part of a ServiceConfig the operations look at.  offers is the set of
\* enabled process_* controls, image the part PM2 runs (command, env, ...).
Definition == [deps: SUBSET Services, group: Groups, offers: SUBSET Action,
               autostart: BOOLEAN, image: Nat]

\* What config_loader accepts: dependencies are registered, and acyclic.
ValidRegistry(r) ==
  /\ DOMAIN r \subseteq Services
  /\ \A s \in DOMAIN r: r[s] \in Definition /\ r[s].deps \subseteq DOMAIN r
  /\ \E rank \in [DOMAIN r -> 1..Cardinality(Services)]:
       \A s \in DOMAIN r: \A d \in r[s].deps: rank[d] < rank[s]

Workers == JobIds \cup {Starter}
Actors  == Clients \cup Workers

ASSUME RegistriesValid == \A r \in Registries: ValidRegistry(r)
ASSUME JobLimitPositive == JobLimit \in Nat \ {0}
ASSUME MaxGenNat == MaxGen \in Nat
ASSUME FaultsKnown == Faults \subseteq {"pm2", "maintenance", "shutdown", "edit"}
ASSUME ActorsDistinct == /\ Clients \cap Workers = {}
                         /\ Starter \notin JobIds
                         /\ None \notin Actors \cup Services

VARIABLES
  registry,     \* the published definitions
  lock,         \* holder of _config_reconcile_lock and of the operation locks
  gen,          \* _action_generations
  maintenance,  \* the engine updater is at work or left a recovery journal
  shutdown,     \* _stop is set
  jobs,         \* _jobs: the retained jobs, oldest first
  jobStatus,    \* status of every job ever submitted, "none" before
  pc,           \* where each thread is
  goal,         \* the service and action a thread is working on
  task,         \* arguments of a worker: action, plan, bound definitions, intents
  cursor,       \* position of a worker in its plan
  result,       \* per worker and service, the entry of results
  online0,      \* initial_online of a job
  todo,         \* what the current check still has to look at
  attempt,      \* retries of the autostart thread
  cmd,          \* the PM2 command issued by the last step, or None
  drift         \* services PM2 moved by itself since the lock was taken

ctrlVars == <<registry, maintenance, shutdown>>
jobVars  == <<jobs, jobStatus, task>>
workVars == <<cursor, result, online0, attempt>>
vars == <<proc, registry, lock, gen, maintenance, shutdown, jobs, jobStatus, pc, goal,
          task, cursor, result, online0, todo, attempt, cmd, drift>>

Goal    == [svc: Services, act: Action]
Outcome == {"none", "succeeded", "skipped", "blocked", "failed"}
Active  == {"queued", "running"}
Holding == {"deps", "dependents", "command", "relaunch", "record"}
PC      == Holding \cup {"idle", "register", "queued", "survey", "loop", "acquire", "wait", "done"}

-----------------------------------------------------------------------------
(* Selection and order. *)

Selected(g) == {s \in DOMAIN registry: registry[s].group = g}

\* dependency_order: some order of S in which dependencies come first.
Orders(S) ==
  {o \in [1..Cardinality(S) -> S]:
     \A i, j \in DOMAIN o: i < j => o[i] # o[j] /\ o[j] \notin registry[o[i]].deps}

\* The steps of _run_job: stop in reverse order, start in order, restart both.
Plan(act, o) ==
  LET n == Len(o)
      Stop(i)  == [svc |-> o[n + 1 - i], act |-> "stop"]
      Start(i) == [svc |-> o[i], act |-> "start"]
  IN  CASE act = "stop"    -> [i \in 1..n |-> Stop(i)]
        [] act = "start"   -> [i \in 1..n |-> Start(i)]
        [] act = "restart" -> [i \in 1..(2 * n) |-> IF i <= n THEN Stop(i) ELSE Start(i - n)]

Task(act, o, S) ==
  [act |-> act, plan |-> Plan(act, o),
   bound |-> [s \in S |-> registry[s]], intent |-> [s \in S |-> gen[s]]]

-----------------------------------------------------------------------------
(* Shared by every thread. *)

\* _available
Available == ~maintenance /\ ~shutdown

\* The set called selected: services whose dependents are not protected from a.
Scope(a) == IF a \in Clients THEN {goal[a].svc} ELSE DOMAIN task[a].bound

Dependents(s) == {t \in DOMAIN registry: s \in registry[t].deps}

Failed(w) == {s \in Services: result[w][s] \in {"failed", "blocked"}}

\* Mutant of Current: the bound definition is not compared.
CurrentMut(w) ==
  LET s == goal[w].svc IN
  Available /\ s \in DOMAIN registry /\ (w # Starter => gen[s] = task[w].intent[s])

\* _mutation and _check_intent: the definition is the one the worker was bound
\* to, and no explicit action has been recorded since a job was submitted.
Current(w) ==
  LET s == goal[w].svc IN
  /\ Available
  /\ s \in DOMAIN registry
  /\ registry[s] = task[w].bound[s]
  /\ w # Starter => gen[s] = task[w].intent[s]

\* _require_action: a job obeys the controls of the service.
Controlled(w) == w # Starter => task[w].act \in registry[goal[w].svc].offers

Release == lock' = None /\ drift' = {}

\* A worker ends its current step with outcome r and goes on to the next one.
Conclude(w, r) ==
  /\ result' = [result EXCEPT ![w][goal[w].svc] = r]
  /\ cursor' = [cursor EXCEPT ![w] = @ + 1]
  /\ attempt' = 0
  /\ pc' = [pc EXCEPT ![w] = "loop"]
  /\ goal' = [goal EXCEPT ![w] = None]
  /\ UNCHANGED online0

\* An exception in _mutate.  A job records the failure; autostart tries a step
\* that did not fail with an OperationsError three times.
WorkerFails(w, retryable) ==
  IF w = Starter /\ retryable /\ attempt < 2
  THEN /\ attempt' = attempt + 1
       /\ pc' = [pc EXCEPT ![w] = "acquire"]
       /\ UNCHANGED <<goal, cursor, result, online0>>
  ELSE Conclude(w, "failed")

\* Mutant of Abort: a request thread keeps the lock.
AbortMut(a, retryable) ==
  /\ todo' = [todo EXCEPT ![a] = {}]
  /\ IF a \in Clients
     THEN /\ pc' = [pc EXCEPT ![a] = "idle"]
          /\ goal' = [goal EXCEPT ![a] = None]
          /\ UNCHANGED <<lock, drift, workVars>>
     ELSE Release /\ WorkerFails(a, retryable)

\* An exception while a holds the lock: the lock is released on the way out.
Abort(a, retryable) ==
  /\ Release
  /\ todo' = [todo EXCEPT ![a] = {}]
  /\ IF a \in Clients
     THEN /\ pc' = [pc EXCEPT ![a] = "idle"]
          /\ goal' = [goal EXCEPT ![a] = None]
          /\ UNCHANGED workVars
     ELSE WorkerFails(a, retryable)

-----------------------------------------------------------------------------
(* The locked section: checks, PM2 commands, record, release. *)

Enter(a, act) ==
  /\ lock = None
  /\ lock' = a
  /\ drift' = {}
  /\ pc' = [pc EXCEPT ![a] = IF act = "stop" THEN "dependents" ELSE "deps"]

\* Mutant of PassCheck: a dependency that is launching will do.
PassCheckMut(a, s) ==
  /\ s \in todo[a]
  /\ ~maintenance
  /\ (pc[a] = "deps" /\ Alive(s)) \/ (pc[a] = "dependents" /\ ~Online(s))
  /\ todo' = [todo EXCEPT ![a] = @ \ {s}]
  /\ cmd' = None
  /\ UNCHANGED <<proc, lock, gen, pc, goal, drift, ctrlVars, jobVars, workVars>>

\* One service passes the check: _dependencies_ready finds a dependency online
\* and healthy, _refuse_external_dependents a dependent not online.
PassCheck(a, s) ==
  /\ s \in todo[a]
  /\ ~maintenance
  /\ \/ /\ pc[a] = "deps"
        /\ Online(s)
        /\ a \in Workers /\ s \in DOMAIN task[a].bound => registry[s] = task[a].bound[s]
     \/ /\ pc[a] = "dependents"
        /\ ~Online(s)
  /\ todo' = [todo EXCEPT ![a] = @ \ {s}]
  /\ cmd' = None
  /\ UNCHANGED <<proc, lock, gen, pc, goal, drift, ctrlVars, jobVars, workVars>>

\* A dependency is not ready, a dependent is online, or a read failed: that of
\* a dependency or a dependent, or the one a worker makes before it starts.
\* The second check of a manual restart begins with _available.
CheckFails(a) ==
  /\ \/ pc[a] \in {"deps", "dependents"} /\ todo[a] # {}
     \/ pc[a] = "deps" /\ goal[a].act = "restart" /\ ~Available
     \/ pc[a] = "command" /\ a \in Workers /\ goal[a].act = "start"
  /\ \E retryable \in BOOLEAN: Abort(a, retryable)
  /\ cmd' = None
  /\ UNCHANGED <<proc, gen, ctrlVars, jobVars>>

\* Mutant of EndCheck: a manual restart does not look at the dependents.
EndCheckMut(a) ==
  /\ pc[a] \in {"deps", "dependents"}
  /\ todo[a] = {}
  /\ pc' = [pc EXCEPT ![a] = "command"]
  /\ cmd' = None
  /\ UNCHANGED <<proc, lock, gen, goal, todo, drift, ctrlVars, jobVars, workVars>>

\* Every service has passed.  A manual restart looks at the dependents next.
EndCheck(a) ==
  /\ pc[a] \in {"deps", "dependents"}
  /\ todo[a] = {}
  /\ IF pc[a] = "deps" /\ goal[a].act = "restart"
     THEN /\ Available
          /\ pc' = [pc EXCEPT ![a] = "dependents"]
          /\ todo' = [todo EXCEPT ![a] = Dependents(goal[a].svc) \ Scope(a)]
     ELSE /\ pc' = [pc EXCEPT ![a] = "command"]
          /\ UNCHANGED todo
  /\ cmd' = None
  /\ UNCHANGED <<proc, lock, gen, goal, drift, ctrlVars, jobVars, workVars>>

\* A worker whose service is online already does not start it again.
AlreadyOnline(w) ==
  /\ pc[w] = "command"
  /\ goal[w].act = "start"
  /\ ~maintenance
  /\ Online(goal[w].svc)
  /\ Release
  /\ pc' = [pc EXCEPT ![w] = "wait"]
  /\ cmd' = None
  /\ UNCHANGED <<proc, gen, goal, todo, ctrlVars, jobVars, workVars>>

\* The outcome of a PM2 command; during maintenance the wrapper refuses it.
Command(a, op, outcomes, after) ==
  LET s == goal[a].svc IN
  \E outcome \in IF maintenance THEN {<<proc[s], FALSE>>} ELSE outcomes:
    /\ proc' = [proc EXCEPT ![s] = outcome[1]]
    /\ cmd' = [op |-> op, svc |-> s, by |-> a]
    /\ IF outcome[2]
       THEN /\ pc' = [pc EXCEPT ![a] = after]
            /\ UNCHANGED <<lock, goal, todo, drift, workVars>>
       ELSE Abort(a, TRUE)
    /\ UNCHANGED <<gen, ctrlVars, jobVars>>

StopCommand(a) ==
  /\ pc[a] = "command"
  /\ \/ goal[a].act = "stop"
     \/ goal[a].act = "restart" /\ Alive(goal[a].svc)
  /\ Command(a, "stop", StopOutcomes(proc[goal[a].svc]),
             IF goal[a].act = "restart" THEN "relaunch" ELSE "record")

StartCommand(a) ==
  /\ \/ pc[a] = "relaunch"
     \/ /\ pc[a] = "command"
        /\ \/ goal[a].act = "start" /\ (a \in Workers => ~Online(goal[a].svc))
           \/ goal[a].act = "restart" /\ ~Alive(goal[a].svc)
  /\ Command(a, "start", StartOutcomes(proc[goal[a].svc]), "record")

\* record_action and the end of the locked section.  Only an explicit action
\* invalidates the intent of a running job.
Record(a) ==
  /\ pc[a] = "record"
  /\ Release
  /\ IF a \in Clients
     THEN /\ gen' = [gen EXCEPT ![goal[a].svc] = @ + 1]
          /\ pc' = [pc EXCEPT ![a] = "idle"]
          /\ goal' = [goal EXCEPT ![a] = None]
          /\ UNCHANGED workVars
     ELSE /\ IF goal[a].act = "start"
             THEN pc' = [pc EXCEPT ![a] = "wait"] /\ UNCHANGED <<goal, workVars>>
             ELSE Conclude(a, "succeeded")
          /\ UNCHANGED gen
  /\ cmd' = None
  /\ UNCHANGED <<proc, todo, ctrlVars, jobVars>>

-----------------------------------------------------------------------------
(* Request threads. *)

\* trigger_action up to the first check; what it refuses changes nothing.
Request(c, s, act) ==
  /\ pc[c] = "idle"
  /\ Available
  /\ s \in DOMAIN registry
  /\ act \in registry[s].offers
  /\ gen[s] < MaxGen
  /\ Enter(c, act)
  /\ goal' = [goal EXCEPT ![c] = [svc |-> s, act |-> act]]
  /\ todo' = [todo EXCEPT ![c] = IF act = "stop" THEN Dependents(s) \ {s} ELSE registry[s].deps]
  /\ cmd' = None
  /\ UNCHANGED <<proc, gen, ctrlVars, jobVars, workVars>>

\* Bound: an identifier is left for every submission under way.
JobIdsLeft ==
  Cardinality({j \in JobIds: jobStatus[j] = "none"}) > Cardinality({c \in Clients: pc[c] = "register"})

\* submit_group, under the config lock: select and order the group.
Submit(c, g, act) ==
  /\ pc[c] = "idle"
  /\ JobIdsLeft
  /\ Available
  /\ lock = None
  /\ Selected(g) # {}
  /\ \E o \in Orders(Selected(g)): task' = [task EXCEPT ![c] = Task(act, o, Selected(g))]
  /\ pc' = [pc EXCEPT ![c] = "register"]
  /\ cmd' = None
  /\ UNCHANGED <<proc, lock, gen, goal, todo, drift, jobs, jobStatus, ctrlVars, workVars>>

\* Mutant of Busy: a queued job does not count.
BusyMut == \E j \in JobIds: jobStatus[j] = "running"

\* Some job is queued or running.
Busy == \E j \in JobIds: jobStatus[j] \in Active

\* Mutant of Retain: the newest job leaves the table.
RetainMut(table) == IF Len(table) > JobLimit THEN SubSeq(table, 1, JobLimit) ELSE table

\* The oldest jobs leave the table when it is over its limit.
Retain(table) ==
  IF Len(table) > JobLimit THEN SubSeq(table, Len(table) - JobLimit + 1, Len(table)) ELSE table

\* submit_group, under _lock: one active job; the intents are those of now.
Register(c) ==
  /\ pc[c] = "register"
  /\ IF Busy
     THEN /\ pc' = [pc EXCEPT ![c] = "idle"]
          /\ task' = [task EXCEPT ![c] = None]
          /\ UNCHANGED <<jobs, jobStatus>>
     ELSE \E j \in JobIds:
            /\ jobStatus[j] = "none"
            /\ jobs' = Retain(Append(jobs, j))
            /\ jobStatus' = [jobStatus EXCEPT ![j] = "queued"]
            /\ task' = [task EXCEPT ![c] = None, ![j] =
                 [task[c] EXCEPT !.intent = [s \in DOMAIN task[c].bound |-> gen[s]]]]
            /\ pc' = [pc EXCEPT ![c] = "idle", ![j] = "queued"]
  /\ cmd' = None
  /\ UNCHANGED <<proc, lock, gen, goal, todo, drift, ctrlVars, workVars>>

-----------------------------------------------------------------------------
(* The worker of a group job, and the autostart thread. *)

\* _run_job starts; it first finds out which members are online.
RunJob(j) ==
  /\ pc[j] = "queued"
  /\ jobStatus' = [jobStatus EXCEPT ![j] = "running"]
  /\ pc' = [pc EXCEPT ![j] = "survey"]
  /\ todo' = [todo EXCEPT ![j] = DOMAIN task[j].bound]
  /\ cmd' = None
  /\ UNCHANGED <<proc, lock, gen, goal, drift, jobs, task, ctrlVars, workVars>>

SurveyOne(j, s) ==
  /\ pc[j] = "survey"
  /\ s \in todo[j]
  /\ lock = None
  /\ Available
  /\ s \in DOMAIN registry /\ registry[s] = task[j].bound[s]
  /\ online0' = [online0 EXCEPT ![j] = IF Online(s) THEN @ \cup {s} ELSE @]
  /\ todo' = [todo EXCEPT ![j] = @ \ {s}]
  /\ cmd' = None
  /\ UNCHANGED <<proc, lock, gen, pc, goal, cursor, result, attempt, drift, ctrlVars, jobVars>>

\* A definition changed, the engine is in maintenance, or the read failed: the
\* job fails as a whole.
SurveyFails(j) ==
  /\ pc[j] = "survey"
  /\ todo[j] # {}
  /\ lock = None
  /\ todo' = [todo EXCEPT ![j] = {}]
  /\ jobStatus' = [jobStatus EXCEPT ![j] = "failed"]
  /\ pc' = [pc EXCEPT ![j] = "done"]
  /\ cmd' = None
  /\ UNCHANGED <<proc, lock, gen, goal, drift, jobs, task, ctrlVars, workVars>>

SurveyDone(j) ==
  /\ pc[j] = "survey"
  /\ todo[j] = {}
  /\ pc' = [pc EXCEPT ![j] = "loop"]
  /\ cmd' = None
  /\ UNCHANGED <<proc, lock, gen, goal, todo, drift, ctrlVars, jobVars, workVars>>

\* The services marked autostart.
AutoSelected == {s \in DOMAIN registry: registry[s].autostart}

\* autostart begins: it starts what is marked, in dependency order.
Autostart ==
  /\ pc[Starter] = "idle"
  /\ \E o \in Orders(AutoSelected): task' = [task EXCEPT ![Starter] = Task("start", o, AutoSelected)]
  /\ pc' = [pc EXCEPT ![Starter] = "loop"]
  /\ cmd' = None
  /\ UNCHANGED <<proc, lock, gen, goal, todo, drift, jobs, jobStatus, ctrlVars, workVars>>

\* Mutant of Skipped: a restart does not look at what was online.
SkippedMut(w, step) == step.act = "start" /\ step.svc \in Failed(w)

\* A restart leaves alone what was not online; a service whose stop failed or
\* was blocked is not started.
Skipped(w, step) ==
  \/ task[w].act = "restart" /\ step.svc \notin online0[w]
  \/ step.act = "start" /\ step.svc \in Failed(w)

\* Mutant of Blocked: only starts are blocked.
BlockedMut(w, step) == step.act = "start" /\ task[w].bound[step.svc].deps \cap Failed(w) # {}

\* A failed dependent blocks the stop, a failed dependency the start.
Blocked(w, step) ==
  IF step.act = "stop"
  THEN \E t \in Failed(w): step.svc \in task[w].bound[t].deps
  ELSE task[w].bound[step.svc].deps \cap Failed(w) # {}

\* The next step of the plan: passed over, blocked, or attempted.
NextStep(w) ==
  /\ pc[w] = "loop"
  /\ cursor[w] <= Len(task[w].plan)
  /\ w = Starter => ~shutdown
  /\ LET step == task[w].plan[cursor[w]]
         Pass(r) == /\ result' = [result EXCEPT ![w][step.svc] = r]
                    /\ cursor' = [cursor EXCEPT ![w] = @ + 1]
                    /\ UNCHANGED <<pc, goal>>
     IN  \/ /\ Skipped(w, step)
            /\ Pass(IF step.act = "stop" THEN "skipped" ELSE result[w][step.svc])
         \/ /\ ~Skipped(w, step) /\ Blocked(w, step)
            /\ Pass("blocked")
         \/ /\ ~Skipped(w, step) /\ ~Blocked(w, step)
            /\ goal' = [goal EXCEPT ![w] = step]
            /\ pc' = [pc EXCEPT ![w] = "acquire"]
            /\ UNCHANGED <<result, cursor>>
  /\ cmd' = None
  /\ UNCHANGED <<proc, lock, gen, online0, todo, attempt, drift, ctrlVars, jobVars>>

\* _mutate takes the lock and passes its first checks ...
BeginStep(w) ==
  /\ pc[w] = "acquire"
  /\ Current(w) /\ Controlled(w)
  /\ Enter(w, goal[w].act)
  /\ LET s == goal[w].svc IN
       todo' = [todo EXCEPT ![w] =
                  IF goal[w].act = "stop" THEN Dependents(s) \ Scope(w) ELSE registry[s].deps]
  /\ cmd' = None
  /\ UNCHANGED <<proc, gen, goal, ctrlVars, jobVars, workVars>>

\* ... or fails there.  A service that is gone raises KeyError, not OperationsError.
RefuseStep(w) ==
  /\ pc[w] = "acquire"
  /\ lock = None
  /\ ~(Current(w) /\ Controlled(w))
  /\ WorkerFails(w, Available /\ goal[w].svc \notin DOMAIN registry)
  /\ cmd' = None
  /\ UNCHANGED <<proc, lock, gen, todo, drift, ctrlVars, jobVars>>

\* A pass of _wait_ready that finds the service online and healthy.
Ready(w) ==
  /\ pc[w] = "wait"
  /\ lock = None
  /\ Current(w)
  /\ Online(goal[w].svc)
  /\ Conclude(w, "succeeded")
  /\ cmd' = None
  /\ UNCHANGED <<proc, lock, gen, todo, drift, ctrlVars, jobVars>>

\* Mutant of NotReady: no deadline.
NotReadyMut(w) ==
  /\ pc[w] = "wait"
  /\ lock = None
  /\ ~Current(w) \/ ~Alive(goal[w].svc)
  /\ Conclude(w, "failed")
  /\ cmd' = None
  /\ UNCHANGED <<proc, lock, gen, todo, drift, ctrlVars, jobVars>>

\* A pass that raises: deadline, no longer online, changed definition or intent,
\* maintenance, shutdown, failed read.
NotReady(w) ==
  /\ pc[w] = "wait"
  /\ lock = None
  /\ \E retryable \in BOOLEAN: WorkerFails(w, retryable)
  /\ cmd' = None
  /\ UNCHANGED <<proc, lock, gen, todo, drift, ctrlVars, jobVars>>

Finish(w) ==
  /\ pc[w] = "loop"
  /\ cursor[w] > Len(task[w].plan)
  /\ pc' = [pc EXCEPT ![w] = "done"]
  /\ jobStatus' = IF w = Starter THEN jobStatus ELSE
       [jobStatus EXCEPT ![w] = IF Failed(w) = {} THEN "succeeded" ELSE "failed"]
  /\ cmd' = None
  /\ UNCHANGED <<proc, lock, gen, goal, todo, drift, jobs, task, ctrlVars, workVars>>

\* autostart returns between services, or between retries, once _stop is set.
AutostartReturns ==
  /\ pc[Starter] = "loop" \/ (pc[Starter] = "acquire" /\ attempt > 0)
  /\ shutdown
  /\ pc' = [pc EXCEPT ![Starter] = "done"]
  /\ cmd' = None
  /\ UNCHANGED <<proc, lock, gen, goal, todo, drift, ctrlVars, jobVars, workVars>>

-----------------------------------------------------------------------------
(* Configuration, engine maintenance, shutdown, PM2. *)

\* A reload that reconcile accepts: what is removed or changes its image must
\* not be alive, and loses its PM2 entry.
EditConfig(r) ==
  LET gone == {s \in DOMAIN registry: s \notin DOMAIN r \/ r[s].image # registry[s].image} IN
  /\ "edit" \in Faults
  /\ lock = None
  /\ r # registry
  /\ \A s \in gone: ~maintenance /\ ~Alive(s)
  /\ registry' = r
  /\ proc' = [s \in Services |-> IF s \in gone THEN "stopped" ELSE proc[s]]
  /\ cmd' = None
  /\ UNCHANGED <<lock, gen, maintenance, shutdown, jobVars, pc, goal, workVars, todo, drift>>

\* The engine updater comes and goes.
Maintain ==
  /\ "maintenance" \in Faults
  /\ maintenance' = ~maintenance
  /\ cmd' = None
  /\ UNCHANGED <<proc, registry, lock, gen, shutdown, jobVars, pc, goal, workVars, todo, drift>>

Shutdown ==
  /\ "shutdown" \in Faults
  /\ ~shutdown
  /\ shutdown' = TRUE
  /\ cmd' = None
  /\ UNCHANGED <<proc, registry, lock, gen, maintenance, jobVars, pc, goal, workVars, todo, drift>>

\* PM2 moves a service; drift remembers it for the thread that holds the lock.
Pm2Step(s) ==
  /\ "pm2" \in Faults
  /\ Pm2Moves(s)
  /\ drift' = IF lock = None THEN drift ELSE drift \cup {s}
  /\ cmd' = None
  /\ UNCHANGED <<lock, gen, ctrlVars, jobVars, pc, goal, workVars, todo>>

-----------------------------------------------------------------------------

Init ==
  /\ registry \in Registries
  /\ proc \in [Services -> {"stopped", "online"}]
  /\ lock = None
  /\ gen = [s \in Services |-> 0]
  /\ maintenance = FALSE
  /\ shutdown = FALSE
  /\ jobs = <<>>
  /\ jobStatus = [j \in JobIds |-> "none"]
  /\ pc = [a \in Actors |-> "idle"]
  /\ goal = [a \in Actors |-> None]
  /\ task = [a \in Actors |-> None]
  /\ cursor = [w \in Workers |-> 1]
  /\ result = [w \in Workers |-> [s \in Services |-> "none"]]
  /\ online0 = [w \in Workers |-> {}]
  /\ todo = [a \in Actors |-> {}]
  /\ attempt = 0
  /\ cmd = None
  /\ drift = {}

\* What thread a does while it holds the lock.
Section(a) ==
  \/ \E s \in Services: PassCheck(a, s)
  \/ CheckFails(a) \/ EndCheck(a)
  \/ StopCommand(a) \/ StartCommand(a) \/ Record(a)

ClientStep(c) == Section(c) \/ Register(c)

WorkerStep(w) ==
  \/ Section(w) \/ AlreadyOnline(w)
  \/ NextStep(w) \/ BeginStep(w) \/ RefuseStep(w) \/ Ready(w) \/ NotReady(w) \/ Finish(w)

JobStep(j) ==
  \/ WorkerStep(j)
  \/ RunJob(j) \/ SurveyFails(j) \/ SurveyDone(j)
  \/ \E s \in Services: SurveyOne(j, s)

AutoStep == WorkerStep(Starter) \/ AutostartReturns

Ask(c) ==
  \/ \E s \in Services, act \in Action: Request(c, s, act)
  \/ \E g \in Groups, act \in Action: Submit(c, g, act)

Next ==
  \/ \E c \in Clients: Ask(c) \/ ClientStep(c)
  \/ \E j \in JobIds: JobStep(j)
  \/ Autostart \/ AutoStep
  \/ \E r \in Registries: EditConfig(r)
  \/ Maintain \/ Shutdown
  \/ \E s \in Services: Pm2Step(s)

Spec == Init /\ [][Next]_vars

\* Threads run; the lock is not fair, but every section is short, so a thread
\* that keeps finding it free now and then gets it.  The deadline of _wait_ready
\* passes: NotReady is possible at every pass, and one pass has to be taken.
FairSpec ==
  /\ Spec
  /\ \A c \in Clients: WF_vars(ClientStep(c))
  /\ \A j \in JobIds: SF_vars(JobStep(j))
  /\ SF_vars(AutoStep)

-----------------------------------------------------------------------------
(* Properties. *)

TaskOK(t) ==
  \E S \in SUBSET Services:
    t \in [act: Action, plan: Seq([svc: S, act: Action]), bound: [S -> Definition], intent: [S -> Nat]]

\* The variables have their types.
TypeOK ==
  /\ proc \in [Services -> Status]
  /\ registry \in Registries
  /\ lock \in Actors \cup {None}
  /\ gen \in [Services -> Nat]
  /\ maintenance \in BOOLEAN /\ shutdown \in BOOLEAN
  /\ jobs \in Seq(JobIds)
  /\ jobStatus \in [JobIds -> {"none", "queued", "running", "succeeded", "failed"}]
  /\ pc \in [Actors -> PC]
  /\ goal \in [Actors -> Goal \cup {None}]
  /\ DOMAIN task = Actors /\ \A a \in Actors: task[a] = None \/ TaskOK(task[a])
  /\ cursor \in [Workers -> Nat \ {0}]
  /\ result \in [Workers -> [Services -> Outcome]]
  /\ online0 \in [Workers -> SUBSET Services]
  /\ todo \in [Actors -> SUBSET Services]
  /\ attempt \in 0..2
  /\ cmd = None \/ cmd \in [op: {"start", "stop"}, svc: Services, by: Actors]
  /\ drift \subseteq Services

\* A PM2 command of a worker concerns a service whose definition is the one the
\* worker was bound to; one of a group job comes after no explicit action on the
\* service since the job was submitted (_mutation 218-229, _check_intent 287-291:
\* both are read before the command, by a thread that keeps the lock in between).
WorkerCommandsAreCurrent ==
  [][ cmd' # None /\ cmd'.by \in Workers =>
        /\ cmd'.svc \in DOMAIN registry
        /\ registry[cmd'.svc] = task[cmd'.by].bound[cmd'.svc]
        /\ cmd'.by \in JobIds => gen[cmd'.svc] = task[cmd'.by].intent[cmd'.svc] ]_vars

\* Whoever starts a service, each of its dependencies is online, except for what
\* PM2 moved since the lock was taken (_dependencies_ready 245-254, _mutation).
StartsAfterDependencies ==
  [][ cmd' # None /\ cmd'.op = "start" =>
        \A d \in registry[cmd'.svc].deps: Online(d) \/ d \in drift ]_vars

\* Whoever stops a service, no service outside the scope of the request that
\* depends on it is online, except for what PM2 moved since the lock was taken
\* (_refuse_external_dependents 311-315).
StopsSpareDependents ==
  [][ cmd' # None /\ cmd'.op = "stop" =>
        \A t \in Dependents(cmd'.svc) \ Scope(cmd'.by): ~Online(t) \/ t \in drift ]_vars

\* A group restart starts only what was online when the job began and what the
\* job itself has stopped since (_run_job 386-410).
RestartRevivesNothing ==
  [][ cmd' # None /\ cmd'.op = "start" /\ cmd'.by \in JobIds /\ task[cmd'.by].act = "restart"
        => /\ cmd'.svc \in online0[cmd'.by]
           /\ result[cmd'.by][cmd'.svc] = "succeeded" ]_vars

\* At most one job is active, it is still in the table when its worker reports,
\* and the table keeps its bound (submit_group 344-354).
OneActiveJob ==
  /\ \A i, j \in JobIds: jobStatus[i] \in Active /\ jobStatus[j] \in Active => i = j
  /\ \A j \in JobIds: jobStatus[j] \in Active => \E i \in DOMAIN jobs: jobs[i] = j
  /\ Len(jobs) <= JobLimit

\* What a finished job reports of a service and of one it depends on is
\* consistent: nothing is reported started on a dependency that was not, nothing
\* stopped under a dependent that was not (_run_job 386-426).
ReportsFollowDependencies ==
  \A j \in JobIds: pc[j] = "done" =>
    \A s \in DOMAIN task[j].bound: \A d \in task[j].bound[s].deps \cap DOMAIN task[j].bound:
      CASE task[j].act = "start"   -> result[j][s] = "succeeded" => result[j][d] = "succeeded"
        [] task[j].act = "stop"    -> result[j][d] = "succeeded" => result[j][s] = "succeeded"
        [] task[j].act = "restart" -> result[j][s] = "succeeded" =>
                                        result[j][d] \in {"succeeded", "skipped"}

\* The jobs implement the board.
Board == INSTANCE JobBoard WITH JobIds <- JobIds, Limit <- JobLimit, board <- jobs, state <- jobStatus

\* Jobs come one at a time and each is queued, runs and ends once; the table is
\* the board of the most recent ones (submit_group 335-359, _update_job 368-370).
JobsFollowBoard == Board!Spec

\* Every submitted job ends (_run_job, _wait_ready).
JobsEnd ==
  \A j \in JobIds: jobStatus[j] = "queued" ~> jobStatus[j] \in {"succeeded", "failed"}

\* Every request that took the lock gives it back.
RequestsEnd == \A c \in Clients: lock = c ~> lock # c
=============================================================================
