---------------------------- MODULE ProcessManager ----------------------------
(***************************************************************************)
(* The native backend (process_manager.py) with the health check that        *)
(* reaps and adopts (health_checker.py), the route that kills an external    *)
(* instance and the lifecycle at boot.  A process is known by its birth: the  *)
(* create_time the code compares.  The system recycles a PID once no live    *)
(* process and no live group has it.  Threads meet under the operation lock  *)
(* of a service and _config_reconcile_lock; _lock is held for one step only. *)
(***************************************************************************)
EXTENDS Naturals, FiniteSets

CONSTANTS
  Services,
  Manage,     \* the services whose unmanaged_policy is "manage"
  Looks,      \* what a foreign process may be taken for: sets of services
  Pids,       \* PIDs; 0 is no PID, and the group of a foreign shell
  Threads,
  Duties,     \* what a thread may be asked to do
  Rounds,     \* signals of a stop: the primary one and the fallbacks
  Attempts,   \* of the boot at a start
  Versions,   \* versions of a definition; 0 is none
  MaxBorn, MaxBegun, MaxReload, MaxCrash, \* bounds: processes, operations, requests
              \* that change definitions, crashes
  Faults,     \* "save", "os": what may fail
  None

ASSUME ServicesFinite == IsFiniteSet(Services) /\ Manage \subseteq Services
ASSUME LooksServices == Looks \subseteq SUBSET Services
ASSUME NoPidZero == 0 \notin Pids
ASSUME BoundsNat == /\ MaxBorn \in Nat /\ MaxBegun \in Nat /\ MaxReload \in Nat /\ MaxCrash \in Nat
                    /\ Rounds \in Nat \ {0} /\ Attempts \in Nat \ {0}
ASSUME VersionsNat == Versions \subseteq Nat \ {0} /\ 1 \in Versions
ASSUME OwnersDistinct == None \notin Threads \cup {"config"} /\ "config" \notin Threads
ASSUME NotAService == None \notin Services
ASSUME DutiesKnown ==
  Duties \subseteq {"start", "autostart", "stop", "restart", "adopt", "check", "kill"}

VARIABLES
  proc,      \* the processes by birth: a dead one has PID 0
  births,    \* how many have been born
  states,    \* _states: the process each service tracks
  disk,      \* runtime/<id>.json
  unsaved,   \* services whose last _save failed
  active,    \* _active_services: versions, 0 for none
  retired,   \* _retired_services
  registry,  \* the definitions the registry publishes
  lock,      \* the operation locks
  config,    \* _config_reconcile_lock
  reload,    \* the request that changes definitions
  th,        \* what each thread is doing
  lost,      \* launches that a crash or a failed save cut off
  begun, reloads, crashes

world  == <<proc, births>>
memory == <<states, disk, unsaved>>
counts == <<begun, reloads, crashes>>
definitions == <<active, retired, registry>>
vars == <<proc, births, states, disk, unsaved, active, retired, registry, lock, config,
          reload, th, lost, begun, reloads, crashes>>

Births == 1..MaxBorn
Dead == [pid |-> 0, group |-> 0, root |-> 0, fits |-> {}, holds |-> {}, by |-> None]
Stopped == [born |-> 0, pid |-> 0, group |-> 0, adopted |-> FALSE]
Idle == [op |-> "none", pc |-> "idle", svc |-> None, def |-> 0, seen |-> Stopped,
         cand |-> Stopped, round |-> 0]
NoReload == [kind |-> "none", svc |-> None, incoming |-> [s \in Services |-> 0],
             phase |-> "none", left |-> {}]

Track(b, adopted) == [born |-> b, pid |-> proc[b].pid, group |-> proc[b].group,
                      adopted |-> adopted]

Live(b) == proc[b].pid # 0
Holders(s) == {b \in Births : s \in proc[b].holds}

-----------------------------------------------------------------------------
(* What the code asks of a runtime state. *)

\* Mutant of Alive: the PID alone.
AliveMut(st) == st.pid # 0 /\ \E b \in Births : proc[b].pid = st.pid

\* The process with this PID is the one that was recorded.
Alive(st) == st.pid # 0 /\ \E b \in Births : proc[b].pid = st.pid /\ b = st.born

\* A stop signals the group of a child, or of a foreign process that leads its own.
UseGroup(st) == st.pid # 0 /\ (~st.adopted \/ st.group = st.pid)
Members(g) == {b \in Births : Live(b) /\ proc[b].group = g}
TargetAlive(st) == IF UseGroup(st) THEN Members(st.group) # {} ELSE Alive(st)

\* Whom the signal of a stop reaches.
Reached(st) == IF UseGroup(st) THEN Members(st.group)
               ELSE {b \in Births : Live(b) /\ proc[b].pid = st.pid}

TrackedElsewhere(s, b) == \E u \in Services \ {s} : states[u].born = b

\* Mutant of Adoptable: other services are not asked.
AdoptableMut(s, b) == s \in proc[b].fits

\* Command, directory and owner allow service s to take process b.
Adoptable(s, b) == s \in proc[b].fits /\ ~TrackedElsewhere(s, b)

-----------------------------------------------------------------------------
(* Storing a state, and how a thread goes on. *)

Saves == {TRUE} \cup (IF "save" \in Faults THEN {FALSE} ELSE {})

Store(s, st, saved) ==
  /\ states' = [states EXCEPT ![s] = st]
  /\ disk' = IF saved THEN [disk EXCEPT ![s] = st] ELSE disk
  /\ unsaved' = IF saved THEN unsaved \ {s} ELSE unsaved \cup {s}

\* Mutant of Current: whatever is tracked is taken for what was seen.
CurrentMut(s, st) == states[s].pid # 0

\* The test of _mark_stopped_if_current.
Current(s, st) == states[s].pid = st.pid /\ states[s].born = st.born

Becomes(t, o) == th' = [th EXCEPT ![t] = o]
At(t, pc) == th[t].pc = pc
Goes(t, pc) == Becomes(t, [th[t] EXCEPT !.pc = pc])
MayLock(t, s) == lock[s] \in {None, t}
Lock(t, s) == lock' = [lock EXCEPT ![s] = t]
Keeps == UNCHANGED <<lock, config>>

\* The operation returns or raises: its locks are given back.
Ends(t) == /\ Becomes(t, Idle)
           /\ lock' = [s \in Services |-> IF lock[s] = t THEN None ELSE lock[s]]
           /\ config' = IF config = t THEN None ELSE config

\* A check, and the one a kill begins with, ends at once if the service is alive.
First(op, s) ==
  IF op \in {"start", "autostart"} THEN "start"
  ELSE IF op \in {"stop", "restart"} THEN "stop"
  ELSE IF op = "adopt" \/ states[s].pid = 0 THEN "evaluate" ELSE "mark"

\* A request, a poll or the boot begins an operation with the definition in the
\* registry; the actions of users hold _config_reconcile_lock throughout.
Begin(t) ==
  /\ At(t, "idle") /\ begun < MaxBegun /\ begun' = begun + 1
  /\ \E op \in Duties, s \in Services :
       /\ registry[s] # 0
       /\ op \in {"check", "kill"} => ~Alive(states[s])
       /\ Becomes(t, [Idle EXCEPT !.op = op, !.pc = First(op, s), !.svc = s,
                        !.def = registry[s],
                        !.seen = IF First(op, s) = "mark" THEN states[s] ELSE Stopped])
       /\ IF op \in {"start", "stop", "restart"}
          THEN config = None /\ config' = t ELSE UNCHANGED config
  /\ UNCHANGED <<world, memory, definitions, lock, reload, lost, reloads, crashes>>

-----------------------------------------------------------------------------
(* start *)

\* Named assumption: no PID comes round again while a stop waits on it.
Awaited == {th[t].seen.pid : t \in {u \in Threads : th[u].pc = "wait"}}
FreePids == {p \in Pids \ Awaited : \A b \in Births : p \notin {proc[b].pid, proc[b].group}}

Born(p, group, root, fits, by) ==
  /\ proc' = [proc EXCEPT ![births + 1] = [pid |-> p, group |-> group, root |-> root,
                                           fits |-> fits, holds |-> {}, by |-> by]]
  /\ births' = births + 1

Outdated(t, s) == s \in retired \/ active[s] \notin {0, th[t].def}
Refused(t, s) == Outdated(t, s) \/ Alive(states[s]) \/ Holders(s) # {}

\* A start raises; the boot tries again unless the service turns out alive.
StartFails(t, s) ==
  IF th[t].op = "autostart" /\ th[t].round < Attempts - 1 /\ ~Alive(states[s])
  THEN Becomes(t, [th[t] EXCEPT !.round = @ + 1]) /\ Keeps
  ELSE Ends(t)

Start(t) == LET s == th[t].svc IN
  /\ At(t, "start") /\ MayLock(t, s)
  /\ \/ /\ Refused(t, s) \/ "os" \in Faults \/ births = MaxBorn
        /\ StartFails(t, s) /\ UNCHANGED world
     \/ /\ ~Refused(t, s) /\ births < MaxBorn
        /\ \E p \in FreePids :
             /\ Born(p, p, births + 1, {s}, s)
             /\ Becomes(t, [th[t] EXCEPT !.pc = "commit",
                  !.cand = [born |-> births + 1, pid |-> p, group |-> p, adopted |-> FALSE]])
        /\ Lock(t, s) /\ UNCHANGED config
  /\ UNCHANGED <<memory, definitions, reload, lost, counts>>

\* The child is recorded; one that is gone already may have no group to record.
Commit(t) ==
  /\ At(t, "commit") /\ Ends(t)
  /\ \/ \E saved \in Saves : Store(th[t].svc, th[t].cand, saved)
     \/ ~Alive(th[t].cand) /\ UNCHANGED memory
  /\ UNCHANGED <<world, definitions, reload, lost, counts>>

-----------------------------------------------------------------------------
(* stop, and restart, which goes on to start under the same lock *)

MarkStopped(s, st, saved) ==
  IF Current(s, st) THEN Store(s, Stopped, saved) ELSE UNCHANGED memory

\* The target is gone: it is marked, and a restart goes on.
StopDone(t, s, st) ==
  \E saved \in Saves :
    /\ MarkStopped(s, st, saved)
    /\ IF th[t].op = "restart" /\ saved
       THEN /\ Becomes(t, [th[t] EXCEPT !.pc = "start", !.seen = Stopped, !.round = 0])
            /\ Lock(t, s) /\ UNCHANGED config
       ELSE Ends(t)

\* The target is alive and is signalled: the first signal to a group needs its leader,
\* one to a PID the process.  Reached are hit; processes end by Exit.
Signal(t, st, round) ==
  Becomes(t, [th[t] EXCEPT !.pc = "wait", !.seen = st, !.round = round])

StopBegins(t) == LET s == th[t].svc st == states[s] IN
  /\ At(t, "stop") /\ MayLock(t, s)
  /\ \/ /\ TargetAlive(st) /\ UNCHANGED memory
        /\ IF Alive(st) THEN Signal(t, st, 1) /\ Lock(t, s) /\ UNCHANGED config
           ELSE Ends(t)
     \/ ~TargetAlive(st) /\ StopDone(t, s, st)
  /\ UNCHANGED <<world, definitions, reload, lost, counts>>

\* The wait ends with the target, or at its deadline: the next signal, or an error.
Wait(t) == LET s == th[t].svc st == th[t].seen IN
  /\ At(t, "wait")
  /\ \/ ~TargetAlive(st) /\ StopDone(t, s, st)
     \/ /\ TargetAlive(st) /\ UNCHANGED memory
        /\ IF th[t].round < Rounds THEN Signal(t, st, th[t].round + 1) /\ Keeps
           ELSE Ends(t)
  /\ UNCHANGED <<world, definitions, reload, lost, counts>>

-----------------------------------------------------------------------------
(* HealthChecker.check: reap, then look for an instance to adopt *)

\* No operation lock here: only what was seen dead is marked.
Mark(t) == LET s == th[t].svc IN
  /\ At(t, "mark")
  /\ \E saved \in Saves :
       /\ MarkStopped(s, th[t].seen, saved)
       /\ IF saved /\ states'[s].pid = 0
          THEN Becomes(t, [th[t] EXCEPT !.pc = "evaluate", !.seen = Stopped]) /\ Keeps
          ELSE Ends(t)
  /\ UNCHANGED <<world, definitions, reload, lost, counts>>

\* The probe fails, or somebody listens: adopt it if that is the policy and it may be
\* taken; otherwise the service is running_external, which a kill asks for.
Evaluate(t) == LET s == th[t].svc IN
  /\ At(t, "evaluate")
  /\ \/ Ends(t)
     \/ \E b \in Holders(s) :
          LET found == ~Alive(states[s]) IN
          IF s \in Manage /\ found /\ Adoptable(s, b)
          THEN /\ Becomes(t, [th[t] EXCEPT !.pc = "adopt", !.seen = states[s],
                                           !.cand = Track(b, TRUE)])
               /\ Keeps
          ELSE IF th[t].op = "kill"
          THEN /\ Becomes(t, [th[t] EXCEPT !.pc = "kill", !.seen = Stopped,
                                !.cand = IF found THEN Track(b, TRUE) ELSE Stopped])
               /\ Keeps
          ELSE Ends(t)
  /\ UNCHANGED <<world, memory, definitions, reload, lost, counts>>

\* _commit_adopt_evaluation: everything that was observed must still hold.
Adopt(t) == LET s == th[t].svc c == th[t].cand IN
  /\ At(t, "adopt") /\ lock[s] = None
  /\ IF /\ ~Outdated(t, s) /\ Holders(s) = {c.born}
        /\ states[s] = th[t].seen /\ Adoptable(s, c.born)
     THEN (\E saved \in Saves : Store(s, c, saved)) /\ Ends(t)
     ELSE /\ IF th[t].op = "kill"
             THEN Becomes(t, [th[t] EXCEPT !.pc = "kill", !.seen = Stopped]) /\ Keeps
             ELSE Ends(t)
          /\ UNCHANGED memory
  /\ UNCHANGED <<world, definitions, reload, lost, counts>>

-----------------------------------------------------------------------------
(* kill_external *)

TrackedPids == {states[u].pid : u \in Services} \ {0}

\* Mutant of KillLock: the identity is proved without the operation lock.
KillLockMut(t, s) == UNCHANGED lock
KillLock(t, s) == Lock(t, s)

\* Under the lock the identity is proved afresh, for the PID that was seen.
KillBegins(t) == LET s == th[t].svc IN
  /\ At(t, "kill") /\ lock[s] = None
  /\ \/ \E b \in Holders(s) :
          /\ ~Alive(states[s]) /\ Adoptable(s, b)
          /\ th[t].cand.pid \in {0, proc[b].pid} /\ proc[b].pid \notin TrackedPids
          /\ Becomes(t, [th[t] EXCEPT !.pc = "hit", !.cand = Track(b, TRUE), !.round = 1])
          /\ KillLock(t, s) /\ UNCHANGED config
     \/ Ends(t)
  /\ UNCHANGED <<world, memory, definitions, reload, lost, counts>>

StillHeld(t) == th[t].cand.born \in Holders(th[t].svc)

\* Each signal is sent to the process that was proved, while it holds the port.
Hit(t) ==
  /\ At(t, "hit")
  /\ IF StillHeld(t) THEN Goes(t, "hitwait") /\ Keeps ELSE Ends(t)
  /\ UNCHANGED <<world, memory, definitions, reload, lost, counts>>

HitWait(t) ==
  /\ At(t, "hitwait")
  /\ IF StillHeld(t) /\ th[t].round < Rounds
     THEN Becomes(t, [th[t] EXCEPT !.pc = "hit", !.round = @ + 1]) /\ Keeps
     ELSE Ends(t)
  /\ UNCHANGED <<world, memory, definitions, reload, lost, counts>>

-----------------------------------------------------------------------------
(* Requests that change definitions, under _config_reconcile_lock *)

Requested(kind, s, incoming) ==
  LET removed == {u \in Services : incoming[u] = 0} IN
  reload' = [kind |-> kind, svc |-> s, incoming |-> incoming,
             phase |-> IF removed = {} THEN "activate" ELSE "retire",
             left |-> IF removed = {} THEN Services ELSE removed]

\* A reload of the file, or a create, an update or a delete that holds the operation
\* lock of its service; a service that runs is not deleted.
ReloadBegins ==
  /\ config = None /\ reloads < MaxReload /\ reloads' = reloads + 1
  /\ config' = "config"
  /\ \/ \E incoming \in [Services -> Versions \cup {0}] :
          incoming # registry /\ Requested("reload", None, incoming) /\ UNCHANGED lock
     \/ \E s \in Services, v \in Versions \cup {0} :
          /\ lock[s] = None /\ v # registry[s] /\ (v = 0 => ~Alive(states[s]))
          /\ Requested(IF v = 0 THEN "delete" ELSE "save", s, [registry EXCEPT ![s] = v])
          /\ Lock("config", s)
  /\ UNCHANGED <<world, memory, definitions, th, lost, begun, crashes>>

ReloadEnds == /\ reload' = NoReload /\ config' = None
              /\ lock' = [s \in Services |-> IF lock[s] = "config" THEN None ELSE lock[s]]

\* Mutant of MayRetire: it does not wait for the operation of the service.
MayRetireMut(s) == TRUE
MayRetire(s) == MayLock("config", s)

\* reconcile_service_definitions retires one service at a time and raises at the first
\* that runs; those before it stay retired.
Retire ==
  /\ reload.phase = "retire"
  /\ \E s \in reload.left :
       /\ MayRetire(s)
       /\ IF Alive(states[s]) THEN ReloadEnds /\ UNCHANGED <<active, retired>>
          ELSE /\ active' = [active EXCEPT ![s] = 0] /\ retired' = retired \cup {s}
               /\ reload' = IF reload.left = {s} THEN [reload EXCEPT !.phase = "activate",
                                  !.left = {u \in Services : reload.incoming[u] # 0}]
                            ELSE [reload EXCEPT !.left = @ \ {s}]
               /\ Keeps
  /\ UNCHANGED <<world, memory, registry, th, lost, counts>>

Activate ==
  /\ reload.phase = "activate"
  /\ \E s \in reload.left :
       /\ MayLock("config", s)
       /\ active' = [active EXCEPT ![s] = reload.incoming[s]] /\ retired' = retired \ {s}
       /\ reload' = [reload EXCEPT !.left = @ \ {s}]
  /\ UNCHANGED <<world, memory, registry, lock, config, th, lost, counts>>

\* The registry takes the definitions; a delete then forgets the service.
Publish == LET s == reload.svc IN
  /\ reload.phase = "activate" /\ reload.left = {} /\ ReloadEnds
  /\ registry' = reload.incoming
  /\ IF reload.kind = "delete" /\ ~Alive(states[s])
     THEN Store(s, Stopped, TRUE) ELSE UNCHANGED memory
  /\ UNCHANGED <<world, active, retired, th, lost, counts>>

-----------------------------------------------------------------------------
(* The world around the controller *)

\* The controller dies and comes back: states are read from disk, definitions from the
\* file, which holds the candidate while a request is being taken over.
Crash ==
  /\ crashes < MaxCrash /\ crashes' = crashes + 1
  /\ th' = [t \in Threads |-> Idle] /\ lock' = [s \in Services |-> None]
  /\ config' = None /\ reload' = NoReload
  /\ states' = disk /\ unsaved' = {} /\ UNCHANGED <<world, disk, begun, reloads>>
  /\ lost' = {b \in Births : /\ Live(b)
                          /\ \/ b \in lost \/ \E s \in unsaved : states[s].born = b
                             \/ \E t \in Threads : At(t, "commit") /\ th[t].cand.born = b}
  /\ registry' \in {registry} \cup (IF reload.kind = "none" THEN {} ELSE {reload.incoming})
  /\ active' = registry' /\ retired' = {}

\* Somebody runs a command by hand: it leads its group, or belongs to a shell.
Foreign ==
  /\ births < MaxBorn
  /\ \E p \in FreePids, fits \in Looks, led \in BOOLEAN :
       Born(p, IF led THEN p ELSE 0, births + 1, fits, None)
  /\ UNCHANGED <<memory, definitions, lock, config, reload, th, lost, counts>>

\* A process starts another in its group.
Fork(b) ==
  /\ Live(b) /\ proc[b].root = b /\ births < MaxBorn
  /\ \E p \in FreePids : Born(p, proc[b].group, b, {}, None)
  /\ UNCHANGED <<memory, definitions, lock, config, reload, th, lost, counts>>

Listen(b, s) ==
  /\ Live(b) /\ Holders(s) = {} /\ proc' = [proc EXCEPT ![b].holds = @ \cup {s}]
  /\ UNCHANGED <<births, memory, definitions, lock, config, reload, th, lost, counts>>

Exit(b) ==
  /\ Live(b) /\ proc' = [proc EXCEPT ![b] = Dead] /\ lost' = lost \ {b}
  /\ UNCHANGED <<births, memory, definitions, lock, config, reload, th, counts>>

\* A controller without services, or whose processes are all gone, may rest.
Rest ==
  /\ \A t \in Threads : At(t, "idle")
  /\ config = None /\ UNCHANGED vars

-----------------------------------------------------------------------------
Init ==
  /\ proc = [b \in Births |-> Dead] /\ births = 0
  /\ states = [s \in Services |-> Stopped] /\ disk = states /\ unsaved = {}
  /\ active = [s \in Services |-> 1] /\ registry = active /\ retired = {}
  /\ lock = [s \in Services |-> None] /\ config = None /\ reload = NoReload
  /\ th = [t \in Threads |-> Idle] /\ lost = {} /\ begun = 0 /\ reloads = 0 /\ crashes = 0

Step(t) == \/ Begin(t) \/ Start(t) \/ Commit(t) \/ StopBegins(t) \/ Wait(t)
           \/ Mark(t) \/ Evaluate(t) \/ Adopt(t) \/ KillBegins(t) \/ Hit(t)
           \/ HitWait(t)
Configure == ReloadBegins \/ Retire \/ Activate \/ Publish
Environment == \/ Crash \/ Foreign
               \/ \E b \in Births : Fork(b) \/ Exit(b) \/ (\E s \in Services : Listen(b, s))

Next == (\E t \in Threads : Step(t)) \/ Configure \/ Environment \/ Rest
Spec == Init /\ [][Next]_vars

-----------------------------------------------------------------------------
(* Properties *)

StateSet == [born : 0..MaxBorn, pid : Pids \cup {0}, group : Pids \cup {0}, adopted : BOOLEAN]
Process == [pid : Pids \cup {0}, group : Pids \cup {0}, root : 0..MaxBorn,
            fits : SUBSET Services, holds : SUBSET Services, by : Services \cup {None}]
Registry == [Services -> Versions \cup {0}]
Request == [kind : {"none", "reload", "save", "delete"}, svc : Services \cup {None},
            incoming : Registry, phase : {"none", "retire", "activate"}, left : SUBSET Services]
Pcs == {"idle", "start", "commit", "stop", "wait", "mark", "evaluate",
        "adopt", "kill", "hit", "hitwait"}
Work == [op : Duties \cup {"none"}, pc : Pcs, svc : Services \cup {None},
         def : Versions \cup {0}, seen : StateSet, cand : StateSet, round : Nat]

\* Every variable has its type.
TypeOK ==
  /\ proc \in [Births -> Process] /\ births \in 0..MaxBorn /\ lost \subseteq Births
  /\ states \in [Services -> StateSet] /\ disk \in [Services -> StateSet]
  /\ unsaved \subseteq Services /\ retired \subseteq Services
  /\ active \in Registry /\ registry \in Registry /\ reload \in Request
  /\ lock \in [Services -> Threads \cup {"config", None}]
  /\ config \in Threads \cup {"config", None}
  /\ th \in [Threads -> Work]
  /\ begun \in 0..MaxBegun /\ reloads \in 0..MaxReload /\ crashes \in 0..MaxCrash

\* No child the controller launched runs out of its sight: the service it was launched
\* for tracks it or is about to, whatever polls, stops and reloads come in between,
\* unless a crash cut the launch off from its record.
SpawnedIsTracked ==
  \A b \in Births : proc[b].by # None =>
    \/ b \in lost
    \/ states[proc[b].by].born = b
    \/ \E t \in Threads : th[t].pc = "commit" /\ th[t].cand.born = b

\* Two services never track one live process, though both may take it for theirs.
NoSharedProcess ==
  \A s, u \in Services : s # u /\ states[s].born = states[u].born => ~Alive(states[s])

\* A service that is retired has no live process and none under way: no start or
\* adoption decided before the reload or the deletion goes through after it.
RetiredIsStopped ==
  \A s \in retired :
    /\ ~Alive(states[s])
    /\ \A t \in Threads : th[t].pc = "commit" => th[t].svc # s

\* A stop signals only processes of the group of the process that is tracked, however
\* long ago it was recorded and whoever has its PID now.
SignalsHitTracked ==
  [][\A t \in Threads : LET st == th'[t].seen IN
       th'[t].pc = "wait" /\ th'[t].round # th[t].round =>
         \A b \in Reached(st) : b = st.born \/ (UseGroup(st) /\ proc[b].root = st.born)]_vars

\* kill_external signals no process that its service tracks, nor a child of another;
\* only one that another service adopted after the check may be hit.
KillSparesTracked ==
  [][\A t \in Threads : At(t, "hit") /\ th'[t].pc = "hitwait" =>
       \A u \in Services : states[u].born = th[t].cand.born =>
         u # th[t].svc /\ states[u].adopted]_vars
=============================================================================
