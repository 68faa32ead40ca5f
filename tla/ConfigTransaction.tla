--------------------------- MODULE ConfigTransaction ---------------------------
(***************************************************************************)
(* Changing services.yml (routes/config_api.py, config_writer.py,            *)
(* config_checkpoint.py, the startup of app.py and the reconciliation of     *)
(* pm2_manager.py).  A request writes the file, has the PM2 manager accept   *)
(* what the file says now, stores it as the last good configuration and      *)
(* publishes it.  Every step may fail, the controller may die between any    *)
(* two, and the operator may edit the file by hand.  Requests and service    *)
(* actions exclude each other by _config_reconcile_lock, so that one stage   *)
(* describes the request that holds it.                                      *)
(***************************************************************************)
EXTENDS Naturals, FiniteSets

CONSTANTS
  Services,      \* service ids
  Images,        \* what PM2 runs of a definition: command, env, ...
  Definitions,   \* the definitions users write
  MaxHandEdits,  \* bound: edits by hand
  Broken,        \* a file that is not YAML, or misses a field
  None

\* image is what PM2 runs, deps stands for the fields it does not look at.
Definition == [image: Images, deps: SUBSET Services]
Config == [Services -> Definitions \cup {None}]

ASSUME DefinitionsTyped == Definitions \subseteq Definition
ASSUME NoneDistinct == None \notin Definitions \cup Config \cup Images \cup (Services \X (Definitions \cup {None}))
                       /\ Broken \notin Config \cup {None}
ASSUME ServicesFinite == IsFiniteSet(Services)
ASSUME MaxHandEditsNat == MaxHandEdits \in Nat

VARIABLES
  file,       \* services.yml
  good,       \* last_good_config.yml
  active,     \* _active_services of the PM2 manager
  registry,   \* the published definitions
  running,    \* what each service runs, or None
  manifest,   \* the manifest of each service, or None
  flagged,    \* _restart_required_service_ids and _orphan_service_ids
  stage,      \* of the request that holds the lock; "down" while there is no controller
  candidate,  \* new_cfg of that request
  cleaning,   \* services reconcile has yet to clean
  asked,      \* ghost: what the request changes, a service and its definition
  wanted,     \* ghost: the configuration after all changes that were stored as good;
              \* None once a write failed or the file was edited by hand
  handEdits   \* edits by hand so far

vars == <<file, good, active, registry, running, manifest, flagged, stage, candidate,
          cleaning, asked, wanted, handEdits>>
request == <<candidate, cleaning, asked>>
pm2     == <<running, manifest, flagged>>

\* _validate_service_dependencies: what is needed is there ...
Known(c) == \A s \in Services: c[s] # None => \A d \in c[s].deps: d # s /\ c[d] # None

Registered(c) == {s \in Services: c[s] # None}

\* ... and a walk along the dependencies does not meet a service it is visiting.
\* A step of it is a service and those it is visiting.
Visit(c) ==
  LET visit[at \in Registered(c) \X SUBSET Services] ==
        \/ at[1] \in at[2]
        \/ \E d \in c[at[1]].deps: visit[<<d, at[2] \cup {at[1]}>>]
  IN visit
Cyclic(c) == \E s \in Registered(c): Visit(c)[<<s, {}>>]

\* What load_config accepts.
Valid(f) == f # Broken /\ Known(f) /\ ~Cyclic(f)

\* Definitions PM2 would run differently.
Changed(old, new) ==
  {s \in Services: old[s] # None /\ new[s] # None /\ old[s].image # new[s].image}
Removed(old, new) == {s \in Services: old[s] # None /\ new[s] = None}

End ==
  /\ stage' = "idle"
  /\ candidate' = None /\ cleaning' = {} /\ asked' = None

-----------------------------------------------------------------------------
(* The request. *)

\* create, update or delete: the file is read again, changed, validated and replaced;
\* a change may mend what was edited by hand.
Save(s, d) ==
  /\ stage = "idle"
  /\ file # Broken
  /\ d = None => file[s] # None /\ running[s] = None
  /\ Valid([file EXCEPT ![s] = d])
  /\ file' = [file EXCEPT ![s] = d]
  /\ asked' = <<s, d>>
  /\ stage' = "load"
  /\ UNCHANGED <<good, active, registry, pm2, candidate, cleaning, wanted, handEdits>>

\* A reload takes the file as it is.
AskReload ==
  /\ stage = "idle"
  /\ stage' = "load"
  /\ UNCHANGED <<file, good, active, registry, pm2, request, wanted, handEdits>>

\* A rejected candidate: the last good file is restored, if it can be.
Reject ==
  /\ \/ file' = good /\ UNCHANGED wanted
     \/ file' = file /\ wanted' = None
  /\ End
  /\ UNCHANGED <<good, active, registry, handEdits>>

LoadFails == stage = "load" /\ ~Valid(file) /\ Reject /\ UNCHANGED pm2

\* Mutant of LoadOk: the dependencies are not validated again.
LoadOkMut ==
  /\ stage = "load" /\ file # Broken
  /\ candidate' = file
  /\ stage' = "reconcile"
  /\ UNCHANGED <<file, good, active, registry, pm2, cleaning, asked, wanted, handEdits>>

LoadOk ==
  /\ stage = "load" /\ Valid(file)
  /\ candidate' = file
  /\ stage' = "reconcile"
  /\ UNCHANGED <<file, good, active, registry, pm2, cleaning, asked, wanted, handEdits>>

\* Mutant of Blocked: a removed service blocks, a changed one does not.
BlockedMut == \E s \in Removed(active, candidate): running[s] # None

\* A service that runs is removed, or would have to run something else.
Blocked == \E s \in Removed(active, candidate) \cup Changed(active, candidate): running[s] # None

ReconcileFails == stage = "reconcile" /\ Blocked /\ Reject /\ UNCHANGED pm2

ReconcileBegins ==
  /\ stage = "reconcile" /\ ~Blocked
  /\ cleaning' = Removed(active, candidate) \cup Changed(active, candidate)
  /\ stage' = "clean"
  /\ UNCHANGED <<file, good, active, registry, pm2, candidate, asked, wanted, handEdits>>

\* The PM2 entry and the manifest of a stopped service are deleted ...
Clean(s) ==
  /\ stage = "clean" /\ s \in cleaning
  /\ manifest' = [manifest EXCEPT ![s] = None]
  /\ cleaning' = cleaning \ {s}
  /\ UNCHANGED <<file, good, active, registry, running, flagged, stage, candidate, asked,
                 wanted, handEdits>>

\* ... unless PM2 fails.
CleanFails == stage = "clean" /\ cleaning # {} /\ Reject /\ UNCHANGED pm2

Activate ==
  /\ stage = "clean" /\ cleaning = {}
  /\ flagged' = flagged \ (Removed(active, candidate) \cup Changed(active, candidate))
  /\ active' = candidate
  /\ stage' = "checkpoint"
  /\ UNCHANGED <<file, good, registry, running, manifest, request, wanted, handEdits>>

\* What the request asked for, on top of what was asked for before.
Wanted ==
  IF wanted = None THEN None
  ELSE IF asked = None THEN candidate ELSE [wanted EXCEPT ![asked[1]] = asked[2]]

\* save_from copies the bytes the file has now.
Checkpoint ==
  /\ stage = "checkpoint"
  /\ good' = file
  /\ wanted' = Wanted
  /\ stage' = "publish"
  /\ UNCHANGED <<file, active, registry, pm2, request, handEdits>>

CheckpointFails ==
  /\ stage = "checkpoint"
  /\ wanted' = None
  /\ End
  /\ UNCHANGED <<file, good, active, registry, pm2, handEdits>>

Publish ==
  /\ stage = "publish"
  /\ registry' = candidate
  /\ End
  /\ UNCHANGED <<file, good, active, pm2, wanted, handEdits>>

-----------------------------------------------------------------------------
(* Services. *)

\* _assert_service_current: the definition the caller has is the active one.
Start(s) ==
  /\ stage = "idle"
  /\ registry[s] # None /\ running[s] = None
  /\ active[s] = registry[s]
  /\ running' = [running EXCEPT ![s] = registry[s].image]
  /\ manifest' = [manifest EXCEPT ![s] = registry[s].image]
  /\ flagged' = flagged \ {s}
  /\ UNCHANGED <<file, good, active, registry, stage, request, wanted, handEdits>>

\* A service is stopped, or exits for good.
Stop(s) ==
  /\ running[s] # None
  /\ running' = [running EXCEPT ![s] = None]
  /\ UNCHANGED <<file, good, active, registry, manifest, flagged, stage, request, wanted, handEdits>>

-----------------------------------------------------------------------------
(* The operator, crashes and the startup. *)

HandEdit ==
  /\ handEdits < MaxHandEdits
  /\ file' \in Config \cup {Broken}
  /\ file' # file
  /\ handEdits' = handEdits + 1 /\ wanted' = None
  /\ UNCHANGED <<good, active, registry, pm2, stage, request>>

Die ==
  /\ stage # "down"
  /\ stage' = "down"
  /\ candidate' = None /\ cleaning' = {} /\ asked' = None
  /\ UNCHANGED <<file, good, active, registry, pm2, wanted, handEdits>>

\* Mutant of Restored: the file wins while it is valid.
RestoredMut == IF Valid(file) THEN file ELSE good

\* create_app: whatever the file says, the last good configuration wins.
Restored == good

\* manifest_definition_issues
Issues(c) == {s \in Services: manifest[s] # None /\ (c[s] = None \/ c[s].image # manifest[s])}

Boot ==
  /\ stage = "down"
  /\ Valid(Restored)
  /\ file' = Restored /\ good' = Restored
  /\ active' = Restored /\ registry' = Restored
  /\ flagged' = Issues(Restored)
  /\ stage' = "idle"
  /\ UNCHANGED <<running, manifest, request, wanted, handEdits>>

\* reconcile_startup_orphans removes what is left of a service that is gone.
CleanOrphan(s) ==
  /\ stage = "idle"
  /\ s \in flagged /\ active[s] = None /\ running[s] = None
  /\ manifest' = [manifest EXCEPT ![s] = None]
  /\ flagged' = flagged \ {s}
  /\ UNCHANGED <<file, good, active, registry, running, stage, request, wanted, handEdits>>

-----------------------------------------------------------------------------

Init ==
  /\ file \in {c \in Config: Valid(c)}
  /\ good = file /\ active = file /\ registry = file /\ wanted = file
  /\ running = [s \in Services |-> None]
  /\ manifest = [s \in Services |-> None]
  /\ flagged = {}
  /\ stage = "idle" /\ candidate = None /\ cleaning = {} /\ asked = None
  /\ handEdits = 0

Request ==
  \/ \E s \in Services, d \in Definitions \cup {None}: Save(s, d)
  \/ AskReload
  \/ LoadFails \/ LoadOk
  \/ ReconcileFails \/ ReconcileBegins
  \/ \E s \in Services: Clean(s)
  \/ CleanFails \/ Activate
  \/ Checkpoint \/ CheckpointFails \/ Publish

Next ==
  \/ Request
  \/ \E s \in Services: Start(s) \/ Stop(s) \/ CleanOrphan(s)
  \/ HandEdit \/ Die \/ Boot

Spec == Init /\ [][Next]_vars

-----------------------------------------------------------------------------
(* Properties. *)

\* The variables have their types.
TypeOK ==
  /\ file \in Config \cup {Broken} /\ good \in Config \cup {Broken}
  /\ active \in Config /\ registry \in Config /\ wanted \in Config \cup {None}
  /\ running \in [Services -> Images \cup {None}]
  /\ manifest \in [Services -> Images \cup {None}]
  /\ flagged \subseteq Services
  /\ stage \in {"idle", "load", "reconcile", "clean", "checkpoint", "publish", "down"}
  /\ candidate \in Config \cup {None}
  /\ cleaning \subseteq Services
  /\ asked \in {None} \cup (Services \X (Definitions \cup {None}))
  /\ handEdits \in 0..MaxHandEdits

\* What a service runs is what its published definition says, also after a
\* request that failed half-way, a crash or an edit by hand, unless the API shows
\* it as needing a restart or as an orphan (pm2_manager.py 203-277, app.py 120-160).
RunningAsPublished ==
  stage # "down" =>
    \A s \in Services: running[s] # None =>
      \/ registry[s] # None /\ registry[s].image = running[s]
      \/ s \in flagged

\* Between requests the published and the last good configuration are the one
\* that the stored changes add up to: no change is lost to a later one, to a
\* failure or to a crash, and none that was refused comes back, as long as the
\* disk takes what is written and the file is not edited by hand (config_api.py
\* 64-84, app.py 120-170).
ChangesKept ==
  stage = "idle" /\ wanted # None => registry = wanted /\ good = wanted

\* What is published can be started in an order: every dependency is there and none
\* leads back, though services are deleted while others need them, the file is
\* edited by hand at any moment and whatever was on disk after a crash is loaded
\* again (config_loader.py 396-422; dependency_order relies on it).
PublishedIsSound ==
  /\ \A s \in Services: registry[s] # None => \A d \in registry[s].deps: registry[d] # None
  /\ \E rank \in [Services -> 1..Cardinality(Services)]:
       \A s \in Services: registry[s] # None => \A d \in registry[s].deps: rank[d] < rank[s]

=============================================================================
