------------------------------ MODULE ConfigProofs ------------------------------
(***************************************************************************)
(* Proofs about ConfigTransaction: what runs is what is published or is      *)
(* shown as a problem, accepted changes are kept, and nothing is published   *)
(* that load_config would refuse.                                            *)
(***************************************************************************)
EXTENDS ConfigTransaction, FiniteSetTheorems, WellFoundedInduction, TLAPS

-----------------------------------------------------------------------------
(* Types. *)

\* A request has what it needs: past its load a candidate that load_config accepts, and
\* from the activation on the PM2 manager has taken it.
Staged ==
  /\ stage \in {"reconcile", "clean", "checkpoint", "publish"} =>
       candidate \in Config /\ Valid(candidate)
  /\ stage \in {"checkpoint", "publish"} => active = candidate

TypeInv == TypeOK /\ Staged

LEMMA ConfigUpdate ==
  ASSUME NEW c \in Config, NEW s \in Services, NEW d \in Definitions \cup {None}
  PROVE  [c EXCEPT ![s] = d] \in Config
BY DEF Config

LEMMA InitTypes == Init => TypeInv
<1> SUFFICES ASSUME Init PROVE TypeInv
  OBVIOUS
<1>1. file \in Config
  BY DEF Init
<1>2. TypeOK
  BY <1>1, MaxHandEditsNat DEF Init, TypeOK
<1>3. Staged
  BY DEF Init, Staged
<1> QED BY <1>2, <1>3 DEF TypeInv

LEMMA StepTypes == TypeInv /\ [Next]_vars => TypeInv'
<1> SUFFICES ASSUME TypeInv, [Next]_vars PROVE TypeInv'
  OBVIOUS
<1> USE DEF TypeInv
<1>1. ASSUME NEW s \in Services, NEW d \in Definitions \cup {None}, Save(s, d) PROVE TypeInv'
  <2>1. file \in Config
    BY <1>1 DEF Save, TypeOK
  <2>2. file' \in Config
    BY <1>1, <2>1, ConfigUpdate DEF Save
  <2> QED BY <1>1, <2>2 DEF Save, TypeOK, Staged, pm2
<1>2. CASE AskReload
  BY <1>2 DEF AskReload, TypeOK, Staged, pm2, request
<1>3. CASE LoadFails \/ ReconcileFails \/ CleanFails
  BY <1>3 DEF LoadFails, ReconcileFails, CleanFails, Reject, End, TypeOK, Staged, pm2
<1>4. CASE LoadOk
  <2>1. file \in Config
    BY <1>4 DEF LoadOk, Valid, TypeOK
  <2> QED BY <1>4, <2>1 DEF LoadOk, TypeOK, Staged, pm2
<1>5. CASE ReconcileBegins
  <2>1. cleaning' \subseteq Services
    BY <1>5 DEF ReconcileBegins, Removed, Changed
  <2> QED BY <1>5, <2>1 DEF ReconcileBegins, TypeOK, Staged, pm2
<1>6. ASSUME NEW s \in Services, Clean(s) PROVE TypeInv'
  BY <1>6 DEF Clean, TypeOK, Staged
<1>7. CASE Activate
  BY <1>7 DEF Activate, TypeOK, Staged, request
<1>8. CASE Checkpoint
  <2>1. Wanted \in Config \cup {None}
    <3>1. candidate \in Config
      BY <1>8 DEF Checkpoint, Staged
    <3>2. CASE wanted # None /\ asked # None
      <4>1. wanted \in Config /\ asked[1] \in Services /\ asked[2] \in Definitions \cup {None}
        BY <3>2 DEF TypeOK
      <4> QED BY <3>2, <4>1, ConfigUpdate DEF Wanted
    <3> QED BY <3>1, <3>2 DEF Wanted
  <2> QED BY <1>8, <2>1 DEF Checkpoint, TypeOK, Staged, pm2, request
<1>9. CASE CheckpointFails \/ Publish
  BY <1>9 DEF CheckpointFails, Publish, End, TypeOK, Staged, pm2
<1>10. ASSUME NEW s \in Services, Start(s) PROVE TypeInv'
  <2>1. registry[s].image \in Images
    BY <1>10, DefinitionsTyped DEF Start, TypeOK, Config, Definition
  <2> QED BY <1>10, <2>1 DEF Start, TypeOK, Staged, request
<1>11. ASSUME NEW s \in Services, Stop(s) \/ CleanOrphan(s) PROVE TypeInv'
  BY <1>11 DEF Stop, CleanOrphan, TypeOK, Staged, request
<1>12. CASE HandEdit
  BY <1>12, MaxHandEditsNat DEF HandEdit, TypeOK, Staged, pm2, request
<1>13. CASE Die
  BY <1>13 DEF Die, TypeOK, Staged, pm2
<1>14. CASE Boot
  <2>1. good \in Config
    BY <1>14 DEF Boot, Restored, Valid, TypeOK
  <2>2. flagged' \subseteq Services
    BY <1>14 DEF Boot, Issues
  <2> QED BY <1>14, <2>1, <2>2 DEF Boot, Restored, TypeOK, Staged, request
<1>15. CASE UNCHANGED vars
  BY <1>15 DEF vars, TypeOK, Staged
<1> QED
  BY <1>1, <1>2, <1>3, <1>4, <1>5, <1>6, <1>7, <1>8, <1>9, <1>10, <1>11, <1>12, <1>13,
     <1>14, <1>15 DEF Next, Request

\* Every variable has its type, and a request its candidate, in every state.
THEOREM ConfigTypes == Spec => []TypeInv
BY InitTypes, StepTypes, PTL DEF Spec

\* Whatever happened before, the published definitions are ones load_config accepts: the
\* file is validated again after each write, edit by hand or crash (config_loader.py).
PublishedIsValid == Valid(active) /\ Valid(registry)

LEMMA StepValid == TypeInv /\ PublishedIsValid /\ [Next]_vars => PublishedIsValid'
<1> SUFFICES ASSUME TypeInv, PublishedIsValid, [Next]_vars PROVE PublishedIsValid'
  OBVIOUS
<1>1. CASE Activate \/ Publish
  BY <1>1 DEF Activate, Publish, TypeInv, Staged, PublishedIsValid
<1>2. CASE Boot
  BY <1>2 DEF Boot, PublishedIsValid
<1>3. CASE UNCHANGED <<active, registry>>
  BY <1>3 DEF PublishedIsValid
<1>4. Activate \/ Publish \/ Boot \/ UNCHANGED <<active, registry>>
  BY DEF Next, Request, Save, AskReload, LoadFails, ReconcileFails, CleanFails, Reject, LoadOk,
     ReconcileBegins, Clean, Checkpoint, CheckpointFails, Start, Stop, CleanOrphan, HandEdit,
     Die, vars
<1> QED BY <1>1, <1>2, <1>3, <1>4

\* Nothing is published that load_config would refuse, for any definitions and edits.
THEOREM ValidIsPublished == Spec => []PublishedIsValid
<1>1. Init => PublishedIsValid
  BY DEF Init, PublishedIsValid
<1> QED BY <1>1, InitTypes, StepTypes, StepValid, PTL DEF Spec

-----------------------------------------------------------------------------
(* What runs. *)

\* What s runs is what c says of it, or the API shows a problem.
Shown(s, c) == (c[s] # None /\ c[s].image = running[s]) \/ s \in flagged

\* The manifest remembers what runs, so that a restart can compare; a request that cleans
\* has found all it cleans stopped, and nothing is started until it is over.
RunningInv ==
  /\ \A s \in Services: running[s] # None =>
       /\ manifest[s] = running[s]
       /\ stage # "down" => Shown(s, active) /\ Shown(s, registry)
  /\ stage = "clean" =>
       /\ cleaning \subseteq Removed(active, candidate) \cup Changed(active, candidate)
       /\ \A s \in Removed(active, candidate) \cup Changed(active, candidate): running[s] = None

LEMMA InitRunning == Init => RunningInv
BY DEF Init, RunningInv

LEMMA StepRunning == TypeInv /\ RunningInv /\ [Next]_vars => RunningInv'
<1> SUFFICES ASSUME TypeInv, RunningInv, [Next]_vars PROVE RunningInv'
  OBVIOUS
<1> USE DEF TypeInv
<1>1. CASE \/ \E s \in Services, d \in Definitions \cup {None}: Save(s, d)
           \/ AskReload \/ LoadOk \/ Checkpoint \/ HandEdit
  BY <1>1 DEF Save, AskReload, LoadOk, Checkpoint, HandEdit, RunningInv, Shown, pm2, request
<1>2. CASE LoadFails \/ ReconcileFails \/ CleanFails \/ CheckpointFails \/ Die
  BY <1>2 DEF LoadFails, ReconcileFails, CleanFails, CheckpointFails, Die, Reject, End,
     RunningInv, Shown, pm2
<1>3. CASE ReconcileBegins
  <2>1. \A s \in Removed(active, candidate) \cup Changed(active, candidate): running[s] = None
    BY <1>3 DEF ReconcileBegins, Blocked
  <2>2. /\ Removed(active, candidate)' = Removed(active, candidate)
        /\ Changed(active, candidate)' = Changed(active, candidate)
    BY <1>3 DEF ReconcileBegins, Removed, Changed
  <2> QED BY <1>3, <2>1, <2>2 DEF ReconcileBegins, RunningInv, Shown, pm2
<1>4. ASSUME NEW s \in Services, Clean(s) PROVE RunningInv'
  <2>1. /\ Removed(active, candidate)' = Removed(active, candidate)
        /\ Changed(active, candidate)' = Changed(active, candidate)
    BY <1>4 DEF Clean, Removed, Changed
  <2>2. running[s] = None
    BY <1>4 DEF Clean, RunningInv
  <2> QED BY <1>4, <2>1, <2>2 DEF Clean, RunningInv, Shown, TypeOK
<1>5. CASE Activate
  <2> SUFFICES ASSUME NEW s \in Services, running[s] # None
               PROVE  Shown(s, active)' /\ Shown(s, registry)' /\ manifest[s] = running[s]
    BY <1>5 DEF Activate, RunningInv
  <2>1. s \notin Removed(active, candidate) \cup Changed(active, candidate)
    BY <1>5 DEF Activate, RunningInv
  <2>2. s \in flagged' <=> s \in flagged
    BY <1>5, <2>1 DEF Activate
  <2>3. Shown(s, active) /\ Shown(s, registry) /\ manifest[s] = running[s]
    BY <1>5 DEF Activate, RunningInv
  <2>4. CASE s \in flagged
    BY <1>5, <2>2, <2>3, <2>4 DEF Activate, Shown
  <2>5. CASE s \notin flagged
    BY <1>5, <2>1, <2>2, <2>3, <2>5 DEF Activate, Shown, Removed, Changed
  <2> QED BY <2>4, <2>5
<1>6. CASE Publish
  BY <1>6 DEF Publish, End, Staged, RunningInv, Shown, pm2
<1>7. ASSUME NEW s \in Services, Start(s) PROVE RunningInv'
  BY <1>7 DEF Start, RunningInv, Shown, TypeOK
<1>8. ASSUME NEW s \in Services, Stop(s) PROVE RunningInv'
  <2>1. /\ Removed(active, candidate)' = Removed(active, candidate)
        /\ Changed(active, candidate)' = Changed(active, candidate)
    BY <1>8 DEF Stop, Removed, Changed, request
  <2> QED BY <1>8, <2>1 DEF Stop, RunningInv, Shown, TypeOK, request
<1>9. ASSUME NEW s \in Services, CleanOrphan(s) PROVE RunningInv'
  BY <1>9 DEF CleanOrphan, RunningInv, Shown, TypeOK, request
<1>10. CASE Boot
  BY <1>10 DEF Boot, Issues, RunningInv, Shown, TypeOK
<1>11. CASE UNCHANGED vars
  <2>1. /\ Removed(active, candidate)' = Removed(active, candidate)
        /\ Changed(active, candidate)' = Changed(active, candidate)
    BY <1>11 DEF vars, Removed, Changed
  <2> QED BY <1>11, <2>1 DEF vars, RunningInv, Shown
<1> QED
  BY <1>1, <1>2, <1>3, <1>4, <1>5, <1>6, <1>7, <1>8, <1>9, <1>10, <1>11 DEF Next, Request

\* What runs is what is published, or the API shows it as a problem, for any services,
\* definitions and edits by hand.
THEOREM RunsAsPublished == Spec => []RunningAsPublished
<1>1. RunningInv => RunningAsPublished
  BY DEF RunningInv, Shown, RunningAsPublished
<1> QED BY <1>1, InitTypes, StepTypes, InitRunning, StepRunning, PTL DEF Spec

-----------------------------------------------------------------------------
(* What was accepted. *)

\* The configuration the request that is under way leads to.
Goal == IF asked = None THEN wanted ELSE [wanted EXCEPT ![asked[1]] = asked[2]]

\* As long as the disk takes everything, the checkpoint is what is wanted in every
\* state, and the file what the request asks for on top of it.
KeptInv ==
  /\ stage \in {"idle", "down"} => asked = None
  /\ wanted # None =>
       /\ good = wanted
       /\ stage \notin {"down", "publish"} => registry = wanted
       /\ stage \in {"idle", "load", "reconcile", "clean", "checkpoint"} => file = Goal
       /\ stage \in {"reconcile", "clean", "checkpoint"} => candidate = file
       /\ stage = "publish" => candidate = wanted /\ file = wanted

LEMMA InitKept == Init => KeptInv
BY DEF Init, KeptInv, Goal

LEMMA StepKept == TypeInv /\ KeptInv /\ [Next]_vars => KeptInv'
<1> SUFFICES ASSUME TypeInv, KeptInv, [Next]_vars PROVE KeptInv'
  OBVIOUS
<1> USE DEF TypeInv, Goal
<1>1. ASSUME NEW s \in Services, NEW d \in Definitions \cup {None}, Save(s, d) PROVE KeptInv'
  <2>1. <<s, d>> # None
    BY NoneDistinct
  <2> QED BY <1>1, <2>1 DEF Save, KeptInv
<1>2. CASE AskReload
  BY <1>2 DEF AskReload, KeptInv, request
<1>3. CASE LoadFails \/ ReconcileFails \/ CleanFails
  BY <1>3 DEF LoadFails, ReconcileFails, CleanFails, Reject, End, KeptInv
<1>4. CASE LoadOk \/ ReconcileBegins \/ Activate
  BY <1>4 DEF LoadOk, ReconcileBegins, Activate, KeptInv, request
<1>5. ASSUME NEW s \in Services, Clean(s) PROVE KeptInv'
  BY <1>5 DEF Clean, KeptInv
<1>6. CASE Checkpoint
  BY <1>6 DEF Checkpoint, Wanted, KeptInv, request
<1>7. CASE CheckpointFails \/ Publish
  BY <1>7 DEF CheckpointFails, Publish, End, KeptInv
<1>8. ASSUME NEW s \in Services, Start(s) \/ Stop(s) \/ CleanOrphan(s) PROVE KeptInv'
  BY <1>8 DEF Start, Stop, CleanOrphan, KeptInv, request
<1>9. CASE HandEdit \/ Die \/ Boot
  BY <1>9 DEF HandEdit, Die, Boot, Restored, KeptInv, request
<1>10. CASE UNCHANGED vars
  BY <1>10 DEF vars, KeptInv
<1> QED
  BY <1>1, <1>2, <1>3, <1>4, <1>5, <1>6, <1>7, <1>8, <1>9, <1>10 DEF Next, Request

\* No accepted change is lost and no refused one comes back, for any services and
\* definitions and any number of crashes.
THEOREM AcceptedIsKept == Spec => []ChangesKept
<1>1. KeptInv => ChangesKept
  BY DEF KeptInv, ChangesKept, Goal
<1> QED BY <1>1, InitTypes, StepTypes, InitKept, StepKept, PTL DEF Spec

-----------------------------------------------------------------------------
(* What the walk of load_config finds: no cycle, and so an order.                *)

\* A nonempty set of naturals has a least element.
LEMMA LeastOne ==
  ASSUME NEW T \in SUBSET Nat, T # {}
  PROVE  \E m \in T: \A n \in T: m <= n
<1> DEFINE R == OpToRel(LAMBDA x, y: x < y, Nat)
<1>1. IsWellFoundedOn(R, Nat)
  BY NatLessThanWellFounded
<1>2. \A x, y \in Nat: x < y => <<x, y>> \in R
  BY DEF OpToRel
<1> HIDE DEF R
<1>3. PICK m \in T: \A n \in T: <<n, m>> \notin R
  BY <1>1, WFMin
<1>4. \A n \in T: ~(n < m)
  BY <1>2, <1>3, Zenon
<1> QED
  BY <1>4, SMT

\* Where a walk that starts at s can lead.
Closed(c, T) == \A t \in T: c[t].deps \subseteq T
Reach(c, s) == {t \in Services: \A T \in SUBSET Services: Closed(c, T) /\ s \in T => t \in T}

LEMMA KnownNeeds ==
  ASSUME NEW c \in Config, Known(c)
  PROVE  \A s \in Registered(c): s \in Services /\ c[s].deps \subseteq Registered(c)
<1>1. \A s \in Registered(c): s \in Services /\ c[s] \in Definition
  BY DefinitionsTyped DEF Config, Registered
<1> QED
  BY <1>1 DEF Known, Definition, Registered

LEMMA ReachSteps ==
  ASSUME NEW c \in Config, Known(c), NEW s \in Registered(c)
  PROVE  /\ s \in Reach(c, s)
         /\ \A d \in c[s].deps: d \in Reach(c, s) /\ Reach(c, d) \subseteq Reach(c, s)
         /\ \A t \in Reach(c, s): t = s \/ \E d \in c[s].deps: t \in Reach(c, d)
<1>1. s \in Services /\ c[s].deps \subseteq Services
  BY KnownNeeds DEF Registered
<1>2. s \in Reach(c, s)
  BY <1>1 DEF Reach
<1>3. ASSUME NEW d \in c[s].deps PROVE d \in Reach(c, s) /\ Reach(c, d) \subseteq Reach(c, s)
  BY <1>1, <1>3 DEF Reach, Closed
<1>4. ASSUME NEW t \in Reach(c, s), t # s
      PROVE  \E d \in c[s].deps: t \in Reach(c, d)
  <2> DEFINE T == {s} \cup {r \in Services: \E d \in c[s].deps: r \in Reach(c, d)}
  <2>1. SUFFICES T \in SUBSET Services /\ Closed(c, T) /\ s \in T
    <3>1. t \in T
      BY <2>1, <1>4 DEF Reach
    <3> QED
      BY <3>1, <1>4
  <2>2. \A d \in c[s].deps: d \in Reach(c, d)
    BY <1>1 DEF Reach
  <2>3. \A d \in c[s].deps: d \in T
    BY <1>1, <2>2
  <2>4. ASSUME NEW r \in Services, NEW d \in c[s].deps, r \in Reach(c, d), NEW e \in c[r].deps
        PROVE  e \in T
    <3>1. d \in Services
      BY <1>1
    <3>2. Reach(c, d) \subseteq Registered(c)
      <4>1. Closed(c, Registered(c)) /\ d \in Registered(c) /\ Registered(c) \in SUBSET Services
        BY KnownNeeds DEF Closed, Registered
      <4> QED
        BY <4>1 DEF Reach
    <3>3. e \in Services
      BY <2>4, <3>2, KnownNeeds
    <3>4. e \in Reach(c, d)
      BY <2>4, <3>3 DEF Reach, Closed
    <3> QED
      BY <3>3, <3>4
  <2>5. \A r \in T: c[r].deps \subseteq T
    BY <2>3, <2>4
  <2> QED
    BY <1>1, <2>5 DEF Closed
<1> QED
  BY <1>2, <1>3, <1>4

\* There is a function that satisfies the equation of the walk: what the walk finds
\* from s is a service it is visiting, or one that needs itself.
LEMMA VisitEquation ==
  ASSUME NEW c \in Config, Known(c)
  PROVE  \A s \in Registered(c), visiting \in SUBSET Services:
           Visit(c)[<<s, visiting>>] =
             (s \in visiting \/ \E d \in c[s].deps: Visit(c)[<<d, visiting \cup {s}>>])
<1> DEFINE Places == Registered(c) \X SUBSET Services
           Walk(f) == [at \in Places |->
                         \/ at[1] \in at[2]
                         \/ \E d \in c[at[1]].deps: f[<<d, at[2] \cup {at[1]}>>]]
           Found(s, visiting) == \/ \E t \in Reach(c, s): t \in visiting
                                 \/ \E t \in Reach(c, s): \E d \in c[t].deps: t \in Reach(c, d)
           found == [at \in Places |-> Found(at[1], at[2])]
<1>1. Visit(c) = CHOOSE f: f = Walk(f)
  BY DEF Visit
<1>2. ASSUME NEW s \in Registered(c), NEW visiting \in SUBSET Services
      PROVE  Found(s, visiting) <=>
               (s \in visiting \/ \E d \in c[s].deps: Found(d, visiting \cup {s}))
  <2>1. s \in Reach(c, s)
    BY ReachSteps
  <2>2. \A d \in c[s].deps: Reach(c, d) \subseteq Reach(c, s)
    BY ReachSteps
  <2>3. \A t \in Reach(c, s): t = s \/ \E d \in c[s].deps: t \in Reach(c, d)
    BY ReachSteps
  <2>4. ASSUME s \in visiting PROVE Found(s, visiting)
    BY <2>1, <2>4
  <2>5. ASSUME NEW d \in c[s].deps, Found(d, visiting \cup {s}) PROVE Found(s, visiting)
    <3>1. CASE \E t \in Reach(c, d): t \in visiting \cup {s}
      BY <3>1, <2>1, <2>2, <2>5
    <3>2. CASE \E t \in Reach(c, d): \E e \in c[t].deps: t \in Reach(c, e)
      BY <3>2, <2>2
    <3> QED
      BY <3>1, <3>2, <2>5
  <2>6. ASSUME Found(s, visiting), s \notin visiting
        PROVE  \E d \in c[s].deps: Found(d, visiting \cup {s})
    <3>1. CASE \E t \in Reach(c, s): t \in visiting
      BY <3>1, <2>3, <2>6
    <3>2. ASSUME NEW t \in Reach(c, s), NEW d \in c[t].deps, t \in Reach(c, d)
          PROVE  \E e \in c[s].deps: Found(e, visiting \cup {s})
      <4>1. CASE t = s
        BY <4>1, <3>2
      <4>2. CASE t # s
        BY <4>2, <3>2, <2>3
      <4> QED
        BY <4>1, <4>2
    <3> QED
      BY <3>1, <3>2, <2>6
  <2> QED
    BY <2>4, <2>5, <2>6
<1>3. found = Walk(found)
  <2>1. ASSUME NEW s \in Registered(c), NEW visiting \in SUBSET Services
        PROVE  Found(s, visiting) =
                 (s \in visiting \/ \E d \in c[s].deps: found[<<d, visiting \cup {s}>>])
    <3>1. \A d \in c[s].deps: d \in Registered(c)
      BY KnownNeeds
    <3>2. visiting \cup {s} \in SUBSET Services
      BY DEF Registered
    <3>3. \A d \in c[s].deps: found[<<d, visiting \cup {s}>>] = Found(d, visiting \cup {s})
      BY <3>1, <3>2
    <3>4. Found(s, visiting) \in BOOLEAN
      OBVIOUS
    <3>5. Found(s, visiting) <=>
            (s \in visiting \/ \E d \in c[s].deps: Found(d, visiting \cup {s}))
      <4> HIDE DEF Found
      <4> QED
        BY <1>2, Zenon
    <3>6. Found(s, visiting) <=>
            (s \in visiting \/ \E d \in c[s].deps: found[<<d, visiting \cup {s}>>])
      <4> HIDE DEF Found, found
      <4> QED
        BY <3>3, <3>5, Zenon
    <3> HIDE DEF Found, found
    <3> QED
      BY <3>4, <3>6
  <2>2. ASSUME NEW at \in Places PROVE found[at] = Walk(found)[at]
    <3>1. PICK s \in Registered(c), visiting \in SUBSET Services: at = <<s, visiting>>
      OBVIOUS
    <3>2. found[at] = Found(s, visiting)
      BY <3>1
    <3>3. Walk(found)[at] = (s \in visiting \/ \E d \in c[s].deps: found[<<d, visiting \cup {s}>>])
      <4> HIDE DEF found
      <4> QED
        BY <3>1
    <3> HIDE DEF found, Walk, Found
    <3> QED
      BY <2>1, <3>2, <3>3
  <2> QED
    BY <2>2, Zenon
<1> HIDE DEF found, Found
<1>4. Visit(c) = Walk(Visit(c))
  <2> HIDE DEF Walk
  <2> QED
    BY <1>1, <1>3
<1> QED
  BY <1>4

\* A set of services that each need one of them makes the walk come back.
LEMMA LoopIsFound ==
  ASSUME NEW c \in Config, Known(c),
         NEW S \in SUBSET Registered(c), \A s \in S: \E d \in c[s].deps: d \in S
  PROVE  \A s \in S: Visit(c)[<<s, {}>>]
<1> DEFINE Left(visiting) == Cardinality(Services \ visiting)
           Missed(n) == \E s \in S, visiting \in SUBSET Services:
                          n = Left(visiting) /\ ~Visit(c)[<<s, visiting>>]
           missed == {n \in Nat: Missed(n)}
<1>1. \A visiting \in SUBSET Services: Left(visiting) \in Nat /\ IsFiniteSet(Services \ visiting)
  <2>1. ASSUME NEW visiting \in SUBSET Services PROVE IsFiniteSet(Services \ visiting)
    BY ServicesFinite, FS_Difference
  <2> QED
    BY <2>1, FS_CardinalityType
<1>2. missed = {}
  <2>1. SUFFICES ASSUME missed # {} PROVE FALSE
    OBVIOUS
  <2>2. PICK n \in missed: \A k \in missed: n <= k
    <3>1. missed \in SUBSET Nat
      OBVIOUS
    <3> HIDE DEF missed
    <3> QED
      BY <2>1, <3>1, LeastOne
  <2>3. PICK s \in S, visiting \in SUBSET Services: n = Left(visiting) /\ ~Visit(c)[<<s, visiting>>]
    BY <2>2
  <2>4. s \in Registered(c) /\ s \in Services
    BY DEF Registered
  <2>5. s \notin visiting /\ \A d \in c[s].deps: ~Visit(c)[<<d, visiting \cup {s}>>]
    BY <2>3, <2>4, VisitEquation
  <2>6. PICK d \in S: d \in c[s].deps
    OBVIOUS
  <2> DEFINE further == visiting \cup {s}
  <2>7. further \in SUBSET Services
    BY <2>4
  <2>8. Left(further) = n - 1 /\ n \in Nat
    <3>1. s \in Services \ visiting /\ IsFiniteSet(Services \ visiting)
      BY <1>1, <2>4, <2>5
    <3>2. Cardinality((Services \ visiting) \ {s}) = Cardinality(Services \ visiting) - 1
      BY <3>1, FS_RemoveElement
    <3>3. Services \ further = (Services \ visiting) \ {s}
      OBVIOUS
    <3> HIDE DEF further
    <3> QED
      BY <3>2, <3>3, <2>3, <1>1
  <2>9. Left(further) \in missed
    <3>1. ~Visit(c)[<<d, further>>]
      BY <2>5, <2>6
    <3>2. Left(further) \in Nat
      BY <1>1, <2>7
    <3> HIDE DEF further, Left
    <3> QED
      BY <3>1, <3>2, <2>6, <2>7
  <2>10. n <= Left(further)
    BY <2>2, <2>9
  <2> HIDE DEF missed, Left, further
  <2> QED
    BY <2>8, <2>10
<1>3. ASSUME NEW s \in S, ~Visit(c)[<<s, {}>>] PROVE FALSE
  <2>1. Left({}) \in missed
    BY <1>1, <1>3
  <2> QED
    BY <1>2, <2>1
<1> QED
  BY <1>3

\* A rank of the services of R: what a service needs is in R and ranks lower.
Ranks(c, R, rank) ==
  /\ rank \in [R -> 1..Cardinality(R)]
  /\ \A s \in R: \A d \in c[s].deps: d \in R /\ rank[d] < rank[s]

LEMMA Extended ==
  ASSUME NEW c \in Config, Valid(c), NEW R \in SUBSET Registered(c), R # Registered(c),
         NEW rank, Ranks(c, R, rank)
  PROVE  \E s \in Registered(c) \ R: \E more: Ranks(c, R \cup {s}, more)
<1>1. Known(c) /\ ~Cyclic(c)
  BY DEF Valid
<1> DEFINE S == Registered(c) \ R
<1>2. PICK s \in S: \A d \in c[s].deps: d \notin S
  <2>1. SUFFICES ASSUME \A s \in S: \E d \in c[s].deps: d \in S PROVE FALSE
    OBVIOUS
  <2>2. PICK s \in S: TRUE
    OBVIOUS
  <2>3. S \in SUBSET Registered(c)
    OBVIOUS
  <2>4. Visit(c)[<<s, {}>>]
    BY <1>1, <2>1, <2>2, <2>3, LoopIsFound
  <2> QED
    BY <1>1, <2>4 DEF Cyclic
<1>3. c[s].deps \subseteq R
  BY <1>1, <1>2, KnownNeeds
<1>4. IsFiniteSet(R)
  BY ServicesFinite, FS_Subset DEF Registered
<1>5. Cardinality(R) \in Nat /\ Cardinality(R \cup {s}) = Cardinality(R) + 1
  <2>1. Cardinality(R) \in Nat
    BY <1>4, FS_CardinalityType
  <2>2. Cardinality(R \cup {s}) = Cardinality(R) + 1
    BY <1>2, <1>4, FS_AddElement
  <2> QED
    BY <2>1, <2>2
<1> DEFINE n == Cardinality(R)
           more == [t \in R \cup {s} |-> IF t = s THEN n + 1 ELSE rank[t]]
<1>6. s \notin R
  BY <1>2
<1>7. \A t \in R: more[t] = rank[t] /\ rank[t] \in 1..n
  BY <1>6 DEF Ranks
<1>8. more[s] = n + 1
  OBVIOUS
<1>9. more \in [R \cup {s} -> 1..n + 1]
  <2>1. \A t \in R \cup {s}: more[t] \in 1..n + 1
    BY <1>5, <1>7, <1>8
  <2> QED
    BY <2>1
<1> HIDE DEF more
<1>10. ASSUME NEW t \in R \cup {s}, NEW d \in c[t].deps
       PROVE  d \in R \cup {s} /\ more[d] < more[t]
  <2>1. CASE t = s
    BY <2>1, <1>3, <1>5, <1>7, <1>8, <1>10
  <2>2. CASE t \in R
    <3>1. d \in R /\ rank[d] < rank[t]
      BY <2>2, <1>10 DEF Ranks
    <3> QED
      BY <3>1, <2>2, <1>7
  <2> QED
    BY <2>1, <2>2, <1>10
<1> QED
  BY <1>2, <1>5, <1>9, <1>10 DEF Ranks

\* What load_config accepts can be started in an order.
LEMMA ValidIsRanked ==
  ASSUME NEW c \in Config, Valid(c)
  PROVE  \E rank: Ranks(c, Registered(c), rank)
<1> DEFINE Left(R) == Cardinality(Registered(c) \ R)
           left == {n \in Nat: \E R \in SUBSET Registered(c):
                                 n = Left(R) /\ \E rank: Ranks(c, R, rank)}
<1>1. IsFiniteSet(Registered(c))
  BY ServicesFinite, FS_Subset DEF Registered
<1>2. \A R \in SUBSET Registered(c): IsFiniteSet(Registered(c) \ R) /\ Left(R) \in Nat
  <2>1. ASSUME NEW R \in SUBSET Registered(c) PROVE IsFiniteSet(Registered(c) \ R)
    BY <1>1, FS_Difference
  <2> QED
    BY <2>1, FS_CardinalityType
<1>3. Left({}) \in left
  <2>1. Ranks(c, {}, [s \in {} |-> 1])
    BY DEF Ranks
  <2> QED
    BY <1>2, <2>1
<1>4. PICK n \in left: \A k \in left: n <= k
  <2>1. left \in SUBSET Nat
    OBVIOUS
  <2> HIDE DEF left
  <2> QED
    BY <1>3, <2>1, LeastOne
<1>5. PICK R \in SUBSET Registered(c): n = Left(R) /\ \E rank: Ranks(c, R, rank)
  BY <1>4
<1>6. PICK rank: Ranks(c, R, rank)
  BY <1>5
<1>7. ASSUME R # Registered(c) PROVE FALSE
  <2>1. PICK s \in Registered(c) \ R: \E more: Ranks(c, R \cup {s}, more)
    BY <1>6, <1>7, Extended
  <2> DEFINE bigger == R \cup {s}
  <2>2. bigger \in SUBSET Registered(c)
    OBVIOUS
  <2>3. Cardinality((Registered(c) \ R) \ {s}) = Cardinality(Registered(c) \ R) - 1
    <3>1. IsFiniteSet(Registered(c) \ R)
      BY <1>2
    <3> QED
      BY <3>1, <2>1, FS_RemoveElement
  <2>4. Registered(c) \ bigger = (Registered(c) \ R) \ {s}
    OBVIOUS
  <2>5. Left(bigger) = n - 1 /\ n \in Nat
    <3> HIDE DEF bigger
    <3> QED
      BY <2>3, <2>4, <1>2, <1>5
  <2>6. Left(bigger) \in left
    <3>1. Left(bigger) \in Nat
      BY <1>2, <2>2
    <3> HIDE DEF Left
    <3> QED
      BY <3>1, <2>1, <2>2
  <2>7. n <= Left(bigger)
    BY <1>4, <2>6
  <2> HIDE DEF left, Left, bigger
  <2> QED
    BY <2>5, <2>7
<1> QED
  BY <1>6, <1>7

\* PublishedIsSound: what is published can be started in an order, whatever fails, dies or
\* is edited by hand (config_loader.py 396-422, config_api.py 64-84).
THEOREM PublishedCanStart == Spec => []PublishedIsSound
<1>1. TypeInv /\ PublishedIsValid => PublishedIsSound
  <2> SUFFICES ASSUME TypeInv, PublishedIsValid PROVE PublishedIsSound
    OBVIOUS
  <2>1. registry \in Config /\ Valid(registry)
    BY DEF TypeInv, TypeOK, PublishedIsValid
  <2>2. Known(registry)
    BY <2>1 DEF Valid
  <2>3. \A s \in Services: registry[s] # None => \A d \in registry[s].deps: registry[d] # None
    BY <2>2 DEF Known
  <2>4. PICK rank: Ranks(registry, Registered(registry), rank)
    BY <2>1, ValidIsRanked
  <2> DEFINE all == [s \in Services |-> IF s \in Registered(registry) THEN rank[s] ELSE 1]
             n == Cardinality(Registered(registry))
             m == Cardinality(Services)
  <2>5. n \in Nat /\ m \in Nat /\ n <= m
    <3>1. Registered(registry) \subseteq Services
      BY DEF Registered
    <3>2. IsFiniteSet(Registered(registry)) /\ n <= m
      BY <3>1, ServicesFinite, FS_Subset
    <3>3. n \in Nat /\ m \in Nat
      BY <3>2, ServicesFinite, FS_CardinalityType
    <3> QED
      BY <3>2, <3>3
  <2>6. ASSUME NEW s \in Services PROVE 1 \in 1..m
    <3>1. m # 0
      BY <2>6, ServicesFinite, FS_EmptySet
    <3> QED
      BY <2>5, <3>1
  <2>7. all \in [Services -> 1..m]
    <3>1. \A s \in Registered(registry): rank[s] \in 1..n
      BY <2>4 DEF Ranks
    <3>2. 1..n \subseteq 1..m
      BY <2>5
    <3>3. \A s \in Services: all[s] \in 1..m
      BY <2>6, <3>1, <3>2
    <3> QED
      BY <3>3
  <2>8. ASSUME NEW s \in Services, registry[s] # None, NEW d \in registry[s].deps
        PROVE  all[d] < all[s]
    <3>1. s \in Registered(registry)
      BY <2>8 DEF Registered
    <3>2. d \in Registered(registry) /\ rank[d] < rank[s]
      BY <2>4, <2>8, <3>1 DEF Ranks
    <3>3. d \in Services
      BY <3>2 DEF Registered
    <3> QED
      BY <3>1, <3>2, <3>3
  <2> HIDE DEF all
  <2> QED
    BY <2>3, <2>7, <2>8 DEF PublishedIsSound
<1> QED
  BY <1>1, ConfigTypes, ValidIsPublished, PTL

=============================================================================
