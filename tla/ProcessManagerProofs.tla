------------------------- MODULE ProcessManagerProofs -------------------------
(***************************************************************************)
(* Proofs about ProcessManager: what is tracked, signalled and retired, for  *)
(* any services, threads, PIDs and numbers of processes and operations.      *)
(***************************************************************************)
EXTENDS ProcessManager, TLAPS

\* Whoever works has a service to work on.
TypeInv == TypeOK /\ \A t \in Threads : th[t].pc # "idle" => th[t].svc \in Services

MemoryTyped == /\ states \in [Services -> StateSet] /\ disk \in [Services -> StateSet]
               /\ unsaved \subseteq Services

LEMMA Bounds ==
  /\ MaxBorn \in Nat /\ MaxBegun \in Nat /\ MaxReload \in Nat /\ MaxCrash \in Nat
  /\ Rounds \in Nat /\ Attempts \in Nat
BY BoundsNat

LEMMA Rests == Stopped \in StateSet /\ Idle \in Work /\ Dead \in Process /\ NoReload \in Request
<1>1. Stopped \in StateSet
  BY BoundsNat DEF Stopped, StateSet
<1>2. Idle \in Work
  BY <1>1 DEF Idle, Work, Pcs
<1>3. Dead \in Process
  BY BoundsNat DEF Dead, Process
<1>4. NoReload \in Request
  BY DEF NoReload, Request, Registry
<1> QED BY <1>1, <1>2, <1>3, <1>4

LEMMA InitTypes == Init => TypeInv
<1> SUFFICES ASSUME Init PROVE TypeInv
  OBVIOUS
<1>1. th \in [Threads -> Work] /\ \A t \in Threads : th[t].pc = "idle"
  BY Rests DEF Init, Idle
<1>2. /\ states \in [Services -> StateSet] /\ disk \in [Services -> StateSet]
      /\ proc \in [Births -> Process] /\ reload \in Request
  BY Rests DEF Init
<1>3. active \in Registry /\ registry \in Registry
  BY VersionsNat DEF Init, Registry
<1>4. lock \in [Services -> Threads \cup {"config", None}]
  BY DEF Init
<1>5. births \in 0..MaxBorn /\ begun \in 0..MaxBegun /\ reloads \in 0..MaxReload /\ crashes \in 0..MaxCrash
  BY BoundsNat DEF Init
<1> QED BY <1>1, <1>2, <1>3, <1>4, <1>5 DEF Init, TypeInv, TypeOK

-----------------------------------------------------------------------------
(* What the pieces of the actions leave well typed. *)

LEMMA StoreTypes ==
  ASSUME TypeInv, NEW s, NEW st \in StateSet, NEW saved \in BOOLEAN, Store(s, st, saved), s \in Services
  PROVE  MemoryTyped'
BY DEF TypeInv, TypeOK, MemoryTyped, Store

LEMMA MarkTypes ==
  ASSUME TypeInv, NEW s \in Services, NEW st, NEW saved \in BOOLEAN, MarkStopped(s, st, saved)
  PROVE  MemoryTyped'
<1>1. CASE Current(s, st)
  BY <1>1, Rests, StoreTypes DEF MarkStopped
<1>2. CASE ~Current(s, st)
  BY <1>2 DEF MarkStopped, memory, TypeInv, TypeOK, MemoryTyped
<1> QED BY <1>1, <1>2

LEMMA BecomesTypes ==
  ASSUME TypeInv, NEW t \in Threads, NEW o \in Work, o.pc # "idle" => o.svc \in Services, Becomes(t, o)
  PROVE  th' \in [Threads -> Work] /\ \A u \in Threads : th'[u].pc # "idle" => th'[u].svc \in Services
BY DEF TypeInv, TypeOK, Becomes

LEMMA EndsTypes ==
  ASSUME TypeInv, NEW t \in Threads, Ends(t)
  PROVE  /\ th' \in [Threads -> Work] /\ \A u \in Threads : th'[u].pc # "idle" => th'[u].svc \in Services
         /\ lock' \in [Services -> Threads \cup {"config", None}]
         /\ config' \in Threads \cup {"config", None}
<1>1. Idle.pc = "idle"
  BY DEF Idle
<1>2. lock' \in [Services -> Threads \cup {"config", None}] /\ config' \in Threads \cup {"config", None}
  BY DEF Ends, TypeInv, TypeOK
<1> QED BY <1>1, <1>2, Rests, BecomesTypes DEF Ends

LEMMA LockTypes ==
  ASSUME TypeInv, NEW t \in Threads \cup {"config"}, NEW s, Lock(t, s)
  PROVE  lock' \in [Services -> Threads \cup {"config", None}]
BY DEF Lock, TypeInv, TypeOK

LEMMA TrackTypes ==
  ASSUME TypeInv, NEW b \in Births, NEW a \in BOOLEAN
  PROVE  Track(b, a) \in StateSet
BY BoundsNat DEF TypeInv, TypeOK, Track, StateSet, Births, Process

LEMMA BornTypes ==
  ASSUME TypeInv, births < MaxBorn, NEW p \in Pids, NEW g \in Pids \cup {0}, NEW root \in 0..MaxBorn,
         NEW fits \in SUBSET Services, NEW by \in Services \cup {None}, Born(p, g, root, fits, by)
  PROVE  proc' \in [Births -> Process] /\ births' \in 0..MaxBorn /\ births' \in Births
BY BoundsNat DEF TypeInv, TypeOK, Born, Births, Process

\* A state of work of a thread that has a service, with some of its fields changed.
LEMMA WorkTypes ==
  ASSUME TypeInv, NEW t \in Threads, NEW pc \in Pcs, NEW seen \in StateSet, NEW cand \in StateSet,
         NEW n \in Nat
  PROVE  /\ [th[t] EXCEPT !.pc = pc] \in Work
         /\ [th[t] EXCEPT !.round = n] \in Work
         /\ [th[t] EXCEPT !.pc = pc, !.cand = cand] \in Work
         /\ [th[t] EXCEPT !.pc = pc, !.seen = seen] \in Work
         /\ [th[t] EXCEPT !.pc = pc, !.round = n] \in Work
         /\ [th[t] EXCEPT !.pc = pc, !.seen = seen, !.round = n] \in Work
         /\ [th[t] EXCEPT !.pc = pc, !.cand = cand, !.round = n] \in Work
         /\ [th[t] EXCEPT !.pc = pc, !.seen = seen, !.cand = cand] \in Work
<1>1. th[t] \in Work /\ th[t].round \in Nat
  BY DEF TypeInv, TypeOK, Work
<1> QED BY <1>1 DEF Work

LEMMA BeginTypes == ASSUME TypeInv, NEW t \in Threads, Begin(t) PROVE TypeInv'
<1> PICK op \in Duties, s \in Services :
       /\ registry[s] # 0
       /\ Becomes(t, [Idle EXCEPT !.op = op, !.pc = First(op, s), !.svc = s, !.def = registry[s],
                        !.seen = IF First(op, s) = "mark" THEN states[s] ELSE Stopped])
       /\ IF op \in {"start", "stop", "restart"} THEN config = None /\ config' = t ELSE UNCHANGED config
  BY DEF Begin
<1> DEFINE seen == IF First(op, s) = "mark" THEN states[s] ELSE Stopped
           o == [Idle EXCEPT !.op = op, !.pc = First(op, s), !.svc = s, !.def = registry[s], !.seen = seen]
<1>1. First(op, s) \in Pcs
  BY DEF First, Pcs
<1>2. seen \in StateSet
  BY Rests DEF TypeInv, TypeOK
<1>3. o \in Work /\ o.svc = s
  BY <1>1, <1>2, Rests DEF Idle, Work, TypeInv, TypeOK, Registry
<1>4. th' \in [Threads -> Work] /\ \A u \in Threads : th'[u].pc # "idle" => th'[u].svc \in Services
  <2> HIDE DEF o
  <2> QED BY <1>3, BecomesTypes DEF o
<1>5. config' \in Threads \cup {"config", None} /\ begun' \in 0..MaxBegun
  BY Bounds DEF Begin, TypeInv, TypeOK
<1> QED BY <1>4, <1>5 DEF Begin, TypeInv, TypeOK, world, memory, definitions

LEMMA StartTypes == ASSUME TypeInv, NEW t \in Threads, Start(t) PROVE TypeInv'
<1> DEFINE s == th[t].svc
<1>1. s \in Services
  BY DEF Start, At, TypeInv
<1>2. CASE StartFails(t, s) /\ UNCHANGED world
  <2>1. CASE Ends(t)
    BY <1>2, <2>1, EndsTypes DEF Start, TypeInv, TypeOK, world, memory, definitions, counts
  <2>2. CASE Becomes(t, [th[t] EXCEPT !.round = @ + 1]) /\ Keeps
    <3>1. [th[t] EXCEPT !.round = @ + 1] \in Work
      BY DEF TypeInv, TypeOK, Work
    <3>2. [th[t] EXCEPT !.round = @ + 1].svc \in Services
      BY <1>1 DEF TypeInv, TypeOK, Work
    <3>3. th' \in [Threads -> Work] /\ \A u \in Threads : th'[u].pc # "idle" => th'[u].svc \in Services
      BY <2>2, <3>1, <3>2, BecomesTypes
    <3> QED BY <1>2, <2>2, <3>3 DEF Start, TypeInv, TypeOK, world, memory, definitions, counts, Keeps
  <2> QED BY <1>2, <2>1, <2>2 DEF StartFails
<1>3. ASSUME NEW p \in FreePids, births < MaxBorn, Born(p, p, births + 1, {s}, s),
             Becomes(t, [th[t] EXCEPT !.pc = "commit",
               !.cand = [born |-> births + 1, pid |-> p, group |-> p, adopted |-> FALSE]]),
             Lock(t, s), UNCHANGED config
      PROVE  TypeInv'
  <2> DEFINE c == [born |-> births + 1, pid |-> p, group |-> p, adopted |-> FALSE]
  <2>1. p \in Pids /\ births + 1 \in 0..MaxBorn
    BY <1>3, Bounds DEF FreePids, TypeInv, TypeOK
  <2>2. c \in StateSet
    BY <2>1 DEF StateSet
  <2>3. proc' \in [Births -> Process] /\ births' \in 0..MaxBorn
    BY <1>1, <1>3, <2>1, BornTypes
  <2>4. [th[t] EXCEPT !.pc = "commit", !.cand = c] \in Work
    BY <2>2, WorkTypes, Rests, Bounds DEF Pcs
  <2>5. [th[t] EXCEPT !.pc = "commit", !.cand = c].svc \in Services
    BY <1>1 DEF TypeInv, TypeOK, Work
  <2>6. th' \in [Threads -> Work] /\ \A u \in Threads : th'[u].pc # "idle" => th'[u].svc \in Services
    BY <1>3, <2>4, <2>5, BecomesTypes
  <2> QED BY <1>3, <2>3, <2>6, LockTypes DEF Start, TypeInv, TypeOK, memory, definitions, counts
<1> QED BY <1>2, <1>3 DEF Start

LEMMA SavesBoolean == Saves \subseteq BOOLEAN
BY DEF Saves

LEMMA CommitTypes == ASSUME TypeInv, NEW t \in Threads, Commit(t) PROVE TypeInv'
<1>1. th[t].svc \in Services /\ th[t].cand \in StateSet
  BY DEF Commit, At, TypeInv, TypeOK, Work
<1>2. MemoryTyped'
  <2>1. ASSUME NEW saved \in Saves, Store(th[t].svc, th[t].cand, saved)
        PROVE  MemoryTyped'
    BY <1>1, <2>1, SavesBoolean, StoreTypes
  <2>2. CASE UNCHANGED memory
    BY <2>2 DEF memory, TypeInv, TypeOK, MemoryTyped
  <2> QED BY <2>1, <2>2 DEF Commit
<1> QED BY <1>2, EndsTypes DEF Commit, TypeInv, TypeOK, MemoryTyped, world, definitions, counts

\* Another step of the same work.
LEMMA GoesTypes ==
  ASSUME TypeInv, NEW t \in Threads, th[t].svc \in Services, NEW pc \in Pcs, NEW seen \in StateSet,
         NEW cand \in StateSet, NEW n \in Nat,
         \/ Becomes(t, [th[t] EXCEPT !.pc = pc])
         \/ Becomes(t, [th[t] EXCEPT !.round = n])
         \/ Becomes(t, [th[t] EXCEPT !.pc = pc, !.cand = cand])
         \/ Becomes(t, [th[t] EXCEPT !.pc = pc, !.seen = seen])
         \/ Becomes(t, [th[t] EXCEPT !.pc = pc, !.round = n])
         \/ Becomes(t, [th[t] EXCEPT !.pc = pc, !.seen = seen, !.round = n])
         \/ Becomes(t, [th[t] EXCEPT !.pc = pc, !.cand = cand, !.round = n])
         \/ Becomes(t, [th[t] EXCEPT !.pc = pc, !.seen = seen, !.cand = cand])
  PROVE  th' \in [Threads -> Work] /\ \A u \in Threads : th'[u].pc # "idle" => th'[u].svc \in Services
<1>1. PICK o \in Work : Becomes(t, o) /\ o.svc = th[t].svc
  <2> DEFINE o1 == [th[t] EXCEPT !.pc = pc]
             o2 == [th[t] EXCEPT !.round = n]
             o3 == [th[t] EXCEPT !.pc = pc, !.cand = cand]
             o4 == [th[t] EXCEPT !.pc = pc, !.seen = seen]
             o5 == [th[t] EXCEPT !.pc = pc, !.round = n]
             o6 == [th[t] EXCEPT !.pc = pc, !.seen = seen, !.round = n]
             o7 == [th[t] EXCEPT !.pc = pc, !.cand = cand, !.round = n]
             o8 == [th[t] EXCEPT !.pc = pc, !.seen = seen, !.cand = cand]
  <2>1. th[t] \in Work
    BY DEF TypeInv, TypeOK
  <2>2. \A o \in {o1, o2, o3, o4, o5, o6, o7, o8} : o \in Work
    <3>1. /\ o1 \in Work /\ o2 \in Work /\ o3 \in Work /\ o4 \in Work
          /\ o5 \in Work /\ o6 \in Work /\ o7 \in Work /\ o8 \in Work
      BY WorkTypes
    <3> HIDE DEF o1, o2, o3, o4, o5, o6, o7, o8
    <3> QED BY <3>1
  <2>3. \A o \in {o1, o2, o3, o4, o5, o6, o7, o8} : o.svc = th[t].svc
    BY <2>1 DEF Work
  <2>4. \E o \in {o1, o2, o3, o4, o5, o6, o7, o8} : Becomes(t, o)
    OBVIOUS
  <2> HIDE DEF o1, o2, o3, o4, o5, o6, o7, o8
  <2> QED BY <2>2, <2>3, <2>4
<1> QED BY <1>1, BecomesTypes

LEMMA StopDoneTypes ==
  ASSUME TypeInv, NEW t \in Threads, th[t].svc \in Services, NEW st, StopDone(t, th[t].svc, st),
         UNCHANGED <<world, definitions, reload, lost, counts>>
  PROVE  TypeInv'
<1> PICK saved \in Saves :
       /\ MarkStopped(th[t].svc, st, saved)
       /\ \/ /\ Becomes(t, [th[t] EXCEPT !.pc = "start", !.seen = Stopped, !.round = 0])
             /\ Lock(t, th[t].svc) /\ UNCHANGED config
          \/ Ends(t)
  BY DEF StopDone
<1>1. MemoryTyped'
  BY SavesBoolean, MarkTypes
<1>2. CASE Ends(t)
  BY <1>1, <1>2, EndsTypes DEF TypeInv, TypeOK, MemoryTyped, world, definitions, counts
<1>3. CASE /\ Becomes(t, [th[t] EXCEPT !.pc = "start", !.seen = Stopped, !.round = 0])
           /\ Lock(t, th[t].svc) /\ UNCHANGED config
  <2>1. "start" \in Pcs /\ 0 \in Nat
    BY DEF Pcs
  <2>2. th' \in [Threads -> Work] /\ \A u \in Threads : th'[u].pc # "idle" => th'[u].svc \in Services
    BY <1>3, <2>1, Rests, GoesTypes
  <2> QED BY <1>1, <1>3, <2>2, LockTypes DEF TypeInv, TypeOK, MemoryTyped, world, definitions, counts
<1> QED BY <1>2, <1>3

LEMMA StopTypes == ASSUME TypeInv, NEW t \in Threads, StopBegins(t) \/ Wait(t) PROVE TypeInv'
<1>1. th[t].svc \in Services
  BY DEF StopBegins, Wait, At, TypeInv
<1>2. states[th[t].svc] \in StateSet /\ th[t].seen \in StateSet /\ th[t].round \in Nat
  BY <1>1 DEF TypeInv, TypeOK, Work
<1>3. UNCHANGED <<world, definitions, reload, lost, counts>>
  BY DEF StopBegins, Wait
<1>4. CASE StopDone(t, th[t].svc, states[th[t].svc]) \/ StopDone(t, th[t].svc, th[t].seen)
  BY <1>1, <1>3, <1>4, StopDoneTypes
<1>5. CASE Ends(t) /\ UNCHANGED memory
  BY <1>3, <1>5, EndsTypes DEF TypeInv, TypeOK, world, memory, definitions, counts
<1>6. ASSUME NEW st \in StateSet, NEW n \in Nat, Signal(t, st, n), UNCHANGED memory, UNCHANGED config,
             Lock(t, th[t].svc) \/ UNCHANGED lock
      PROVE  TypeInv'
  <2>1. "wait" \in Pcs
    BY DEF Pcs
  <2>2. th' \in [Threads -> Work] /\ \A u \in Threads : th'[u].pc # "idle" => th'[u].svc \in Services
    BY <1>1, <1>6, <2>1, GoesTypes DEF Signal
  <2> QED BY <1>3, <1>6, <2>2, LockTypes DEF TypeInv, TypeOK, world, memory, definitions, counts
<1> QED BY <1>2, <1>4, <1>5, <1>6 DEF StopBegins, Wait, Keeps

LEMMA CheckTypes == ASSUME TypeInv, NEW t \in Threads, Mark(t) \/ Evaluate(t) \/ Adopt(t) PROVE TypeInv'
<1>1. th[t].svc \in Services /\ th[t].cand \in StateSet
  BY DEF Mark, Evaluate, Adopt, At, TypeInv, TypeOK, Work
<1>2. UNCHANGED <<world, definitions, reload, lost, counts>>
  BY DEF Mark, Evaluate, Adopt
<1>3. MemoryTyped'
  <2>1. CASE UNCHANGED memory
    BY <2>1 DEF memory, TypeInv, TypeOK, MemoryTyped
  <2>2. ASSUME NEW saved \in Saves,
               Store(th[t].svc, th[t].cand, saved) \/ MarkStopped(th[t].svc, th[t].seen, saved)
        PROVE  MemoryTyped'
    BY <1>1, <2>2, SavesBoolean, StoreTypes, MarkTypes
  <2> QED BY <2>1, <2>2 DEF Mark, Evaluate, Adopt
<1>4. CASE Ends(t)
  BY <1>2, <1>3, <1>4, EndsTypes DEF TypeInv, TypeOK, MemoryTyped, world, definitions, counts
<1>5. ASSUME NEW pc \in Pcs, NEW seen \in StateSet, NEW cand \in StateSet, Keeps,
             \/ Becomes(t, [th[t] EXCEPT !.pc = pc, !.seen = seen])
             \/ Becomes(t, [th[t] EXCEPT !.pc = pc, !.seen = seen, !.cand = cand])
      PROVE  TypeInv'
  <2>1. th' \in [Threads -> Work] /\ \A u \in Threads : th'[u].pc # "idle" => th'[u].svc \in Services
    BY <1>1, <1>5, GoesTypes, Bounds
  <2> QED BY <1>2, <1>3, <1>5, <2>1 DEF TypeInv, TypeOK, MemoryTyped, world, definitions, counts, Keeps
<1>6. CASE Mark(t)
  BY <1>1, <1>4, <1>5, <1>6, Rests DEF Mark, Pcs
<1>7. CASE Evaluate(t)
  <2>1. \A b \in Holders(th[t].svc) : Track(b, TRUE) \in StateSet
    BY TrackTypes DEF Holders
  <2>2. states[th[t].svc] \in StateSet
    BY <1>1 DEF TypeInv, TypeOK
  <2> QED BY <1>4, <1>5, <1>7, <2>1, <2>2, Rests DEF Evaluate, Pcs
<1>8. CASE Adopt(t)
  BY <1>1, <1>4, <1>5, <1>8, Rests DEF Adopt, Pcs
<1> QED BY <1>6, <1>7, <1>8

LEMMA KillTypes == ASSUME TypeInv, NEW t \in Threads, KillBegins(t) \/ Hit(t) \/ HitWait(t) PROVE TypeInv'
<1>1. th[t].svc \in Services /\ th[t].round \in Nat
  BY DEF KillBegins, Hit, HitWait, At, TypeInv, TypeOK, Work
<1>2. UNCHANGED <<world, memory, definitions, reload, lost, counts>>
  BY DEF KillBegins, Hit, HitWait
<1>3. CASE Ends(t)
  BY <1>2, <1>3, EndsTypes DEF TypeInv, TypeOK, world, memory, definitions, counts
<1>4. ASSUME NEW pc \in Pcs, NEW cand \in StateSet, NEW n \in Nat, UNCHANGED config,
             Lock(t, th[t].svc) \/ UNCHANGED lock,
             \/ Becomes(t, [th[t] EXCEPT !.pc = pc])
             \/ Becomes(t, [th[t] EXCEPT !.pc = pc, !.round = n])
             \/ Becomes(t, [th[t] EXCEPT !.pc = pc, !.cand = cand, !.round = n])
      PROVE  TypeInv'
  <2>1. th' \in [Threads -> Work] /\ \A u \in Threads : th'[u].pc # "idle" => th'[u].svc \in Services
    BY <1>1, <1>4, GoesTypes, Rests
  <2> QED BY <1>2, <1>4, <2>1, LockTypes DEF TypeInv, TypeOK, world, memory, definitions, counts
<1>5. CASE KillBegins(t)
  <2>1. \A b \in Holders(th[t].svc) : Track(b, TRUE) \in StateSet
    BY TrackTypes DEF Holders
  <2> QED BY <1>3, <1>4, <1>5, <2>1 DEF KillBegins, KillLock, Pcs
<1>6. CASE Hit(t)
  BY <1>1, <1>3, <1>4, <1>6, Rests DEF Hit, Goes, Keeps, Pcs
<1>7. CASE HitWait(t)
  <2>1. "hit" \in Pcs /\ th[t].round + 1 \in Nat
    BY <1>1 DEF Pcs
  <2>2. CASE Becomes(t, [th[t] EXCEPT !.pc = "hit", !.round = @ + 1]) /\ Keeps
    <3>1. Becomes(t, [th[t] EXCEPT !.pc = "hit", !.round = th[t].round + 1])
      BY <2>2
    <3> QED BY <1>4, <2>1, <2>2, <3>1, Rests DEF Keeps
  <2> QED BY <1>3, <1>7, <2>2 DEF HitWait
<1> QED BY <1>5, <1>6, <1>7

LEMMA ReloadTypes == ASSUME TypeInv, Configure PROVE TypeInv'
<1>1. UNCHANGED th
  BY DEF Configure, ReloadBegins, Retire, Activate, Publish
<1>2. ASSUME NEW kind \in {"reload", "save", "delete"}, NEW s \in Services \cup {None},
             NEW incoming \in Registry, Requested(kind, s, incoming)
      PROVE  reload' \in Request
  <2> DEFINE removed == {u \in Services : incoming[u] = 0}
             phase == IF removed = {} THEN "activate" ELSE "retire"
             left == IF removed = {} THEN Services ELSE removed
  <2>1. phase \in {"none", "retire", "activate"} /\ left \in SUBSET Services
    OBVIOUS
  <2>2. reload' = [kind |-> kind, svc |-> s, incoming |-> incoming, phase |-> phase, left |-> left]
    BY <1>2 DEF Requested
  <2> HIDE DEF phase, left
  <2> QED BY <2>1, <2>2 DEF Request
<1>3. CASE ReloadBegins
  <2>1. ASSUME NEW s \in Services, NEW v \in Versions \cup {0}
        PROVE  [registry EXCEPT ![s] = v] \in Registry
    BY <2>1 DEF TypeInv, TypeOK, Registry
  <2>2. reload' \in Request
    BY <1>2, <1>3, <2>1 DEF ReloadBegins, Registry
  <2>3. lock' \in [Services -> Threads \cup {"config", None}]
    BY <1>3, LockTypes DEF ReloadBegins, TypeInv, TypeOK
  <2>4. reloads' \in 0..MaxReload
    BY <1>3, Bounds DEF ReloadBegins, TypeInv, TypeOK
  <2> QED BY <1>1, <1>3, <2>2, <2>3, <2>4 DEF ReloadBegins, TypeInv, TypeOK, world, memory, definitions
<1>4. ASSUME ReloadEnds
      PROVE  /\ reload' \in Request /\ config' \in Threads \cup {"config", None}
             /\ lock' \in [Services -> Threads \cup {"config", None}]
  BY <1>4, Rests DEF ReloadEnds, TypeInv, TypeOK
<1>5. CASE Retire
  <2> PICK s \in reload.left :
         IF Alive(states[s]) THEN ReloadEnds /\ UNCHANGED <<active, retired>>
         ELSE /\ active' = [active EXCEPT ![s] = 0] /\ retired' = retired \cup {s}
              /\ reload' = IF reload.left = {s} THEN [reload EXCEPT !.phase = "activate",
                                 !.left = {u \in Services : reload.incoming[u] # 0}]
                           ELSE [reload EXCEPT !.left = @ \ {s}]
              /\ Keeps
    BY <1>5 DEF Retire
  <2>1. s \in Services /\ reload.left \subseteq Services
    BY DEF TypeInv, TypeOK, Request
  <2>2. active' \in Registry /\ retired' \subseteq Services
    BY <2>1 DEF TypeInv, TypeOK, Registry
  <2>3. /\ [reload EXCEPT !.phase = "activate", !.left = {u \in Services : reload.incoming[u] # 0}] \in Request
        /\ [reload EXCEPT !.left = @ \ {s}] \in Request
    BY DEF TypeInv, TypeOK, Request
  <2> QED BY <1>1, <1>4, <1>5, <2>2, <2>3 DEF Retire, TypeInv, TypeOK, world, memory, counts, Keeps
<1>6. CASE Activate
  <2> PICK s \in reload.left :
         /\ active' = [active EXCEPT ![s] = reload.incoming[s]] /\ retired' = retired \ {s}
         /\ reload' = [reload EXCEPT !.left = @ \ {s}]
    BY <1>6 DEF Activate
  <2>1. s \in Services /\ reload.incoming \in Registry
    BY DEF TypeInv, TypeOK, Request
  <2>2. active' \in Registry /\ retired' \subseteq Services
    BY <2>1 DEF TypeInv, TypeOK, Registry
  <2>3. [reload EXCEPT !.left = @ \ {s}] \in Request
    BY DEF TypeInv, TypeOK, Request
  <2> QED BY <1>1, <1>6, <2>2, <2>3 DEF Activate, TypeInv, TypeOK, world, memory, counts
<1>7. CASE Publish
  <2>1. registry' \in Registry
    BY <1>7 DEF Publish, TypeInv, TypeOK, Request
  <2>2. MemoryTyped'
    BY <1>7, Rests DEF Publish, Store, memory, TypeInv, TypeOK, MemoryTyped
  <2> QED BY <1>1, <1>4, <1>7, <2>1, <2>2 DEF Publish, TypeInv, TypeOK, MemoryTyped, world, counts
<1> QED BY <1>3, <1>5, <1>6, <1>7 DEF Configure

LEMMA EnvironmentTypes == ASSUME TypeInv, Environment PROVE TypeInv'
<1>1. CASE Crash
  <2>1. th' \in [Threads -> Work] /\ \A t \in Threads : th'[t].pc = "idle"
    BY <1>1, Rests DEF Crash, Idle
  <2>2. /\ lock' \in [Services -> Threads \cup {"config", None}]
        /\ registry' \in Registry /\ active' \in Registry /\ retired' \subseteq Services
        /\ lost' \subseteq Births
    BY <1>1 DEF Crash, TypeInv, TypeOK, Request
  <2>3. crashes' \in 0..MaxCrash /\ reload' \in Request /\ MemoryTyped'
    BY <1>1, Bounds, Rests DEF Crash, TypeInv, TypeOK, MemoryTyped
  <2> QED BY <1>1, <2>1, <2>2, <2>3 DEF Crash, TypeInv, TypeOK, MemoryTyped, world
<1>2. ASSUME births < MaxBorn, NEW p \in FreePids, NEW g \in {p, 0}, NEW fits \in SUBSET Services,
             NEW b \in 0..MaxBorn, Born(p, g, b, fits, None),
             UNCHANGED <<memory, definitions, lock, config, reload, th, lost, counts>>
      PROVE  TypeInv'
  <2>1. p \in Pids
    BY DEF FreePids
  <2>2. proc' \in [Births -> Process] /\ births' \in 0..MaxBorn
    BY <1>2, <2>1, BornTypes
  <2> QED BY <1>2, <2>2 DEF TypeInv, TypeOK, memory, definitions, counts
<1>3. CASE Foreign
  <2>1. births + 1 \in 0..MaxBorn
    BY <1>3, Bounds DEF Foreign, TypeInv, TypeOK
  <2> QED BY <1>2, <1>3, <2>1, LooksServices DEF Foreign
<1>4. ASSUME NEW b \in Births, Fork(b) PROVE TypeInv'
  <2> PICK p \in FreePids : Born(p, proc[b].group, b, {}, None)
    BY <1>4 DEF Fork
  <2>1. p \in Pids /\ proc[b].group \in Pids \cup {0} /\ b \in 0..MaxBorn
    BY Bounds DEF FreePids, TypeInv, TypeOK, Process, Births
  <2>2. proc' \in [Births -> Process] /\ births' \in 0..MaxBorn
    BY <1>4, <2>1, BornTypes DEF Fork
  <2> QED BY <1>4, <2>2 DEF Fork, TypeInv, TypeOK, memory, definitions, counts
<1>5. ASSUME NEW b \in Births, NEW s \in Services, Listen(b, s) PROVE TypeInv'
  <2>1. [proc[b] EXCEPT !.holds = @ \cup {s}] \in Process
    BY DEF TypeInv, TypeOK, Process
  <2>2. proc' = [proc EXCEPT ![b] = [proc[b] EXCEPT !.holds = @ \cup {s}]]
    BY <1>5 DEF Listen
  <2>3. proc' \in [Births -> Process]
    BY <2>1, <2>2 DEF TypeInv, TypeOK
  <2> QED BY <1>5, <2>3 DEF Listen, TypeInv, TypeOK, memory, definitions, counts
<1>6. ASSUME NEW b \in Births, Exit(b) PROVE TypeInv'
  <2>1. proc' \in [Births -> Process]
    BY <1>6, Rests DEF Exit, TypeInv, TypeOK
  <2> QED BY <1>6, <2>1 DEF Exit, TypeInv, TypeOK, memory, definitions, counts
<1> QED BY <1>1, <1>3, <1>4, <1>5, <1>6 DEF Environment

LEMMA StepTypes == TypeInv /\ [Next]_vars => TypeInv'
<1> SUFFICES ASSUME TypeInv, [Next]_vars PROVE TypeInv'
  OBVIOUS
<1>1. CASE UNCHANGED vars
  BY <1>1 DEF vars, TypeInv, TypeOK
<1>2. ASSUME NEW t \in Threads, Step(t) PROVE TypeInv'
  BY <1>2, BeginTypes, StartTypes, CommitTypes, StopTypes, CheckTypes, KillTypes DEF Step
<1> QED BY <1>1, <1>2, ReloadTypes, EnvironmentTypes DEF Next, Rest

\* Every variable keeps its type.
THEOREM TypesCorrect == Spec => []TypeOK
<1>1. TypeInv => TypeOK
  BY DEF TypeInv
<1> QED BY <1>1, InitTypes, StepTypes, PTL DEF Spec

-----------------------------------------------------------------------------
(* The processes, and what a reference to one is worth later. *)

\* PIDs of processes that live are unique, a group has one root, and only processes
\* that were started by themselves are anybody's.
WorldInv ==
  /\ \A b \in Births : b > births => ~Live(b)
  /\ \A b \in Births : ~Live(b) => proc[b] = Dead
  /\ \A b, c \in Births : Live(b) /\ Live(c) /\ proc[b].pid = proc[c].pid => b = c
  /\ \A b, c \in Births :
       Live(b) /\ Live(c) /\ proc[b].group = proc[c].group /\ proc[b].group # 0 =>
         proc[b].root = proc[c].root
  /\ \A b \in Births : Live(b) /\ proc[b].fits # {} => proc[b].root = b

\* What was there stays what it was while it lives, and does not come back.
Persists ==
  /\ births <= births'
  /\ \A b \in Births : b <= births /\ proc'[b].pid # 0 =>
       /\ proc[b].pid # 0 /\ proc'[b].pid = proc[b].pid /\ proc'[b].group = proc[b].group
       /\ proc'[b].root = proc[b].root /\ proc'[b].fits = proc[b].fits /\ proc'[b].by = proc[b].by

\* A process is born, with nobody else in its group but those of its root.
LEMMA BornWorld ==
  ASSUME TypeInv, WorldInv, births < MaxBorn, NEW p \in FreePids, NEW g \in Pids \cup {0},
         NEW root \in 0..MaxBorn, NEW fits \in SUBSET Services, NEW by \in Services \cup {None},
         Born(p, g, root, fits, by),
         \/ g \in {p, 0} /\ root = births + 1
         \/ \E b \in Births : Live(b) /\ g = proc[b].group /\ root = proc[b].root /\ fits = {}
  PROVE  /\ WorldInv' /\ Persists /\ births' = births + 1 /\ births' \in Births
         /\ proc'[births'] = [pid |-> p, group |-> g, root |-> root, fits |-> fits,
                              holds |-> {}, by |-> by]
         /\ \A b \in Births : b # births' => proc'[b] = proc[b]
<1> DEFINE n == births + 1
           new == [pid |-> p, group |-> g, root |-> root, fits |-> fits, holds |-> {}, by |-> by]
<1>1. n \in Births /\ births \in Nat /\ births' = n /\ p # 0 /\ p \in Pids
  BY Bounds, NoPidZero DEF TypeInv, TypeOK, Births, Born, FreePids
<1>2. proc' = [proc EXCEPT ![n] = new] /\ proc \in [Births -> Process]
  BY DEF Born, TypeInv, TypeOK
<1>3. proc'[n] = new /\ \A b \in Births : b # n => proc'[b] = proc[b]
  BY <1>1, <1>2
<1>4. \A b \in Births : proc[b].pid # p /\ proc[b].group # p
  BY DEF FreePids
<1>5. new.pid = p /\ new.group = g /\ new.root = root /\ new.fits = fits
  OBVIOUS
<1>6. ~Live(n) /\ \A b \in Births : b \in Nat
  BY <1>1 DEF WorldInv, Births
<1> HIDE DEF n, new
<1>7. Persists
  BY <1>1, <1>3, <1>6 DEF Persists, Live, n
<1>8. \A b \in Births : b > births' => ~Live(b)'
  BY <1>1, <1>3, <1>6 DEF WorldInv, Live, n
<1>9. \A b \in Births : ~Live(b)' => (proc[b] = Dead)'
  BY <1>1, <1>3, <1>5 DEF WorldInv, Live
<1>10. \A b, c \in Births : Live(b)' /\ Live(c)' /\ proc'[b].pid = proc'[c].pid => b = c
  BY <1>3, <1>4, <1>5 DEF WorldInv, Live
<1>11. \A b, c \in Births :
         Live(b)' /\ Live(c)' /\ proc'[b].group = proc'[c].group /\ proc'[b].group # 0 =>
           proc'[b].root = proc'[c].root
  <2>1. \A b \in Births : Live(b) /\ proc[b].group = g /\ g # 0 => proc[b].root = root
    BY <1>4 DEF WorldInv
  <2>2. n \in Births /\ \A b \in Births : b # n => Live(b)' = Live(b) /\ proc'[b] = proc[b]
    BY <1>1, <1>3 DEF Live, n
  <2> QED BY <1>3, <1>5, <2>1, <2>2 DEF WorldInv
<1>12. \A b \in Births : Live(b)' /\ proc'[b].fits # {} => proc'[b].root = b
  BY <1>1, <1>3, <1>5 DEF WorldInv, Live, n
<1>13. WorldInv'
  BY <1>8, <1>9, <1>10, <1>11, <1>12 DEF WorldInv
<1> QED BY <1>1, <1>3, <1>7, <1>13 DEF n, new

LEMMA StepWorld == TypeInv /\ WorldInv /\ [Next]_vars => WorldInv' /\ Persists
<1> SUFFICES ASSUME TypeInv, WorldInv, [Next]_vars PROVE WorldInv' /\ Persists
  OBVIOUS
<1>0. births \in Nat /\ \A b \in Births : b \in Nat
  BY DEF TypeInv, TypeOK, Births
<1>1. CASE UNCHANGED world
  BY <1>0, <1>1 DEF WorldInv, Persists, Live, world
<1>2. ASSUME NEW t \in Threads, Start(t) PROVE WorldInv' /\ Persists
  <2> DEFINE s == th[t].svc
  <2>1. CASE UNCHANGED world
    BY <1>1, <2>1
  <2>2. ASSUME NEW p \in FreePids, births < MaxBorn, Born(p, p, births + 1, {s}, s)
        PROVE  WorldInv' /\ Persists
    <3>1. s \in Services /\ p \in Pids
      BY <1>2 DEF Start, At, TypeInv, FreePids
    <3>2. births + 1 \in 0..MaxBorn
      BY <1>0, <2>2, Bounds
    <3> QED BY <2>2, <3>1, <3>2, BornWorld
  <2> QED BY <1>2, <2>1, <2>2 DEF Start
<1>3. CASE Foreign
  <2>1. births + 1 \in 0..MaxBorn /\ FreePids \subseteq Pids
    BY <1>3, Bounds DEF Foreign, TypeInv, TypeOK, FreePids
  <2> QED BY <1>3, <2>1, BornWorld, LooksServices DEF Foreign
<1>4. ASSUME NEW b \in Births, Fork(b) PROVE WorldInv' /\ Persists
  <2>1. b \in 0..MaxBorn /\ FreePids \subseteq Pids /\ proc[b].group \in Pids \cup {0}
    BY <1>0, Bounds DEF TypeInv, TypeOK, FreePids, Births, Process
  <2> PICK p \in FreePids : Born(p, proc[b].group, b, {}, None)
    BY <1>4 DEF Fork
  <2> QED BY <1>4, <2>1, BornWorld DEF Fork
<1>5. ASSUME NEW b \in Births, NEW s \in Services, Listen(b, s) PROVE WorldInv' /\ Persists
  <2>1. /\ \A c \in Births : c # b => proc'[c] = proc[c]
        /\ proc'[b].pid = proc[b].pid /\ proc'[b].group = proc[b].group
        /\ proc'[b].root = proc[b].root /\ proc'[b].fits = proc[b].fits /\ proc'[b].by = proc[b].by
        /\ births' = births /\ Live(b)
    BY <1>5 DEF Listen, TypeInv, TypeOK, Process
  <2> QED BY <1>0, <2>1 DEF WorldInv, Persists, Live
<1>6. ASSUME NEW b \in Births, Exit(b) PROVE WorldInv' /\ Persists
  <2>1. /\ \A c \in Births : c # b => proc'[c] = proc[c]
        /\ proc'[b] = Dead /\ births' = births
    BY <1>6 DEF Exit, TypeInv, TypeOK
  <2>2. Dead.pid = 0
    BY DEF Dead
  <2>3. \A c \in Births : Live(c)' => c # b /\ Live(c) /\ proc'[c] = proc[c]
    BY <2>1, <2>2 DEF Live
  <2>4. \A c \in Births : ~Live(c)' => proc'[c] = Dead
    BY <2>1 DEF WorldInv, Live
  <2>5. \A c \in Births : c > births' => ~Live(c)'
    BY <2>1, <2>3 DEF WorldInv
  <2>6. \A c, d \in Births : Live(c)' /\ Live(d)' /\ proc'[c].pid = proc'[d].pid => c = d
    BY <2>3 DEF WorldInv
  <2>7. \A c, d \in Births :
          Live(c)' /\ Live(d)' /\ proc'[c].group = proc'[d].group /\ proc'[c].group # 0 =>
            proc'[c].root = proc'[d].root
    BY <2>3 DEF WorldInv
  <2>8. \A c \in Births : Live(c)' /\ proc'[c].fits # {} => proc'[c].root = c
    BY <2>3 DEF WorldInv
  <2>9. WorldInv'
    BY <2>4, <2>5, <2>6, <2>7, <2>8 DEF WorldInv
  <2> QED BY <1>0, <2>1, <2>3, <2>9 DEF Persists, Live
<1>7. ASSUME NEW t \in Threads, Step(t) PROVE Start(t) \/ UNCHANGED world
  BY <1>7 DEF Step, Begin, Commit, StopBegins, Wait, Mark, Evaluate, Adopt, KillBegins, Hit, HitWait
<1>8. ASSUME Configure \/ Crash \/ Rest PROVE UNCHANGED world
  BY <1>8 DEF Configure, ReloadBegins, Retire, Activate, Publish, Crash, Rest, vars, world
<1>9. CASE UNCHANGED vars
  BY <1>1, <1>9 DEF vars, world
<1> QED BY <1>1, <1>2, <1>3, <1>4, <1>5, <1>6, <1>7, <1>8, <1>9 DEF Next, Environment

\* st refers to a process that lives (p are the processes, n their number); if it does,
\* PID and group are those of that process, and it is the root of its group.
There(p, st) == st.born \in Births /\ p[st.born].pid # 0
Refers(p, n, st) ==
  /\ st.born <= n /\ (~st.adopted => st.group = st.pid)
  /\ There(p, st) => st.pid = p[st.born].pid /\ st.group = p[st.born].group
Rooted(p, st) == There(p, st) => p[st.born].root = st.born

LEMMA RefersLater ==
  ASSUME TypeInv, TypeInv', Persists, NEW st \in StateSet
  PROVE  Refers(proc, births, st) =>
           /\ Refers(proc', births', st)
           /\ Rooted(proc, st) => Rooted(proc', st)
           /\ There(proc', st) => There(proc, st)
BY DEF TypeInv, TypeOK, Persists, Refers, Rooted, There, StateSet, Births

LEMMA AliveIsThere ==
  ASSUME TypeInv, NEW st \in StateSet, Refers(proc, births, st)
  PROVE  Alive(st) <=> There(proc, st)
BY DEF Alive, Refers, There, Births, StateSet

\* A target that is gone was the process, whether a stop waited on its PID or its group.
LEMMA TargetIsThere ==
  ASSUME TypeInv, NEW st \in StateSet, Refers(proc, births, st), There(proc, st)
  PROVE  TargetAlive(st)
<1>1. CASE UseGroup(st)
  BY <1>1 DEF TargetAlive, Members, Refers, There, Live
<1>2. CASE ~UseGroup(st)
  BY <1>2, AliveIsThere DEF TargetAlive
<1> QED BY <1>1, <1>2

LEMMA StoppedRefers ==
  ASSUME TypeInv
  PROVE  Refers(proc, births, Stopped) /\ ~There(proc, Stopped) /\ Rooted(proc, Stopped)
BY DEF TypeInv, TypeOK, Refers, Rooted, There, Stopped, Births

-----------------------------------------------------------------------------
(* The invariant, in parts. *)

Sound(st) == Refers(proc, births, st) /\ Rooted(proc, st)

\* Every reference, tracked, on disk or in the hands of a thread, is sound.
RefInv == /\ \A s \in Services : Sound(states[s]) /\ Sound(disk[s])
          /\ \A t \in Threads : Sound(th[t].seen) /\ Refers(proc, births, th[t].cand)

\* Who has launched a child, waits on a stop or kills holds the lock of the service.
LockInv == \A t \in Threads :
  th[t].pc \in {"commit", "wait", "hit", "hitwait"} => lock[th[t].svc] = t

\* What was seen dead is dead.
SeenInv == \A t \in Threads :
  /\ th[t].pc \in {"mark", "adopt"} => ~There(proc, th[t].seen)
  /\ th[t].pc = "adopt" => th[t].cand.adopted

\* Nothing else is in the group that a stop waits on.
GroupInv == \A t \in Threads : th[t].pc = "wait" /\ UseGroup(th[t].seen) =>
  \A b \in Births : Live(b) /\ proc[b].group = th[t].seen.group => proc[b].root = th[t].seen.born

\* A child that is to be recorded is the service's own, and nobody has it yet.
Launched(t) ==
  /\ ~There(proc, states[th[t].svc]) /\ th[t].svc \notin retired /\ th[t].cand.born \in Births
  /\ There(proc, th[t].cand) =>
       /\ proc[th[t].cand.born].by = th[t].svc /\ proc[th[t].cand.born].fits = {th[t].svc}
       /\ \A u \in Services : states[u].born # th[t].cand.born
CommitInv == \A t \in Threads : th[t].pc = "commit" => Launched(t)

\* What is to be hit was foreign; only another service can have adopted it since.
Foreigner(t) ==
  There(proc, th[t].cand) =>
    /\ \A u \in Services : states[u].born = th[t].cand.born => u # th[t].svc /\ states[u].adopted
    /\ \A v \in Threads : th[v].pc = "commit" => th[v].cand.born # th[t].cand.born
HitInv == \A t \in Threads : th[t].pc \in {"hit", "hitwait"} => Foreigner(t)

\* No process is tracked twice; memory and disk differ only where a save failed, or in
\* the dead.
TrackInv ==
  /\ \A s, u \in Services : s # u /\ There(proc, states[s]) => states[s].born # states[u].born
  /\ \A s \in Services : There(proc, disk[s]) => states[s].born = disk[s].born
  /\ \A s \in Services : s \notin unsaved => disk[s] = states[s]

RetiredInv == \A s \in retired : ~There(proc, states[s])

Inv == /\ TypeInv /\ WorldInv /\ RefInv /\ LockInv /\ SeenInv /\ GroupInv /\ CommitInv
       /\ HitInv /\ TrackInv /\ RetiredInv

LEMMA InitInv == Init => Inv
<1> SUFFICES ASSUME Init PROVE Inv
  OBVIOUS
<1>1. TypeInv
  BY InitTypes
<1>2. Dead.pid = 0 /\ Idle.pc = "idle" /\ Idle.seen = Stopped /\ Idle.cand = Stopped
  BY DEF Dead, Idle
<1>3. WorldInv
  BY <1>2 DEF Init, WorldInv, Live
<1>4. RefInv
  BY <1>1, <1>2, StoppedRefers DEF Init, RefInv, Sound
<1>5. TrackInv /\ RetiredInv
  BY <1>1, <1>2, StoppedRefers DEF Init, TrackInv, RetiredInv
<1>6. \A t \in Threads : th[t].pc = "idle"
  BY <1>2 DEF Init
<1> QED BY <1>1, <1>3, <1>4, <1>5, <1>6 DEF Inv, LockInv, SeenInv, GroupInv, CommitInv, HitInv

-----------------------------------------------------------------------------
(* What a step may do to the locks, to memory and to the work of a thread. *)

LEMMA Owners == None \notin Threads /\ "config" \notin Threads /\ None # "config"
BY OwnersDistinct

LEMMA StepKeeps ==
  ASSUME TypeInv, NEW t \in Threads, Step(t), NEW u \in Threads, u # t
  PROVE  th'[u] = th[u]
BY DEF Step, Begin, Start, StartFails, Commit, StopBegins, Wait, StopDone, Signal, Mark,
  Evaluate, Adopt, KillBegins, Hit, HitWait, Goes, Ends, Becomes, TypeInv, TypeOK

\* A thread that does not step keeps its work and its locks, unless the controller dies.
LEMMA OthersKeep ==
  ASSUME TypeInv, LockInv, [Next]_vars, ~Crash, NEW u \in Threads, ~Step(u)
  PROVE  th'[u] = th[u] /\ \A s \in Services : lock[s] = u => lock'[s] = u
<1>1. CASE UNCHANGED <<th, lock>>
  BY <1>1
<1>2. ASSUME NEW t \in Threads, Step(t) PROVE th'[u] = th[u] /\ \A s \in Services : lock[s] = u => lock'[s] = u
  <2>1. t # u
    BY <1>2
  <2>2. th'[u] = th[u]
    BY <1>2, <2>1, StepKeeps
  <2>3. ASSUME Ends(t) \/ UNCHANGED lock PROVE \A s \in Services : lock[s] = u => lock'[s] = u
    BY <2>1, <2>3 DEF Ends, TypeInv, TypeOK
  <2>4. ASSUME NEW r \in Services, lock[r] \in {None, t}, Lock(t, r)
        PROVE  \A s \in Services : lock[s] = u => lock'[s] = u
    BY <2>1, <2>4, Owners DEF Lock, TypeInv, TypeOK
  <2>5. th[t].pc # "idle" => th[t].svc \in Services
    BY DEF TypeInv
  <2>6. CASE Start(t)
    BY <2>2, <2>3, <2>4, <2>5, <2>6 DEF Start, StartFails, MayLock, Keeps, At
  <2>7. CASE StopBegins(t)
    BY <2>2, <2>3, <2>4, <2>5, <2>7 DEF StopBegins, StopDone, MayLock, At
  <2>8. CASE Wait(t)
    BY <2>2, <2>3, <2>4, <2>5, <2>8 DEF Wait, StopDone, LockInv, Keeps, At
  <2>9. CASE KillBegins(t)
    BY <2>2, <2>3, <2>4, <2>5, <2>9 DEF KillBegins, KillLock, At
  <2>10. CASE Begin(t) \/ Commit(t) \/ Mark(t) \/ Evaluate(t) \/ Adopt(t) \/ Hit(t) \/ HitWait(t)
    BY <2>2, <2>3, <2>10 DEF Begin, Commit, Mark, Evaluate, Adopt, Hit, HitWait, Keeps
  <2> QED BY <1>2, <2>2, <2>6, <2>7, <2>8, <2>9, <2>10 DEF Step
<1>3. CASE Configure
  <2>1. UNCHANGED th
    BY <1>3 DEF Configure, ReloadBegins, Retire, Activate, Publish
  <2>2. UNCHANGED lock \/ ReloadEnds \/ \E s \in Services : lock[s] = None /\ Lock("config", s)
    BY <1>3 DEF Configure, ReloadBegins, Retire, Activate, Publish, Keeps
  <2> QED BY <2>1, <2>2, Owners DEF ReloadEnds, Lock, TypeInv, TypeOK
<1>4. CASE Environment
  BY <1>1, <1>4 DEF Environment, Foreign, Fork, Exit, Listen
<1> QED BY <1>1, <1>2, <1>3, <1>4 DEF Next, Rest, vars

\* How memory changes: the controller dies; the state of a dead process is cleared; a
\* child is recorded; or a process is adopted.
MemoryStep ==
  \/ UNCHANGED memory
  \/ Crash
  \/ /\ UNCHANGED <<world, retired>>
     /\ \/ \E s \in Services, saved \in BOOLEAN :
             Store(s, Stopped, saved) /\ ~There(proc, states[s])
        \/ \E t \in Threads, saved \in BOOLEAN :
             /\ th[t].pc = "commit" /\ th'[t].pc = "idle" /\ Store(th[t].svc, th[t].cand, saved)
        \/ \E t \in Threads, saved \in BOOLEAN : LET s == th[t].svc c == th[t].cand IN
             /\ th[t].pc = "adopt" /\ Store(s, c, saved)
             /\ lock[s] = None /\ s \notin retired /\ states[s] = th[t].seen
             /\ c.born \in Births /\ Adoptable(s, c.born)

LEMMA MarkedIsDead ==
  ASSUME TypeInv, RefInv, NEW s \in Services, NEW st \in StateSet, ~There(proc, st),
         NEW saved \in BOOLEAN, MarkStopped(s, st, saved)
  PROVE  UNCHANGED memory \/ (Store(s, Stopped, saved) /\ ~There(proc, states[s]))
BY DEF MarkStopped, Current, There

LEMMA MemorySteps == TypeInv /\ RefInv /\ SeenInv /\ [Next]_vars => MemoryStep
<1> SUFFICES ASSUME TypeInv, RefInv, SeenInv, [Next]_vars, ~UNCHANGED memory, ~Crash PROVE MemoryStep
  BY DEF MemoryStep
<1>1. ASSUME NEW t \in Threads, Step(t) PROVE MemoryStep
  <2> DEFINE s == th[t].svc
  <2>1. /\ th[t].pc # "idle" => s \in Services
        /\ th[t].seen \in StateSet /\ Sound(th[t].seen)
        /\ \A r \in Services : states[r] \in StateSet /\ Sound(states[r])
    BY DEF TypeInv, TypeOK, Work, RefInv
  <2>2. CASE Commit(t)
    <3>1. th'[t].pc = "idle"
      BY <2>2 DEF Commit, Ends, Becomes, Idle, TypeInv, TypeOK
    <3> QED BY <2>2, <3>1, SavesBoolean DEF Commit, At, MemoryStep, world, definitions
  <2>3. ASSUME s \in Services, NEW st \in StateSet, Sound(st), ~TargetAlive(st), StopDone(t, s, st),
               UNCHANGED <<world, definitions>>
        PROVE  MemoryStep
    <3>1. ~There(proc, st)
      BY <2>3, TargetIsThere DEF Sound
    <3> QED BY <2>3, <3>1, MarkedIsDead, SavesBoolean DEF StopDone, MemoryStep, world, definitions
  <2>4. CASE StopBegins(t) \/ Wait(t)
    BY <2>1, <2>3, <2>4 DEF StopBegins, Wait, At
  <2>5. CASE Mark(t)
    <3>1. ~There(proc, th[t].seen)
      BY <2>5 DEF Mark, At, SeenInv
    <3>2. s \in Services
      BY <2>1, <2>5 DEF Mark, At
    <3> QED BY <2>1, <2>5, <3>1, <3>2, MarkedIsDead, SavesBoolean DEF Mark, MemoryStep, world, definitions
  <2>6. CASE Adopt(t)
    <3>1. /\ lock[s] = None /\ s \notin retired /\ states[s] = th[t].seen /\ Adoptable(s, th[t].cand.born)
          /\ Holders(s) = {th[t].cand.born}
          /\ \E saved \in Saves : Store(s, th[t].cand, saved)
      BY <2>6 DEF Adopt, Outdated
    <3>2. th[t].cand.born \in Births
      BY <3>1 DEF Holders
    <3> QED BY <2>6, <3>1, <3>2, SavesBoolean DEF Adopt, At, MemoryStep, world, definitions
  <2>7. UNCHANGED memory \/ Commit(t) \/ StopBegins(t) \/ Wait(t) \/ Mark(t) \/ Adopt(t)
    BY <1>1 DEF Step, Begin, Start, Evaluate, KillBegins, Hit, HitWait
  <2> QED BY <2>2, <2>4, <2>5, <2>6, <2>7
<1>2. CASE Configure
  <2>1. Publish
    BY <1>2 DEF Configure, ReloadBegins, Retire, Activate
  <2>2. Store(reload.svc, Stopped, TRUE) /\ ~Alive(states[reload.svc])
    BY <2>1 DEF Publish
  <2>3. reload.svc \in Services
    BY <2>2 DEF Store, TypeInv, TypeOK, Request, memory
  <2>4. ~There(proc, states[reload.svc])
    BY <2>2, <2>3, AliveIsThere DEF RefInv, Sound, TypeInv, TypeOK
  <2> QED BY <2>1, <2>2, <2>3, <2>4 DEF Publish, MemoryStep, world
<1>3. CASE Environment \/ Rest \/ UNCHANGED vars
  BY <1>3 DEF Environment, Foreign, Fork, Exit, Listen, Rest, vars, memory
<1> QED BY <1>1, <1>2, <1>3 DEF Next

\* Where a step can take a thread, as far as the invariant speaks of the place.
Marks(t)  == /\ th'[t].pc = "mark" /\ UNCHANGED <<world, states>>
             /\ th'[t].seen = states[th'[t].svc] /\ ~Alive(th'[t].seen)
Adopts(t) == /\ th'[t].pc = "adopt" /\ UNCHANGED <<world, states>>
             /\ th'[t].seen = states[th'[t].svc] /\ ~Alive(th'[t].seen) /\ th'[t].cand.adopted
Waits(t)  == /\ th'[t].pc = "wait" /\ UNCHANGED <<world, states>> /\ lock'[th'[t].svc] = t
             /\ \/ th'[t].seen = states[th'[t].svc] /\ Alive(th'[t].seen)
                \/ th[t].pc = "wait" /\ th'[t].seen = th[t].seen
             /\ TargetAlive(th'[t].seen)
Launches(t) == LET s == th'[t].svc c == th'[t].cand IN
             /\ th'[t].pc = "commit" /\ UNCHANGED <<states, retired>> /\ lock'[s] = t
             /\ s \notin retired /\ ~Alive(states[s]) /\ births < MaxBorn /\ c.born = births + 1
             /\ ~c.adopted /\ c.group = c.pid
             /\ \E p \in FreePids : c.pid = p /\ Born(p, p, births + 1, {s}, s)
Hits(t)   == /\ th'[t].pc \in {"hit", "hitwait"} /\ UNCHANGED <<world, states>>
             /\ lock'[th'[t].svc] = t
             /\ \/ /\ th[t].pc \in {"hit", "hitwait"} /\ th'[t].cand = th[t].cand
                   /\ th'[t].svc = th[t].svc
                \/ /\ th'[t].cand.born \in Births /\ Adoptable(th'[t].svc, th'[t].cand.born)
                   /\ Live(th'[t].cand.born)
                   /\ ~Alive(states[th'[t].svc]) /\ lock[th'[t].svc] = None

LEMMA EndsIdle == ASSUME TypeInv, NEW t \in Threads, Ends(t) PROVE th'[t] = Idle /\ Idle.pc = "idle"
BY DEF Ends, Becomes, Idle, TypeInv, TypeOK

LEMMA Arrivals ==
  ASSUME TypeInv, LockInv, WorldInv, NEW t \in Threads, Step(t)
  PROVE  \/ th'[t].pc \in {"idle", "start", "stop", "evaluate", "kill"}
         \/ Marks(t) \/ Adopts(t) \/ Waits(t) \/ Launches(t) \/ Hits(t)
<1> DEFINE s == th[t].svc
<1>0. /\ th \in [Threads -> Work] /\ th[t] \in Work /\ th[t].seen \in StateSet /\ th[t].cand \in StateSet
      /\ th[t].pc # "idle" => s \in Services
  BY DEF TypeInv, TypeOK, Work
<1>1. CASE Ends(t)
  BY <1>1, EndsIdle
<1>2. CASE Begin(t)
  <2> PICK op \in Duties, r \in Services :
         /\ op \in {"check", "kill"} => ~Alive(states[r])
         /\ Becomes(t, [Idle EXCEPT !.op = op, !.pc = First(op, r), !.svc = r, !.def = registry[r],
                          !.seen = IF First(op, r) = "mark" THEN states[r] ELSE Stopped])
    BY <1>2 DEF Begin
  <2>1. th'[t].pc = First(op, r) /\ th'[t].svc = r /\ (First(op, r) = "mark" => th'[t].seen = states[r])
    BY <1>0 DEF Becomes, Idle
  <2>2. First(op, r) \in {"start", "stop", "evaluate", "mark"}
    BY DEF First
  <2>3. First(op, r) = "mark" => op \in {"check", "kill"}
    BY DutiesKnown DEF First
  <2> QED BY <1>2, <2>1, <2>2, <2>3 DEF Begin, Marks, memory
<1>3. CASE Start(t)
  <2>1. ASSUME Becomes(t, [th[t] EXCEPT !.round = @ + 1]) PROVE th'[t].pc = "start"
    BY <1>0, <1>3, <2>1 DEF Becomes, Start, At, Work
  <2>2. ASSUME ~Refused(t, s), births < MaxBorn, NEW p \in FreePids, Born(p, p, births + 1, {s}, s),
               Becomes(t, [th[t] EXCEPT !.pc = "commit",
                  !.cand = [born |-> births + 1, pid |-> p, group |-> p, adopted |-> FALSE]]),
               Lock(t, s)
        PROVE  Launches(t)
    <3>1. /\ th'[t].pc = "commit" /\ th'[t].svc = s
          /\ th'[t].cand = [born |-> births + 1, pid |-> p, group |-> p, adopted |-> FALSE]
      BY <1>0, <2>2 DEF Becomes, Work
    <3>2. s \in Services
      BY <1>0, <1>3 DEF Start, At
    <3>3. lock'[s] = t
      BY <2>2, <3>2 DEF Lock, TypeInv, TypeOK
    <3>4. ~Alive(states[s]) /\ s \notin retired
      BY <2>2 DEF Refused, Outdated
    <3>5. UNCHANGED <<states, retired>>
      BY <1>3 DEF Start, memory, definitions
    <3>6. LET c == th'[t].cand IN
            c.born = births + 1 /\ c.pid = p /\ c.group = p /\ c.adopted = FALSE
      BY <3>1
    <3> QED BY <2>2, <3>1, <3>3, <3>4, <3>5, <3>6 DEF Launches
  <2> QED BY <1>1, <1>3, <2>1, <2>2 DEF Start, StartFails
<1>4. ASSUME NEW st, StopDone(t, s, st)
      PROVE  th'[t].pc \in {"idle", "start"}
  BY <1>0, <1>4, EndsIdle DEF Becomes, StopDone, Work
<1>5. ASSUME NEW st, NEW n, Signal(t, st, n) PROVE th'[t].pc = "wait" /\ th'[t].svc = s /\ th'[t].seen = st
  BY <1>0, <1>5 DEF Becomes, Signal, Work
<1>6. CASE StopBegins(t)
  <2>1. s \in Services
    BY <1>0, <1>6 DEF StopBegins, At
  <2>2. CASE /\ TargetAlive(states[s]) /\ UNCHANGED memory /\ Alive(states[s])
             /\ Signal(t, states[s], 1) /\ Lock(t, s)
    BY <1>5, <1>6, <2>1, <2>2 DEF StopBegins, Waits, memory, Lock, TypeInv, TypeOK
  <2> QED BY <1>1, <1>4, <1>6, <2>2 DEF StopBegins
<1>7. CASE Wait(t)
  <2>1. CASE /\ TargetAlive(th[t].seen) /\ UNCHANGED memory
             /\ Signal(t, th[t].seen, th[t].round + 1) /\ Keeps
    BY <1>5, <1>7, <2>1 DEF Wait, Waits, memory, LockInv, Keeps, At
  <2> QED BY <1>1, <1>4, <1>7, <2>1 DEF Wait
<1>8. CASE Commit(t) \/ Mark(t)
  <2>1. ASSUME Becomes(t, [th[t] EXCEPT !.pc = "evaluate", !.seen = Stopped]) PROVE th'[t].pc = "evaluate"
    BY <1>0, <2>1 DEF Becomes, Work
  <2> QED BY <1>1, <1>8, <2>1 DEF Commit, Mark
<1>9. CASE Evaluate(t)
  <2>1. ASSUME NEW b, ~Alive(states[s]),
               Becomes(t, [th[t] EXCEPT !.pc = "adopt", !.seen = states[s], !.cand = Track(b, TRUE)])
        PROVE  Adopts(t)
    <3>1. /\ th'[t].pc = "adopt" /\ th'[t].svc = s /\ th'[t].seen = states[s]
          /\ th'[t].cand = Track(b, TRUE)
      BY <1>0, <2>1 DEF Becomes, Work
    <3>2. Track(b, TRUE).adopted
      BY DEF Track
    <3>3. UNCHANGED <<world, states>>
      BY <1>9 DEF Evaluate, memory
    <3> QED BY <2>1, <3>1, <3>2, <3>3 DEF Adopts
  <2>2. ASSUME NEW c, Becomes(t, [th[t] EXCEPT !.pc = "kill", !.seen = Stopped, !.cand = c])
        PROVE  th'[t].pc = "kill"
    BY <1>0, <2>2 DEF Becomes, Work
  <2> QED BY <1>1, <1>9, <2>1, <2>2 DEF Evaluate
<1>10. CASE Adopt(t)
  <2>1. ASSUME Becomes(t, [th[t] EXCEPT !.pc = "kill", !.seen = Stopped]) PROVE th'[t].pc = "kill"
    BY <1>0, <2>1 DEF Becomes, Work
  <2> QED BY <1>1, <1>10, <2>1 DEF Adopt
<1>11. CASE KillBegins(t)
  <2>1. ASSUME NEW b \in Holders(s), ~Alive(states[s]), Adoptable(s, b), KillLock(t, s), lock[s] = None,
               Becomes(t, [th[t] EXCEPT !.pc = "hit", !.cand = Track(b, TRUE), !.round = 1])
        PROVE  Hits(t)
    <3>1. th'[t].pc = "hit" /\ th'[t].svc = s /\ th'[t].cand = Track(b, TRUE)
      BY <1>0, <2>1 DEF Becomes, Work
    <3>2. b \in Births /\ Live(b)
      BY <2>1 DEF Holders, WorldInv, Dead
    <3>3. s \in Services
      BY <1>0, <1>11 DEF KillBegins, At
    <3>4. lock'[s] = t /\ Track(b, TRUE).born = b
      BY <2>1, <3>3 DEF KillLock, Lock, TypeInv, TypeOK, Track
    <3> QED BY <1>11, <2>1, <3>1, <3>2, <3>4 DEF KillBegins, Hits, memory
  <2> QED BY <1>1, <1>11, <2>1 DEF KillBegins
<1>12. CASE Hit(t) \/ HitWait(t)
  <2>1. ASSUME NEW n, Keeps, th[t].pc \in {"hit", "hitwait"},
               \/ Becomes(t, [th[t] EXCEPT !.pc = "hitwait"])
               \/ Becomes(t, [th[t] EXCEPT !.pc = "hit", !.round = n])
        PROVE  Hits(t)
    <3>1. /\ th'[t].pc \in {"hit", "hitwait"} /\ th'[t].svc = s /\ th'[t].cand = th[t].cand
      BY <1>0, <2>1 DEF Becomes, Work
    <3>2. lock'[s] = t
      BY <2>1 DEF LockInv, Keeps
    <3> QED BY <1>12, <2>1, <3>1, <3>2 DEF Hit, HitWait, Hits, memory
  <2>2. Keeps /\ Becomes(t, [th[t] EXCEPT !.pc = "hit", !.round = @ + 1]) =>
          Becomes(t, [th[t] EXCEPT !.pc = "hit", !.round = th[t].round + 1])
    OBVIOUS
  <2> QED BY <1>1, <1>12, <2>1, <2>2 DEF Hit, HitWait, Goes, At
<1> QED BY <1>2, <1>3, <1>6, <1>7, <1>8, <1>9, <1>10, <1>11, <1>12 DEF Step

\* What a thread carries is what it had, something that is tracked or a process that lives.
LEMMA Carried ==
  ASSUME TypeInv, WorldInv, [Next]_vars, NEW t \in Threads
  PROVE  /\ \/ th'[t].seen \in {Stopped, th[t].seen}
            \/ \E s \in Services : th'[t].seen = states[s]
         /\ \/ th'[t].cand \in {Stopped, th[t].cand}
            \/ \E b \in Births : Live(b) /\ th'[t].cand = Track(b, TRUE)
            \/ /\ th'[t].cand.born = births' /\ ~th'[t].cand.adopted
               /\ th'[t].cand.pid = th'[t].cand.group
               /\ \E p \in FreePids : /\ th'[t].cand.pid = p /\ births < MaxBorn
                                      /\ Born(p, p, births + 1, {th[t].svc}, th[t].svc)
<1> DEFINE Seen == \/ th'[t].seen \in {Stopped, th[t].seen}
                   \/ \E s \in Services : th'[t].seen = states[s]
           Cand == \/ th'[t].cand \in {Stopped, th[t].cand}
                   \/ \E b \in Births : Live(b) /\ th'[t].cand = Track(b, TRUE)
                   \/ /\ th'[t].cand.born = births' /\ ~th'[t].cand.adopted
                      /\ th'[t].cand.pid = th'[t].cand.group
                      /\ \E p \in FreePids : /\ th'[t].cand.pid = p /\ births < MaxBorn
                                      /\ Born(p, p, births + 1, {th[t].svc}, th[t].svc)
<1>0. /\ th \in [Threads -> Work] /\ th[t] \in Work /\ (th[t].pc # "idle" => th[t].svc \in Services)
      /\ Idle.seen = Stopped /\ Idle.cand = Stopped
  BY DEF TypeInv, TypeOK, Idle
<1>1. CASE th'[t] \in {th[t], Idle}
  BY <1>0, <1>1
<1>2. ASSUME NEW b \in Births, \E s \in Services : s \in proc[b].holds PROVE Live(b)
  BY <1>2 DEF WorldInv, Dead
<1>3. ASSUME NEW u \in Threads, Step(u), u # t PROVE th'[t] = th[t]
  BY <1>3, StepKeeps
<1>4. CASE Step(t)
  <2>1. CASE Ends(t)
    BY <1>1, <2>1, EndsIdle
  <2>2. CASE Begin(t)
    BY <1>0, <2>2 DEF Begin, Becomes, Idle
  <2>3. CASE Start(t) /\ ~Ends(t)
    <3>1. CASE Becomes(t, [th[t] EXCEPT !.round = @ + 1])
      BY <1>0, <3>1 DEF Becomes, Work
    <3>2. ASSUME births < MaxBorn, NEW p \in FreePids, Born(p, p, births + 1, {th[t].svc}, th[t].svc),
                 Becomes(t, [th[t] EXCEPT !.pc = "commit",
                    !.cand = [born |-> births + 1, pid |-> p, group |-> p, adopted |-> FALSE]])
          PROVE  Seen /\ Cand
      <4>1. /\ th'[t].seen = th[t].seen
            /\ th'[t].cand = [born |-> births + 1, pid |-> p, group |-> p, adopted |-> FALSE]
        BY <1>0, <3>2 DEF Becomes, Work
      <4>2. births' = births + 1
        BY <3>2 DEF Born
      <4>3. /\ th'[t].cand.born = births + 1 /\ th'[t].cand.pid = p
            /\ th'[t].cand.group = p /\ th'[t].cand.adopted = FALSE
        BY <4>1
      <4> QED BY <3>2, <4>1, <4>2, <4>3
    <3> QED BY <2>3, <3>1, <3>2 DEF Start, StartFails
  <2>4. CASE Commit(t)
    BY <2>1, <2>4 DEF Commit
  <2>5. CASE (StopBegins(t) \/ Wait(t)) /\ ~Ends(t)
    <3>1. CASE Becomes(t, [th[t] EXCEPT !.pc = "start", !.seen = Stopped, !.round = 0])
      BY <1>0, <3>1 DEF Becomes, Work
    <3>2. ASSUME NEW st \in {states[th[t].svc], th[t].seen}, NEW n, Signal(t, st, n)
          PROVE  th'[t].seen = st /\ th'[t].cand = th[t].cand
      BY <1>0, <3>2 DEF Signal, Becomes, Work
    <3>3. th[t].svc \in Services
      BY <1>0, <2>5 DEF StopBegins, Wait, At
    <3> QED BY <2>5, <3>1, <3>2, <3>3 DEF StopBegins, Wait, StopDone
  <2>6. CASE (Mark(t) \/ Adopt(t)) /\ ~Ends(t)
    <3>1. ASSUME NEW pc, Becomes(t, [th[t] EXCEPT !.pc = pc, !.seen = Stopped])
          PROVE  th'[t].seen = Stopped /\ th'[t].cand = th[t].cand
      BY <1>0, <3>1 DEF Becomes, Work
    <3> QED BY <2>6, <3>1 DEF Mark, Adopt
  <2>7. CASE Evaluate(t) /\ ~Ends(t)
    <3>1. th[t].svc \in Services
      BY <1>0, <2>7 DEF Evaluate, At
    <3>2. PICK b \in Holders(th[t].svc) :
             \/ Becomes(t, [th[t] EXCEPT !.pc = "adopt", !.seen = states[th[t].svc], !.cand = Track(b, TRUE)])
             \/ Becomes(t, [th[t] EXCEPT !.pc = "kill", !.seen = Stopped, !.cand = Track(b, TRUE)])
             \/ Becomes(t, [th[t] EXCEPT !.pc = "kill", !.seen = Stopped, !.cand = Stopped])
      BY <2>7 DEF Evaluate
    <3>3. b \in Births /\ Live(b)
      BY <1>2, <3>1 DEF Holders
    <3> QED BY <1>0, <3>1, <3>2, <3>3 DEF Becomes, Work
  <2>8. CASE KillBegins(t) /\ ~Ends(t)
    <3>1. th[t].svc \in Services
      BY <1>0, <2>8 DEF KillBegins, At
    <3>2. PICK b \in Holders(th[t].svc) :
             Becomes(t, [th[t] EXCEPT !.pc = "hit", !.cand = Track(b, TRUE), !.round = 1])
      BY <2>8 DEF KillBegins
    <3>3. b \in Births /\ Live(b)
      BY <1>2, <3>1 DEF Holders
    <3> QED BY <1>0, <3>2, <3>3 DEF Becomes, Work
  <2>9. CASE (Hit(t) \/ HitWait(t)) /\ ~Ends(t)
    BY <1>0, <2>9 DEF Hit, HitWait, Goes, Becomes, Work
  <2> QED BY <1>4, <2>1, <2>2, <2>3, <2>4, <2>5, <2>6, <2>7, <2>8, <2>9 DEF Step
<1>5. CASE Configure \/ Environment \/ Rest \/ UNCHANGED vars
  BY <1>1, <1>5 DEF Configure, ReloadBegins, Retire, Activate, Publish, Environment, Crash, Foreign,
    Fork, Exit, Listen, Rest, vars
<1> QED BY <1>1, <1>3, <1>4, <1>5 DEF Next

LEMMA StepRefs == Inv /\ [Next]_vars => RefInv'
<1> SUFFICES ASSUME Inv, [Next]_vars PROVE RefInv'
  OBVIOUS
<1>0. TypeInv /\ TypeInv' /\ WorldInv /\ WorldInv' /\ Persists /\ RefInv /\ SeenInv
  BY StepTypes, StepWorld DEF Inv
<1>1. ASSUME NEW st \in StateSet, Sound(st) PROVE Refers(proc', births', st) /\ Rooted(proc', st)
  BY <1>0, <1>1, RefersLater DEF Sound
<1>2. Refers(proc', births', Stopped) /\ Rooted(proc', Stopped)
  BY <1>0, <1>1, Rests, StoppedRefers DEF Sound
<1>3. /\ \A s \in Services : states[s] \in StateSet /\ disk[s] \in StateSet
      /\ \A t \in Threads : th[t].seen \in StateSet /\ th[t].cand \in StateSet
      /\ \A s \in Services : states'[s] \in StateSet /\ disk'[s] \in StateSet
  BY <1>0 DEF TypeInv, TypeOK, Work
<1>4. ASSUME NEW s \in Services PROVE Sound(states'[s]) /\ Sound(disk'[s])
  <2>1. ASSUME NEW r \in Services, NEW st \in StateSet, Sound(st), NEW saved \in BOOLEAN, Store(r, st, saved)
        PROVE  Sound(states'[s]) /\ Sound(disk'[s])
    BY <1>0, <2>1 DEF Store, RefInv, TypeInv, TypeOK
  <2>2. CASE UNCHANGED memory \/ Crash
    BY <1>0, <2>2 DEF memory, Crash, RefInv
  <2>3. CASE \E r \in Services, saved \in BOOLEAN : Store(r, Stopped, saved)
    BY <1>0, <2>1, <2>3, Rests, StoppedRefers DEF Sound
  <2>4. ASSUME NEW t \in Threads, NEW saved \in BOOLEAN, th[t].pc \in {"commit", "adopt"},
               Store(th[t].svc, th[t].cand, saved),
               th[t].pc = "adopt" => Adoptable(th[t].svc, th[t].cand.born)
        PROVE  Sound(states'[s]) /\ Sound(disk'[s])
    <3>1. th[t].svc \in Services
      BY <1>0, <2>4 DEF TypeInv
    <3>2. There(proc, th[t].cand) => proc[th[t].cand.born].fits # {}
      BY <2>4 DEF Inv, CommitInv, Launched, Adoptable
    <3>3. Sound(th[t].cand)
      BY <1>0, <3>2 DEF Sound, Rooted, There, RefInv, WorldInv, Live
    <3> QED BY <1>3, <2>1, <2>4, <3>1, <3>3
  <2> QED BY <1>0, <2>2, <2>3, <2>4, MemorySteps DEF MemoryStep
<1>5. ASSUME NEW s \in Services PROVE Sound(states[s])' /\ Sound(disk[s])'
  BY <1>1, <1>3, <1>4 DEF Sound
<1>6. ASSUME NEW t \in Threads PROVE Sound(th[t].seen)'
  BY <1>0, <1>1, <1>2, <1>3, Carried DEF Sound, RefInv
<1>7. ASSUME NEW t \in Threads PROVE Refers(proc', births', th'[t].cand)
  <2>1. CASE th'[t].cand \in {Stopped, th[t].cand}
    BY <1>0, <1>2, <1>3, <2>1, RefersLater DEF RefInv
  <2>2. ASSUME NEW b \in Births, Live(b), th'[t].cand = Track(b, TRUE)
        PROVE  Refers(proc', births', th'[t].cand)
    <3>1. Track(b, TRUE) \in StateSet
      BY <1>0, TrackTypes
    <3>2. Refers(proc, births, Track(b, TRUE))
      BY <1>0, <2>2 DEF Refers, Track, There, WorldInv, TypeInv, TypeOK, Births
    <3> QED BY <1>0, <2>2, <3>1, <3>2, RefersLater
  <2>3. ASSUME NEW p \in FreePids, births < MaxBorn, Born(p, p, births + 1, {th[t].svc}, th[t].svc),
               th'[t].cand.pid = p, th'[t].cand.born = births', ~th'[t].cand.adopted,
               th'[t].cand.pid = th'[t].cand.group
        PROVE  Refers(proc', births', th'[t].cand)
    <3>1. proc'[births'].pid = p /\ proc'[births'].group = p
      BY <1>0, <2>3, Bounds DEF Born, TypeInv, TypeOK, Births
    <3>2. births' <= births'
      BY <1>0 DEF TypeInv, TypeOK
    <3> QED BY <2>3, <3>1, <3>2 DEF Refers
  <2> QED BY <1>0, <2>1, <2>2, <2>3, Carried
<1> QED BY <1>5, <1>6, <1>7 DEF RefInv

-----------------------------------------------------------------------------
(* The other parts of the invariant, step by step. *)

\* What a state is worth before a step and after it.
LEMMA Around ==
  ASSUME Inv, [Next]_vars
  PROVE  /\ TypeInv' /\ WorldInv' /\ Persists /\ RefInv' /\ births \in Nat
         /\ \A s \in Services : states[s] \in StateSet /\ disk[s] \in StateSet
         /\ \A t \in Threads : th[t].seen \in StateSet /\ th[t].cand \in StateSet
         /\ \A t \in Threads : th[t].pc # "idle" => th[t].svc \in Services
         /\ \A s \in Services : Alive(states[s]) <=> There(proc, states[s])
         /\ \A s \in Services : /\ There(proc', states[s]) => There(proc, states[s])
                                /\ There(proc', disk[s]) => There(proc, disk[s])
         /\ \A t \in Threads : /\ There(proc', th[t].seen) => There(proc, th[t].seen)
                               /\ There(proc', th[t].cand) => There(proc, th[t].cand)
<1>0. TypeInv /\ RefInv /\ TypeInv' /\ WorldInv' /\ Persists /\ RefInv'
  BY StepTypes, StepWorld, StepRefs DEF Inv
<1>1. /\ \A s \in Services : states[s] \in StateSet /\ disk[s] \in StateSet
      /\ \A t \in Threads : th[t].seen \in StateSet /\ th[t].cand \in StateSet
      /\ \A t \in Threads : th[t].pc # "idle" => th[t].svc \in Services
      /\ births \in Nat
  BY <1>0 DEF TypeInv, TypeOK, Work
<1>2. ASSUME NEW st \in StateSet, Refers(proc, births, st)
      PROVE  /\ There(proc', st) => There(proc, st)
             /\ Alive(st) <=> There(proc, st)
  BY <1>0, <1>2, RefersLater, AliveIsThere
<1>3. /\ \A s \in Services : Refers(proc, births, states[s]) /\ Refers(proc, births, disk[s])
      /\ \A t \in Threads : Refers(proc, births, th[t].seen) /\ Refers(proc, births, th[t].cand)
  BY <1>0 DEF RefInv, Sound
<1> QED BY <1>0, <1>1, <1>2, <1>3

\* What is stored for a service, whose process was gone: nothing, its child or a process
\* that nobody tracks.
Stored(r, st) ==
  /\ ~There(proc, states[r])
  /\ \/ st = Stopped
     \/ /\ r \notin retired
        /\ \E t \in Threads : /\ th[t].svc = r /\ th[t].cand = st
                              /\ th[t].pc = "commit" /\ th'[t].pc = "idle"
     \/ /\ r \notin retired /\ lock[r] = None /\ st.adopted
        /\ st.born \in Births /\ Adoptable(r, st.born)

LEMMA MemoryChanges ==
  ASSUME Inv, [Next]_vars
  PROVE  \/ UNCHANGED memory
         \/ Crash
         \/ /\ UNCHANGED <<world, retired>>
            /\ \E r \in Services, st \in StateSet, saved \in BOOLEAN : Store(r, st, saved) /\ Stored(r, st)
<1>0. TypeInv /\ RefInv /\ SeenInv /\ CommitInv /\ MemoryStep
  BY MemorySteps DEF Inv
<1>1. /\ \A t \in Threads : th[t].seen \in StateSet /\ th[t].cand \in StateSet
      /\ \A t \in Threads : th[t].pc # "idle" => th[t].svc \in Services
  BY Around
<1>2. ASSUME NEW s \in Services, NEW saved \in BOOLEAN, Store(s, Stopped, saved), ~There(proc, states[s])
      PROVE  Stored(s, Stopped) /\ Stopped \in StateSet
  BY <1>2, Rests DEF Stored
<1>3. ASSUME NEW t \in Threads, NEW saved \in BOOLEAN, th[t].pc = "commit", th'[t].pc = "idle",
             Store(th[t].svc, th[t].cand, saved)
      PROVE  Stored(th[t].svc, th[t].cand) /\ th[t].svc \in Services
  BY <1>0, <1>1, <1>3 DEF Stored, CommitInv, Launched
<1>4. ASSUME NEW t \in Threads, NEW saved \in BOOLEAN, th[t].pc = "adopt",
             Store(th[t].svc, th[t].cand, saved),
             lock[th[t].svc] = None, th[t].svc \notin retired, states[th[t].svc] = th[t].seen,
             th[t].cand.born \in Births, Adoptable(th[t].svc, th[t].cand.born)
      PROVE  Stored(th[t].svc, th[t].cand) /\ th[t].svc \in Services
  BY <1>0, <1>1, <1>4 DEF Stored, SeenInv
<1> QED BY <1>0, <1>1, <1>2, <1>3, <1>4 DEF MemoryStep

\* A service is retired when nobody works on it and its process is gone.
LEMMA Retirements ==
  ASSUME Inv, [Next]_vars, NEW s \in retired' \ retired
  PROVE  s \in Services /\ lock[s] \in {None, "config"} /\ ~There(proc, states[s]) /\ UNCHANGED <<world, memory>>
<1>0. TypeInv
  BY DEF Inv
<1>1. CASE Retire
  <2>1. s \in reload.left /\ MayRetire(s) /\ ~Alive(states[s])
    BY <1>1 DEF Retire
  <2>2. s \in Services
    BY <1>0, <2>1 DEF TypeInv, TypeOK, Request
  <2> QED BY <1>1, <2>1, <2>2, Around DEF Retire, MayRetire, MayLock
<1>2. retired' \subseteq retired \/ Retire
  <2>1. ASSUME NEW t \in Threads, Step(t) PROVE UNCHANGED retired
    BY <2>1 DEF Step, Begin, Start, Commit, StopBegins, Wait, Mark, Evaluate, Adopt, KillBegins, Hit,
      HitWait, definitions
  <2>2. Configure \/ Environment \/ Rest \/ UNCHANGED vars => retired' \subseteq retired \/ Retire
    BY DEF Configure, ReloadBegins, Activate, Publish, Environment, Crash, Foreign, Fork, Exit, Listen,
      Rest, vars, definitions
  <2> QED BY <2>1, <2>2 DEF Next
<1> QED BY <1>1, <1>2

LEMMA CrashIdles == ASSUME Crash PROVE \A t \in Threads : th'[t].pc = "idle"
BY DEF Crash, Idle

LEMMA StepLock == Inv /\ [Next]_vars => LockInv'
<1> SUFFICES ASSUME Inv, [Next]_vars, NEW t \in Threads,
                    th'[t].pc \in {"commit", "wait", "hit", "hitwait"}
             PROVE  lock'[th'[t].svc] = t
  BY DEF LockInv
<1>0. TypeInv /\ LockInv /\ WorldInv /\ ~Crash
  BY CrashIdles DEF Inv
<1>1. CASE Step(t)
  BY <1>0, <1>1, Arrivals DEF Marks, Adopts, Waits, Launches, Hits
<1>2. CASE ~Step(t)
  BY <1>0, <1>2, OthersKeep DEF LockInv, TypeInv
<1> QED BY <1>1, <1>2

LEMMA StepSeen == Inv /\ [Next]_vars => SeenInv'
<1> SUFFICES ASSUME Inv, [Next]_vars, NEW t \in Threads, th'[t].pc \in {"mark", "adopt"}
             PROVE  ~There(proc', th'[t].seen) /\ (th'[t].pc = "adopt" => th'[t].cand.adopted)
  BY DEF SeenInv
<1>0. TypeInv /\ LockInv /\ WorldInv /\ SeenInv /\ ~Crash /\ th'[t].svc \in Services
  BY CrashIdles, Around DEF Inv, TypeInv
<1>1. CASE Step(t)
  BY <1>0, <1>1, Arrivals, Around DEF Marks, Adopts, Waits, Launches, Hits, world
<1>2. CASE ~Step(t)
  BY <1>0, <1>2, OthersKeep, Around DEF SeenInv
<1> QED BY <1>1, <1>2

LEMMA StepRetired == Inv /\ [Next]_vars => RetiredInv'
<1> SUFFICES ASSUME Inv, [Next]_vars, NEW s \in retired' PROVE ~There(proc', states'[s])
  BY DEF RetiredInv
<1>0. TypeInv /\ RetiredInv /\ s \in Services /\ ~Crash
  BY Around DEF Inv, TypeInv, TypeOK, Crash
<1>1. CASE s \notin retired
  BY <1>1, Retirements DEF world, memory
<1>2. CASE s \in retired /\ UNCHANGED memory
  BY <1>0, <1>2, Around DEF RetiredInv, memory
<1>3. ASSUME s \in retired, NEW r \in Services, NEW st \in StateSet, NEW saved \in BOOLEAN,
             Store(r, st, saved), Stored(r, st), UNCHANGED world
      PROVE  ~There(proc', states'[s])
  <2>1. states'[s] = IF s = r THEN st ELSE states[s]
    BY <1>0, <1>3 DEF Store, TypeInv, TypeOK
  <2>2. s = r => st = Stopped
    BY <1>3 DEF Stored
  <2> QED BY <1>0, <1>3, <2>1, <2>2, StoppedRefers DEF RetiredInv, world
<1> QED BY <1>0, <1>1, <1>2, <1>3, MemoryChanges

\* After a store: what a service tracks, and what is on disk.
LEMMA StoreGives ==
  ASSUME TypeInv, NEW r \in Services, NEW st, NEW saved \in BOOLEAN, Store(r, st, saved), NEW s \in Services
  PROVE  /\ states'[s] = IF s = r THEN st ELSE states[s]
         /\ disk'[s] = IF s = r /\ saved THEN st ELSE disk[s]
         /\ s \notin unsaved' => (s = r /\ saved) \/ (s # r /\ s \notin unsaved)
BY DEF Store, TypeInv, TypeOK

LEMMA StepTrack == Inv /\ [Next]_vars => TrackInv'
<1> SUFFICES ASSUME Inv, [Next]_vars PROVE TrackInv'
  OBVIOUS
<1>0. TypeInv /\ TrackInv /\ CommitInv
  BY DEF Inv
<1>1. CASE UNCHANGED memory
  BY <1>0, <1>1, Around DEF TrackInv, memory
<1>2. CASE Crash
  <2>1. UNCHANGED world /\ states' = disk /\ disk' = disk
    BY <1>2 DEF Crash
  <2>2. ASSUME NEW s \in Services, NEW u \in Services, s # u, There(proc, disk[s])
        PROVE  disk[s].born # disk[u].born
    <3>1. states[s].born = disk[s].born /\ There(proc, states[s])
      BY <1>0, <2>2 DEF TrackInv, There
    <3>2. disk[s].born = disk[u].born => states[u].born = disk[u].born
      BY <1>0, <2>2 DEF TrackInv, There
    <3> QED BY <1>0, <2>2, <3>1, <3>2 DEF TrackInv
  <2> QED BY <2>1, <2>2 DEF TrackInv, world
<1>3. ASSUME NEW r \in Services, NEW st \in StateSet, NEW saved \in BOOLEAN, Store(r, st, saved),
             Stored(r, st), UNCHANGED world
      PROVE  TrackInv'
  <2>1. \A s \in Services :
           /\ states'[s] = IF s = r THEN st ELSE states[s]
           /\ disk'[s] = IF s = r /\ saved THEN st ELSE disk[s]
           /\ s \notin unsaved' => (s = r /\ saved) \/ (s # r /\ s \notin unsaved)
    BY <1>0, <1>3, StoreGives
  <2>2. \A u \in Services \ {r} : There(proc, st) => states[u].born # st.born
    <3>1. CASE st = Stopped
      BY <1>0, <3>1, StoppedRefers
    <3>2. ASSUME NEW t \in Threads, th[t].cand = st, th[t].pc = "commit"
          PROVE  \A u \in Services \ {r} : There(proc, st) => states[u].born # st.born
      BY <1>0, <3>2 DEF CommitInv, Launched
    <3>3. CASE Adoptable(r, st.born)
      BY <3>3 DEF Adoptable, TrackedElsewhere
    <3> QED BY <1>3, <3>1, <3>2, <3>3 DEF Stored
  <2>3. ~There(proc, disk[r])
    BY <1>0, <1>3 DEF Stored, TrackInv, There
  <2>4. ASSUME NEW s \in Services, NEW u \in Services, s # u, There(proc, states'[s])
        PROVE  states'[s].born # states'[u].born
    <3>1. CASE s = r
      BY <2>1, <2>2, <2>4, <3>1
    <3>2. CASE u = r
      <4>1. states[s].born = st.born /\ There(proc, states[s]) => There(proc, st)
        BY DEF There
      <4> QED BY <2>1, <2>2, <2>4, <3>2, <4>1
    <3>3. CASE s # r /\ u # r
      BY <1>0, <2>1, <2>4, <3>3 DEF TrackInv
    <3> QED BY <3>1, <3>2, <3>3
  <2>5. \A s \in Services : There(proc, disk'[s]) => states'[s].born = disk'[s].born
    BY <1>0, <2>1, <2>3 DEF TrackInv
  <2>6. \A s \in Services : s \notin unsaved' => disk'[s] = states'[s]
    BY <1>0, <2>1 DEF TrackInv
  <2> QED BY <1>3, <2>4, <2>5, <2>6 DEF TrackInv, world
<1> QED BY <1>1, <1>2, <1>3, MemoryChanges

\* Where a process comes from.
LEMMA Newborn ==
  ASSUME Inv, [Next]_vars, NEW b \in Births, b > births, proc'[b].pid # 0
  PROVE  /\ b = births + 1 /\ births' = births + 1
         /\ \/ \E t \in Threads, p \in FreePids :
                 /\ th'[t].pc = "commit" /\ th'[t].cand.born = b /\ proc'[b].group = p
                 /\ proc'[b].by # None => th'[t].svc = proc'[b].by
            \/ proc'[b].by = None /\ proc'[b].group \in FreePids \cup {0}
            \/ /\ proc'[b].by = None
               /\ \E c \in Births : /\ Live(c) /\ proc[c].root = c
                                    /\ proc'[b].group = proc[c].group /\ proc'[b].root = c
<1>0. TypeInv /\ WorldInv /\ LockInv /\ ~Live(b) /\ births \in Nat /\ b \in Nat
  BY DEF Inv, WorldInv, TypeInv, TypeOK, Births
<1>1. ASSUME NEW p, NEW g, NEW root, NEW fits, NEW by, Born(p, g, root, fits, by)
      PROVE  /\ b = births + 1 /\ births' = births + 1
             /\ proc'[b].group = g /\ proc'[b].root = root /\ proc'[b].by = by
  BY <1>0, <1>1 DEF Born, Live, TypeInv, TypeOK
<1>2. ~UNCHANGED world
  BY <1>0 DEF world, Live
<1>3. ASSUME NEW t \in Threads, Start(t)
      PROVE  \E p \in FreePids : /\ Born(p, p, births + 1, {th[t].svc}, th[t].svc)
                                 /\ th'[t].pc = "commit" /\ th'[t].svc = th[t].svc
                                 /\ th'[t].cand.born = births + 1
  <2> PICK p \in FreePids :
         /\ Born(p, p, births + 1, {th[t].svc}, th[t].svc)
         /\ Becomes(t, [th[t] EXCEPT !.pc = "commit",
              !.cand = [born |-> births + 1, pid |-> p, group |-> p, adopted |-> FALSE]])
    BY <1>2, <1>3 DEF Start
  <2>1. /\ th'[t].pc = "commit" /\ th'[t].svc = th[t].svc
        /\ th'[t].cand = [born |-> births + 1, pid |-> p, group |-> p, adopted |-> FALSE]
    BY <1>0 DEF Becomes, TypeInv, TypeOK, Work
  <2>2. th'[t].cand.born = births + 1
    BY <2>1
  <2> QED BY <2>1, <2>2
<1>4. CASE \E t \in Threads : Start(t)
  <2> PICK t \in Threads : Start(t)
    BY <1>4
  <2> PICK p \in FreePids : /\ Born(p, p, births + 1, {th[t].svc}, th[t].svc)
                            /\ th'[t].pc = "commit" /\ th'[t].svc = th[t].svc
                            /\ th'[t].cand.born = births + 1
    BY <1>3
  <2> QED BY <1>1
<1>5. CASE Foreign
  BY <1>1, <1>5 DEF Foreign
<1>6. ASSUME NEW c \in Births, Fork(c) PROVE births' = births + 1 /\ b = births + 1 /\ proc'[b].by = None /\ Live(c) /\ proc[c].root = c /\ proc'[b].group = proc[c].group /\ proc'[b].root = c
  BY <1>1, <1>6 DEF Fork
<1>7. ASSUME NEW c \in Births, (\E s \in Services : Listen(c, s)) \/ Exit(c) PROVE FALSE
  BY <1>0, <1>7 DEF Listen, Exit, Live, Dead, TypeInv, TypeOK
<1>8. ASSUME NEW t \in Threads, Step(t) PROVE Start(t)
  BY <1>2, <1>8 DEF Step, Begin, Commit, StopBegins, Wait, Mark, Evaluate, Adopt, KillBegins, Hit, HitWait
<1>9. ~Configure /\ ~Crash /\ ~Rest /\ ~UNCHANGED vars
  BY <1>2 DEF Configure, ReloadBegins, Retire, Activate, Publish, Crash, Rest, vars, world
<1> QED BY <1>4, <1>5, <1>6, <1>7, <1>8, <1>9 DEF Next, Environment

LEMMA StepGroup == Inv /\ [Next]_vars => GroupInv'
<1> SUFFICES ASSUME Inv, [Next]_vars, NEW t \in Threads, th'[t].pc = "wait", UseGroup(th'[t].seen),
                    NEW b \in Births, proc'[b].pid # 0, proc'[b].group = th'[t].seen.group
             PROVE  proc'[b].root = th'[t].seen.born
  BY DEF GroupInv, Live, UseGroup
<1> DEFINE st == th'[t].seen
<1>00. TypeInv /\ LockInv /\ WorldInv /\ GroupInv /\ ~Crash /\ TypeInv' /\ births \in Nat /\ b \in Nat
  BY CrashIdles, Around DEF Inv, Births
<1>0. /\ TypeInv /\ LockInv /\ WorldInv /\ GroupInv /\ ~Crash /\ births \in Nat /\ b \in Nat
      /\ th'[t].svc \in Services /\ st \in StateSet
  BY <1>00 DEF TypeInv, TypeOK, Work
<1>1. st.group = st.pid /\ st.pid # 0 /\ st.pid \in Pids \cup {0}
  BY <1>0, Around DEF RefInv, Sound, Refers, UseGroup, StateSet
<1>2. CASE Step(t)
  <2>1. Waits(t)
    BY <1>0, <1>2, Arrivals DEF Marks, Adopts, Launches, Hits
  <2>2. CASE st = states[th'[t].svc] /\ Alive(st)
    <3>1. There(proc, st) /\ Sound(st)
      BY <1>0, <2>2, Around DEF Inv, RefInv
    <3> QED BY <1>1, <2>1, <3>1 DEF Waits, world, There, Sound, Refers, Rooted, WorldInv, Inv, Live
  <2>3. CASE th[t].pc = "wait" /\ st = th[t].seen
    BY <1>0, <2>1, <2>3 DEF Waits, world, GroupInv, Live
  <2> QED BY <2>1, <2>2, <2>3 DEF Waits
<1>3. CASE ~Step(t)
  <2>1. th'[t] = th[t]
    BY <1>0, <1>3, OthersKeep
  <2>2. CASE b <= births
    <3>1. Live(b) /\ proc[b].group = st.group /\ proc'[b].root = proc[b].root
      BY <2>2, Around DEF Persists, Live
    <3> QED BY <1>0, <2>1, <3>1 DEF GroupInv
  <2>3. CASE b > births
    <3>1. st.pid \notin FreePids
      BY <2>1 DEF FreePids, Awaited
    <3>2. ASSUME NEW u \in Threads, NEW p \in FreePids, proc'[b].group = p PROVE FALSE
      BY <1>1, <3>1, <3>2
    <3>3. CASE proc'[b].by = None /\ proc'[b].group \in FreePids \cup {0}
      BY <1>1, <3>1, <3>3
    <3>4. ASSUME NEW c \in Births, Live(c), proc[c].root = c, proc'[b].group = proc[c].group,
                 proc'[b].root = c
          PROVE  proc'[b].root = st.born
      BY <1>0, <2>1, <3>4 DEF GroupInv
    <3> QED BY <2>3, <3>2, <3>3, <3>4, Newborn
  <2> QED BY <1>0, <2>2, <2>3
<1> QED BY <1>2, <1>3

LEMMA StepCommit == Inv /\ [Next]_vars => CommitInv'
<1> SUFFICES ASSUME Inv, [Next]_vars, NEW t \in Threads, th'[t].pc = "commit" PROVE Launched(t)'
  BY DEF CommitInv
<1> DEFINE s == th'[t].svc
           c == th'[t].cand
<1>0. /\ TypeInv /\ TypeInv' /\ LockInv /\ WorldInv /\ RefInv /\ RefInv' /\ CommitInv /\ ~Crash
      /\ s \in Services /\ c \in StateSet /\ births \in Nat /\ Persists
      /\ \A u \in Services : states[u].born \in Nat
  BY CrashIdles, Around DEF Inv, TypeInv, TypeOK, Work, StateSet
<1>1. CASE Step(t)
  <2>1. Launches(t)
    BY <1>0, <1>1, Arrivals DEF Marks, Adopts, Waits, Hits
  <2>2. PICK p \in FreePids : Born(p, p, births + 1, {s}, s)
    BY <2>1 DEF Launches
  <2>3. ~There(proc', states'[s]) /\ s \notin retired'
    BY <1>0, <2>1, Around DEF Launches
  <2>4. c.born = births + 1 /\ c.born \in Births
    BY <1>0, <2>1, Bounds DEF Launches, Births
  <2>5. proc'[c.born].by = s /\ proc'[c.born].fits = {s}
    BY <1>0, <2>2, <2>4 DEF Born, TypeInv, TypeOK
  <2>6. \A u \in Services : states'[u].born # c.born
    BY <1>0, <2>1, <2>4 DEF Launches, RefInv, Sound, Refers
  <2> QED BY <2>3, <2>4, <2>5, <2>6 DEF Launched
<1>2. CASE ~Step(t)
  <2>1. th'[t] = th[t] /\ lock[s] = t /\ t # None /\ t # "config"
    BY <1>0, <1>2, OthersKeep, Owners DEF LockInv
  <2>2. Launched(t)
    BY <1>0, <2>1 DEF CommitInv
  <2>3. s \notin retired'
    BY <2>1, <2>2, Retirements DEF Launched
  <2>4. There(proc', c) => There(proc, c) /\ proc'[c.born].by = s /\ proc'[c.born].fits = {s}
    BY <1>0, <2>1, <2>2, Around DEF Launched, Persists, There, RefInv, Refers
  <2>5. CASE UNCHANGED memory
    BY <1>0, <2>1, <2>2, <2>3, <2>4, <2>5, Around DEF Launched, memory
  <2>6. ASSUME NEW r \in Services, NEW st \in StateSet, NEW saved \in BOOLEAN, Store(r, st, saved),
               Stored(r, st), UNCHANGED world
        PROVE  Launched(t)'
    <3>1. \A u \in Services : states'[u] = IF u = r THEN st ELSE states[u]
      BY <1>0, <2>6, StoreGives
    <3>2. There(proc, c) => st.born # c.born
      <4>1. CASE st = Stopped
        BY <4>1, <1>0, StoppedRefers DEF There
      <4>2. ASSUME NEW v \in Threads, th[v].svc = r, th[v].cand = st, th[v].pc = "commit",
                   th'[v].pc = "idle", There(proc, c), st.born = c.born
            PROVE  FALSE
        <5>1. lock[r] = v /\ v # t
          BY <1>0, <4>2 DEF LockInv
        <5>2. r = s
          BY <1>0, <2>1, <2>2, <4>2 DEF CommitInv, Launched, There
        <5> QED BY <2>1, <5>1, <5>2
      <4>3. CASE lock[r] = None /\ Adoptable(r, st.born)
        BY <2>1, <2>2, <4>3 DEF Launched, Adoptable
      <4> QED BY <2>6, <4>1, <4>2, <4>3 DEF Stored
    <3>3. s = r => st = Stopped
      <4>1. ASSUME NEW v \in Threads, th[v].svc = r, th[v].pc = "commit", th'[v].pc = "idle", s = r
            PROVE  FALSE
        BY <1>0, <2>1, <4>1 DEF LockInv
      <4> QED BY <2>1, <2>6, <4>1 DEF Stored
    <3>4. ~There(proc', states'[s])
      BY <1>0, <2>1, <2>2, <2>6, <3>1, <3>3, StoppedRefers DEF Launched, world
    <3> QED BY <1>0, <2>1, <2>2, <2>3, <2>4, <3>1, <3>2, <3>4 DEF Launched
  <2> QED BY <1>0, <2>5, <2>6, MemoryChanges
<1> QED BY <1>1, <1>2

LEMMA StepHit == Inv /\ [Next]_vars => HitInv'
<1> SUFFICES ASSUME Inv, [Next]_vars, NEW t \in Threads, th'[t].pc \in {"hit", "hitwait"},
                    There(proc', th'[t].cand)
             PROVE  /\ \A u \in Services : states'[u].born = th'[t].cand.born =>
                         u # th'[t].svc /\ states'[u].adopted
                    /\ \A v \in Threads : th'[v].pc = "commit" => th'[v].cand.born # th'[t].cand.born
  BY DEF HitInv, Foreigner
<1> DEFINE s == th'[t].svc
           c == th'[t].cand
<1>0. /\ TypeInv /\ TypeInv' /\ LockInv /\ LockInv' /\ WorldInv /\ RefInv /\ RefInv' /\ HitInv
      /\ CommitInv /\ SeenInv /\ ~Crash /\ births \in Nat
  BY CrashIdles, Around, StepLock DEF Inv
<1>1. s \in Services /\ c \in StateSet /\ c.born \in Births
  BY <1>0 DEF TypeInv, TypeOK, Work, There
<1>2. CASE Step(t)
  <2>1. Hits(t)
    BY <1>0, <1>2, Arrivals DEF Marks, Adopts, Waits, Launches
  <2>2. \A v \in Threads : th'[v].pc = "commit" => th'[v] = th[v]
    BY <1>0, <1>2, StepKeeps
  <2>3. There(proc, c)
    BY <2>1 DEF Hits, world
  <2>4. CASE /\ th[t].pc \in {"hit", "hitwait"} /\ c = th[t].cand /\ s = th[t].svc
    BY <1>0, <2>1, <2>2, <2>3, <2>4 DEF HitInv, Foreigner, Hits
  <2>5. CASE /\ Adoptable(s, c.born) /\ ~Alive(states[s]) /\ lock[s] = None
    <3>1. states[s].born # c.born
      BY <1>1, <2>3, <2>5, Around DEF There
    <3>2. \A u \in Services : states[u].born # c.born
      BY <2>5, <3>1 DEF Adoptable, TrackedElsewhere
    <3>3. ASSUME NEW v \in Threads, th[v].pc = "commit", th[v].cand.born = c.born PROVE FALSE
      <4>1. s = th[v].svc
        BY <1>0, <2>3, <2>5, <3>3 DEF CommitInv, Launched, Adoptable, There
      <4> QED BY <1>0, <2>5, <3>3, <4>1, Owners DEF LockInv
    <3> QED BY <2>1, <2>2, <3>2, <3>3 DEF Hits
  <2> QED BY <2>1, <2>4, <2>5 DEF Hits
<1>3. CASE ~Step(t)
  <2>1. th'[t] = th[t] /\ lock[s] = t /\ t # None
    BY <1>0, <1>3, OthersKeep, Owners DEF LockInv
  <2>2. Foreigner(t) /\ There(proc, c)
    BY <1>0, <2>1, Around DEF HitInv
  <2>3. \A v \in Threads : th'[v].pc = "commit" => th'[v].cand.born # c.born
    <3>1. ASSUME NEW v \in Threads, th'[v].pc = "commit", ~Step(v) PROVE th'[v].cand.born # c.born
      BY <1>0, <2>1, <2>2, <3>1, OthersKeep DEF Foreigner
    <3>2. ASSUME NEW v \in Threads, th'[v].pc = "commit", Step(v) PROVE th'[v].cand.born # c.born
      <4>1. Launches(v)
        BY <1>0, <3>2, Arrivals DEF Marks, Adopts, Waits, Hits
      <4> QED BY <1>0, <1>1, <2>1, <4>1 DEF Launches, RefInv, Refers, Births
    <3> QED BY <3>1, <3>2
  <2>4. CASE UNCHANGED memory
    BY <2>1, <2>2, <2>3, <2>4 DEF Foreigner, memory
  <2>5. ASSUME NEW r \in Services, NEW st \in StateSet, NEW saved \in BOOLEAN, Store(r, st, saved),
               Stored(r, st)
        PROVE  \A u \in Services : states'[u].born = c.born => u # s /\ states'[u].adopted
    <3>1. \A u \in Services : states'[u] = IF u = r THEN st ELSE states[u]
      BY <1>0, <2>5, StoreGives
    <3>2. st.born = c.born => r # s /\ st.adopted
      <4>1. CASE st = Stopped
        BY <1>0, <1>1, <4>1 DEF Stopped, Births
      <4>2. ASSUME NEW v \in Threads, th[v].cand = st, th[v].pc = "commit" PROVE st.born # c.born
        BY <2>1, <2>2, <4>2 DEF Foreigner
      <4>3. CASE lock[r] = None /\ st.adopted
        BY <2>1, <4>3
      <4> QED BY <2>5, <4>1, <4>2, <4>3 DEF Stored
    <3> QED BY <2>1, <2>2, <3>1, <3>2 DEF Foreigner
  <2> QED BY <1>0, <2>3, <2>4, <2>5, MemoryChanges
<1> QED BY <1>2, <1>3

LEMMA StepInv == Inv /\ [Next]_vars => Inv'
BY StepTypes, StepWorld, StepRefs, StepLock, StepSeen, StepGroup, StepCommit, StepHit, StepTrack,
  StepRetired DEF Inv

-----------------------------------------------------------------------------
(* The properties. *)

\* Every part of the invariant always holds.
THEOREM Invariant == Spec => []Inv
BY InitInv, StepInv, PTL DEF Spec

\* Two services never track one live process.
THEOREM NoSharedProcessHolds == Spec => []NoSharedProcess
<1>1. Inv => NoSharedProcess
  <2> SUFFICES ASSUME Inv, NEW s \in Services, NEW u \in Services, s # u,
                      states[s].born = states[u].born, Alive(states[s])
               PROVE  FALSE
    BY DEF NoSharedProcess
  <2>1. There(proc, states[s])
    BY AliveIsThere DEF Inv, RefInv, Sound, TypeInv, TypeOK
  <2> QED BY <2>1 DEF Inv, TrackInv
<1> QED BY <1>1, Invariant, PTL

\* A retired service has no live process and no launch under way.
THEOREM RetiredIsStoppedHolds == Spec => []RetiredIsStopped
<1>1. Inv => RetiredIsStopped
  <2> SUFFICES ASSUME Inv, NEW s \in retired PROVE
        ~Alive(states[s]) /\ \A t \in Threads : th[t].pc = "commit" => th[t].svc # s
    BY DEF RetiredIsStopped
  <2>1. ~Alive(states[s])
    BY AliveIsThere DEF Inv, RefInv, Sound, TypeInv, TypeOK, RetiredInv
  <2> QED BY <2>1 DEF Inv, CommitInv, Launched
<1> QED BY <1>1, Invariant, PTL

\* A launch is cut off only by a crash; otherwise its thread ends with the child on record,
\* or with a child that is gone.
LEMMA CommitEnds ==
  ASSUME Inv, [Next]_vars, NEW t \in Threads, th[t].pc = "commit", ~Crash, There(proc', th[t].cand)
  PROVE  th'[t] = th[t] \/ states'[th[t].svc] = th[t].cand
<1>0. TypeInv /\ LockInv /\ th[t].svc \in Services
  BY DEF Inv, TypeInv
<1>1. CASE ~Step(t)
  BY <1>0, <1>1, OthersKeep
<1>2. CASE Step(t)
  <2>1. Commit(t)
    BY <1>2 DEF Step, Begin, Start, StopBegins, Wait, Mark, Evaluate, Adopt, KillBegins, Hit, HitWait, At
  <2>2. Alive(th[t].cand)
    BY <2>1, Around, AliveIsThere DEF Inv, RefInv
  <2> QED BY <1>0, <2>1, <2>2, StoreGives, SavesBoolean DEF Commit
<1> QED BY <1>1, <1>2

LEMMA StepSpawned == Inv /\ SpawnedIsTracked /\ [Next]_vars => SpawnedIsTracked'
<1> SUFFICES ASSUME Inv, SpawnedIsTracked, [Next]_vars, NEW b \in Births, proc'[b].by # None
             PROVE  \/ b \in lost'
                    \/ states'[proc'[b].by].born = b
                    \/ \E t \in Threads : th'[t].pc = "commit" /\ th'[t].cand.born = b
  BY DEF SpawnedIsTracked
<1>0. /\ TypeInv /\ TypeInv' /\ WorldInv /\ WorldInv' /\ Persists /\ RefInv /\ CommitInv /\ TrackInv
      /\ births \in Nat /\ b \in Nat
  BY Around DEF Inv, Births
<1>1. proc'[b].pid # 0
  BY <1>0 DEF WorldInv, Dead, Live
<1>2. CASE b > births
  BY <1>1, <1>2, Newborn
<1>3. CASE b <= births
  <2> DEFINE s == proc[b].by
  <2>1. Live(b) /\ proc'[b].by = s /\ s # None
    BY <1>0, <1>1, <1>3 DEF Persists, Live
  <2>2. s \in Services
    BY <1>0, <2>1 DEF TypeInv, TypeOK, Process
  <2>3. CASE b \in lost
    <3>1. CASE Crash
      BY <2>1, <2>3, <3>1 DEF Crash
    <3>2. ASSUME NEW d \in Births, Exit(d) PROVE b \in lost'
      <4>1. d # b
        BY <1>0, <1>1, <3>2 DEF Exit, Dead, TypeInv, TypeOK
      <4> QED BY <2>3, <3>2, <4>1 DEF Exit
    <3>3. ASSUME NEW t \in Threads, Step(t) PROVE UNCHANGED lost
      BY <3>3 DEF Step, Begin, Start, Commit, StopBegins, Wait, Mark, Evaluate, Adopt, KillBegins, Hit, HitWait
    <3>4. Configure \/ Foreign \/ Rest \/ UNCHANGED vars => UNCHANGED lost
      BY DEF Configure, ReloadBegins, Retire, Activate, Publish, Foreign, Rest, vars
    <3>5. ASSUME NEW d \in Births, Fork(d) \/ \E r \in Services : Listen(d, r) PROVE UNCHANGED lost
      BY <3>5 DEF Fork, Listen
    <3> QED BY <2>3, <3>1, <3>2, <3>3, <3>4, <3>5 DEF Next, Environment
  <2>4. CASE states[s].born = b
    <3>1. There(proc, states[s])
      BY <2>1, <2>4 DEF There, Live
    <3>2. CASE UNCHANGED memory
      BY <2>1, <2>4, <3>2 DEF memory
    <3>3. CASE Crash
      <4>1. s \in unsaved => b \in lost'
        BY <2>1, <2>4, <3>3, <2>2 DEF Crash
      <4>2. s \notin unsaved => states'[s] = states[s]
        BY <1>0, <2>2, <3>3 DEF Crash, TrackInv
      <4> QED BY <2>1, <2>4, <4>1, <4>2
    <3>4. ASSUME NEW r \in Services, NEW st \in StateSet, NEW saved \in BOOLEAN, Store(r, st, saved),
                 Stored(r, st)
          PROVE  states'[s].born = b
      BY <1>0, <2>2, <2>4, <3>1, <3>4, StoreGives DEF Stored
    <3> QED BY <2>1, <3>2, <3>3, <3>4, MemoryChanges
  <2>5. ASSUME NEW t \in Threads, th[t].pc = "commit", th[t].cand.born = b
        PROVE  b \in lost' \/ states'[s].born = b \/ th'[t] = th[t]
    <3>1. There(proc', th[t].cand) /\ There(proc, th[t].cand)
      BY <1>1, <2>1, <2>5 DEF There, Live
    <3>2. th[t].svc = s
      BY <1>0, <2>5, <3>1 DEF CommitInv, Launched
    <3>3. CASE Crash
      BY <2>1, <2>5, <3>3 DEF Crash, At
    <3>4. CASE ~Crash
      BY <2>5, <3>1, <3>2, <3>4, CommitEnds
    <3> QED BY <3>3, <3>4
  <2> QED BY <2>1, <2>3, <2>4, <2>5 DEF SpawnedIsTracked
<1> QED BY <1>0, <1>2, <1>3

\* No child that the controller launched is out of its sight, unless a crash cut the launch
\* off from its record.
THEOREM SpawnedIsTrackedHolds == Spec => []SpawnedIsTracked
<1>1. Init => SpawnedIsTracked
  BY DEF Init, SpawnedIsTracked, Dead
<1> QED BY <1>1, StepSpawned, Invariant, PTL DEF Spec

\* A stop signals the process that is tracked, or the group that it leads.
THEOREM SignalsHitTrackedHolds == Spec => SignalsHitTracked
<1> DEFINE A == \A t \in Threads : LET st == th'[t].seen IN
       th'[t].pc = "wait" /\ th'[t].round # th[t].round =>
         \A b \in Reached(st) : b = st.born \/ (UseGroup(st) /\ proc[b].root = st.born)
<1>1. Inv /\ [Next]_vars => A
  <2> SUFFICES ASSUME Inv, [Next]_vars, NEW t \in Threads, th'[t].pc = "wait", th'[t].round # th[t].round,
                      NEW b \in Reached(th'[t].seen)
               PROVE  b = th'[t].seen.born \/ (UseGroup(th'[t].seen) /\ proc[b].root = th'[t].seen.born)
    OBVIOUS
  <2> DEFINE st == th'[t].seen
  <2>0. TypeInv /\ LockInv /\ WorldInv /\ ~Crash /\ Inv' /\ b \in Births
    BY CrashIdles, StepInv DEF Inv, Reached, Members
  <2>1. Step(t)
    BY <2>0, OthersKeep
  <2>2. Waits(t)
    BY <2>0, <2>1, Arrivals DEF Marks, Adopts, Launches, Hits
  <2>3. CASE UseGroup(st)
    BY <2>0, <2>2, <2>3 DEF Waits, world, Reached, Members, Live, Inv, GroupInv, UseGroup
  <2>4. CASE ~UseGroup(st)
    <3>1. Alive(st) /\ Live(b) /\ proc[b].pid = st.pid
      BY <2>2, <2>4 DEF Waits, TargetAlive, Reached
    <3> QED BY <2>0, <3>1 DEF Alive, WorldInv, Live
  <2> QED BY <2>3, <2>4
<1> QED BY <1>1, Invariant, PTL DEF Spec, SignalsHitTracked

\* kill_external hits nothing that its service tracks, nor a child of another.
THEOREM KillSparesTrackedHolds == Spec => KillSparesTracked
<1> DEFINE A == \A t \in Threads : At(t, "hit") /\ th'[t].pc = "hitwait" =>
       \A u \in Services : states[u].born = th[t].cand.born => u # th[t].svc /\ states[u].adopted
<1>1. Inv /\ [Next]_vars => A
  <2> SUFFICES ASSUME Inv, [Next]_vars, NEW t \in Threads, At(t, "hit"), th'[t].pc = "hitwait"
               PROVE  \A u \in Services : states[u].born = th[t].cand.born =>
                        u # th[t].svc /\ states[u].adopted
    OBVIOUS
  <2>0. TypeInv /\ LockInv /\ WorldInv /\ HitInv /\ ~Crash /\ th[t].svc \in Services
    BY CrashIdles DEF Inv, At, TypeInv
  <2>1. Step(t)
    BY <2>0, OthersKeep DEF At
  <2>2. Hit(t)
    BY <2>1 DEF Step, Begin, Start, Commit, StopBegins, Wait, Mark, Evaluate, Adopt, KillBegins, HitWait, At
  <2>3. StillHeld(t)
    BY <2>0, <2>2, EndsIdle DEF Hit
  <2>4. There(proc, th[t].cand)
    BY <2>0, <2>3 DEF StillHeld, Holders, There, WorldInv, Dead, Live
  <2> QED BY <2>0, <2>4 DEF HitInv, Foreigner, At
<1> QED BY <1>1, Invariant, PTL DEF Spec, KillSparesTracked

=============================================================================
