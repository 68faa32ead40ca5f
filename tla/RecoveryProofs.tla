---------------------------- MODULE RecoveryProofs ----------------------------
(***************************************************************************)
(* Proof that Recovery restarts only what failed, for any policy, any number *)
(* of processes and any interference.                                        *)
(***************************************************************************)
EXTENDS Recovery, FiniteSetTheorems, SequenceTheorems, WellFoundedInduction, TLAPS

\* Where the poll thread has a process in hand.
Probing == {"probe", "request", "check", "verify", "budget", "restart", "ready"}

\* Types, as far as the argument needs them: what the disk holds is not part of it.
TypeInv ==
  /\ PollOK
  /\ pc = "look" => seen # None
  /\ pc \in Probing => ident # None
  /\ memory.last \in Nat \cup {None} /\ disk.last \in Nat \cup {None}
  /\ pc \in {"budget", "restart"} => service # None
  /\ pc = "restart" => memory.last \in Nat
  /\ issued \in Seq(Nat)

LEMMA PersistTypes ==
  ASSUME TypeInv, NEW h, h.last \in Nat \cup {None}, Persist(h) \/ PersistFails(h)
  PROVE  /\ memory'.last \in Nat \cup {None} /\ disk'.last \in Nat \cup {None}
         /\ service # None => memory'.last = h.last
BY DEF TypeInv, Persist, PersistFails, Kept, Fresh

LEMMA StartTypes == TypeInv => Start(proc) \in Process
                               /\ Start(proc).pid = proc.pid + 1
BY DEF TypeInv, PollOK, Start, Process

LEMMA StreakTypes ==
  ASSUME TypeInv, ident # None, CountFailure \/ ClearFailures
  PROVE  streak' \in [def: Definitions \cup {None}, pid: Nat, n: 0..Threshold]
<1>1. Threshold \in Nat \ {0} /\ streak.n \in 0..Threshold /\ ident.def \in Definitions
      /\ proc.pid \in Nat
  BY PolicyNat DEF TypeInv, PollOK, Process, Probed
<1>2. CASE CountFailure /\ streak.def = ident.def /\ streak.pid = proc.pid
  <2>1. PICK n \in 0..Threshold: streak' = [streak EXCEPT !.n = n]
    BY <1>1, <1>2 DEF CountFailure
  <2> QED BY <2>1 DEF TypeInv, PollOK
<1>3. CASE CountFailure /\ ~(streak.def = ident.def /\ streak.pid = proc.pid)
  BY <1>1, <1>3 DEF CountFailure
<1>4. CASE ClearFailures
  BY <1>1, <1>4 DEF ClearFailures
<1> QED BY <1>2, <1>3, <1>4

LEMMA InitTypes == Init => TypeInv
<1> SUFFICES ASSUME Init PROVE TypeInv
  OBVIOUS
<1>1. streak \in [def: Definitions \cup {None}, pid: Nat, n: 0..Threshold] /\ proc \in Process
  BY PolicyNat DEF Init, Process
<1>2. PollOK
  BY <1>1, NoneDistinct DEF Init, PollOK, PC
<1> QED BY <1>2 DEF Init, TypeInv, Fresh, Probing

LEMMA StepTypes == TypeInv /\ [Next]_vars => TypeInv'
<1> SUFFICES ASSUME TypeInv, [Next]_vars PROVE TypeInv'
  OBVIOUS
<1> USE NoneDistinct DEF PC, Seen, Probed, Counted, Probing, world, history
<1>1. CASE Poll
  <2>1. memory'.last \in Nat \cup {None} /\ disk'.last \in Nat \cup {None}
    BY <1>1, PersistTypes DEF Poll, TypeInv
  <2> QED BY <1>1, <2>1 DEF Poll, Forget, TypeInv, PollOK
<1>2. CASE LookAway \/ Refused \/ Deny \/ Raises
  BY <1>2 DEF LookAway, Refused, Deny, Raises, Leave, Rest, Forget, TypeInv, PollOK
<1>3. CASE Look
  <2>1. seen \in Seen /\ ident' \in Probed
    BY <1>3 DEF Look, TypeInv, PollOK, Process
  <2>2. tally' \in Nat
    BY <1>3 DEF Look, TypeInv, PollOK
  <2> QED BY <1>3, <2>1, <2>2 DEF Look, TypeInv, PollOK
<1>4. CASE ProbeFails
  BY <1>4, StreakTypes DEF ProbeFails, Leave, Rest, TypeInv, PollOK
<1>5. CASE ProbePasses
  BY <1>5, StreakTypes, PolicyNat DEF ProbePasses, ClearFailures, Leave, Rest, Forget, TypeInv, PollOK
<1>6. CASE Admitted
  BY <1>6 DEF Admitted, TypeInv, PollOK
<1>7. CASE RecheckFails
  BY <1>7, StreakTypes DEF RecheckFails, TypeInv, PollOK
<1>8. CASE Verify
  <2>1. CASE Same
    <3>1. service # None
      BY <1>8, <2>1 DEF Verify, Same, TypeInv, PollOK
    <3>2. /\ pc = "verify" /\ pc' = "budget" /\ moved' \in BOOLEAN
          /\ UNCHANGED <<now, service, proc, available, busy, polled, lock, seen, ident, tally,
                         failures, memory, disk, issued, streak>>
      BY <1>8, <2>1 DEF Verify
    <3> QED BY <3>1, <3>2 DEF TypeInv, PollOK
  <2>2. CASE ~Same
    BY <1>8, <2>2 DEF Verify, Leave, Rest, Forget, TypeInv, PollOK
  <2> QED BY <2>1, <2>2
<1>9. CASE Charge
  <2>1. Charged.last = now /\ now \in Nat
    BY DEF Charged, TypeInv, PollOK
  <2>2. memory'.last = now /\ disk'.last \in Nat \cup {None}
    BY <1>9, <2>1, PersistTypes DEF Charge, TypeInv
  <2> QED BY <1>9, <2>1, <2>2 DEF Charge, TypeInv, PollOK
<1>10. CASE ChargeFails
  <2>1. Charged.last \in Nat
    BY DEF Charged, TypeInv, PollOK
  <2>2. memory'.last \in Nat \cup {None} /\ disk'.last \in Nat \cup {None}
    BY <1>10, <2>1, PersistTypes DEF ChargeFails
  <2> QED BY <1>10, <2>2 DEF ChargeFails, Leave, Rest, Forget, TypeInv, PollOK
<1>11. CASE Restart
  <2>1. issued' \in Seq(Nat)
    BY <1>11 DEF Restart, TypeInv
  <2>2. memory'.last \in Nat \cup {None} /\ disk'.last \in Nat \cup {None}
    BY <1>11, PersistTypes DEF Restart, TypeInv
  <2>3. proc' \in Process
    BY <1>11, StartTypes DEF Restart, TypeInv, PollOK, Process
  <2> QED BY <1>11, <2>1, <2>2, <2>3 DEF Restart, Leave, Rest, Forget, TypeInv, PollOK
<1>12. CASE Ready
  <2>1. memory'.last \in Nat \cup {None} /\ disk'.last \in Nat \cup {None}
    BY <1>12, PersistTypes DEF Ready, TypeInv
  <2> QED BY <1>12, <2>1 DEF Ready, Rest, TypeInv, PollOK
<1>13. CASE Command
  <2>1. proc' \in Process
    BY <1>13, StartTypes DEF Command, TypeInv, PollOK, Process
  <2> QED BY <1>13, <2>1 DEF Command, ours, TypeInv, PollOK
<1>14. CASE RecordAction
  <2>1. memory'.last \in Nat \cup {None} /\ disk'.last \in Nat \cup {None}
    BY <1>14, PersistTypes DEF RecordAction, TypeInv
  <2> QED BY <1>14, <2>1 DEF RecordAction, ours, Forget, TypeInv, PollOK
<1>15. CASE Job \/ Maintain
  <2>1. /\ busy' \in BOOLEAN /\ available' \in BOOLEAN
        /\ UNCHANGED <<now, service, proc, polled, lock, pc, seen, ident, tally, failures,
                       memory, disk, issued, streak, moved>>
    BY <1>15 DEF Job, Maintain, ours, TypeInv, PollOK
  <2> QED BY <2>1 DEF TypeInv, PollOK
<1>16. CASE Edit
  BY <1>16 DEF Edit, ours, TypeInv, PollOK
<1>17. CASE Pm2Moves
  <2>1. proc' \in Process
    BY <1>17, StartTypes DEF Pm2Moves, TypeInv, PollOK, Process
  <2> QED BY <1>17, <2>1 DEF Pm2Moves, ours, TypeInv, PollOK
<1>18. CASE Tick
  <2>1. now' \in Nat
    BY <1>18 DEF Tick, TypeInv, PollOK
  <2>2. UNCHANGED <<service, proc, available, busy, lock, pc, seen, ident, tally, failures,
                    memory, disk, issued, streak, moved>> /\ polled' \in BOOLEAN
    BY <1>18 DEF Tick
  <2> QED BY <2>1, <2>2 DEF TypeInv, PollOK
<1>19. CASE ControllerRestarts
  BY <1>19 DEF ControllerRestarts, Loaded, Fresh, Rest, Forget, TypeInv, PollOK
<1>20. CASE UNCHANGED vars
  BY <1>20 DEF vars, TypeInv, PollOK
<1> QED
  BY <1>1, <1>2, <1>3, <1>4, <1>5, <1>6, <1>7, <1>8, <1>9, <1>10, <1>11, <1>12, <1>13,
     <1>14, <1>15, <1>16, <1>17, <1>18, <1>19, <1>20 DEF Next, PollStep

\* The types of what the poll thread works with, in every state.
THEOREM PollTypes == Spec => []PollOK
<1>1. TypeInv => PollOK
  BY DEF TypeInv
<1> QED BY <1>1, InitTypes, StepTypes, PTL DEF Spec

-----------------------------------------------------------------------------
(* The process that is restarted. *)

\* At least n probes of this process under this definition failed in a row.
Failed(def, pid, n) ==
  streak.def = def /\ streak.pid = pid /\ (streak.n >= n \/ streak.n = Threshold)

\* What was counted of a process that is still there has failed as often.  PIDs only
\* grow, so that a process that was replaced does not come back.
FailedInv ==
  /\ failures # None =>
       /\ failures.pid <= proc.pid
       /\ failures.pid = proc.pid => Failed(failures.def, failures.pid, failures.count)
  /\ pc \in Probing => ident.pid <= proc.pid
  /\ pc = "probe" /\ ident.pid = proc.pid /\ tally > 0 => Failed(ident.def, ident.pid, tally)
  /\ pc \in {"request", "check"} => failures = None \/ failures.pid = ident.pid
  /\ pc \in {"request", "check", "verify"} /\ ident.pid = proc.pid =>
       Failed(ident.def, ident.pid, Threshold)
  /\ pc \in {"budget", "restart"} /\ ~moved => Same /\ Failed(ident.def, ident.pid, Threshold)

\* The types, unfolded for arithmetic.
LEMMA Numbers ==
  ASSUME TypeInv
  PROVE  /\ proc.pid \in Nat /\ tally \in Nat /\ Threshold \in Nat \ {0}
         /\ streak.n \in 0..Threshold /\ streak.pid \in Nat
         /\ ident # None => ident.pid \in Nat
         /\ failures # None => failures.pid \in Nat /\ failures.count \in Nat \ {0}
         /\ pc \in Probing => ident # None
BY PolicyNat DEF TypeInv, PollOK, Process, Probed, Counted

LEMMA CountFacts ==
  ASSUME TypeInv, ident # None, CountFailure
  PROVE  /\ streak'.def = ident.def /\ streak'.pid = proc.pid /\ streak'.n >= 1
         /\ streak.def = ident.def /\ streak.pid = proc.pid =>
              streak'.n = IF streak.n < Threshold THEN streak.n + 1 ELSE streak.n
<1>1. Threshold \in Nat \ {0} /\ streak.n \in 0..Threshold
  BY Numbers
<1>2. CASE streak.def = ident.def /\ streak.pid = proc.pid
  BY <1>1, <1>2 DEF CountFailure, TypeInv, PollOK
<1>3. CASE ~(streak.def = ident.def /\ streak.pid = proc.pid)
  BY <1>3 DEF CountFailure
<1> QED BY <1>2, <1>3

LEMMA StepFailed == TypeInv /\ FailedInv /\ [Next]_vars => FailedInv'
<1> SUFFICES ASSUME TypeInv, FailedInv, [Next]_vars PROVE FailedInv'
  OBVIOUS
<1> USE NoneDistinct DEF Probing, world, history
<1>0. proc'.pid \in Nat /\ streak'.n \in 0..Threshold
  BY StepTypes DEF TypeInv, PollOK, Process
<1>1. CASE Poll
  BY <1>1 DEF Poll, Forget, FailedInv, Failed
<1>2. CASE LookAway \/ Refused \/ Raises \/ ChargeFails
  BY <1>2 DEF LookAway, Refused, Raises, ChargeFails, Leave, Rest, Forget, FailedInv, Failed
<1>3. CASE Deny
  BY <1>3 DEF Deny, Leave, Rest, FailedInv, Failed
<1>4. CASE Look
  BY <1>4, Numbers DEF Look, FailedInv, Failed
<1>5. CASE ProbeFails
  <2>1. /\ failures' = [def |-> ident.def, pid |-> ident.pid, count |-> tally + 1]
        /\ pc' = "idle" \/ (pc' = "request" /\ tally + 1 >= Threshold /\ ident' = ident)
        /\ proc' = proc /\ pc = "probe" /\ ident # None
    <3>1. ident # None /\ pc = "probe"
      BY <1>5, Numbers DEF ProbeFails
    <3>2. CASE tally + 1 < Threshold
      <4>1. Leave
        BY <1>5, <3>2 DEF ProbeFails
      <4>2. pc' = "idle"
        BY <4>1 DEF Leave, Rest
      <4> QED BY <1>5, <3>1, <4>2 DEF ProbeFails
    <3>3. CASE ~(tally + 1 < Threshold)
      <4>1. tally + 1 >= Threshold
        BY <3>3, Numbers
      <4> QED BY <1>5, <3>1, <3>3, <4>1 DEF ProbeFails
    <3> QED BY <3>2, <3>3
  <2>2. CASE ident.pid = proc.pid
    <3>1. /\ streak'.def = ident.def /\ streak'.pid = ident.pid
          /\ streak'.n >= tally + 1 \/ streak'.n = Threshold
      BY <1>5, <2>1, <2>2, CountFacts, Numbers DEF ProbeFails, FailedInv, Failed
    <3>2. pc' = "request" => streak'.n = Threshold
      BY <1>0, <2>1, <3>1, Numbers
    <3>3. failures'.def = ident.def /\ failures'.pid = ident.pid /\ failures'.count = tally + 1
      BY <2>1
    <3> QED BY <2>1, <2>2, <3>1, <3>2, <3>3, Numbers DEF FailedInv, Failed
  <2>3. CASE ident.pid # proc.pid
    BY <2>1, <2>3, Numbers DEF FailedInv
  <2> QED BY <2>2, <2>3
<1>6. CASE ProbePasses
  BY <1>6 DEF ProbePasses, Leave, Rest, Forget, FailedInv
<1>7. CASE Admitted
  BY <1>7 DEF Admitted, FailedInv, Failed
<1>8. CASE RecheckFails
  <2>1. /\ pc = "check" /\ pc' = "verify" /\ ident # None
        /\ UNCHANGED <<proc, ident, failures>>
    BY <1>8, Numbers DEF RecheckFails
  <2>2. CASE ident.pid = proc.pid
    <3>1. Failed(ident.def, ident.pid, Threshold)
      BY <2>1, <2>2 DEF FailedInv
    <3>2. streak'.def = streak.def /\ streak'.pid = streak.pid /\ streak'.n = Threshold
          /\ streak.n = Threshold
      BY <1>8, <2>1, <2>2, <3>1, CountFacts, Numbers DEF RecheckFails, Failed
    <3> QED BY <2>1, <3>1, <3>2 DEF FailedInv, Failed
  <2>3. CASE ident.pid # proc.pid
    BY <2>1, <2>3 DEF FailedInv
  <2> QED BY <2>2, <2>3
<1>9. CASE Verify
  BY <1>9 DEF Verify, Same, Up, Leave, Rest, Forget, FailedInv, Failed
<1>10. CASE Charge
  BY <1>10 DEF Charge, Same, Up, FailedInv, Failed
<1>11. CASE Restart
  BY <1>11, StartTypes, Numbers DEF Restart, Leave, Rest, Forget, FailedInv
<1>12. CASE Ready
  BY <1>12 DEF Ready, Rest, FailedInv, Failed
<1>13. CASE Command
  <2>1. /\ pc' = pc /\ pc \notin {"budget", "restart"}
        /\ UNCHANGED <<ident, failures, tally, streak>>
    BY <1>13 DEF Command, ours, TypeInv, PollOK
  <2>2. proc'.pid >= proc.pid
    BY <1>13, StartTypes, Numbers DEF Command, TypeInv, PollOK, Process
  <2> QED BY <1>0, <2>1, <2>2, Numbers DEF FailedInv, Failed
<1>14. CASE RecordAction
  BY <1>14 DEF RecordAction, ours, Forget, Same, Up, FailedInv, Failed
<1>15. CASE Job \/ Maintain \/ Tick
  BY <1>15 DEF Job, Maintain, Tick, ours, Same, Up, FailedInv, Failed
<1>16. CASE Edit
  <2>1. pc \notin {"budget", "restart"}
    BY <1>16 DEF Edit, TypeInv, PollOK
  <2> QED BY <1>16, <2>1 DEF Edit, ours, FailedInv, Failed
<1>17. CASE Pm2Moves
  <2>1. proc'.pid >= proc.pid
    BY <1>17, StartTypes, Numbers DEF Pm2Moves, TypeInv, PollOK, Process
  <2>2. moved' /\ UNCHANGED <<pc, ident, failures, tally, streak>>
    BY <1>17 DEF Pm2Moves, ours
  <2> QED BY <1>0, <2>1, <2>2, Numbers DEF FailedInv, Failed
<1>18. CASE ControllerRestarts
  BY <1>18 DEF ControllerRestarts, Rest, Forget, FailedInv
<1>19. CASE UNCHANGED vars
  BY <1>19 DEF vars, Same, Up, FailedInv, Failed
<1> QED
  BY <1>1, <1>2, <1>3, <1>4, <1>5, <1>6, <1>7, <1>8, <1>9, <1>10, <1>11, <1>12, <1>13,
     <1>14, <1>15, <1>16, <1>17, <1>18, <1>19 DEF Next, PollStep

\* A restart meets the process whose probes failed, under the definition they were made
\* for, unless PM2 moved it in between: for any policy and any interference.
THEOREM RestartsFailedProcess == Spec => RestartsWhatFailed
<1>1. Init => FailedInv
  BY NoneDistinct DEF Init, FailedInv, Probing
<1>2. TypeInv /\ FailedInv /\ [Next]_vars =>
        [Len(issued') > Len(issued) =>
           moved \/ (Up /\ service = streak.def /\ proc.pid = streak.pid /\ streak.n >= Threshold)]_vars
  <2> SUFFICES ASSUME TypeInv, FailedInv, Next, Len(issued') > Len(issued), ~moved
               PROVE  Up /\ service = streak.def /\ proc.pid = streak.pid /\ streak.n >= Threshold
    OBVIOUS
  <2>1. Len(issued) \in Nat
    BY DEF TypeInv
  <2>2. issued' # issued /\ issued' # <<>>
    BY <2>1
  <2>3. Restart
    BY <2>2 DEF Next, PollStep, Poll, Look, LookAway, ProbeFails, ProbePasses, Refused, Admitted,
       RecheckFails, Verify, Deny, Charge, ChargeFails, Ready, Raises, Command, RecordAction, Job,
       Maintain, Edit, Pm2Moves, Tick, ControllerRestarts, history
  <2> QED BY <2>3, Numbers DEF Restart, FailedInv, Failed, Same
<1> QED BY <1>1, <1>2, InitTypes, StepTypes, StepFailed, PTL DEF Spec, RestartsWhatFailed

-----------------------------------------------------------------------------
(* The budget. *)

\* What has been granted: at the restart it is stored, but not made yet.
Granted == IF pc = "restart" THEN Append(issued, memory.last) ELSE issued

Ordered(times) ==
  /\ times \in Seq(Nat)
  /\ \A i, j \in 1..Len(times): i <= j => times[i] <= times[j]

\* As BudgetHolds, without counting.
Spaced(list) ==
  /\ \A i \in 2..Len(list): list[i] - list[i - 1] >= Cooldown
  /\ \A i \in PerHour + 1..Len(list): list[i - PerHour] <= list[i] - Hour

\* A restart in the last hour of t is not later than the attempt that stands for it, as
\* far from the end; and the last attempt is not earlier than the last restart.
Stands(times, list, i) ==
  \E n \in 1..Len(times): Len(times) - n = Len(list) - i /\ list[i] <= times[n]

Backed(h, list, t) ==
  /\ h \in History
  /\ Ordered(h.attempts)
  /\ \A i \in 1..Len(h.attempts): h.attempts[i] <= t
  /\ h.last # None => h.last <= t
  /\ \A i \in 1..Len(list): list[i] <= t - Hour \/ Stands(h.attempts, list, i)
  /\ Len(list) > 0 => h.last # None /\ list[Len(list)] <= h.last

BudgetInv ==
  /\ service = None => issued = <<>>
  /\ Ordered(Granted)
  /\ Spaced(Granted)
  /\ Backed(memory, Granted, now)
  /\ Backed(disk, Granted, now)

\* A set of numbers that is not empty has a least one.
LEMMA Least ==
  ASSUME NEW T \in SUBSET Nat, T # {}
  PROVE  \E m \in T: \A n \in T: m <= n
<1> DEFINE R == OpToRel(LAMBDA x, y: x < y, Nat)
<1>1. IsWellFoundedOn(R, Nat)
  BY NatLessThanWellFounded
<1>2. \A x, y \in Nat: x < y => <<x, y>> \in R
  BY DEF OpToRel
<1> HIDE DEF R
<1>3. PICK m \in T: \A n \in T: <<n, m>> \notin R
  BY <1>1, WFMin
<1>4. \A n \in T: ~(n < m)
  BY <1>2, <1>3, Zenon
<1> QED
  BY <1>4, SMT

\* The attempts of the last hour are the end of the list; those that are dropped are older.
LEMMA RecentFacts ==
  ASSUME now \in Nat, NEW times, Ordered(times)
  PROVE  \E k \in 0..Len(times):
           /\ Recent(times) \in Seq(Nat) /\ Len(Recent(times)) = Len(times) - k
           /\ \A i \in 1..Len(times) - k: Recent(times)[i] = times[i + k]
           /\ \A i \in 1..k: times[i] <= now - Hour
<1> DEFINE old == {i \in DOMAIN times: times[i] <= now - Hour}
           young == {i \in 1..Len(times) + 1: i = Len(times) + 1 \/ times[i] > now - Hour}
<1>1. times \in Seq(Nat) /\ Len(times) \in Nat /\ DOMAIN times = 1..Len(times) /\ Hour \in Nat
      /\ \A i \in 1..Len(times): times[i] \in Nat
  BY PolicyNat DEF Ordered
<1>2. Len(times) + 1 \in young /\ young \in SUBSET Nat
  BY <1>1
<1>3. PICK m \in young: \A n \in young: m <= n
  BY <1>2, Least
<1>4. m \in 1..Len(times) + 1
  BY <1>3
<1>5. old = 1..m - 1
  <2>1. ASSUME NEW i \in 1..Len(times), i < m
        PROVE  times[i] <= now - Hour
    BY <1>1, <1>3, <2>1
  <2>2. ASSUME NEW i \in 1..Len(times), i >= m
        PROVE  ~(times[i] <= now - Hour)
    <3>1. m \in 1..Len(times) /\ times[m] > now - Hour
      BY <1>1, <1>3, <2>2
    <3>2. times[m] <= times[i]
      BY <2>2, <3>1 DEF Ordered
    <3> QED
      BY <1>1, <3>1, <3>2
  <2> QED
    BY <1>1, <1>4, <2>1, <2>2
<1>6. Recent(times) = SubSeq(times, Cardinality(old) + 1, Len(times))
  BY DEF Recent
<1> HIDE DEF old, young
<1>7. Cardinality(old) = m - 1
  <2>1. 1 \in Int /\ m - 1 \in Int
    BY <1>1, <1>4
  <2>2. Cardinality(1..m - 1) = IF 1 > m - 1 THEN 0 ELSE (m - 1) - 1 + 1
    BY <2>1, FS_Interval
  <2> QED
    BY <1>1, <1>4, <1>5, <2>2
<1>8. PICK k \in 0..Len(times): k = m - 1
  BY <1>1, <1>4
<1>9. \A i \in 1..k: times[i] <= now - Hour
  BY <1>1, <1>5, <1>8 DEF old
<1>10. /\ Recent(times) \in Seq(Nat) /\ Len(Recent(times)) = Len(times) - k
       /\ \A i \in 1..Len(times) - k: Recent(times)[i] = times[i + k]
  <2>1. k + 1 \in Int /\ Len(times) \in Int /\ \A i \in k + 1..Len(times): times[i] \in Nat
    BY <1>1
  <2>2. /\ Recent(times) \in Seq(Nat)
        /\ Len(Recent(times)) = IF k + 1 <= Len(times) THEN Len(times) - (k + 1) + 1 ELSE 0
        /\ \A i \in 1..Len(times) - (k + 1) + 1: Recent(times)[i] = times[(k + 1) + i - 1]
    BY <1>6, <1>7, <1>8, <2>1, SubSeqProperties
  <2>3. Len(times) - (k + 1) + 1 = Len(times) - k
        /\ \A i \in 1..Len(times) - k: (k + 1) + i - 1 = i + k
    BY <1>1
  <2>4. Len(Recent(times)) = Len(times) - k
    <3>1. Len(Recent(times)) = IF k + 1 <= Len(times) THEN Len(times) - (k + 1) + 1 ELSE 0
      BY <2>2
    <3>2. Len(times) \in Nat
      BY <1>1
    <3> QED
      BY <3>1, <3>2
  <2> QED
    BY <2>2, <2>3, <2>4
<1> QED
  BY <1>9, <1>10

LEMMA BackedLater ==
  ASSUME NEW h, NEW list \in Seq(Nat), NEW s \in Nat, NEW t \in Nat, s <= t, Backed(h, list, s)
  PROVE  Backed(h, list, t)
<1>1. Hour \in Nat /\ h \in History
  BY PolicyNat DEF Backed
<1>2. /\ \A i \in 1..Len(list): list[i] \in Nat
      /\ \A i \in 1..Len(h.attempts): h.attempts[i] \in Nat
      /\ h.last # None => h.last \in Nat
  BY <1>1 DEF History
<1> QED
  BY <1>1, <1>2 DEF Backed

LEMMA BackedFresh ==
  ASSUME NEW t \in Nat
  PROVE  Backed(Fresh, <<>>, t)
BY DEF Backed, Fresh, History, Ordered

\* Dropping the attempts that are older than an hour.
LEMMA BackedRecent ==
  ASSUME now \in Nat, NEW h, NEW list \in Seq(Nat), Backed(h, list, now)
  PROVE  Backed([attempts |-> Recent(h.attempts), last |-> h.last], list, now)
<1> DEFINE a == h.attempts
           r == Recent(a)
<1>1. Hour \in Nat /\ h \in History /\ Ordered(a) /\ a \in Seq(Nat) /\ Len(a) \in Nat
  BY PolicyNat DEF Backed, History
<1>2. PICK k \in 0..Len(a):
        /\ r \in Seq(Nat) /\ Len(r) = Len(a) - k
        /\ \A i \in 1..Len(a) - k: r[i] = a[i + k]
        /\ \A i \in 1..k: a[i] <= now - Hour
  BY <1>1, RecentFacts
<1>3. \A i \in 1..Len(a): a[i] \in Nat /\ a[i] <= now
  BY <1>1 DEF Backed
<1>4. /\ \A i \in 1..Len(list): list[i] <= now - Hour \/ Stands(a, list, i)
      /\ h.last # None => h.last <= now
      /\ Len(list) > 0 => h.last # None /\ list[Len(list)] <= h.last
  BY DEF Backed
<1>5. \A i, j \in 1..Len(a): i <= j => a[i] <= a[j]
  BY <1>1 DEF Ordered
<1> HIDE DEF r, a
<1>6. ASSUME NEW i \in 1..Len(r)
      PROVE  i + k \in 1..Len(a) /\ r[i] = a[i + k]
  BY <1>1, <1>2
<1>7. Ordered(r) /\ \A i \in 1..Len(r): r[i] <= now
  <2>1. ASSUME NEW i \in 1..Len(r), NEW j \in 1..Len(r), i <= j
        PROVE  r[i] <= r[j]
    <3>1. i + k <= j + k
      BY <2>1
    <3> QED
      BY <1>5, <1>6, <3>1
  <2>2. ASSUME NEW i \in 1..Len(r)
        PROVE  r[i] <= now
    BY <1>3, <1>6
  <2> QED
    BY <1>2, <2>1, <2>2 DEF Ordered
<1>8. ASSUME NEW i \in 1..Len(list), NEW n \in 1..Len(a), Len(a) - n = Len(list) - i, list[i] <= a[n]
      PROVE  list[i] <= now - Hour \/ Stands(r, list, i)
  <2>1. CASE n <= k
    <3>1. a[n] <= now - Hour /\ a[n] \in Nat /\ list[i] \in Nat
      BY <1>2, <1>3, <2>1
    <3> QED
      BY <1>1, <1>8, <3>1
  <2>2. CASE n > k
    <3>1. PICK l \in 1..Len(r): l = n - k
      BY <1>1, <1>2, <2>2
    <3>2. r[l] = a[n] /\ Len(r) - l = Len(list) - i
      <4>1. l + k = n /\ Len(r) - l = Len(a) - n
        BY <1>1, <1>2, <3>1
      <4> QED
        BY <1>6, <1>8, <4>1
    <3> QED
      BY <1>8, <3>2 DEF Stands
  <2> QED
    BY <2>1, <2>2
<1>9. \A i \in 1..Len(list): list[i] <= now - Hour \/ Stands(r, list, i)
  BY <1>4, <1>8 DEF Stands
<1>10. [attempts |-> r, last |-> h.last] \in History
  BY <1>1, <1>2 DEF History
<1> QED
  BY <1>4, <1>7, <1>9, <1>10 DEF Backed, r, a

\* What a list is with one more.
LEMMA AppendFacts ==
  ASSUME NEW list \in Seq(Nat), NEW x \in Nat
  PROVE  /\ Append(list, x) \in Seq(Nat) /\ Len(Append(list, x)) = Len(list) + 1
         /\ Len(list) \in Nat
         /\ \A i \in 1..Len(list): Append(list, x)[i] = list[i] /\ list[i] \in Nat
         /\ Append(list, x)[Len(list) + 1] = x
  OBVIOUS

LEMMA OrderedMore ==
  ASSUME NEW list, Ordered(list), NEW x \in Nat, \A i \in 1..Len(list): list[i] <= x
  PROVE  Ordered(Append(list, x)) /\ \A i \in 1..Len(list) + 1: Append(list, x)[i] <= x
<1> DEFINE more == Append(list, x)
<1>1. list \in Seq(Nat) /\ \A i, j \in 1..Len(list): i <= j => list[i] <= list[j]
  BY DEF Ordered
<1>2. /\ more \in Seq(Nat) /\ Len(more) = Len(list) + 1 /\ Len(list) \in Nat
      /\ \A i \in 1..Len(list): more[i] = list[i]
      /\ more[Len(list) + 1] = x
  BY <1>1, AppendFacts
<1> HIDE DEF more
<1>3. ASSUME NEW i \in 1..Len(list) + 1
      PROVE  more[i] <= x
  <2>1. CASE i = Len(list) + 1
    BY <1>2, <2>1
  <2>2. CASE i \in 1..Len(list)
    BY <1>2, <2>2
  <2> QED
    BY <1>2, <2>1, <2>2
<1>4. ASSUME NEW i \in 1..Len(list) + 1, NEW j \in 1..Len(list) + 1, i <= j
      PROVE  more[i] <= more[j]
  <2>1. CASE j = Len(list) + 1
    BY <1>2, <1>3, <2>1
  <2>2. CASE j # Len(list) + 1
    <3>1. i \in 1..Len(list) /\ j \in 1..Len(list)
      BY <1>2, <1>4, <2>2
    <3> QED
      BY <1>1, <1>2, <1>4, <3>1
  <2> QED
    BY <2>1, <2>2
<1> QED
  BY <1>2, <1>3, <1>4 DEF Ordered, more

\* An attempt that is not made after all.
LEMMA BackedLess ==
  ASSUME NEW h, NEW list \in Seq(Nat), NEW x \in Nat, NEW t \in Nat,
         Ordered(Append(list, x)), Backed(h, Append(list, x), t)
  PROVE  Backed(h, list, t)
<1> DEFINE more == Append(list, x)
           a == h.attempts
<1>1. /\ Len(more) = Len(list) + 1 /\ Len(list) \in Nat
      /\ \A i \in 1..Len(list): more[i] = list[i] /\ list[i] \in Nat
      /\ more[Len(list) + 1] = x
  BY AppendFacts
<1>2. /\ h \in History /\ Ordered(a) /\ Hour \in Nat /\ (h.last # None => h.last <= t)
      /\ \A i \in 1..Len(a): a[i] <= t
  BY PolicyNat DEF Backed
<1>3. \A i \in 1..Len(more): more[i] <= t - Hour \/ Stands(a, more, i)
  BY DEF Backed
<1>4. h.last # None /\ more[Len(more)] <= h.last
  <2>1. Len(more) > 0
    BY <1>1
  <2> QED
    BY <2>1 DEF Backed
<1>5. \A i, j \in 1..Len(more): i <= j => more[i] <= more[j]
  BY DEF Ordered
<1>6. h.last \in Nat /\ Len(a) \in Nat /\ \A i \in 1..Len(a): a[i] \in Nat
  BY <1>2, <1>4 DEF History
<1> HIDE DEF more, a
\* The next restart is not earlier, and stands nearer to the end.
<1>7. ASSUME NEW i \in 1..Len(list)
      PROVE  /\ i \in 1..Len(more) /\ i + 1 \in 1..Len(more)
             /\ list[i] = more[i] /\ list[i] \in Nat /\ more[i + 1] \in Nat /\ list[i] <= more[i + 1]
  <2>1. i \in 1..Len(more) /\ i + 1 \in 1..Len(more) /\ i <= i + 1
    BY <1>1
  <2>2. list[i] = more[i] /\ list[i] \in Nat /\ more[i] <= more[i + 1]
    BY <1>1, <1>5, <2>1
  <2>3. more[i + 1] \in Nat
    <3>1. CASE i + 1 = Len(list) + 1
      BY <1>1, <3>1
    <3>2. CASE i + 1 \in 1..Len(list)
      BY <1>1, <3>2
    <3> QED
      BY <1>1, <3>1, <3>2
  <2> QED
    BY <2>1, <2>2, <2>3
<1>8. ASSUME NEW i \in 1..Len(list)
      PROVE  list[i] <= t - Hour \/ Stands(a, list, i)
  <2>1. CASE more[i + 1] <= t - Hour
    <3>1. list[i] \in Nat /\ more[i + 1] \in Nat /\ list[i] <= more[i + 1]
      BY <1>7
    <3> QED
      BY <1>2, <2>1, <3>1
  <2>2. CASE Stands(a, more, i + 1)
    <3>1. PICK n \in 1..Len(a): Len(a) - n = Len(more) - (i + 1) /\ more[i + 1] <= a[n]
      BY <2>2 DEF Stands
    <3>2. Len(a) - n = Len(list) - i
      <4>1. Len(more) = Len(list) + 1 /\ Len(list) \in Nat /\ Len(a) \in Nat
        BY <1>1, <1>6
      <4>2. Len(a) - n = Len(more) - (i + 1)
        BY <3>1
      <4> QED
        BY <4>1, <4>2
    <3>3. list[i] <= a[n]
      <4>1. list[i] \in Nat /\ more[i + 1] \in Nat /\ a[n] \in Nat /\ list[i] <= more[i + 1]
        BY <1>6, <1>7
      <4> QED
        BY <3>1, <4>1
    <3> QED
      BY <3>2, <3>3 DEF Stands
  <2> QED
    BY <1>3, <1>7, <2>1, <2>2
<1>9. Len(list) > 0 => list[Len(list)] <= h.last
  <2>1. ASSUME Len(list) > 0
        PROVE  list[Len(list)] <= h.last
    <3>1. Len(list) \in 1..Len(list) /\ Len(list) + 1 = Len(more)
      BY <1>1, <2>1
    <3>2. /\ list[Len(list)] <= more[Len(more)]
          /\ list[Len(list)] \in Nat /\ more[Len(more)] \in Nat
      BY <1>7, <3>1
    <3> QED
      BY <1>4, <1>6, <3>2
  <2> QED
    BY <2>1
<1> QED
  BY <1>2, <1>4, <1>8, <1>9 DEF Backed, a

\* An attempt more, granted now.
LEMMA BackedMore ==
  ASSUME now \in Nat, NEW list \in Seq(Nat), Backed(memory, list, now)
  PROVE  Backed(Charged, Append(list, now), now)
<1> DEFINE r == Recent(memory.attempts)
           a == Append(r, now)
           more == Append(list, now)
<1>1. Backed([attempts |-> r, last |-> memory.last], list, now)
  BY BackedRecent
<1>2. /\ r \in Seq(Nat) /\ Ordered(r) /\ \A i \in 1..Len(r): r[i] <= now
      /\ \A i \in 1..Len(list): list[i] <= now - Hour \/ Stands(r, list, i)
  BY <1>1 DEF Backed, Ordered
<1> HIDE DEF r
<1>3. /\ a \in Seq(Nat) /\ Len(a) = Len(r) + 1 /\ a[Len(r) + 1] = now
      /\ \A i \in 1..Len(r): a[i] = r[i] /\ r[i] \in Nat
      /\ Len(r) \in Nat
  BY <1>2, AppendFacts
<1>4. /\ Len(more) = Len(list) + 1 /\ more[Len(list) + 1] = now
      /\ \A i \in 1..Len(list): more[i] = list[i] /\ list[i] \in Nat
      /\ Len(list) \in Nat
  BY AppendFacts
<1>5. Ordered(a) /\ \A i \in 1..Len(r) + 1: a[i] <= now
  BY <1>2, OrderedMore
<1> HIDE DEF a, more
<1>6. ASSUME NEW i \in 1..Len(list) + 1
      PROVE  more[i] <= now - Hour \/ Stands(a, more, i)
  <2>1. CASE i = Len(list) + 1
    <3>1. Len(a) \in 1..Len(a) /\ Len(a) - Len(a) = Len(more) - i
      BY <1>3, <1>4, <2>1
    <3>2. more[i] <= a[Len(a)]
      BY <1>3, <1>4, <2>1
    <3> QED
      BY <3>1, <3>2 DEF Stands
  <2>2. CASE i \in 1..Len(list) /\ Stands(r, list, i)
    <3>1. PICK n \in 1..Len(r): Len(r) - n = Len(list) - i /\ list[i] <= r[n]
      BY <2>2 DEF Stands
    <3>2. n \in 1..Len(a) /\ Len(a) - n = Len(more) - i
      <4>1. /\ Len(more) = Len(list) + 1 /\ Len(list) \in Nat
            /\ Len(a) = Len(r) + 1 /\ Len(r) \in Nat
        BY <1>3, <1>4
      <4>2. Len(r) - n = Len(list) - i
        BY <3>1
      <4> QED
        BY <4>1, <4>2
    <3>3. more[i] <= a[n]
      BY <1>3, <1>4, <2>2, <3>1
    <3> QED
      BY <3>2, <3>3 DEF Stands
  <2>3. CASE i \in 1..Len(list) /\ list[i] <= now - Hour
    BY <1>4, <2>3
  <2> QED
    BY <1>2, <1>4, <2>1, <2>2, <2>3
<1>7. [attempts |-> a, last |-> now] \in History
  BY <1>3 DEF History
<1>8. Backed([attempts |-> a, last |-> now], more, now)
  <2>1. now # None
    BY NoneDistinct
  <2>2. more[Len(more)] <= now
    BY <1>4
  <2> QED
    BY <1>3, <1>4, <1>5, <1>6, <1>7, <2>1, <2>2 DEF Backed
<1> QED
  BY <1>8 DEF Charged, a, more, r

\* Without restarts there is nothing to back.
LEMMA BackedNothing ==
  ASSUME NEW h, NEW list \in Seq(Nat), NEW t \in Nat, Backed(h, list, t)
  PROVE  Backed(h, <<>>, t)
BY DEF Backed

\* What is not denied keeps to the budget.
LEMMA SpacedMore ==
  ASSUME now \in Nat, NEW list, Ordered(list), Spaced(list), Backed(memory, list, now), ~Exhausted
  PROVE  /\ Spaced(Append(list, now))
         /\ \A i \in 1..Len(list): list[i] <= now
<1> DEFINE more == Append(list, now)
           r == Recent(memory.attempts)
<1>1. /\ list \in Seq(Nat) /\ memory \in History
      /\ Hour \in Nat /\ PerHour \in Nat \ {0} /\ Cooldown \in Nat
  BY PolicyNat DEF Ordered, Backed
<1>2. /\ more \in Seq(Nat) /\ Len(more) = Len(list) + 1 /\ Len(list) \in Nat
      /\ \A i \in 1..Len(list): more[i] = list[i] /\ list[i] \in Nat
      /\ more[Len(list) + 1] = now
  BY <1>1, AppendFacts
<1>3. Len(r) < PerHour /\ (memory.last # None => ~(now - memory.last < Cooldown))
  <2>1. r \in Seq(Nat)
    BY <1>1, BackedRecent DEF Backed, Ordered
  <2>2. Len(r) \in Nat /\ ~(Len(r) >= PerHour)
    BY <2>1 DEF Exhausted
  <2> QED
    BY <1>1, <2>2 DEF Exhausted
<1>4. \A i \in 1..Len(list): list[i] <= now - Hour \/ Stands(r, list, i)
  BY <1>1, BackedRecent DEF Backed
<1>5. Len(list) > 0 => /\ list[Len(list)] <= memory.last /\ memory.last <= now
                       /\ memory.last \in Nat
  BY <1>1 DEF Backed, History
<1>6. \A i, j \in 1..Len(list): i <= j => list[i] <= list[j]
  BY DEF Ordered
<1> HIDE DEF more, r
<1>7. ASSUME NEW i \in 1..Len(list)
      PROVE  list[i] <= now
  <2>1. Len(list) > 0 /\ i <= Len(list) /\ Len(list) \in 1..Len(list)
    BY <1>2
  <2>2. list[i] <= list[Len(list)] /\ list[i] \in Nat /\ list[Len(list)] \in Nat
    BY <1>2, <1>6, <2>1
  <2>3. list[Len(list)] <= memory.last /\ memory.last <= now /\ memory.last \in Nat
    BY <1>5, <2>1
  <2> QED
    BY <2>2, <2>3
<1>8. ASSUME NEW i \in 2..Len(list) + 1
      PROVE  more[i] - more[i - 1] >= Cooldown
  <2>1. CASE i = Len(list) + 1
    <3>1. Len(list) \in 1..Len(list) /\ i - 1 = Len(list) /\ Len(list) > 0
      BY <1>2, <2>1
    <3>2. more[i] = now /\ more[i - 1] = list[Len(list)] /\ list[Len(list)] \in Nat
      BY <1>2, <2>1, <3>1
    <3>3. /\ list[Len(list)] <= memory.last /\ memory.last \in Nat
          /\ ~(now - memory.last < Cooldown)
      BY <1>3, <1>5, <3>1, NoneDistinct
    <3> QED
      BY <1>1, <3>2, <3>3
  <2>2. CASE i # Len(list) + 1
    <3>1. i \in 2..Len(list) /\ i \in 1..Len(list) /\ i - 1 \in 1..Len(list)
      BY <1>2, <2>2
    <3>2. list[i] - list[i - 1] >= Cooldown
      BY <3>1 DEF Spaced
    <3> QED
      BY <1>2, <3>1, <3>2
  <2> QED
    BY <2>1, <2>2
<1>9. ASSUME NEW i \in PerHour + 1..Len(list) + 1
      PROVE  more[i - PerHour] <= more[i] - Hour
  <2>1. i - PerHour \in 1..Len(list) /\ i \in 1..Len(list) + 1
    BY <1>1, <1>2
  <2>2. CASE i = Len(list) + 1
    <3>1. ~Stands(r, list, i - PerHour)
      <4>1. ASSUME NEW n \in 1..Len(r), Len(r) - n = Len(list) - (i - PerHour)
            PROVE  FALSE
        <5>1. Len(list) - (i - PerHour) = PerHour - 1
          <6>1. Len(list) \in Nat
            BY <1>2
          <6> QED
            BY <1>1, <2>2, <6>1
        <5>2. Len(r) < PerHour /\ Len(r) \in Nat
          BY <1>1, <1>3, BackedRecent DEF Backed, Ordered, r
        <5> QED
          BY <1>1, <4>1, <5>1, <5>2
      <4> QED
        BY <4>1 DEF Stands
    <3>2. list[i - PerHour] <= now - Hour
      BY <1>4, <2>1, <3>1
    <3> QED
      BY <1>2, <2>1, <2>2, <3>2
  <2>3. CASE i # Len(list) + 1
    <3>1. i \in PerHour + 1..Len(list) /\ i \in 1..Len(list)
      BY <1>1, <1>2, <2>3
    <3>2. list[i - PerHour] <= list[i] - Hour
      BY <3>1 DEF Spaced
    <3> QED
      BY <1>2, <2>1, <3>1, <3>2
  <2> QED
    BY <2>2, <2>3
<1> QED
  BY <1>2, <1>7, <1>8, <1>9 DEF Spaced, more

\* _persist keeps what backs the restarts of the registered service.
LEMMA PersistBacked ==
  ASSUME TypeInv, BudgetInv, pc # "restart",
         Persist(memory) \/ PersistFails(memory) \/ UNCHANGED <<memory, disk>>
  PROVE  Backed(memory', issued, now) /\ Backed(disk', issued, now)
<1>1. now \in Nat /\ Granted = issued
  BY DEF TypeInv, PollOK, Granted
<1>2. Backed(memory, issued, now) /\ Backed(disk, issued, now)
  BY <1>1 DEF BudgetInv
<1>3. CASE service = None
  <2>1. issued = <<>>
    BY <1>3 DEF BudgetInv
  <2>2. memory' \in {memory, Fresh} /\ disk' \in {disk, Fresh}
    BY <1>3 DEF Persist, PersistFails, Kept
  <2> QED
    BY <1>1, <1>2, <2>1, <2>2, BackedFresh
<1>4. CASE service # None
  <2>1. memory' = memory /\ disk' \in {disk, memory}
    BY <1>4 DEF Persist, PersistFails, Kept
  <2> QED
    BY <1>2, <2>1
<1> QED
  BY <1>3, <1>4

\* What has been granted and not been made yet left out.
LEMMA IssuedFacts ==
  ASSUME TypeInv, BudgetInv
  PROVE  Ordered(issued) /\ Spaced(issued) /\ Backed(disk, issued, now)
<1>1. /\ Ordered(Granted) /\ Spaced(Granted) /\ Backed(disk, Granted, now)
      /\ now \in Nat /\ issued \in Seq(Nat)
      /\ pc = "restart" => memory.last \in Nat
  BY DEF TypeInv, PollOK, BudgetInv
<1>2. CASE pc # "restart"
  BY <1>1, <1>2 DEF Granted
<1>3. CASE pc = "restart"
  <2>1. Granted = Append(issued, memory.last) /\ memory.last \in Nat
    BY <1>1, <1>3 DEF Granted
  <2>2. Backed(disk, issued, now)
    BY <1>1, <2>1, BackedLess
  <2>3. /\ Len(Granted) = Len(issued) + 1 /\ Len(issued) \in Nat /\ PerHour \in Nat
        /\ \A i \in 1..Len(issued): Granted[i] = issued[i]
    BY <1>1, <2>1, AppendFacts, PolicyNat
  <2>4. Ordered(issued)
    BY <1>1, <2>3 DEF Ordered
  <2>5. ASSUME NEW i \in 2..Len(issued)
        PROVE  issued[i] - issued[i - 1] >= Cooldown
    <3>1. i \in 2..Len(Granted) /\ i \in 1..Len(issued) /\ i - 1 \in 1..Len(issued)
      BY <2>3
    <3> QED
      BY <1>1, <2>3, <3>1 DEF Spaced
  <2>6. ASSUME NEW i \in PerHour + 1..Len(issued)
        PROVE  issued[i - PerHour] <= issued[i] - Hour
    <3>1. i \in PerHour + 1..Len(Granted) /\ i \in 1..Len(issued) /\ i - PerHour \in 1..Len(issued)
      BY <2>3
    <3> QED
      BY <1>1, <2>3, <3>1 DEF Spaced
  <2> QED
    BY <2>2, <2>4, <2>5, <2>6 DEF Spaced
<1> QED
  BY <1>2, <1>3

LEMMA StepBudget == TypeInv /\ BudgetInv /\ [Next]_vars => BudgetInv'
<1> SUFFICES ASSUME TypeInv, BudgetInv, [Next]_vars PROVE BudgetInv'
  OBVIOUS
<1>1. /\ now \in Nat /\ issued \in Seq(Nat) /\ Granted \in Seq(Nat)
      /\ pc = "restart" => service # None /\ lock = "poll" /\ memory.last \in Nat
  BY NoneDistinct, AppendFacts DEF TypeInv, PollOK, Granted
<1>2. /\ service = None => issued = <<>>
      /\ Ordered(Granted) /\ Spaced(Granted)
      /\ Backed(memory, Granted, now) /\ Backed(disk, Granted, now)
  BY DEF BudgetInv
\* What is left to show where the restarts, the service and the time stay what they are.
<1>3. ASSUME Granted' = Granted, UNCHANGED <<service, issued, now>>,
             Backed(memory', Granted, now), Backed(disk', Granted, now)
      PROVE  BudgetInv'
  BY <1>2, <1>3 DEF BudgetInv
<1>4. ASSUME UNCHANGED <<service, issued, memory, disk, now>>,
             pc' = pc \/ (pc # "restart" /\ pc' # "restart")
      PROVE  BudgetInv'
  <2>1. Granted' = Granted
    BY <1>4 DEF Granted
  <2> QED
    BY <1>2, <1>3, <1>4, <2>1
<1>5. ASSUME UNCHANGED <<service, issued, now>>, pc # "restart", pc' # "restart",
             Persist(memory) \/ PersistFails(memory) \/ UNCHANGED <<memory, disk>>
      PROVE  BudgetInv'
  <2>1. Granted' = Granted /\ Granted = issued
    BY <1>5 DEF Granted
  <2> QED
    BY <1>3, <1>5, <2>1, PersistBacked
<1> USE DEF world, history
<1>6. CASE Poll
  <2>1. pc = "idle" /\ pc' \in {"idle", "look"}
    BY <1>6 DEF Poll
  <2> QED
    BY <1>5, <1>6, <2>1 DEF Poll
<1>7. CASE LookAway \/ ProbePasses \/ Refused \/ Deny \/ Raises
  BY <1>4, <1>7 DEF LookAway, ProbePasses, Refused, Deny, Raises, Leave, Rest
<1>8. CASE Look \/ Admitted \/ RecheckFails
  BY <1>4, <1>8 DEF Look, Admitted, RecheckFails
<1>9. CASE ProbeFails \/ Verify
  <2>1. pc \in {"probe", "verify"} /\ UNCHANGED <<service, issued, memory, disk, now>>
    BY <1>9 DEF ProbeFails, Verify
  <2>2. pc' \in {"idle", "request", "budget"}
    BY <1>9 DEF ProbeFails, Verify, Leave, Rest
  <2> QED
    BY <1>4, <2>1, <2>2
<1>10. ASSUME pc = "budget", ~Exhausted
       PROVE  /\ Granted = issued
              /\ Ordered(Append(issued, now)) /\ Spaced(Append(issued, now))
              /\ Backed(Charged, Append(issued, now), now)
  <2>1. Granted = issued
    BY <1>10 DEF Granted
  <2> QED
    BY <1>1, <1>2, <1>10, <2>1, SpacedMore, OrderedMore, BackedMore
<1>11. CASE Charge
  <2>1. /\ pc = "budget" /\ ~Exhausted /\ pc' = "restart" /\ service # None
        /\ UNCHANGED <<service, issued, now>>
    BY <1>11 DEF Charge, TypeInv
  <2>2. memory' = Charged /\ disk' = Charged /\ Charged.last = now
    BY <1>11, <2>1 DEF Charge, Persist, Kept, Charged
  <2>3. Granted' = Append(issued, now)
    BY <2>1, <2>2 DEF Granted
  <2>4. /\ Ordered(Append(issued, now)) /\ Spaced(Append(issued, now))
        /\ Backed(Charged, Append(issued, now), now)
    BY <1>10, <2>1
  <2> QED
    BY <1>2, <2>1, <2>2, <2>3, <2>4 DEF BudgetInv
<1>12. CASE ChargeFails
  <2>1. /\ pc = "budget" /\ ~Exhausted /\ pc' = "idle" /\ service # None
        /\ UNCHANGED <<service, issued, now>>
    BY <1>12 DEF ChargeFails, Leave, Rest, TypeInv
  <2>2. memory' = Charged /\ disk' = disk
    BY <1>12, <2>1 DEF ChargeFails, PersistFails, Kept
  <2>3. Granted' = issued /\ Granted = issued
    BY <2>1 DEF Granted
  <2>4. Backed(Charged, issued, now)
    BY <1>1, <1>10, <2>1, BackedLess
  <2> QED
    BY <1>2, <1>3, <2>1, <2>2, <2>3, <2>4
<1>13. CASE Restart
  <2>1. /\ pc = "restart" /\ pc' \in {"ready", "idle"} /\ UNCHANGED <<service, now>>
        /\ issued' = Append(issued, memory.last)
    BY <1>13 DEF Restart, Leave, Rest
  <2>2. memory' = memory /\ disk' \in {disk, memory} /\ service # None
    BY <1>1, <1>13, <2>1 DEF Restart, Persist, PersistFails, Kept
  <2>3. Granted = issued' /\ Granted' = issued'
    BY <2>1 DEF Granted
  <2> QED
    BY <1>2, <2>1, <2>2, <2>3 DEF BudgetInv
<1>14. CASE Ready
  <2>1. pc = "ready" /\ pc' = "idle"
    BY <1>14 DEF Ready, Rest
  <2> QED
    BY <1>5, <1>14, <2>1 DEF Ready
<1>15. CASE RecordAction
  <2>1. pc # "restart" /\ pc' = pc
    BY <1>1, <1>15 DEF RecordAction, ours
  <2> QED
    BY <1>5, <1>15, <2>1 DEF RecordAction
<1>16. CASE Command \/ Job \/ Maintain \/ Pm2Moves
  BY <1>4, <1>16 DEF Command, Job, Maintain, Pm2Moves, ours
<1>17. CASE Edit
  <2>1. pc # "restart" /\ UNCHANGED <<pc, memory, disk, now>>
    BY <1>1, <1>17, NoneDistinct DEF Edit, ours
  <2>2. Granted = issued /\ Granted' = issued'
    BY <2>1 DEF Granted
  <2>3. CASE issued' = issued /\ service' # None
    BY <1>2, <2>1, <2>2, <2>3 DEF BudgetInv
  <2>4. CASE issued' = <<>>
    <3>1. Backed(memory, <<>>, now) /\ Backed(disk, <<>>, now)
      BY <1>1, <1>2, BackedNothing
    <3>2. Ordered(<<>>) /\ Spaced(<<>>)
      BY PolicyNat DEF Ordered, Spaced
    <3> QED
      BY <2>1, <2>2, <2>4, <3>1, <3>2 DEF BudgetInv
  <2>5. issued' = <<>> \/ (issued' = issued /\ service' # None)
    BY <1>17 DEF Edit
  <2> QED
    BY <2>3, <2>4, <2>5
<1>18. CASE Tick
  <2>1. now' = now + 1 /\ UNCHANGED <<pc, service, issued, memory, disk>>
    BY <1>18 DEF Tick
  <2>2. Granted' = Granted /\ now + 1 \in Nat /\ now <= now + 1
    BY <1>1, <2>1 DEF Granted
  <2>3. Backed(memory, Granted, now + 1) /\ Backed(disk, Granted, now + 1)
    BY <1>1, <1>2, <2>2, BackedLater
  <2> QED
    BY <1>2, <2>1, <2>2, <2>3 DEF BudgetInv
<1>19. CASE ControllerRestarts
  <2>1. pc' = "idle" /\ UNCHANGED <<service, issued, disk, now>> /\ memory' = Loaded
    BY <1>19 DEF ControllerRestarts, Rest
  <2>2. Granted' = issued
    BY <2>1 DEF Granted
  <2>3. Ordered(issued) /\ Spaced(issued) /\ Backed(disk, issued, now)
    BY IssuedFacts
  <2>4. Backed(memory', issued, now)
    <3>1. CASE service = None
      BY <1>1, <1>2, <2>1, <3>1, BackedFresh DEF Loaded
    <3>2. CASE service # None
      BY <1>1, <2>1, <2>3, <3>2, BackedRecent DEF Loaded
    <3> QED
      BY <3>1, <3>2
  <2> QED
    BY <1>2, <2>1, <2>2, <2>3, <2>4 DEF BudgetInv
<1>20. CASE UNCHANGED vars
  BY <1>4, <1>20 DEF vars
<1> QED
  BY <1>6, <1>7, <1>8, <1>9, <1>11, <1>12, <1>13, <1>14, <1>15, <1>16, <1>17, <1>18, <1>19,
     <1>20 DEF Next, PollStep

LEMMA BudgetHeld == Spec => [](TypeInv /\ BudgetInv)
<1>1. Init => BudgetInv
  <2> SUFFICES ASSUME Init PROVE BudgetInv
    OBVIOUS
  <2>1. now \in Nat /\ Granted = <<>> /\ issued = <<>> /\ memory = Fresh /\ disk = Fresh
    BY DEF Init, Granted
  <2>2. Ordered(<<>>) /\ Spaced(<<>>)
    BY PolicyNat DEF Ordered, Spaced
  <2> QED
    BY <2>1, <2>2, BackedFresh DEF BudgetInv
<1> QED
  BY <1>1, InitTypes, StepTypes, StepBudget, PTL DEF Spec

\* The variables have their types, what is stored included.
THEOREM TypesCorrect == Spec => []TypeOK
<1>1. TypeInv /\ BudgetInv => TypeOK
  BY DEF TypeInv, BudgetInv, Backed, TypeOK
<1> QED
  BY <1>1, BudgetHeld, PTL

\* In no hour are there more restarts of the service than PerHour, and between two of them
\* the cooldown passes, whatever write fails and whenever the controller dies: a restart is
\* charged in the memory and on disk before it is made, and neither forgets it in time.
THEOREM BudgetIsKept == Spec => []BudgetHolds
<1>1. TypeInv /\ BudgetInv => BudgetHolds
  <2> SUFFICES ASSUME TypeInv, BudgetInv, NEW i \in DOMAIN issued
               PROVE  /\ Cardinality({j \in 1..i: issued[j] > issued[i] - Hour}) <= PerHour
                      /\ i > 1 => issued[i] - issued[i - 1] >= Cooldown
    BY DEF BudgetHolds
  <2> DEFINE late == {j \in 1..i: issued[j] > issued[i] - Hour}
  <2>1. issued \in Seq(Nat) /\ Len(issued) \in Nat /\ i \in 1..Len(issued)
        /\ PerHour \in Nat \ {0} /\ Hour \in Nat
    BY PolicyNat DEF TypeInv
  <2>2. /\ \A j \in 2..Len(issued): issued[j] - issued[j - 1] >= Cooldown
        /\ \A j \in PerHour + 1..Len(issued): issued[j - PerHour] <= issued[j] - Hour
        /\ \A j, k \in 1..Len(issued): j <= k => issued[j] <= issued[k]
        /\ \A j \in 1..Len(issued): issued[j] \in Nat
    BY <2>1, IssuedFacts DEF Ordered, Spaced
  <2>3. ASSUME NEW j \in 1..i, issued[j] > issued[i] - Hour, j < i - PerHour + 1
        PROVE  FALSE
    <3>1. /\ i \in PerHour + 1..Len(issued) /\ i - PerHour \in 1..Len(issued)
          /\ j \in 1..Len(issued) /\ j <= i - PerHour
      <4>1. /\ i \in Nat /\ PerHour \in Nat /\ Len(issued) \in Nat
            /\ i <= Len(issued) /\ j < i - PerHour + 1
        BY <2>1, <2>3
      <4> QED
        BY <4>1
    <3>2. issued[j] <= issued[i - PerHour] /\ issued[i - PerHour] <= issued[i] - Hour
      BY <2>2, <3>1
    <3>3. issued[j] \in Nat /\ issued[i - PerHour] \in Nat /\ issued[i] \in Nat
      BY <2>1, <2>2, <3>1
    <3>4. Hour \in Nat
      BY <2>1
    <3> QED
      BY <2>3, <3>2, <3>3, <3>4
  <2>4. late \subseteq i - PerHour + 1..i
    <3> SUFFICES ASSUME NEW j \in late PROVE j \in i - PerHour + 1..i
      OBVIOUS
    <3>1. j \in 1..i /\ ~(j < i - PerHour + 1)
      BY <2>3
    <3>2. i \in Nat /\ PerHour \in Nat
      BY <2>1
    <3> QED
      BY <3>1, <3>2
  <2>5. Cardinality(late) <= PerHour
    <3>1. i - PerHour + 1 \in Int /\ i \in Int
      BY <2>1
    <3>2. IsFiniteSet(i - PerHour + 1..i) /\ Cardinality(i - PerHour + 1..i) = PerHour
      <4>1. /\ IsFiniteSet(i - PerHour + 1..i)
            /\ Cardinality(i - PerHour + 1..i)
                 = IF i - PerHour + 1 > i THEN 0 ELSE i - (i - PerHour + 1) + 1
        BY <3>1, FS_Interval
      <4> QED
        BY <2>1, <4>1
    <3> QED
      BY <2>4, <3>2, FS_Subset
  <2>6. i > 1 => issued[i] - issued[i - 1] >= Cooldown
    BY <2>1, <2>2
  <2> QED
    BY <2>5, <2>6
<1> QED
  BY <1>1, BudgetHeld, PTL

=============================================================================
