--------------------------- MODULE ActionRunsProofs ---------------------------
(***************************************************************************)
(* Proofs about ActionRuns for any number of runs and lines and any limits:  *)
(* a finished run has a complete log, a log in use is not deleted, no more   *)
(* logs are kept than asked for, what is not finished stays known, and what  *)
(* was cancelled stays cancelled.                                            *)
(***************************************************************************)
EXTENDS ActionRuns, FiniteSetTheorems, WellFoundedInduction, TLAPS

\* Types, as far as what is in the logs depends on them: the table of runs and the order
\* of the logs on disk come later.
Typed ==
  /\ child \in [Runs -> {"none", "alive", "exited", "reaped"}]
  /\ success \in [Runs -> BOOLEAN] /\ holder \in [Runs -> BOOLEAN]
  /\ said \in [Runs -> Nat] /\ pipe \in [Runs -> Nat]
  /\ reader \in [Runs -> {"none", "reading", "done"}]
  /\ open \subseteq Runs
  /\ file \in [Runs -> Log \cup {None}]
  /\ status \in [Runs -> Status \cup {"none"}]
  /\ waiter \in [Runs -> {"none", "wait", "drain", "close", "finish", "done"}]
  /\ footer \in [Runs -> Final \cup {None}]
  /\ canceller \in [Runs -> {"none", "marked", "note", "int", "term", "kill", "done", "failed"}]

\* A run is captured from its start until its log is closed, and its log is there so long.
Captured == \A r \in Runs:
  /\ r \in open <=> waiter[r] \in {"wait", "drain", "close"}
  /\ r \in open => file[r] \in Log
  /\ child[r] = "none" <=> waiter[r] = "none"
  /\ child[r] = "none" <=> status[r] = "none"
  /\ canceller[r] # "none" => status[r] = "cancelled"

TypeInv == Typed /\ Captured

LEMMA NoneFacts ==
  /\ None \notin Log
  /\ \A r: Result(r) \in {"succeeded", "failed"}
BY NoneDistinct DEF Status, Final, Result, Log

LEMMA SetFlag ==
  ASSUME NEW f \in [Runs -> BOOLEAN], NEW r \in Runs, NEW b \in BOOLEAN
  PROVE  [f EXCEPT ![r] = b] \in [Runs -> BOOLEAN]
OBVIOUS

\* A log that somebody else writes to is not deleted.
LEMMA OthersKept == \A r, x \in Runs: x \in Excess(r) => x = r \/ x \notin open
BY DEF Excess, Idle

LEMMA InitTypes == Init => TypeInv
BY NoneDistinct DEF Init, TypeInv, Typed, Captured, Status

LEMMA StepTypes == TypeInv /\ [Next]_vars => TypeInv'
<1> SUFFICES ASSUME TypeInv, [Next]_vars PROVE TypeInv'
  OBVIOUS
<1> USE DEF process, logs, runs, TypeInv
<1>1. ASSUME NEW r \in Runs, Start(r) PROVE TypeInv'
  <2>1. NewLog \in Log
    BY DEF NewLog, Log
  <2> QED BY <1>1, <2>1 DEF Start, Typed, Captured, Status
<1>2. ASSUME NEW r \in Runs, Speak(r) \/ ReadEof(r) \/ Reap(r) PROVE TypeInv'
  BY <1>2 DEF Speak, ReadEof, Reap, Typed, Captured
<1>3. ASSUME NEW r \in Runs, Exit(r) \/ HolderExits(r) PROVE TypeInv'
  <2>0. {FALSE, (r \in Eventful)} \subseteq BOOLEAN
    OBVIOUS
  <2>1. success' \in [Runs -> BOOLEAN] /\ holder' \in [Runs -> BOOLEAN]
    <3>1. CASE HolderExits(r)
      BY <3>1, SetFlag DEF HolderExits, Typed
    <3>2. CASE Exit(r)
      <4>1. PICK b \in BOOLEAN: success' = [success EXCEPT ![r] = b]
        BY <3>2 DEF Exit
      <4>2. PICK c \in BOOLEAN: holder' = [holder EXCEPT ![r] = c]
        BY <2>0, <3>2, Zenon DEF Exit
      <4> QED BY <4>1, <4>2, SetFlag DEF Typed
    <3> QED BY <1>3, <3>1, <3>2
  <2>2. /\ child' = child \/ (child[r] = "alive" /\ child' = [child EXCEPT ![r] = "exited"])
        /\ UNCHANGED <<said, pipe, reader, open, file, status, waiter, footer, canceller>>
    BY <1>3 DEF Exit, HolderExits
  <2> QED BY <2>1, <2>2 DEF Typed, Captured
<1>4. ASSUME NEW r \in Runs, ReadLine(r) PROVE TypeInv'
  <2>1. CASE r \in open
    <3>1. file[r] \in Log
      BY <2>1 DEF Captured
    <3>2. file' \in [Runs -> Log \cup {None}] /\ (\A x \in open: file'[x] \in Log)
      BY <1>4, <2>1, <3>1 DEF ReadLine, Typed, Captured, Log
    <3>3. pipe' \in [Runs -> Nat]
      BY <1>4 DEF ReadLine, Typed
    <3> QED BY <1>4, <2>1, <3>2, <3>3 DEF ReadLine, Typed, Captured
  <2>2. CASE r \notin open
    BY <1>4, <2>2 DEF ReadLine, Typed, Captured
  <2> QED BY <2>1, <2>2
<1>6. ASSUME NEW r \in Runs, Drain(r) PROVE TypeInv'
  <2>1. Footer(r) \in Final
    BY <1>6, NoneFacts DEF Drain, Footer, Typed, Captured, Final, Status
  <2> QED BY <1>6, <2>1 DEF Drain, Typed, Captured
<1>7. ASSUME NEW r \in Runs, Close(r) PROVE TypeInv'
  <2>1. file[r] \in Log /\ footer[r] \in Final \cup {None}
    BY <1>7 DEF Close, Typed, Captured
  <2>2. file' \in [Runs -> Log \cup {None}]
    BY <1>7, <2>1 DEF Close, Typed, Log
  <2>3. \A x \in open \ {r}: file'[x] = file[x]
    BY <1>7, OthersKept DEF Close, Typed
  <2>4. /\ open' = open \ {r} /\ waiter' = [waiter EXCEPT ![r] = "finish"] /\ waiter[r] = "close"
        /\ UNCHANGED <<child, success, holder, said, pipe, reader, status, footer, canceller>>
    BY <1>7 DEF Close
  <2> QED BY <2>2, <2>3, <2>4 DEF Typed, Captured
<1>8. ASSUME NEW r \in Runs, Finish(r) PROVE TypeInv'
  <2>1. Outcome(r) \in Final
    BY <1>8, NoneFacts DEF Finish, Outcome, Typed, Captured, Final, Status
  <2>2. status' \in [Runs -> Status \cup {"none"}] /\ (\A x \in Runs: status'[x] = "none" <=> status[x] = "none")
        /\ (\A x \in Runs: status[x] = "cancelled" => status'[x] = "cancelled")
    BY <1>8, <2>1 DEF Finish, Outcome, Typed, Captured, Final, Status
  <2> QED BY <1>8, <2>2 DEF Finish, Typed, Captured
<1>9. ASSUME NEW r \in Runs, Cancel(r) PROVE TypeInv'
  BY <1>9 DEF Cancel, Typed, Captured, Final, Status
<1>10. ASSUME NEW r \in Runs, Note(r) PROVE TypeInv'
  <2>1. (IF file[r] = None THEN NewLog ELSE file[r]) \in Log
    BY NoneFacts DEF Typed, NewLog, Log
  <2>2. file' \in [Runs -> Log \cup {None}] /\ (\A x \in open: file'[x] \in Log)
    BY <1>10, <2>1 DEF Note, Typed, Captured, Log
  <2> QED BY <1>10, <2>2 DEF Note, Typed, Captured
<1>11. ASSUME NEW r \in Runs, FindGroup(r) \/ Escalate(r) \/ CancelFails(r) \/ CancelReturns(r)
       PROVE  TypeInv'
  BY <1>11 DEF FindGroup, Escalate, CancelFails, CancelReturns, Typed, Captured
<1>12. CASE ViewStep \/ (\E r \in Runs: Watch(r)) \/ UNCHANGED vars
  BY <1>12 DEF ViewStep, ViewRead, ViewCheck, Watch, vars, Typed, Captured
<1> QED
  BY <1>1, <1>2, <1>3, <1>4, <1>6, <1>7, <1>8, <1>9, <1>10, <1>11, <1>12
     DEF Next, ReaderStep, WaiterStep, CancelStep

-----------------------------------------------------------------------------
(* What is in the log. *)

\* Nothing a child printed is lost on the way to its log: what is not there yet is in the
\* pipe, which is empty when the reader has ended or has been given up.
FlowInv == \A r \in Runs:
  /\ child[r] = "none" => said[r] = 0 /\ pipe[r] = 0
  /\ r \in open => file[r].out + pipe[r] = said[r]
  /\ reader[r] = "done" => pipe[r] = 0 \/ r \notin open
  /\ reader[r] = "done" => child[r] # "alive"
  /\ waiter[r] \in {"drain", "close", "finish", "done"} => child[r] = "reaped"
  /\ waiter[r] = "close" => pipe[r] = 0

\* What the footer says is what the waiter will publish, unless a cancel comes first.
FooterInv == \A r \in Runs:
  /\ waiter[r] \in {"close", "finish"} /\ status[r] = "running" => footer[r] = Result(r)
  /\ waiter[r] = "finish" /\ status[r] = "running" /\ file[r] # None =>
       file[r].out = said[r] /\ file[r].foot = footer[r]
  /\ status[r] \in {"succeeded", "failed"} => waiter[r] = "done"
  /\ status[r] \in {"succeeded", "failed"} /\ file[r] # None =>
       file[r].out = said[r] /\ file[r].foot = status[r]

LogInv == FlowInv /\ FooterInv

LEMMA InitLog == Init => LogInv
BY DEF Init, LogInv, FlowInv, FooterInv

LEMMA StepFlow == TypeInv /\ FlowInv /\ [Next]_vars => FlowInv'
<1> SUFFICES ASSUME TypeInv, FlowInv, [Next]_vars PROVE FlowInv'
  OBVIOUS
<1> USE DEF process, logs, runs, TypeInv
<1>1. ASSUME NEW r \in Runs, Start(r) PROVE FlowInv'
  BY <1>1 DEF Start, NewLog, Typed, Captured, FlowInv
<1>2. ASSUME NEW r \in Runs, Speak(r) PROVE FlowInv'
  BY <1>2 DEF Speak, Typed, Captured, Log, FlowInv
<1>3. ASSUME NEW r \in Runs, Exit(r) \/ HolderExits(r) \/ ReadEof(r) \/ Reap(r) PROVE FlowInv'
  BY <1>3 DEF Exit, HolderExits, ReadEof, Reap, Typed, FlowInv
<1>4. ASSUME NEW r \in Runs, ReadLine(r) PROVE FlowInv'
  <2>1. CASE r \in open
    <3>1. file[r].out \in Nat /\ pipe[r] \in Nat /\ pipe[r] > 0 /\ said[r] \in Nat
      BY <1>4, <2>1 DEF ReadLine, Typed, Captured, Log
    <3>2. /\ file'[r].out = file[r].out + 1 /\ pipe'[r] = pipe[r] - 1
          /\ \A x \in Runs \ {r}: file'[x] = file[x] /\ pipe'[x] = pipe[x]
          /\ UNCHANGED <<child, said, open, reader, waiter>>
      BY <1>4, <2>1 DEF ReadLine, Typed, Captured, Log
    <3> QED BY <3>1, <3>2 DEF FlowInv
  <2>2. CASE r \notin open
    <3>1. waiter[r] \notin {"drain", "close"} /\ child[r] # "none"
      BY <1>4, <2>2 DEF ReadLine, Captured, FlowInv, Typed
    <3>2. waiter[r] \in {"finish", "done"}
      BY <2>2, <3>1 DEF Captured, Typed
    <3> QED BY <1>4, <2>2, <3>1, <3>2 DEF ReadLine, Typed, FlowInv
  <2> QED BY <2>1, <2>2
<1>5. ASSUME NEW r \in Runs, Drain(r) PROVE FlowInv'
  <2>1. pipe[r] = 0
    BY <1>5 DEF Drain, Drained, Captured, FlowInv
  <2> QED BY <1>5, <2>1 DEF Drain, Typed, FlowInv
<1>6. ASSUME NEW r \in Runs, Close(r) PROVE FlowInv'
  <2>1. \A x \in open \ {r}: file'[x] = file[x]
    BY <1>6, OthersKept DEF Close, Typed
  <2>2. /\ open' = open \ {r} /\ waiter' = [waiter EXCEPT ![r] = "finish"] /\ waiter[r] = "close"
        /\ UNCHANGED <<child, said, pipe, reader>>
    BY <1>6 DEF Close
  <2> QED BY <2>1, <2>2 DEF Typed, FlowInv
<1>7. ASSUME NEW r \in Runs, Finish(r) PROVE FlowInv'
  BY <1>7 DEF Finish, Typed, FlowInv
<1>8. ASSUME NEW r \in Runs, Note(r) PROVE FlowInv'
  <2>1. \A x \in open: file'[x].out = file[x].out
    BY <1>8, NoneDistinct DEF Note, Typed, Captured, Log
  <2> QED BY <1>8, <2>1 DEF Note, FlowInv
<1>9. ASSUME NEW r \in Runs, Cancel(r) \/ FindGroup(r) \/ Escalate(r) \/ CancelFails(r) \/ Watch(r)
      PROVE  FlowInv'
  BY <1>9 DEF Cancel, FindGroup, Escalate, CancelFails, Watch, FlowInv
<1>10. ASSUME NEW r \in Runs, CancelReturns(r) PROVE FlowInv'
  BY <1>10 DEF CancelReturns, Typed, Captured, Status, Final, FlowInv
<1>11. CASE ViewStep \/ UNCHANGED vars
  BY <1>11 DEF ViewStep, ViewRead, ViewCheck, vars, FlowInv
<1> QED
  BY <1>1, <1>2, <1>3, <1>4, <1>5, <1>6, <1>7, <1>8, <1>9, <1>10, <1>11
     DEF Next, ReaderStep, WaiterStep, CancelStep

LEMMA StepFooter == TypeInv /\ LogInv /\ [Next]_vars => FooterInv'
<1> SUFFICES ASSUME TypeInv, LogInv, [Next]_vars PROVE FooterInv'
  OBVIOUS
<1> USE DEF process, logs, runs, TypeInv, LogInv
<1>1. ASSUME NEW r \in Runs, Start(r) PROVE FooterInv'
  <2>1. /\ waiter'[r] = "wait" /\ status'[r] = "running"
        /\ \A x \in Runs \ {r}: /\ waiter'[x] = waiter[x] /\ status'[x] = status[x]
                              /\ file'[x] = file[x]
        /\ UNCHANGED <<success, said, footer>>
    BY <1>1 DEF Start, Typed
  <2> QED BY <2>1 DEF Result, FooterInv
<1>2. ASSUME NEW r \in Runs, Speak(r) PROVE FooterInv'
  <2>1. waiter[r] \notin {"close", "finish", "done"}
    BY <1>2 DEF Speak, FlowInv
  <2>2. \A x \in Runs \ {r}: said'[x] = said[x]
    BY <1>2 DEF Speak, Typed
  <2> QED BY <1>2, <2>1, <2>2 DEF Speak, Result, FooterInv
<1>3. ASSUME NEW r \in Runs, Exit(r) PROVE FooterInv'
  <2>1. waiter[r] \notin {"close", "finish", "done"}
    BY <1>3 DEF Exit, FlowInv
  <2>2. \A x \in Runs \ {r}: success'[x] = success[x]
    BY <1>3 DEF Exit, Typed
  <2> QED BY <1>3, <2>1, <2>2 DEF Exit, Result, FooterInv
<1>4. ASSUME NEW r \in Runs, HolderExits(r) \/ ReadEof(r) \/ Watch(r) PROVE FooterInv'
  BY <1>4 DEF HolderExits, ReadEof, Watch, Result, FooterInv
<1>5. ASSUME NEW r \in Runs, ReadLine(r) PROVE FooterInv'
  <2>1. r \in open => waiter[r] \notin {"finish", "done"}
    BY DEF Captured
  <2>2. /\ \A x \in Runs: x # r \/ r \notin open => file'[x] = file[x]
        /\ UNCHANGED <<success, said, waiter, status, footer>>
    BY <1>5 DEF ReadLine, Typed
  <2> QED BY <2>1, <2>2 DEF Result, FooterInv
<1>6. ASSUME NEW r \in Runs, Reap(r) PROVE FooterInv'
  BY <1>6 DEF Reap, Typed, Result, FooterInv
<1>7. ASSUME NEW r \in Runs, Drain(r) PROVE FooterInv'
  <2>1. /\ waiter'[r] = "close" /\ waiter[r] = "drain" /\ footer'[r] = Footer(r)
        /\ \A x \in Runs \ {r}: waiter'[x] = waiter[x] /\ footer'[x] = footer[x]
        /\ UNCHANGED <<success, said, status, file>>
    BY <1>7 DEF Drain, Typed
  <2> QED BY <2>1 DEF Footer, Result, FooterInv
<1>8. ASSUME NEW r \in Runs, Close(r) PROVE FooterInv'
  <2>1. file[r] \in Log /\ waiter[r] = "close" /\ file[r].out = said[r]
    <3>1. r \in open /\ waiter[r] = "close" /\ file[r] \in Log /\ pipe[r] = 0
      BY <1>8 DEF Close, Captured, FlowInv
    <3>2. file[r].out \in Nat /\ file[r].out + pipe[r] = said[r]
      BY <3>1 DEF FlowInv, Log
    <3> QED BY <3>1, <3>2
  <2>2. file'[r] # None => file'[r].out = said[r] /\ file'[r].foot = footer[r]
    BY <1>8, <2>1 DEF Close, Typed, Log
  <2>3. /\ \A x \in Runs \ {r}: file'[x] # None => file'[x] = file[x]
        /\ waiter'[r] = "finish" /\ \A x \in Runs \ {r}: waiter'[x] = waiter[x]
        /\ UNCHANGED <<success, said, status, footer>>
    BY <1>8 DEF Close, Typed
  <2> QED BY <2>1, <2>2, <2>3 DEF Result, FooterInv
<1>9. ASSUME NEW r \in Runs, Finish(r) PROVE FooterInv'
  <2>1. /\ waiter[r] = "finish" /\ waiter'[r] = "done"
        /\ \A x \in Runs \ {r}: waiter'[x] = waiter[x] /\ status'[x] = status[x]
        /\ status'[r] = status[r] \/ status'[r] = Outcome(r)
        /\ UNCHANGED <<success, said, file, footer>>
    BY <1>9 DEF Finish, Typed
  <2> QED BY <2>1, NoneFacts DEF Outcome, Result, FooterInv
<1>10. ASSUME NEW r \in Runs, Cancel(r) PROVE FooterInv'
  <2>1. /\ status'[r] = "cancelled" /\ \A x \in Runs \ {r}: status'[x] = status[x]
        /\ UNCHANGED <<success, said, file, footer, waiter>>
    BY <1>10 DEF Cancel, Typed
  <2> QED BY <2>1 DEF Result, FooterInv
<1>11. ASSUME NEW r \in Runs, Note(r) PROVE FooterInv'
  <2>1. /\ status[r] = "cancelled" /\ \A x \in Runs \ {r}: file'[x] = file[x]
        /\ UNCHANGED <<success, said, status, footer, waiter>>
    BY <1>11 DEF Note, Typed, Captured
  <2> QED BY <2>1 DEF Result, FooterInv
<1>12. ASSUME NEW r \in Runs, FindGroup(r) \/ Escalate(r) \/ CancelFails(r) \/ CancelReturns(r)
       PROVE  FooterInv'
  BY <1>12 DEF FindGroup, Escalate, CancelFails, CancelReturns, Result, FooterInv
<1>13. CASE ViewStep \/ UNCHANGED vars
  BY <1>13 DEF ViewStep, ViewRead, ViewCheck, vars, Result, FooterInv
<1> QED
  BY <1>1, <1>2, <1>3, <1>4, <1>5, <1>6, <1>7, <1>8, <1>9, <1>10, <1>11, <1>12, <1>13
     DEF Next, ReaderStep, WaiterStep, CancelStep

\* Whoever sees a run succeeded or failed finds everything it printed in its log, for any
\* number of runs and lines, any limits, and cancels and descendants at any time.
THEOREM LogsAreComplete == Spec => []LogComplete
<1>1. LogInv => LogComplete
  BY DEF LogInv, FooterInv, LogComplete
<1>2. TypeInv /\ LogInv /\ [Next]_vars => LogInv'
  BY StepFlow, StepFooter DEF LogInv
<1> QED BY <1>1, <1>2, InitTypes, StepTypes, InitLog, PTL DEF Spec

-----------------------------------------------------------------------------
(* cancel *)

\* What was cancelled is never reported as anything else.
THEOREM CancelledStays == Spec => CancelSticks
<1>1. TypeInv /\ [Next]_vars =>
        [\A r \in Runs: status[r] = "cancelled" => status'[r] = "cancelled"]_vars
  <2> SUFFICES ASSUME TypeInv, Next, NEW x \in Runs, status[x] = "cancelled"
               PROVE  status'[x] = "cancelled"
    OBVIOUS
  <2>1. ASSUME NEW r \in Runs, Start(r) PROVE status'[x] = "cancelled"
    BY <2>1 DEF Start, TypeInv, Typed, Captured
  <2>2. ASSUME NEW r \in Runs, Finish(r) PROVE status'[x] = "cancelled"
    BY <2>2 DEF Finish, Outcome, TypeInv, Typed, runs
  <2>3. ASSUME NEW r \in Runs, Cancel(r) PROVE status'[x] = "cancelled"
    BY <2>3 DEF Cancel, TypeInv, Typed
  <2>4. \/ UNCHANGED status
        \/ \E r \in Runs: Start(r) \/ Finish(r) \/ Cancel(r)
    BY DEF Next, ReaderStep, WaiterStep, CancelStep, ViewStep, Speak, Exit, HolderExits, ReadLine,
       ReadEof, Reap, Drain, Close, FindGroup, Note, Escalate, CancelFails, CancelReturns, Watch,
       ViewRead, ViewCheck, runs
  <2> QED BY <2>1, <2>2, <2>3, <2>4
<1> QED BY <1>1, InitTypes, StepTypes, PTL DEF Spec, CancelSticks

-----------------------------------------------------------------------------
(* What comes first. *)

\* The order puts one of two members of S before the other.
Sorted(order, S) ==
  /\ \A x \in S: <<x, x>> \notin order
  /\ \A x, y \in S: x # y => <<x, y>> \in order \/ <<y, x>> \in order
  /\ \A x, y, z \in S: <<x, y>> \in order /\ <<y, z>> \in order => <<x, z>> \in order

\* The members of S from x on, and up to x.
From(order, S, x) == {y \in S: x = y \/ <<x, y>> \in order}
UpTo(order, S, x) == {y \in S: y = x \/ <<y, x>> \in order}

LEMMA SortedLast ==
  ASSUME NEW order, NEW S, NEW r, Sorted(order, S)
  PROVE  Sorted(Last(order, S, r), S \cup {r})
<1> DEFINE new == Last(order, S, r)
<1>1. \A x, y: x # r /\ y # r => (<<x, y>> \in new <=> <<x, y>> \in order)
  BY DEF Last
<1>2. \A x \in S \ {r}: <<x, r>> \in new
  BY DEF Last
<1>3. \A x: <<r, x>> \notin new
  BY DEF Last
<1> HIDE DEF new
<1> QED
  BY <1>1, <1>2, <1>3 DEF Sorted, new

LEMMA SortedAmong ==
  ASSUME NEW order, NEW S, NEW T, Sorted(order, S), T \subseteq S
  PROVE  Sorted(order, T) /\ Sorted(Among(order, T), T)
BY DEF Sorted, Among

\* A set of numbers that is not empty has a least one.
LEMMA Least ==
  ASSUME NEW T \in SUBSET Nat, T # {}
  PROVE  \E m \in T: \A n \in T: m <= n
<1> DEFINE R == OpToRel(LAMBDA x, y: x < y, Nat)
<1>1. IsWellFoundedOn(R, Nat)
  BY NatLessThanWellFounded
<1>2. \A x, y \in Nat: x < y => <<x, y>> \in R
  BY DEF OpToRel
<1> HIDE DEF R
<1>3. PICK m \in T: \A n \in T: <<n, m>> \notin R
  BY <1>1, WFMin
<1>4. \A n \in T: ~(n < m)
  BY <1>2, <1>3, Zenon
<1> QED
  BY <1>4, SMT

\* A finite set has a first member.
LEMMA First ==
  ASSUME NEW order, NEW S, IsFiniteSet(S), S # {}, Sorted(order, S)
  PROVE  \E m \in S: UpTo(order, S, m) = {m}
<1> DEFINE sizes == {Cardinality(UpTo(order, S, x)): x \in S}
<1>1. \A x \in S: IsFiniteSet(UpTo(order, S, x)) /\ Cardinality(UpTo(order, S, x)) \in Nat
  BY FS_Subset, FS_CardinalityType DEF UpTo
<1>2. PICK m \in S: \A y \in S: Cardinality(UpTo(order, S, m)) <= Cardinality(UpTo(order, S, y))
  <2>1. sizes \in SUBSET Nat /\ sizes # {}
    BY <1>1
  <2>2. PICK n \in sizes: \A k \in sizes: n <= k
    BY <2>1, Least
  <2> QED
    BY <2>2
<1>3. ASSUME NEW y \in S, y # m, <<y, m>> \in order
      PROVE  FALSE
  <2>1. UpTo(order, S, y) \subseteq UpTo(order, S, m)
    BY <1>3 DEF UpTo, Sorted
  <2>2. m \in UpTo(order, S, m) /\ m \notin UpTo(order, S, y)
    BY <1>3 DEF UpTo, Sorted
  <2>3. Cardinality(UpTo(order, S, y)) # Cardinality(UpTo(order, S, m))
    BY <1>1, <2>1, <2>2, FS_Subset
  <2>4. Cardinality(UpTo(order, S, y)) <= Cardinality(UpTo(order, S, m))
    BY <1>1, <2>1, FS_Subset
  <2> QED
    BY <1>1, <1>2, <2>3, <2>4
<1> QED
  BY <1>3 DEF UpTo

\* No more than n members have no more than n from them on.
LEMMA FewFollowed ==
  ASSUME NEW order, NEW S, IsFiniteSet(S), Sorted(order, S), NEW n \in Nat
  PROVE  Cardinality({x \in S: Cardinality(From(order, S, x)) <= n}) <= n
<1> DEFINE few == {x \in S: Cardinality(From(order, S, x)) <= n}
<1>1. few \subseteq S /\ IsFiniteSet(few)
  BY FS_Subset
<1>2. CASE few = {}
  BY <1>2, FS_EmptySet
<1>3. CASE few # {}
  <2>1. Sorted(order, few)
    BY <1>1, SortedAmong
  <2>2. PICK m \in few: UpTo(order, few, m) = {m}
    BY <1>1, <1>3, <2>1, First
  <2>3. few \subseteq From(order, S, m)
    BY <1>1, <2>1, <2>2 DEF UpTo, From, Sorted
  <2>4. IsFiniteSet(From(order, S, m))
    BY FS_Subset DEF From
  <2>5. Cardinality(few) <= Cardinality(From(order, S, m)) /\ Cardinality(From(order, S, m)) <= n
    BY <2>2, <2>3, <2>4, FS_Subset
  <2>6. Cardinality(few) \in Nat /\ Cardinality(From(order, S, m)) \in Nat
    BY <1>1, <2>4, FS_CardinalityType
  <2> QED
    BY <2>5, <2>6
<1> QED
  BY <1>2, <1>3

-----------------------------------------------------------------------------
(* What is remembered. *)

\* Only what has ended is forgotten; and if nothing was in excess before a run came, or if
\* only one has ended, the table is within its limit afterwards or holds unfinished runs only.
LEMMA PrunedFacts ==
  ASSUME NEW S, NEW order, NEW done, IsFiniteSet(S), Sorted(order, S),
         Cardinality(S) <= MaxRuns + 1 \/ (\E x: S \cap done \subseteq {x})
  PROVE  LET rest == Pruned(S, order, done)
         IN  /\ rest \subseteq S /\ S \ done \subseteq rest
             /\ IsFiniteSet(rest) /\ Sorted(Among(order, rest), rest)
             /\ Cardinality(rest) > MaxRuns => rest \cap done = {}
<1> DEFINE rest == Pruned(S, order, done)
<1>1. rest \subseteq S /\ S \ done \subseteq rest
  BY DEF Pruned, Forgettable
<1>2. IsFiniteSet(rest) /\ Sorted(Among(order, rest), rest)
  BY <1>1, FS_Subset, SortedAmong
<1>3. ASSUME Cardinality(rest) > MaxRuns, NEW e \in rest \cap done
      PROVE  FALSE
  <2>1. /\ Cardinality(S) \in Nat /\ Cardinality(rest) \in Nat /\ Cardinality(rest) <= Cardinality(S)
        /\ MaxRuns \in Nat
    BY <1>1, <1>2, FS_Subset, FS_CardinalityType, LimitsNat
  <2>2. IsFiniteSet(S \cap done) /\ S \cap done # {} /\ Sorted(order, S \cap done)
    <3>1. S \cap done \in SUBSET S /\ S \cap done \subseteq S /\ e \in S \cap done
      BY <1>1, <1>3
    <3>2. IsFiniteSet(S \cap done)
      BY <3>1, FS_Subset
    <3>3. Sorted(order, S \cap done)
      BY <3>1, SortedAmong
    <3> QED
      BY <3>1, <3>2, <3>3
  <2>3. PICK m \in S \cap done: UpTo(order, S \cap done, m) = {m}
    BY <2>2, First
  <2>4. m \notin rest
    <3>1. {x \in S: Forgettable(x, done) /\ (x = m \/ <<x, m>> \in order)} = {m}
      BY <2>3 DEF UpTo, Forgettable
    <3>2. Cardinality({m}) = 1 /\ ~(1 + MaxRuns > Cardinality(S))
      <4>1. Cardinality({m}) = 1
        BY FS_Singleton
      <4> QED
        BY <1>3, <2>1, <4>1
    <3>3. ASSUME m \in rest PROVE FALSE
      <4>1. Cardinality({x \in S: Forgettable(x, done) /\ (x = m \/ <<x, m>> \in order)}) + MaxRuns
              > Cardinality(S)
        BY <2>3, <3>3 DEF Pruned, Forgettable
      <4> QED
        BY <3>1, <3>2, <4>1
    <3> QED
      BY <3>3
  <2>5. CASE Cardinality(S) <= MaxRuns + 1
    <3>1. rest \subseteq S \ {m} /\ IsFiniteSet(S \ {m}) /\ Cardinality(S \ {m}) = Cardinality(S) - 1
      BY <1>1, <2>4, FS_RemoveElement
    <3>2. Cardinality(rest) <= Cardinality(S \ {m})
      BY <3>1, FS_Subset
    <3> QED
      BY <1>3, <2>1, <2>5, <3>1, <3>2
  <2>6. CASE \E x: S \cap done \subseteq {x}
    BY <1>1, <1>3, <2>3, <2>4, <2>6
  <2> QED
    BY <2>5, <2>6
<1> QED
  BY <1>1, <1>2, <1>3

\* The table holds every run that has not ended, in the order they started.
TableInv ==
  /\ known \subseteq Runs /\ ended \subseteq Runs /\ earlier \subseteq Runs \X Runs
  /\ IsFiniteSet(known) /\ Sorted(earlier, known)
  /\ \A r \in Runs: waiter[r] \notin {"none", "done"} => r \in known
  /\ \A r \in known: waiter[r] # "none"
  /\ \A r \in ended: waiter[r] = "done"
  /\ Cardinality(known) > MaxRuns => known \cap ended = {}

LEMMA StepTable == TypeInv /\ TableInv /\ [Next]_vars => TableInv'
<1> SUFFICES ASSUME TypeInv, TableInv, [Next]_vars PROVE TableInv'
  OBVIOUS
<1> USE DEF process, logs, runs
<1>1. waiter \in [Runs -> {"none", "wait", "drain", "close", "finish", "done"}]
      /\ MaxRuns \in Nat /\ IsFiniteSet(known) /\ Cardinality(known) \in Nat
  BY FS_CardinalityType, LimitsNat DEF TypeInv, Typed, TableInv
<1>2. ASSUME NEW r \in Runs, Start(r)
      PROVE  TableInv'
  <2> DEFINE S == known \cup {r}
             order == Last(earlier, known, r)
  <2>1. r \notin known /\ r \notin ended
    BY <1>2 DEF Start, TypeInv, Captured, TableInv
  <2>2. IsFiniteSet(S) /\ Cardinality(S) = Cardinality(known) + 1 /\ Sorted(order, S)
    BY <2>1, FS_AddElement, SortedLast DEF TableInv
  <2>3. Cardinality(S) <= MaxRuns + 1 \/ S \cap ended \subseteq {r}
    BY <1>1, <2>2 DEF TableInv
  <2>4. known' = Pruned(S, order, ended) /\ earlier' = Among(order, Pruned(S, order, ended))
    BY <1>2 DEF Start, Prune
  <2>5. waiter' = [waiter EXCEPT ![r] = "wait"] /\ ended' = ended
    BY <1>2 DEF Start
  <2> HIDE DEF S, order
  <2>6. /\ known' \subseteq S /\ S \ ended \subseteq known'
        /\ IsFiniteSet(known') /\ Sorted(earlier', known')
        /\ Cardinality(known') > MaxRuns => known' \cap ended = {}
    BY <2>2, <2>3, <2>4, PrunedFacts
  <2>7. known' \subseteq Runs /\ earlier' \subseteq Runs \X Runs
    BY <2>4, <2>6 DEF Among, TableInv, S
  <2>8. ASSUME NEW x \in Runs, waiter'[x] \notin {"none", "done"}
        PROVE  x \in known'
    <3>1. x \in S /\ x \notin ended
      BY <1>1, <2>1, <2>5, <2>8 DEF TableInv, S
    <3> QED
      BY <2>6, <3>1
  <2>9. \A x \in known': waiter'[x] # "none"
    BY <1>1, <2>5, <2>6 DEF TableInv, S
  <2>10. \A x \in ended': waiter'[x] = "done"
    BY <1>1, <2>1, <2>5 DEF TableInv
  <2> QED
    BY <2>5, <2>6, <2>7, <2>8, <2>9, <2>10 DEF TableInv
<1>3. ASSUME NEW r \in Runs, Finish(r)
      PROVE  TableInv'
  <2>1. r \in known /\ waiter[r] = "finish" /\ waiter' = [waiter EXCEPT ![r] = "done"]
    BY <1>3 DEF Finish, TableInv
  <2>2. /\ ended' = ended \cup {r} /\ known' = Pruned(known, earlier, ended')
        /\ earlier' = Among(earlier, Pruned(known, earlier, ended'))
    BY <1>3, <2>1 DEF Finish, Prune
  <2>3. Cardinality(known) <= MaxRuns + 1 \/ known \cap ended' \subseteq {r}
    BY <1>1, <2>2 DEF TableInv
  <2>4. /\ known' \subseteq known /\ known \ ended' \subseteq known'
        /\ IsFiniteSet(known') /\ Sorted(earlier', known')
        /\ Cardinality(known') > MaxRuns => known' \cap ended' = {}
    <3>1. Cardinality(known) <= MaxRuns + 1 \/ (\E x: known \cap ended' \subseteq {x})
      BY <2>3
    <3>2. IsFiniteSet(known) /\ Sorted(earlier, known)
      BY DEF TableInv
    <3>3. LET rest == Pruned(known, earlier, ended')
          IN  /\ rest \subseteq known /\ known \ ended' \subseteq rest
              /\ IsFiniteSet(rest) /\ Sorted(Among(earlier, rest), rest)
              /\ Cardinality(rest) > MaxRuns => rest \cap ended' = {}
      BY <3>1, <3>2, PrunedFacts
    <3> QED
      BY <2>2, <3>3
  <2>5. known' \subseteq Runs /\ earlier' \subseteq Runs \X Runs /\ ended' \subseteq Runs
    BY <2>2, <2>4 DEF Among, TableInv
  <2>6. ASSUME NEW x \in Runs, waiter'[x] \notin {"none", "done"}
        PROVE  x \in known'
    <3>1. x \in known /\ x \notin ended'
      BY <1>1, <2>1, <2>2, <2>6 DEF TableInv
    <3> QED
      BY <2>4, <3>1
  <2>7. /\ \A x \in known': waiter'[x] # "none"
        /\ \A x \in ended': waiter'[x] = "done"
    BY <1>1, <2>1, <2>2, <2>4 DEF TableInv
  <2> QED
    BY <2>4, <2>5, <2>6, <2>7 DEF TableInv
<1>4. ASSUME UNCHANGED <<ended, known, earlier>>,
             waiter' = waiter \/ (\E r \in Runs: /\ waiter[r] \notin {"none", "done"}
                                             /\ \E w \in {"drain", "close", "finish"}:
                                                   waiter' = [waiter EXCEPT ![r] = w])
      PROVE  TableInv'
  BY <1>1, <1>4 DEF TableInv
<1>5. ASSUME NEW r \in Runs, Reap(r) \/ Drain(r) \/ Close(r)
      PROVE  TableInv'
  BY <1>4, <1>5 DEF Reap, Drain, Close
<1>6. ASSUME NEW r \in Runs,
             Speak(r) \/ Exit(r) \/ HolderExits(r) \/ ReaderStep(r) \/ Cancel(r) \/ CancelStep(r) \/ Watch(r)
      PROVE  TableInv'
  BY <1>4, <1>6 DEF Speak, Exit, HolderExits, ReaderStep, ReadLine, ReadEof, Cancel, CancelStep, FindGroup,
     Note, Escalate, CancelFails, CancelReturns, Watch
<1>7. CASE ViewStep \/ UNCHANGED vars
  BY <1>4, <1>7 DEF ViewStep, ViewRead, ViewCheck, vars
<1> QED
  BY <1>2, <1>3, <1>5, <1>6, <1>7 DEF Next, WaiterStep

LEMMA TableHolds == Spec => [](TypeInv /\ TableInv)
<1>1. Init => TableInv
  <2>1. Sorted({}, {})
    BY DEF Sorted
  <2>2. IsFiniteSet({}) /\ Cardinality({}) = 0
    BY FS_EmptySet
  <2> QED
    BY <2>1, <2>2, LimitsNat DEF Init, TableInv
<1> QED
  BY <1>1, InitTypes, StepTypes, StepTable, PTL DEF Spec

\* Whatever ends, is cancelled or starts meanwhile, a run is known until it has ended, and
\* beyond the limit nothing is known but what has not ended.
THEOREM UnfinishedIsKept == Spec => []UnfinishedKept
<1>1. TableInv => UnfinishedKept
  BY DEF TableInv, UnfinishedKept
<1> QED
  BY <1>1, TableHolds, PTL

-----------------------------------------------------------------------------
(* The logs on disk. *)

Logged == {r \in Runs: file[r] # None}
Complete == {r \in Runs: file[r] # None /\ file[r].foot # None}

\* The logs on disk are in the order of their last write; the complete ones are idle.
DiskInv ==
  /\ older \subseteq Runs \X Runs
  /\ IsFiniteSet(Logged) /\ Sorted(older, Logged)
  /\ Complete \cap open = {}
  /\ KeepRuns > 0 => Cardinality(Complete) <= KeepRuns

LEMMA StepDisk == TypeInv /\ DiskInv /\ [Next]_vars => DiskInv'
<1> SUFFICES ASSUME TypeInv, DiskInv, [Next]_vars PROVE DiskInv'
  OBVIOUS
<1> USE DEF process, logs, runs
<1>1. /\ file \in [Runs -> Log \cup {None}] /\ open \subseteq Runs /\ None \notin Log
      /\ IsFiniteSet(Logged) /\ Sorted(older, Logged) /\ older \subseteq Runs \X Runs
      /\ Logged \subseteq Runs /\ Complete \subseteq Logged
  BY NoneFacts DEF TypeInv, Typed, DiskInv, Logged, Complete
<1>2. IsFiniteSet(Complete) /\ Cardinality(Complete) \in Nat /\ KeepRuns \in Nat
  BY <1>1, FS_Subset, FS_CardinalityType, LimitsNat
\* A log is written to.
<1>3. ASSUME NEW r \in Runs, Touch(r), Logged' = Logged \cup {r},
             Complete' \subseteq Complete, Complete' \cap open' = {}
      PROVE  DiskInv'
  <2>1. Sorted(older', Logged')
    BY <1>1, <1>3, SortedLast DEF Touch, Latest, Logged
  <2>2. older' \subseteq Runs \X Runs
    BY <1>1, <1>3 DEF Touch, Latest, Last
  <2>3. IsFiniteSet(Logged')
    BY <1>1, <1>3, FS_AddElement
  <2>4. IsFiniteSet(Complete') /\ Cardinality(Complete') <= Cardinality(Complete)
        /\ Cardinality(Complete') \in Nat
    BY <1>2, <1>3, FS_Subset, FS_CardinalityType
  <2>5. KeepRuns > 0 => Cardinality(Complete') <= KeepRuns
    BY <1>2, <2>4 DEF DiskInv
  <2> QED
    BY <1>3, <2>1, <2>2, <2>3, <2>5 DEF DiskInv
<1>4. ASSUME UNCHANGED <<older, file>>, open' \subseteq open
      PROVE  DiskInv'
  <2>1. Logged' = Logged /\ Complete' = Complete
    BY <1>4 DEF Logged, Complete
  <2> QED
    BY <1>4, <2>1 DEF DiskInv
<1>5. ASSUME NEW r \in Runs, Start(r)
      PROVE  DiskInv'
  <2>1. Touch(r) /\ file' = [file EXCEPT ![r] = NewLog] /\ open' = open \cup {r}
    BY <1>5 DEF Start
  <2>2. NewLog # None /\ NewLog.foot = None
    BY <1>1 DEF NewLog, Log
  <2>3. Logged' = Logged \cup {r}
    BY <1>1, <2>1, <2>2 DEF Logged
  <2>4. Complete' \subseteq Complete \ {r}
    BY <1>1, <2>1, <2>2 DEF Complete
  <2>5. Complete \cap open = {}
    BY DEF DiskInv
  <2> QED
    BY <1>3, <2>1, <2>3, <2>4, <2>5
<1>6. ASSUME NEW r \in Runs, ReadLine(r)
      PROVE  DiskInv'
  <2>1. CASE r \in open
    <3>1. file[r] \in Log /\ file[r].out \in Nat
      BY <2>1 DEF TypeInv, Captured, Log
    <3>2. Touch(r) /\ file' = [file EXCEPT ![r].out = @ + 1] /\ UNCHANGED open
      BY <1>6, <2>1 DEF ReadLine
    <3>3. file'[r] \in Log /\ file'[r].foot = file[r].foot /\ \A x \in Runs \ {r}: file'[x] = file[x]
      BY <1>1, <3>1, <3>2 DEF Log
    <3>4. Logged' = Logged \cup {r} /\ Complete' = Complete
      BY <1>1, <3>1, <3>3 DEF Logged, Complete
    <3> QED
      BY <1>3, <3>2, <3>4 DEF DiskInv
  <2>2. CASE r \notin open
    BY <1>4, <1>6, <2>2 DEF ReadLine
  <2> QED
    BY <2>1, <2>2
<1>7. ASSUME NEW r \in Runs, Note(r)
      PROVE  DiskInv'
  <2> DEFINE f == IF file[r] = None THEN NewLog ELSE file[r]
  <2>1. Touch(r) /\ file' = [file EXCEPT ![r] = [f EXCEPT !.notes = @ + 1]] /\ UNCHANGED open
    BY <1>7 DEF Note
  <2>2. f \in Log /\ (file[r] = None => f.foot = None) /\ (file[r] # None => f.foot = file[r].foot)
    BY <1>1 DEF NewLog, Log
  <2> HIDE DEF f
  <2>3. file'[r] \in Log /\ file'[r].foot = f.foot /\ \A x \in Runs \ {r}: file'[x] = file[x]
    BY <1>1, <2>1, <2>2 DEF Log
  <2>4. Logged' = Logged \cup {r} /\ Complete' = Complete
    BY <1>1, <2>2, <2>3 DEF Logged, Complete
  <2> QED
    BY <1>3, <2>1, <2>4 DEF DiskInv
\* A log is closed: what is complete from then on is among the newest idle ones.
<1>8. ASSUME NEW r \in Runs, Close(r)
      PROVE  DiskInv'
  <2> DEFINE idle == Idle(open \ {r}) \cup {r}
             gone == Excess(r)
             last == Latest(r)
  <2>1. file[r] \in Log /\ footer[r] \in Final \cup {None}
    BY <1>8 DEF Close, TypeInv, Typed, Captured
  <2>2. /\ open' = open \ {r}
        /\ older' = Among(last, Runs \ gone)
        /\ file' = [x \in Runs |->
                      IF x \in gone THEN None
                      ELSE IF x = r THEN [file[r] EXCEPT !.foot = footer[r]] ELSE file[x]]
    BY <1>8 DEF Close
  <2>3. idle \subseteq Logged /\ r \in Logged /\ r \in idle
    BY <1>1, <2>1 DEF Idle, Logged
  <2>4. Sorted(last, Logged)
    <3>1. Sorted(last, Logged \cup {r})
      BY <1>1, SortedLast DEF Latest, Logged
    <3>2. Logged \cup {r} = Logged
      BY <2>3
    <3> QED
      BY <3>1, <3>2
  <2>5. [file[r] EXCEPT !.foot = footer[r]] # None
    <3>1. [file[r] EXCEPT !.foot = footer[r]] \in Log
      BY <2>1 DEF Log
    <3> QED
      BY <1>1, <3>1
  <2>6. \A x \in Runs: file'[x] # None <=> x \in Logged /\ x \notin gone
    BY <2>2, <2>3, <2>5 DEF Logged
  <2>7. Logged' = Logged \ gone /\ Logged' \subseteq Logged
    BY <2>6 DEF Logged
  <2>8. IsFiniteSet(Logged') /\ Sorted(older', Logged')
    <3>1. Sorted(last, Logged') /\ IsFiniteSet(Logged')
      BY <1>1, <2>4, <2>7, SortedAmong, FS_Subset
    <3>2. \A x, y \in Logged': <<x, y>> \in older' <=> <<x, y>> \in last
      BY <2>2, <2>7 DEF Among, Logged
    <3> QED
      BY <3>1, <3>2 DEF Sorted
  <2>9. older' \subseteq Runs \X Runs
    BY <1>1, <2>2 DEF Latest, Last, Among
  <2>10. Complete' \subseteq (Complete \cup {r}) \ gone
    BY <2>2, <2>6 DEF Complete, Logged
  <2>11. Complete' \cap open' = {}
    BY <2>2, <2>10 DEF DiskInv
  <2>12. ASSUME KeepRuns > 0
         PROVE  Cardinality(Complete') <= KeepRuns
    <3> DEFINE few == {x \in idle: Cardinality(From(last, idle, x)) <= KeepRuns}
    <3>1. Complete \subseteq idle
      BY <1>1 DEF DiskInv, Idle, Complete
    <3>2. ASSUME NEW x \in idle, x \notin gone
          PROVE  x \in few
      <4>1. KeepRuns # 0
        BY <1>2, <2>12
      <4>2. gone = {y \in idle: Cardinality(From(last, idle, y)) > KeepRuns}
        BY <4>1 DEF Excess, From
      <4>3. Cardinality(From(last, idle, x)) \in Nat
        BY <1>1, <2>3, FS_Subset, FS_CardinalityType DEF From
      <4> HIDE DEF gone, idle, last
      <4>4. ~(Cardinality(From(last, idle, x)) > KeepRuns)
        BY <3>2, <4>2
      <4>5. Cardinality(From(last, idle, x)) <= KeepRuns
        BY <1>2, <4>3, <4>4
      <4> QED
        BY <3>2, <4>5
    <3>3. Complete' \subseteq few
      BY <2>3, <2>10, <3>1, <3>2
    <3>4. IsFiniteSet(idle) /\ Sorted(last, idle)
      <4> HIDE DEF idle, last
      <4>1. IsFiniteSet(idle)
        BY <1>1, <2>3, FS_Subset
      <4>2. Sorted(last, idle)
        BY <2>3, <2>4, SortedAmong
      <4> QED
        BY <4>1, <4>2
    <3>5. Cardinality(few) <= KeepRuns /\ IsFiniteSet(few)
      <4>1. Cardinality(few) <= KeepRuns
        BY <1>2, <3>4, FewFollowed
      <4>2. IsFiniteSet(few)
        BY <3>4, FS_Subset
      <4> QED
        BY <4>1, <4>2
    <3>6. Cardinality(Complete') <= Cardinality(few) /\ Cardinality(Complete') \in Nat
          /\ Cardinality(few) \in Nat
      BY <3>3, <3>5, FS_Subset, FS_CardinalityType
    <3> QED
      BY <1>2, <3>5, <3>6
  <2> QED
    BY <2>8, <2>9, <2>11, <2>12 DEF DiskInv
<1>9. ASSUME NEW r \in Runs,
             \/ Speak(r) \/ Exit(r) \/ HolderExits(r) \/ ReadEof(r) \/ Reap(r) \/ Drain(r) \/ Finish(r)
             \/ Cancel(r) \/ FindGroup(r) \/ Escalate(r) \/ CancelFails(r) \/ CancelReturns(r) \/ Watch(r)
      PROVE  DiskInv'
  BY <1>4, <1>9 DEF Speak, Exit, HolderExits, ReadEof, Reap, Drain, Finish, Cancel, FindGroup, Escalate,
     CancelFails, CancelReturns, Watch
<1>10. CASE ViewStep \/ UNCHANGED vars
  BY <1>4, <1>10 DEF ViewStep, ViewRead, ViewCheck, vars
<1> QED
  BY <1>5, <1>6, <1>7, <1>8, <1>9, <1>10 DEF Next, ReaderStep, WaiterStep, CancelStep

LEMMA DiskHolds == Spec => [](TypeInv /\ DiskInv)
<1>1. Init => DiskInv
  <2> SUFFICES ASSUME Init PROVE DiskInv
    OBVIOUS
  <2>1. Logged = {} /\ Complete = {}
    BY DEF Init, Logged, Complete
  <2>2. IsFiniteSet({}) /\ Cardinality({}) = 0 /\ Sorted({}, {})
    BY FS_EmptySet DEF Sorted
  <2> QED
    BY <2>1, <2>2, LimitsNat DEF Init, DiskInv
<1> QED
  BY <1>1, InitTypes, StepTypes, StepDisk, PTL DEF Spec

\* A log is there as long as its run is captured, and no more complete logs are kept than
\* keep_runs, whichever runs are closed at the same time and whatever is noted in a log later.
THEOREM RetentionIsKept == Spec => []RetentionHolds
<1>1. TypeInv /\ DiskInv => RetentionHolds
  BY NoneFacts DEF TypeInv, Typed, Captured, DiskInv, Complete, RetentionHolds
<1> QED
  BY <1>1, DiskHolds, PTL

-----------------------------------------------------------------------------
(* Types. *)

ViewOK == view = None \/ view \in [run: Runs, got: Nat, at: {"read", "check", "end"}]

LEMMA StepView == TypeInv /\ ViewOK /\ [Next]_vars => ViewOK'
<1> SUFFICES ASSUME TypeInv, ViewOK, [Next]_vars PROVE ViewOK'
  OBVIOUS
<1>1. ASSUME NEW r \in Runs, Watch(r) PROVE ViewOK'
  BY <1>1 DEF Watch, ViewOK
<1>2. CASE ViewRead
  <2>1. view \in [run: Runs, got: Nat, at: {"read", "check", "end"}]
    BY <1>2 DEF ViewRead, ViewOK
  <2>2. PICK n: /\ n = IF file[view.run] = None THEN 0 ELSE Size(file[view.run])
                /\ view' = IF n \in {0, view.got} THEN [view EXCEPT !.got = n, !.at = "check"]
                           ELSE [view EXCEPT !.got = n]
    BY <1>2 DEF ViewRead
  <2>3. n \in Nat
    BY <2>1, <2>2 DEF TypeInv, Typed, Log, Size
  <2> QED
    BY <2>1, <2>2, <2>3 DEF ViewOK
<1>3. CASE ViewCheck
  BY <1>3 DEF ViewCheck, ViewOK
<1>4. view' = view \/ ViewStep \/ (\E r \in Runs: Watch(r))
  BY DEF Next, ReaderStep, WaiterStep, CancelStep, Start, Speak, Exit, HolderExits, ReadLine, ReadEof, Reap,
     Drain, Close, Finish, Cancel, FindGroup, Note, Escalate, CancelFails, CancelReturns, vars
<1> QED
  BY <1>1, <1>2, <1>3, <1>4 DEF ViewStep, ViewOK

\* The variables have their types.
THEOREM TypesCorrect == Spec => []TypeOK
<1>1. Init => ViewOK
  BY DEF Init, ViewOK
<1>2. TypeInv /\ TableInv /\ DiskInv /\ ViewOK => TypeOK
  BY DEF TypeInv, Typed, TableInv, DiskInv, ViewOK, TypeOK
<1> QED
  BY <1>1, <1>2, TableHolds, DiskHolds, StepView, PTL DEF Spec

=============================================================================
