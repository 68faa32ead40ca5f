------------------------------ MODULE ActionRuns ------------------------------
(***************************************************************************)
(* One-off commands (action_runner.py), their log files (run_log_manager.py) *)
(* and the stream of a log (routes/actions.py).  Per run there is a child    *)
(* process, a reader thread that copies its pipe to the log, a waiter thread *)
(* and at most one request that cancels it.  All runs are of one item, with its  *)
(* log enabled: without one there are no reader and no file to look at.      *)
(*                                                                           *)
(* A child may leave a descendant behind that holds the pipe open, silently. *)
(* The five seconds stop_capture waits for the reader are enough to empty    *)
(* the pipe, so that it gives up on a descendant only.                       *)
(***************************************************************************)
EXTENDS Naturals, FiniteSets

CONSTANTS
  Runs,      \* run ids
  MaxRuns,   \* max_runs_per_item: runs remembered
  KeepRuns,  \* keep_runs: logs kept, 0 for all
  MaxLines,  \* bound: lines a child prints
  Eventful,  \* bound: runs that print, are cancelled, streamed and leave descendants
  None

ASSUME EventfulRuns == Eventful \subseteq Runs
ASSUME LimitsNat == MaxRuns \in Nat \ {0} /\ KeepRuns \in Nat /\ MaxLines \in Nat

Final  == {"succeeded", "failed", "cancelled"}
Status == Final \cup {"running"}
Log    == [out: Nat, notes: Nat, foot: Final \cup {None}]

ASSUME NoneDistinct == None \notin Status \cup Runs \cup Log

VARIABLES
  child,      \* the process: none, alive, exited, reaped
  success,    \* its exit code is 0
  holder,     \* a descendant holds the write end of the pipe
  said,       \* lines the child printed
  pipe,       \* those the reader has not read yet
  reader,     \* the reader thread: none, reading, done
  open,       \* the runs in RunLogManager._files
  file,       \* the log on disk: its output lines, cancel notes and footer, or None
  older,      \* mtime: <<x, y>> if the log of x was written to before that of y
  status,     \* ActionRun.status, "none" before the run is started
  ended,      \* the runs that have ended_at
  known,      \* _by_item: the runs that are remembered ...
  earlier,    \* ... and their order
  waiter,     \* the waiter thread
  footer,     \* the status it is about to write at the end of the log
  canceller,  \* the request that cancels the run; int, term and kill are the signals sent
  view        \* a stream: its run, the lines it has delivered and where it is

process == <<child, success, holder, said>>
logs    == <<open, file, older>>
runs    == <<status, ended, known, earlier>>
vars == <<process, pipe, reader, logs, runs, waiter, footer, canceller, view>>

\* The order of S, with r last, and that of the members of S only.
Last(order, S, r) == {p \in order: p[1] # r /\ p[2] # r} \cup ((S \ {r}) \X {r})
Among(order, S) == order \cap (S \X S)

\* The lines a log has.
Size(f) == f.out + f.notes + (IF f.foot = None THEN 0 ELSE 1)

NewLog == [out |-> 0, notes |-> 0, foot |-> None]
Latest(r) == Last(older, {x \in Runs: file[x] # None}, r)
Touch(r) == older' = Latest(r)

-----------------------------------------------------------------------------
(* What is forgotten. *)

\* Mutant of Forgettable: the status decides.
ForgettableMut(r, done) == status[r] # "running"

\* Only a run that has ended.
Forgettable(r, done) == r \in done

\* _prune_completed_locked: the oldest that may go, until the rest fits.
Pruned(S, order, done) ==
  LET Before(r) == {x \in S: Forgettable(x, done) /\ (x = r \/ <<x, r>> \in order)}
  IN  {r \in S: ~Forgettable(r, done) \/ Cardinality(Before(r)) + MaxRuns > Cardinality(S)}

Prune(S, order, done) ==
  /\ known' = Pruned(S, order, done)
  /\ earlier' = Among(order, Pruned(S, order, done))

\* Mutant of Idle: a log that is being written counts too.
IdleMut(active) == {r \in Runs: file[r] # None}

\* The logs no capture writes to.
Idle(active) == {r \in Runs: file[r] # None /\ r \notin active}

\* _enforce_keep_runs: the oldest idle logs beyond keep_runs, with r's capture
\* closed and its footer written last.
Excess(r) ==
  LET idle     == Idle(open \ {r}) \cup {r}
      Newer(x) == {y \in idle: x = y \/ <<x, y>> \in Latest(r)}
  IN  IF KeepRuns = 0 THEN {} ELSE {x \in idle: Cardinality(Newer(x)) > KeepRuns}

-----------------------------------------------------------------------------
(* The child and its pipe. *)

Speak(r) ==
  /\ child[r] = "alive"
  /\ r \in Eventful /\ said[r] < MaxLines
  /\ said' = [said EXCEPT ![r] = @ + 1]
  /\ pipe' = [pipe EXCEPT ![r] = @ + 1]
  /\ UNCHANGED <<child, success, holder, reader, logs, runs, waiter, footer, canceller, view>>

Exit(r) ==
  /\ child[r] = "alive"
  /\ child' = [child EXCEPT ![r] = "exited"]
  /\ \E b \in BOOLEAN: success' = [success EXCEPT ![r] = b]
  /\ \E b \in {FALSE, (r \in Eventful)}: holder' = [holder EXCEPT ![r] = b]
  /\ UNCHANGED <<said, pipe, reader, logs, runs, waiter, footer, canceller, view>>

HolderExits(r) ==
  /\ holder[r]
  /\ holder' = [holder EXCEPT ![r] = FALSE]
  /\ UNCHANGED <<child, success, said, pipe, reader, logs, runs, waiter, footer, canceller, view>>

\* _reader_loop
ReadLine(r) ==
  /\ reader[r] = "reading"
  /\ pipe[r] > 0
  /\ pipe' = [pipe EXCEPT ![r] = @ - 1]
  /\ IF r \in open
     THEN /\ file' = [file EXCEPT ![r].out = @ + 1]
          /\ Touch(r)
          /\ UNCHANGED reader
     ELSE /\ reader' = [reader EXCEPT ![r] = "done"]
          /\ UNCHANGED <<file, older>>
  /\ UNCHANGED <<process, open, runs, waiter, footer, canceller, view>>

ReadEof(r) ==
  /\ reader[r] = "reading"
  /\ pipe[r] = 0
  /\ child[r] # "alive" /\ ~holder[r]
  /\ reader' = [reader EXCEPT ![r] = "done"]
  /\ UNCHANGED <<process, pipe, logs, runs, waiter, footer, canceller, view>>

-----------------------------------------------------------------------------
(* ActionRunner. *)

\* Nobody knows the run before it is registered.
Start(r) ==
  /\ child[r] = "none"
  /\ child' = [child EXCEPT ![r] = "alive"]
  /\ reader' = [reader EXCEPT ![r] = "reading"]
  /\ open' = open \cup {r}
  /\ file' = [file EXCEPT ![r] = NewLog]
  /\ Touch(r)
  /\ status' = [status EXCEPT ![r] = "running"]
  /\ Prune(known \cup {r}, Last(earlier, known, r), ended)
  /\ waiter' = [waiter EXCEPT ![r] = "wait"]
  /\ UNCHANGED <<success, holder, said, pipe, ended, footer, canceller, view>>

\* _wait_loop: popen.wait() returns.
Reap(r) ==
  /\ waiter[r] = "wait"
  /\ child[r] \in {"exited", "reaped"}
  /\ child' = [child EXCEPT ![r] = "reaped"]
  /\ waiter' = [waiter EXCEPT ![r] = "drain"]
  /\ UNCHANGED <<success, holder, said, pipe, reader, logs, runs, footer, canceller, view>>

\* Mutants of Drained: the reader is not waited for, or for ever.
DrainedMut1(r) == TRUE
DrainedMut2(r) == reader[r] = "done"

\* reader.join: the reader is done, or the time is up.
Drained(r) == reader[r] = "done" \/ (holder[r] /\ pipe[r] = 0)

Result(r) == IF success[r] THEN "succeeded" ELSE "failed"

\* Mutant of Footer: the status as it is.
FooterMut(r) == status[r]

\* final_line: the status, or what it is about to become.
Footer(r) == IF status[r] = "running" THEN Result(r) ELSE status[r]

\* stop_capture has waited.
Drain(r) ==
  /\ waiter[r] = "drain"
  /\ Drained(r)
  /\ footer' = [footer EXCEPT ![r] = Footer(r)]
  /\ waiter' = [waiter EXCEPT ![r] = "close"]
  /\ UNCHANGED <<process, pipe, reader, logs, runs, canceller, view>>

\* The footer is written, the capture torn down and old logs deleted, under one lock.
Close(r) ==
  /\ waiter[r] = "close"
  /\ open' = open \ {r}
  /\ LET gone == Excess(r) IN
     /\ file' = [x \in Runs |->
                   IF x \in gone THEN None
                   ELSE IF x = r THEN [file[r] EXCEPT !.foot = footer[r]] ELSE file[x]]
     /\ older' = Among(Latest(r), Runs \ gone)
  /\ waiter' = [waiter EXCEPT ![r] = "finish"]
  /\ UNCHANGED <<process, pipe, reader, runs, footer, canceller, view>>

\* Mutant of Outcome: what the child did wins.
OutcomeMut(r) == Result(r)

Outcome(r) == IF status[r] = "running" THEN Result(r) ELSE status[r]

\* The run has ended, if it is still known.
Finish(r) ==
  /\ waiter[r] = "finish"
  /\ IF r \in known
     THEN /\ ended' = ended \cup {r}
          /\ status' = [status EXCEPT ![r] = Outcome(r)]
          /\ Prune(known, earlier, ended \cup {r})
     ELSE UNCHANGED runs
  /\ waiter' = [waiter EXCEPT ![r] = "done"]
  /\ UNCHANGED <<process, pipe, reader, logs, footer, canceller, view>>

-----------------------------------------------------------------------------
(* cancel *)

\* The mark comes before the signals; a second request finds it and returns.
Cancel(r) ==
  /\ r \in known \cap Eventful
  /\ status[r] = "running"
  /\ status' = [status EXCEPT ![r] = "cancelled"]
  /\ canceller' = [canceller EXCEPT ![r] = "marked"]
  /\ UNCHANGED <<process, pipe, reader, logs, ended, known, earlier, waiter, footer, view>>

\* getpgid: a process that has been waited for is not found; of one that has
\* exited, it depends on the system.
FindGroup(r) ==
  /\ canceller[r] = "marked"
  /\ \/ child[r] # "reaped" /\ canceller' = [canceller EXCEPT ![r] = "note"]
     \/ child[r] # "alive"  /\ canceller' = [canceller EXCEPT ![r] = "done"]
  /\ UNCHANGED <<process, pipe, reader, logs, runs, waiter, footer, view>>

\* write_line, which opens the log again if it has been closed; then SIGINT.
Note(r) ==
  /\ canceller[r] = "note"
  /\ LET f == IF file[r] = None THEN NewLog ELSE file[r] IN
     file' = [file EXCEPT ![r] = [f EXCEPT !.notes = @ + 1]]
  /\ Touch(r)
  /\ canceller' = [canceller EXCEPT ![r] = "int"]
  /\ UNCHANGED <<process, pipe, reader, open, runs, waiter, footer, view>>

\* The child has not gone in time: the next signal.
Escalate(r) ==
  /\ canceller[r] \in {"int", "term"}
  /\ child[r] = "alive"
  /\ canceller' = [canceller EXCEPT ![r] = IF @ = "int" THEN "term" ELSE "kill"]
  /\ UNCHANGED <<process, pipe, reader, logs, runs, waiter, footer, view>>

CancelFails(r) ==
  /\ canceller[r] = "kill"
  /\ child[r] = "alive"
  /\ canceller' = [canceller EXCEPT ![r] = "failed"]
  /\ UNCHANGED <<process, pipe, reader, logs, runs, waiter, footer, view>>

CancelReturns(r) ==
  /\ canceller[r] \in {"int", "term", "kill"}
  /\ child[r] # "alive"
  /\ child' = [child EXCEPT ![r] = "reaped"]
  /\ canceller' = [canceller EXCEPT ![r] = "done"]
  /\ UNCHANGED <<success, holder, said, pipe, reader, logs, runs, waiter, footer, view>>

-----------------------------------------------------------------------------
(* RunLogManager.stream *)

Watch(r) ==
  /\ view = None
  /\ r \in known \cap Eventful
  /\ view' = [run |-> r, got |-> 0, at |-> IF file[r] = None THEN "end" ELSE "read"]
  /\ UNCHANGED <<process, pipe, reader, logs, runs, waiter, footer, canceller>>

\* read_since: everything after the offset, or from the start if the log is shorter.
ViewRead ==
  /\ view # None /\ view.at = "read"
  /\ LET size == IF file[view.run] = None THEN 0 ELSE Size(file[view.run]) IN
     view' = IF size \in {0, view.got} THEN [view EXCEPT !.got = size, !.at = "check"]
             ELSE [view EXCEPT !.got = size]
  /\ UNCHANGED <<process, pipe, reader, logs, runs, waiter, footer, canceller>>

\* Mutant of IsRunning: a run that was forgotten is not known to have ended.
IsRunningMut(r) == r \notin known \/ status[r] = "running"

IsRunning(r) == r \in known /\ status[r] = "running"

\* Nothing new: the stream ends unless the run is running.
ViewCheck ==
  /\ view # None /\ view.at = "check"
  /\ view' = [view EXCEPT !.at = IF IsRunning(view.run) THEN "read" ELSE "end"]
  /\ UNCHANGED <<process, pipe, reader, logs, runs, waiter, footer, canceller>>

-----------------------------------------------------------------------------

Init ==
  /\ child = [r \in Runs |-> "none"]
  /\ success = [r \in Runs |-> FALSE]
  /\ holder = [r \in Runs |-> FALSE]
  /\ said = [r \in Runs |-> 0]
  /\ pipe = [r \in Runs |-> 0]
  /\ reader = [r \in Runs |-> "none"]
  /\ open = {}
  /\ file = [r \in Runs |-> None]
  /\ older = {}
  /\ status = [r \in Runs |-> "none"]
  /\ ended = {}
  /\ known = {} /\ earlier = {}
  /\ waiter = [r \in Runs |-> "none"]
  /\ footer = [r \in Runs |-> None]
  /\ canceller = [r \in Runs |-> "none"]
  /\ view = None

ReaderStep(r) == ReadLine(r) \/ ReadEof(r)
WaiterStep(r) == Reap(r) \/ Drain(r) \/ Close(r) \/ Finish(r)
CancelStep(r) == FindGroup(r) \/ Note(r) \/ Escalate(r) \/ CancelFails(r) \/ CancelReturns(r)
ViewStep == ViewRead \/ ViewCheck

\* SIGKILL has been sent.
Killed(r) == canceller[r] \in {"kill", "failed"} /\ Exit(r)

Next ==
  \/ \E r \in Runs:
       \/ Start(r) \/ Speak(r) \/ Exit(r) \/ HolderExits(r)
       \/ ReaderStep(r) \/ WaiterStep(r) \/ Cancel(r) \/ CancelStep(r) \/ Watch(r)
  \/ ViewStep

Spec == Init /\ [][Next]_vars

\* Threads run, and SIGKILL ends the child.  Nothing is asked of a child or of a
\* descendant otherwise.  A run takes finitely many steps, so that one condition
\* for the threads of all runs is enough.
ThreadStep == \E r \in Runs: ReaderStep(r) \/ WaiterStep(r) \/ CancelStep(r) \/ Killed(r)

FairSpec == Spec /\ WF_vars(ThreadStep) /\ WF_vars(ViewStep)

-----------------------------------------------------------------------------
(* Properties. *)

\* The variables have their types.
TypeOK ==
  /\ child \in [Runs -> {"none", "alive", "exited", "reaped"}]
  /\ success \in [Runs -> BOOLEAN] /\ holder \in [Runs -> BOOLEAN]
  /\ said \in [Runs -> Nat] /\ pipe \in [Runs -> Nat]
  /\ reader \in [Runs -> {"none", "reading", "done"}]
  /\ open \subseteq Runs
  /\ file \in [Runs -> Log \cup {None}]
  /\ older \subseteq Runs \X Runs
  /\ status \in [Runs -> Status \cup {"none"}]
  /\ ended \subseteq Runs
  /\ known \subseteq Runs /\ earlier \subseteq Runs \X Runs
  /\ waiter \in [Runs -> {"none", "wait", "drain", "close", "finish", "done"}]
  /\ footer \in [Runs -> Final \cup {None}]
  /\ canceller \in [Runs -> {"none", "marked", "note", "int", "term", "kill", "done", "failed"}]
  /\ view = None \/ view \in [run: Runs, got: Nat, at: {"read", "check", "end"}]

\* Whoever sees a run succeeded or failed finds in its log, unless that has been
\* deleted, everything the child printed and a footer that says the same
\* (_wait_loop 234-267).
LogComplete ==
  \A r \in Runs: status[r] \in {"succeeded", "failed"} /\ file[r] # None =>
    file[r].out = said[r] /\ file[r].foot = status[r]

\* A run that has not ended stays known, also while it is being cancelled, so
\* that it can be cancelled and its waiter can report; beyond the limit only
\* such runs are remembered (_prune_completed_locked 207-220).
UnfinishedKept ==
  /\ \A r \in Runs: waiter[r] \notin {"none", "done"} => r \in known
  /\ Cardinality(known) > MaxRuns => known \cap ended = {}

\* No log is deleted while it is being written, and of the complete ones no more
\* than keep_runs are kept, whichever runs end at the same time (stop_capture
\* 124-140, _enforce_keep_runs 208-233).
RetentionHolds ==
  /\ \A r \in open: file[r] # None
  /\ KeepRuns > 0 => Cardinality({r \in Runs: file[r] # None /\ file[r].foot # None}) <= KeepRuns

\* A run once cancelled is not reported as anything else (cancel 289-293, _wait_loop 261-265).
CancelSticks == [][\A r \in Runs: status[r] = "cancelled" => status'[r] = "cancelled"]_vars

\* A run whose child has exited, or that was cancelled, ends, although the child
\* ignores signals or a descendant keeps the pipe open (227-275, 281-340).
RunsEnd == \A r \in Runs: child[r] = "exited" \/ status[r] = "cancelled" ~> r \in ended

\* A stream of a run that has ended ends, also when the run is forgotten meanwhile.
StreamsEnd ==
  view # None /\ view.run \in ended ~> view # None /\ view.at = "end"

\* docs/SPEC/actions.md:21 says that the end of a run is judged by ended_at and not
\* by the mark "cancelled", and run_log_manager.py:293 that a stream ends once the
\* run has ended and there are no more lines.
StreamsFollowRuns ==
  [][ view # None /\ view.at = "check" /\ view'.at = "end" => view.run \in ended ]_vars
=============================================================================
