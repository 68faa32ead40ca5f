-------------------------- MODULE EngineUpdateProofs --------------------------
(***************************************************************************)
(* Theorems about EngineUpdate, for any updaters, clients, services and      *)
(* versions and any amount of trouble.                                       *)
(***************************************************************************)
EXTENDS EngineUpdate, TLAPS

\* Where an updater works on the engine, and where it holds the maintenance lock.
Acting == {"update", "resurrect", "start", "starting", "hold", "holding", "verify", "point", "unjournal"}
Inside == Acting \cup {"check", "prepare", "cut", "tell", "sorry", "leave"}

Ups == [Updaters -> Updater]

\* An updater at work knows where to and where back.
Planned(f) ==
  \A u \in Updaters:
    /\ f[u].at \in {"managed", "maint", "check"} => f[u].to = None
    /\ f[u].at \in Acting \cup {"cut", "tell"} =>
         f[u].rec \in Recovery /\ (f[u].back \/ f[u].to \in Versions)

\* Whoever waits for a command has given one.
Awaited(f, command) ==
  command # None /\ command.by \in Updaters =>
    f[command.by].at \in {"update", "resurrect", "starting", "holding", "done", "dead"}

Typed   == TypeOK /\ Planned(up)
TypeInv == Typed /\ Awaited(up, cli)

\* Only the holder of the lock works, prepares only without a journal, and a
\* client keeps the lock until its command has ended.
SectionInv ==
  /\ \A u \in Updaters: /\ up[u].at \in Inside => maint = u
                        /\ up[u].at \in {"prepare", "cut"} => journal = None
  /\ cli # None /\ cli.by \in Clients => maint = cli.by

\* Without a journal the engine selected runs, and nobody but a client commands it.
EngineInv ==
  /\ journal = None => daemon = current /\ (cli # None => cli.by \in Clients)
  /\ \A u \in Updaters:
       /\ up[u].at \in Acting => journal # None
       /\ up[u].at \in {"point", "unjournal"} => cli = None /\ daemon = Engine(u)
       /\ up[u].at = "unjournal" => current = Engine(u)
       /\ up[u].at = "tell" => journal = None

-----------------------------------------------------------------------------
(* The state of an updater. *)

LEMMA GoesFacts ==
  ASSUME up \in Ups, NEW u \in Updaters, NEW at \in Place, Goes(u, at)
  PROVE  /\ up' \in Ups
         /\ up'[u] = [up[u] EXCEPT !.at = at]
         /\ up'[u].at = at /\ up'[u].to = up[u].to /\ up'[u].back = up[u].back /\ up'[u].rec = up[u].rec
         /\ \A w \in Updaters \ {u}: up'[w] = up[w]
BY DEF Goes, Ups, Updater, Place

LEMMA EndsFacts ==
  ASSUME up \in Ups, NEW u \in Updaters, NEW at \in {"report", "done", "dead"}
  PROVE  /\ Ends(u, at) \in Ups
         /\ Ends(u, at)[u].at = at
         /\ \A w \in Updaters \ {u}: Ends(u, at)[w] = up[w]
BY DEF Ends, Fresh, Ups, Updater, Place

LEMMA QuitsFacts ==
  ASSUME up \in Ups, NEW u \in Updaters, NEW err \in BOOLEAN
  PROVE  /\ Quits(u, err) \in Ups
         /\ Quits(u, err)[u].at = "leave"
         /\ \A w \in Updaters \ {u}: Quits(u, err)[w] = up[w]
BY DEF Quits, Fresh, Ups, Updater, Place

\* Where an exception leads.
LEMMA CaughtFacts ==
  ASSUME up \in Ups, NEW u \in Updaters
  PROVE  /\ Caught(u) \in Ups
         /\ \A w \in Updaters \ {u}: Caught(u)[w] = up[w]
         /\ Caught(u)[u].at \in {"done", "leave", "sorry", "update"}
         /\ Caught(u)[u].at = "done" <=> up[u].at \in {"report", "write"}
         /\ Caught(u)[u].at = "update" =>
              /\ up[u].at \notin {"report", "write", "sorry", "prepare", "cut"}
              /\ up[u].to # None
              /\ Caught(u)[u].rec = up[u].rec
              /\ Caught(u)[u].back
<1>1. CASE up[u].at \in {"report", "write"}
  <2>1. Caught(u) = Ends(u, "done")
    BY <1>1 DEF Caught
  <2> QED
    BY <1>1, <2>1, EndsFacts
<1>2. CASE up[u].at \notin {"report", "write"} /\ (up[u].at \in {"sorry", "prepare", "cut"} \/ up[u].to = None)
  <2>1. Caught(u) = Quits(u, TRUE)
    BY <1>2 DEF Caught
  <2> QED
    BY <1>2, <2>1, QuitsFacts
<1>3. CASE up[u].at \notin {"report", "write", "sorry", "prepare", "cut"} /\ up[u].to # None /\ up[u].back
  <2>1. Caught(u) = [up EXCEPT ![u].at = "sorry"]
    BY <1>3 DEF Caught
  <2> QED
    BY <1>3, <2>1 DEF Ups, Updater, Place
<1>4. CASE up[u].at \notin {"report", "write", "sorry", "prepare", "cut"} /\ up[u].to # None /\ ~up[u].back
  <2>1. Caught(u) = [up EXCEPT ![u].at = "update", ![u].back = TRUE, ![u].todo = {}]
    BY <1>4 DEF Caught
  <2> QED
    BY <1>4, <2>1 DEF Ups, Updater, Place
<1> QED
  BY <1>1, <1>2, <1>3, <1>4

\* The next step of the adjustments.
LEMMA AdjustingFacts ==
  ASSUME up \in Ups, NEW u \in Updaters, NEW todo \in SUBSET Procs
  PROVE  /\ Adjusting(u, todo) \in Ups
         /\ \A w \in Updaters \ {u}: Adjusting(u, todo)[w] = up[w]
         /\ Adjusting(u, todo)[u].at \in {"starting", "holding", "hold", "verify"}
         /\ Adjusting(u, todo)[u].rec = up[u].rec
         /\ Adjusting(u, todo)[u].back = up[u].back
         /\ Adjusting(u, todo)[u].to = up[u].to
<1>1. PICK x \in {"starting", "holding", "hold", "verify"}:
        Adjusting(u, todo) = [up EXCEPT ![u].at = x, ![u].todo = todo]
  <2>1. CASE todo # {} /\ up[u].at \in {"start", "starting"}
    <3>1. Adjusting(u, todo) = [up EXCEPT ![u].at = "starting", ![u].todo = todo]
      BY <2>1, Zenon DEF Adjusting
    <3> QED
      BY <3>1
  <2>2. CASE todo # {} /\ up[u].at \notin {"start", "starting"}
    <3>1. Adjusting(u, todo) = [up EXCEPT ![u].at = "holding", ![u].todo = todo]
      BY <2>2, Zenon DEF Adjusting
    <3> QED
      BY <3>1
  <2>3. CASE todo = {} /\ up[u].at \in {"start", "starting"}
    <3>1. Adjusting(u, todo) = [up EXCEPT ![u].at = "hold", ![u].todo = todo]
      BY <2>3, Zenon DEF Adjusting
    <3> QED
      BY <3>1
  <2>4. CASE todo = {} /\ up[u].at \notin {"start", "starting"}
    <3>1. Adjusting(u, todo) = [up EXCEPT ![u].at = "verify", ![u].todo = todo]
      BY <2>4, Zenon DEF Adjusting
    <3> QED
      BY <3>1
  <2> QED
    BY <2>1, <2>2, <2>3, <2>4
<1> DEFINE f == [up EXCEPT ![u].at = x, ![u].todo = todo]
<1>2. /\ f \in Ups
      /\ \A w \in Updaters \ {u}: f[w] = up[w]
      /\ f[u].at = x /\ f[u].rec = up[u].rec /\ f[u].back = up[u].back /\ f[u].to = up[u].to
  BY DEF Ups, Updater, Place
<1>3. Adjusting(u, todo) = f
  BY <1>1
<1> HIDE DEF f
<1> QED
  BY <1>2, <1>3

\* The engine an updater works with is a version.
LEMMA EngineVersion ==
  ASSUME Typed, NEW u \in Updaters, up[u].at \in Acting
  PROVE  Engine(u) \in Versions /\ up[u].rec \in Recovery
BY DEF Typed, TypeOK, Planned, Engine, Recovery, Updater

LEMMA SaysType ==
  ASSUME NEW u \in Updaters, NEW status \in {"running", "failed", "succeeded"}, NEW rolled \in BOOLEAN,
         Says(u, status, rolled)
  PROVE  job' \in Job
BY DEF Says, Job

LEMMA ConnectType ==
  ASSUME daemon \in Versions \cup {None}, procs \in State, NEW v \in Versions, Connect(v)
  PROVE  daemon' \in Versions /\ procs' \in State
BY DEF Connect, State, engine

\* What the steps of one updater do to the types.
LEMMA UpdaterType ==
  ASSUME Typed, NEW u \in Updaters, Managed(u) \/ Step(u) \/ Breaks(u) \/ Crash(u)
  PROVE  Typed'
<1> USE DEF Typed, locks, engine, ghosts
<1>1. up \in Ups /\ up[u] \in Updater
  BY DEF TypeOK, Ups
<1>2. ASSUME up' \in Ups, \A w \in Updaters \ {u}: up'[w] = up[w],
             up'[u].at \in {"managed", "maint", "check"} => up'[u].to = None,
             up'[u].at \in Acting \cup {"cut", "tell"} =>
               up'[u].rec \in Recovery /\ (up'[u].back \/ up'[u].to \in Versions)
      PROVE  up' \in [Updaters -> Updater] /\ Planned(up')
  BY <1>2 DEF Planned, Ups
<1>3. CASE Managed(u)
  <2>1. PICK at \in {"maint", "report"}: Goes(u, at)
    BY <1>3 DEF Managed
  <2>2. up' \in Ups /\ Planned(up')
    BY <1>1, <1>2, <1>3, <2>1, GoesFacts DEF Managed, Planned, Place, Acting, Ups
  <2> QED
    BY <1>3, <2>2 DEF Managed, TypeOK, Ups
<1>4. CASE Maintain(u)
  <2>1. PICK at \in {"check", "report"}: Goes(u, at)
    BY <1>4 DEF Maintain
  <2>2. up' \in Ups /\ Planned(up')
    BY <1>1, <1>2, <1>4, <2>1, GoesFacts DEF Maintain, Planned, Place, Acting, Ups
  <2> QED
    BY <1>4, <2>2 DEF Maintain, TypeOK, Ups
<1>5. CASE Check(u)
  <2>1. job' \in Job
    BY <1>5, SaysType DEF Check
  <2>2. up' \in Ups /\ Planned(up')
    <3>1. CASE Interrupted
      <4>1. up' = [up EXCEPT ![u].at = "update", ![u].back = TRUE, ![u].rec = journal] /\ journal \in Recovery
        BY <1>5, <3>1 DEF Check, Interrupted, TypeOK
      <4> QED
        BY <1>1, <1>2, <4>1 DEF Ups, Updater, Place
    <3>2. CASE ~Interrupted
      BY <1>1, <1>2, <1>5, <3>2, GoesFacts DEF Check, Place, Acting, Ups
    <3> QED
      BY <3>1, <3>2
  <2> QED
    BY <1>5, <2>1, <2>2 DEF Check, TypeOK, Ups
<1>6. CASE Prepare(u)
  <2>0. up[u].at = "prepare" /\ Connect(current) /\ current \in Versions
    BY <1>6 DEF Prepare, TypeOK
  <2>1. daemon' \in Versions /\ procs' \in State
    BY <2>0, ConnectType DEF TypeOK
  <2>2. job' \in Job
    BY <1>6, SaysType DEF Prepare
  <2>3. releases' \subseteq Versions
    BY <1>6 DEF Prepare, TypeOK
  <2>4. up' \in Ups /\ Planned(up')
    <3>1. CASE up' = Quits(u, FALSE)
      BY <1>1, <1>2, <3>1, QuitsFacts DEF Acting, Ups
    <3>2. ASSUME NEW v \in Versions,
                 up' = [up EXCEPT ![u].at = "cut", ![u].to = v,
                                  ![u].rec = [before |-> procs', version |-> daemon']]
          PROVE  up' \in Ups /\ Planned(up')
      <4>1. [before |-> procs', version |-> daemon'] \in Recovery
        BY <2>1 DEF Recovery
      <4> QED
        BY <1>1, <1>2, <3>2, <4>1 DEF Ups, Updater, Place
    <3> QED
      BY <1>6, <3>1, <3>2 DEF Prepare
  <2> QED
    BY <1>6, <2>1, <2>2, <2>3, <2>4 DEF Prepare, TypeOK, Ups
<1>7. CASE Cut(u)
  <2>1. CASE up' = Quits(u, TRUE) /\ UNCHANGED <<journal, ghosts>>
    <3>1. up' \in Ups /\ Planned(up')
      BY <1>1, <1>2, <2>1, QuitsFacts DEF Acting, Ups
    <3> QED
      BY <1>7, <2>1, <3>1 DEF Cut, TypeOK, Ups
  <2>2. CASE journal' = [up[u].rec EXCEPT !.before = procs] /\ Goes(u, "update") /\ intent' = procs /\ moved' = {}
    <3>1. up[u].rec \in Recovery /\ (up[u].back \/ up[u].to \in Versions)
      BY <1>7 DEF Cut, Planned
    <3>2. journal' \in Recovery
      BY <2>2, <3>1 DEF Recovery, TypeOK
    <3>3. up' \in Ups /\ Planned(up')
      BY <1>1, <1>2, <2>2, <3>1, GoesFacts DEF Place, Ups
    <3> QED
      BY <1>7, <2>2, <3>2, <3>3 DEF Cut, TypeOK, Ups
  <2> QED
    BY <1>7, <2>1, <2>2 DEF Cut
<1>8. CASE Update(u) \/ Resurrect(u) \/ Adjust(u)
  <2>1. up[u].at \in Acting
    BY <1>8 DEF Update, Resurrect, Adjust, Acting
  <2>2. cli' \in Command
    <3>1. up[u].todo \subseteq Procs
      BY <1>1 DEF Updater
    <3>2. PICK op \in {"update", "resurrect", "restart", "stop"}, p \in Procs \cup {None}: Issue(u, op, p)
      BY <1>8, <3>1 DEF Update, Resurrect, Adjust
    <3> QED
      BY <2>1, <3>2, EngineVersion DEF Issue, Command
  <2>3. job' \in Job \cup {None}
    BY <1>8, SaysType DEF Update, Resurrect, Adjust, TypeOK
  <2> QED
    BY <1>8, <2>2, <2>3 DEF Update, Resurrect, Adjust, TypeOK
<1>9. CASE Look(u)
  <2>1. Engine(u) \in Versions /\ up[u].rec \in Recovery
    BY <1>9, EngineVersion DEF Look, Acting
  <2>2. daemon' \in Versions /\ procs' \in State
    BY <1>9, <2>1, ConnectType DEF Look, TypeOK
  <2>3. Todo(u) \in SUBSET Procs
    BY DEF Todo
  <2>4. up' \in Ups /\ Planned(up')
    BY <1>1, <1>2, <1>9, <2>1, <2>3, AdjustingFacts DEF Look, Planned, Acting, Ups
  <2> QED
    BY <1>9, <2>2, <2>4 DEF Look, TypeOK, Ups
<1>10. CASE Verify(u) \/ VerifyFails(u)
  <2>1. Engine(u) \in Versions /\ up[u].rec \in Recovery
    BY <1>10, EngineVersion DEF Verify, VerifyFails, Acting
  <2>2. daemon' \in Versions /\ procs' \in State
    BY <1>10, <2>1, ConnectType DEF Verify, VerifyFails, TypeOK
  <2>3. CASE Verify(u)
    <3>1. job' \in Job \cup {None}
      BY <2>3, SaysType DEF Verify, TypeOK
    <3>2. up' \in Ups /\ Planned(up')
      BY <1>1, <1>2, <2>1, <2>3, GoesFacts DEF Verify, Planned, Place, Acting, Ups
    <3> QED
      BY <2>2, <2>3, <3>1, <3>2 DEF Verify, TypeOK, Ups
  <2>4. CASE VerifyFails(u)
    <3>1. up' \in Ups /\ Planned(up')
      BY <1>1, <1>2, <2>1, <2>4, CaughtFacts DEF VerifyFails, Acting, Ups
    <3> QED
      BY <2>2, <2>4, <3>1 DEF VerifyFails, TypeOK, Ups
  <2> QED
    BY <1>10, <2>3, <2>4
<1>11. CASE Point(u) \/ Unjournal(u)
  <2>1. Engine(u) \in Versions /\ up[u].rec \in Recovery
    BY <1>11, EngineVersion DEF Point, Unjournal, Acting
  <2>2. PICK at \in {"unjournal", "tell"}: Goes(u, at)
    BY <1>11 DEF Point, Unjournal
  <2>3. up' \in Ups /\ Planned(up')
    BY <1>1, <1>2, <1>11, <2>1, <2>2, GoesFacts DEF Point, Unjournal, Planned, Place, Acting, Ups
  <2> QED
    BY <1>11, <2>1, <2>3 DEF Point, Unjournal, Selected, TypeOK, Ups
<1>12. CASE Tell(u) \/ TellFailed(u)
  <2>1. job' \in Job
    <3>1. up[u].back \in BOOLEAN /\ Result(u) \in {"failed", "succeeded"}
      BY <1>1 DEF Result, Updater
    <3> QED
      BY <1>12, <3>1, SaysType DEF Tell, TellFailed, Restored
  <2>2. up' \in Ups /\ Planned(up')
    BY <1>1, <1>2, <1>12, QuitsFacts DEF Tell, TellFailed, Acting, Ups
  <2> QED
    BY <1>12, <2>1, <2>2 DEF Tell, TellFailed, TypeOK, Ups
<1>13. CASE Leave(u)
  <2>1. PICK at \in {"report", "done"}: up' = Ends(u, at)
    BY <1>13 DEF Leave
  <2>2. up' \in Ups /\ Planned(up')
    BY <1>1, <1>2, <2>1, EndsFacts DEF Acting, Ups
  <2> QED
    BY <1>13, <2>2 DEF Leave, TypeOK, Ups
<1>14. CASE Report(u) \/ Write(u)
  <2>1. PICK at \in {"write", "done"}: Goes(u, at)
    BY <1>14 DEF Report, Write
  <2>2. job' \in Job \cup {None}
    BY <1>14, SaysType DEF Report, Write, TypeOK
  <2>3. up' \in Ups /\ Planned(up')
    BY <1>1, <1>2, <2>1, GoesFacts DEF Place, Acting, Ups
  <2> QED
    BY <1>14, <2>2, <2>3 DEF Report, Write, TypeOK, Ups
<1>15. CASE Breaks(u)
  <2>1. up' \in Ups /\ Planned(up')
    <3>1. Caught(u)[u].at = "update" => up[u].at \in Acting \cup {"tell"}
      BY <1>1, <1>15, CaughtFacts DEF Breaks, Planned, Updater, Place, Acting
    <3> QED
      BY <1>1, <1>2, <1>15, <3>1, CaughtFacts DEF Breaks, Planned, Acting, Ups
  <2>2. trouble' \in 0..MaxTrouble
    BY <1>15, FaultsKnown DEF Breaks, Trouble, TypeOK
  <2> QED
    BY <1>15, <2>1, <2>2 DEF Breaks, TypeOK, Ups
<1>16. CASE Crash(u)
  <2>1. up' \in Ups /\ Planned(up')
    BY <1>1, <1>2, <1>16, EndsFacts DEF Crash, Acting, Ups
  <2>2. trouble' \in 0..MaxTrouble
    BY <1>16, FaultsKnown DEF Crash, Trouble, TypeOK
  <2> QED
    BY <1>16, <2>1, <2>2 DEF Crash, TypeOK, Ups
<1> QED
  BY <1>3, <1>4, <1>5, <1>6, <1>7, <1>8, <1>9, <1>10, <1>11, <1>12, <1>13, <1>14, <1>15, <1>16 DEF Step

\* What a command leaves behind.
LEMMA EffectType ==
  ASSUME TypeOK, cli # None, Effect
  PROVE  daemon' \in Versions \cup {None} /\ procs' \in State
<1>1. cli \in Command
  BY DEF TypeOK
<1>2. CASE cli.op \in {"update", "resurrect"}
  BY <1>1, <1>2 DEF Effect, Command, TypeOK
<1>3. CASE cli.op \notin {"update", "resurrect"}
  BY <1>1, <1>3 DEF Effect, Command, TypeOK, State
<1> QED
  BY <1>2, <1>3

\* The end of a command, good or bad, in the updater that gave it.
LEMMA EndedFacts ==
  ASSUME up \in Ups, cli \in Command, cli.by \in Updaters
  PROVE  LET u == cli.by IN
         /\ Ended(u) \in Ups
         /\ \A w \in Updaters \ {u}: Ended(u)[w] = up[w]
         /\ Ended(u)[u].at \in {"resurrect", "start", "starting", "hold", "holding", "verify"}
         /\ Ended(u)[u].rec = up[u].rec /\ Ended(u)[u].back = up[u].back /\ Ended(u)[u].to = up[u].to
<1> DEFINE u == cli.by
<1>1. CASE cli.op = "update"
  <2>1. PICK x \in {"resurrect", "hold"}: Ended(u) = [up EXCEPT ![u].at = x]
    BY <1>1 DEF Ended
  <2> QED
    BY <2>1 DEF Ups, Updater, Place
<1>2. CASE cli.op = "resurrect"
  <2>1. Ended(u) = [up EXCEPT ![u].at = "start"]
    BY <1>2 DEF Ended
  <2> QED
    BY <2>1 DEF Ups, Updater, Place
<1>3. CASE cli.op \notin {"update", "resurrect"}
  <2>1. Ended(u) = Adjusting(u, up[u].todo \ {cli.on})
    BY <1>3 DEF Ended
  <2> DEFINE todo == up[u].todo \ {cli.on}
  <2>2. todo \in SUBSET Procs
    BY DEF Ups, Updater
  <2> HIDE DEF todo
  <2>3. /\ Adjusting(u, todo) \in Ups
        /\ \A w \in Updaters \ {u}: Adjusting(u, todo)[w] = up[w]
        /\ Adjusting(u, todo)[u].at \in {"starting", "holding", "hold", "verify"}
        /\ Adjusting(u, todo)[u].rec = up[u].rec
        /\ Adjusting(u, todo)[u].back = up[u].back
        /\ Adjusting(u, todo)[u].to = up[u].to
    BY <2>2, AdjustingFacts
  <2>4. Ended(u) = Adjusting(u, todo)
    BY <2>1 DEF todo
  <2> QED
    BY <2>3, <2>4
<1> QED
  BY <1>1, <1>2, <1>3

\* An updater changes no other.
LEMMA Others ==
  ASSUME up \in Ups, NEW u \in Updaters, Managed(u) \/ Step(u) \/ Breaks(u) \/ Crash(u)
  PROVE  \A w \in Updaters \ {u}: up'[w] = up[w]
<1>1. \A w \in Updaters \ {u}: Caught(u)[w] = up[w]
  BY CaughtFacts
<1>2. CASE Managed(u) \/ Maintain(u) \/ Check(u) \/ Prepare(u) \/ Cut(u)
  BY <1>1, <1>2 DEF Managed, Maintain, Check, Prepare, Cut, Goes, Quits, Ups
<1>3. CASE Update(u) \/ Resurrect(u) \/ Adjust(u)
  BY <1>3 DEF Update, Resurrect, Adjust
<1>4. CASE Look(u)
  <2>1. Todo(u) \in SUBSET Procs
    BY DEF Todo
  <2> QED
    BY <1>4, <2>1, AdjustingFacts DEF Look
<1>5. CASE Verify(u) \/ VerifyFails(u) \/ Point(u) \/ Unjournal(u)
  BY <1>1, <1>5 DEF Verify, VerifyFails, Point, Unjournal, Goes, Ups
<1>6. CASE Tell(u) \/ TellFailed(u) \/ Leave(u) \/ Report(u) \/ Write(u)
  BY <1>6 DEF Tell, TellFailed, Leave, Report, Write, Goes, Quits, Ends, Ups
<1>7. CASE Breaks(u) \/ Crash(u)
  BY <1>1, <1>7 DEF Breaks, Crash, Ends, Ups
<1> QED
  BY <1>2, <1>3, <1>4, <1>5, <1>6, <1>7 DEF Step

\* While it waits for a command, it can only die.
LEMMA Deaf ==
  ASSUME Typed, Awaited(up, cli), NEW u \in Updaters, Waiting(u), Managed(u) \/ Step(u) \/ Breaks(u) \/ Crash(u)
  PROVE  up'[u].at = "dead"
<1>1. up[u].at \in {"update", "resurrect", "starting", "holding", "done", "dead"}
  BY DEF Awaited, Waiting
<1>2. ~Managed(u) /\ ~Step(u) /\ ~Breaks(u)
  BY <1>1 DEF Managed, Step, Breaks, Maintain, Check, Prepare, Cut, Verify, VerifyFails,
    Point, Unjournal, Tell, TellFailed, Leave, Report, Write
<1>3. up' = Ends(u, "dead")
  BY <1>2 DEF Crash
<1> QED
  BY <1>3, EndsFacts DEF Typed, TypeOK, Ups

\* Every step keeps the types.
LEMMA TypeStep ==
  ASSUME TypeInv, [Next]_vars
  PROVE  TypeInv'
<1> USE DEF TypeInv, Typed, locks, engine, ghosts
<1>1. up \in Ups /\ cli \in Command \cup {None}
  BY DEF TypeOK, Ups
<1>2. ASSUME NEW u \in Updaters, Managed(u) \/ Step(u) \/ Breaks(u) \/ Crash(u)
      PROVE  TypeInv'
  <2>1. Typed'
    BY <1>2, UpdaterType
  <2>2. CASE Update(u) \/ Resurrect(u) \/ Adjust(u)
    <3>1. /\ up' = up
          /\ up[u].at \in {"update", "resurrect", "starting", "holding"}
      BY <2>2 DEF Update, Resurrect, Adjust
    <3>2. cli'.by = u
      <4>1. ASSUME NEW op, NEW p, Issue(u, op, p)
            PROVE  cli'.by = u
        BY <4>1 DEF Issue
      <4> QED
        BY <2>2, <4>1 DEF Update, Resurrect, Adjust
    <3>3. Awaited(up, cli)'
      BY <3>1, <3>2 DEF Awaited
    <3> QED
      BY <2>1, <3>3
  <2>3. CASE ~(Update(u) \/ Resurrect(u) \/ Adjust(u))
    <3>1. cli' = cli
      BY <1>2, <2>3 DEF Managed, Step, Breaks, Crash, Maintain, Check, Prepare, Cut, Look, Verify, VerifyFails,
        Point, Unjournal, Tell, TellFailed, Leave, Report, Write
    <3>2. \A w \in Updaters \ {u}: up'[w] = up[w]
      BY <1>1, <1>2, <2>3, Others
    <3>3. ASSUME Waiting(u)
          PROVE  up'[u].at \in {up[u].at, "dead"}
      BY <1>1, <1>2, <2>3, <3>3, Deaf
    <3> QED
      BY <2>1, <3>1, <3>2, <3>3 DEF Awaited, Waiting
  <2> QED
    BY <2>2, <2>3
<1>3. ASSUME NEW p \in Procs, ServiceFails(p)
      PROVE  TypeInv'
  BY <1>3, FaultsKnown DEF ServiceFails, Trouble, TypeOK, State, Awaited
<1>4. CASE CommandEnds \/ CommandFails
  <2>1. cli # None /\ cli \in Command /\ cli.by \in Updaters /\ cli' = None
    BY <1>1, <1>4 DEF CommandEnds, CommandFails
  <2>2. daemon' \in Versions \cup {None} /\ procs' \in State
    BY <1>4, <2>1, EffectType DEF CommandEnds, CommandFails, TypeOK, State
  <2>3. trouble' \in 0..MaxTrouble
    BY <1>4, FaultsKnown DEF CommandEnds, CommandFails, Trouble, TypeOK
  <2>4. up' \in Ups /\ Planned(up')
    <3>1. CASE Over(cli.by)
      BY <1>1, <1>4, <3>1 DEF CommandEnds, CommandFails
    <3>2. CASE ~Over(cli.by)
      <4>1. /\ up[cli.by].at \in Acting \ {"point", "unjournal"}
            /\ up[cli.by].rec \in Recovery /\ (up[cli.by].back \/ up[cli.by].to \in Versions)
        BY <2>1, <3>2 DEF Over, Awaited, Acting, Planned
      <4>2. up' \in {Ended(cli.by), Caught(cli.by)}
        BY <1>4, <3>2 DEF CommandEnds, CommandFails
      <4>3. /\ up' \in Ups
            /\ \A w \in Updaters \ {cli.by}: up'[w] = up[w]
            /\ up'[cli.by].at \notin {"managed", "maint", "check"}
        BY <1>1, <2>1, <4>2, EndedFacts, CaughtFacts
      <4>4. up'[cli.by].at \in Acting \cup {"cut", "tell"} =>
              up'[cli.by].rec \in Recovery /\ (up'[cli.by].back \/ up'[cli.by].to \in Versions)
        BY <1>1, <2>1, <4>1, <4>2, EndedFacts, CaughtFacts DEF Acting
      <4> QED
        BY <2>1, <4>3, <4>4 DEF Planned
    <3> QED
      BY <3>1, <3>2
  <2> QED
    BY <1>4, <2>1, <2>2, <2>3, <2>4 DEF CommandEnds, CommandFails, TypeOK, Awaited, Ups
<1>5. ASSUME NEW c \in Clients, Enter(c) \/ Call(c)
      PROVE  TypeInv'
  BY <1>1, <1>5, Apart DEF Enter, Call, Command, TypeOK, Awaited
<1>6. ASSUME NEW c \in Clients, Return(c)
      PROVE  TypeInv'
  <2>1. cli # None /\ cli \in Command /\ cli' = None
    BY <1>1, <1>6 DEF Return, Waiting
  <2>2. daemon' \in Versions \cup {None} /\ procs' \in State
    BY <1>6, <2>1 DEF Return, TypeOK, State, Command
  <2>3. intent' \in State
    BY <1>6 DEF Return, TypeOK, State
  <2> QED
    BY <1>6, <2>1, <2>2, <2>3 DEF Return, TypeOK, Awaited
<1>7. CASE UNCHANGED vars
  BY <1>7 DEF vars, TypeOK, Awaited
<1> QED
  BY <1>2, <1>3, <1>4, <1>5, <1>6, <1>7 DEF Next

LEMMA InitTypes == Init => TypeInv
<1> SUFFICES ASSUME Init PROVE TypeInv
  OBVIOUS
<1>1. Fresh \in Updater
  BY DEF Fresh, Updater, Place
<1>2. up \in [Updaters -> Updater]
  BY <1>1 DEF Init
<1>3. procs \in State /\ intent \in State
  BY DEF Init, State
<1>4. daemon \in Versions /\ current \in Versions /\ releases \subseteq Versions /\ trouble \in 0..MaxTrouble
  BY BundledKnown, FaultsKnown DEF Init
<1>5. TypeOK
  BY <1>2, <1>3, <1>4 DEF Init, TypeOK
<1> QED
  BY <1>5 DEF Init, TypeInv, Typed, Planned, Awaited, Fresh, Acting

\* The variables have their types, whatever fails and whoever dies.
THEOREM TypesCorrect == Spec => []TypeOK
<1>1. Init => TypeInv
  BY InitTypes
<1>2. TypeInv /\ [Next]_vars => TypeInv'
  BY TypeStep
<1>3. TypeInv => TypeOK
  BY DEF TypeInv, Typed
<1> QED
  BY <1>1, <1>2, <1>3, PTL DEF Spec

-----------------------------------------------------------------------------
(* Who is inside. *)

\* What a step of an updater does to the lock and the journal.
LEMMA InsideStep ==
  ASSUME TypeInv, SectionInv, NEW u \in Updaters, Managed(u) \/ Step(u) \/ Breaks(u) \/ Crash(u)
  PROVE  /\ up'[u].at \in Inside => maint' = u
         /\ maint' # maint => maint \in {None, u}
         /\ up'[u].at \in {"prepare", "cut"} => journal' = None
         /\ journal' # journal => maint = u
         /\ journal # None /\ journal' # None => journal' = journal
<1> USE DEF locks, engine, ghosts
<1>1. up \in Ups
  BY DEF TypeInv, Typed, TypeOK, Ups
<1>2. up[u].at \in Inside => maint = u
  BY DEF SectionInv
<1>3. ASSUME NEW at \in Place, Goes(u, at)
      PROVE  up'[u].at = at
  BY <1>1, <1>3, GoesFacts
<1>4. ASSUME NEW err \in BOOLEAN, up' = Quits(u, err)
      PROVE  up'[u].at = "leave"
  BY <1>1, <1>4, QuitsFacts
<1>5. CASE Managed(u)
  <2>1. up'[u].at \in {"maint", "report"}
    BY <1>3, <1>5 DEF Managed, Place
  <2> QED
    BY <1>5, <2>1 DEF Managed, Inside, Acting
<1>6. CASE Maintain(u)
  <2>1. \/ up'[u].at = "check" /\ maint = None /\ maint' = u
        \/ up'[u].at = "report" /\ maint' = maint
    BY <1>3, <1>6 DEF Maintain, Place
  <2> QED
    BY <1>6, <2>1 DEF Maintain, Inside, Acting
<1>7. CASE Check(u) \/ Prepare(u)
  <2>1. maint = u /\ maint' = u /\ journal' = journal
    BY <1>2, <1>7 DEF Check, Prepare, Inside
  <2>2. up'[u].at \in {"prepare", "cut"} => journal = None
    <3>1. CASE Check(u) /\ Interrupted
      <4>1. up' = [up EXCEPT ![u].at = "update", ![u].back = TRUE, ![u].rec = journal]
        BY <3>1 DEF Check
      <4> QED
        BY <1>1, <4>1 DEF Ups
    <3>2. CASE Check(u) /\ ~Interrupted
      BY <3>2 DEF Interrupted
    <3>3. CASE Prepare(u)
      BY <3>3 DEF Prepare, SectionInv
    <3> QED
      BY <1>7, <3>1, <3>2, <3>3
  <2> QED
    BY <2>1, <2>2
<1>8. CASE Cut(u)
  <2>1. maint = u /\ maint' = u /\ journal = None
    BY <1>2, <1>8 DEF Cut, Inside, SectionInv
  <2>2. up'[u].at \in {"update", "leave"}
    BY <1>3, <1>4, <1>8 DEF Cut, Place
  <2> QED
    BY <2>1, <2>2
<1>9. CASE Update(u) \/ Resurrect(u) \/ Adjust(u)
  BY <1>1, <1>2, <1>9 DEF Update, Resurrect, Adjust, Inside, Acting
<1>10. CASE Look(u)
  <2>1. Todo(u) \in SUBSET Procs
    BY DEF Todo
  <2>2. up'[u].at \in {"starting", "holding", "hold", "verify"}
    BY <1>1, <1>10, <2>1, AdjustingFacts DEF Look
  <2> QED
    BY <1>2, <1>10, <2>2 DEF Look, Inside, Acting
<1>11. CASE Verify(u) \/ Point(u) \/ Unjournal(u)
  <2>1. up'[u].at \in {"point", "unjournal", "tell"}
    BY <1>3, <1>11 DEF Verify, Point, Unjournal, Place
  <2>2. maint = u /\ maint' = u /\ journal' \in {journal, None}
    BY <1>2, <1>11 DEF Verify, Point, Unjournal, Inside, Acting
  <2> QED
    BY <2>1, <2>2
<1>12. CASE Tell(u) \/ TellFailed(u)
  <2>1. up'[u].at = "leave"
    BY <1>4, <1>12 DEF Tell, TellFailed
  <2> QED
    BY <1>2, <1>12, <2>1 DEF Tell, TellFailed, Inside
<1>13. CASE Leave(u) \/ Crash(u)
  <2>1. up'[u].at \in {"report", "done", "dead"}
    BY <1>1, <1>13, EndsFacts DEF Leave, Crash
  <2> QED
    BY <1>2, <1>13, <2>1 DEF Leave, Crash, Inside, Acting
<1>14. CASE Report(u) \/ Write(u)
  <2>1. up'[u].at \in {"write", "done"}
    BY <1>3, <1>14 DEF Report, Write, Place
  <2> QED
    BY <1>14, <2>1 DEF Report, Write, Inside, Acting
<1>15. CASE VerifyFails(u) \/ Breaks(u)
  <2>1. up[u].at \in Place
    BY <1>1 DEF Ups, Updater
  <2>2. up[u].at \in Inside \cup {"write"} /\ up' = Caught(u) /\ UNCHANGED <<journal, locks>>
    BY <1>15, <2>1 DEF VerifyFails, Breaks, Place, Inside, Acting
  <2>3. up'[u].at \in {"done", "leave", "sorry", "update"} /\ (up'[u].at = "done" <=> up[u].at \in {"report", "write"})
    BY <1>1, <2>2, CaughtFacts
  <2> QED
    BY <1>2, <2>2, <2>3 DEF Inside, Acting
<1> QED
  BY <1>5, <1>6, <1>7, <1>8, <1>9, <1>10, <1>11, <1>12, <1>13, <1>14, <1>15 DEF Step

\* What the end of a command does to its updater.
LEMMA CommandStep ==
  ASSUME TypeInv, CommandEnds \/ CommandFails
  PROVE  /\ cli # None /\ cli.by \in Updaters /\ cli' = None
         /\ up' = up \/ (/\ up[cli.by].at \in Acting
                        /\ up'[cli.by].at \in (Acting \ {"point", "unjournal"}) \cup {"leave", "sorry"})
         /\ \A w \in Updaters \ {cli.by}: up'[w] = up[w]
<1>1. up \in Ups /\ cli # None /\ cli \in Command /\ cli.by \in Updaters /\ cli' = None
  BY DEF TypeInv, Typed, TypeOK, Ups, CommandEnds, CommandFails
<1>2. CASE Over(cli.by)
  BY <1>1, <1>2 DEF CommandEnds, CommandFails
<1>3. CASE ~Over(cli.by)
  <2>1. up[cli.by].at \in Acting
    BY <1>1, <1>3 DEF Over, TypeInv, Awaited, Acting
  <2>2. up' \in {Ended(cli.by), Caught(cli.by)}
    BY <1>3 DEF CommandEnds, CommandFails
  <2>3. /\ \A w \in Updaters \ {cli.by}: up'[w] = up[w]
        /\ up'[cli.by].at \in {"resurrect", "start", "starting", "hold", "holding", "verify", "leave", "sorry", "update", "done"}
        /\ up'[cli.by].at # "done"
    BY <1>1, <2>1, <2>2, EndedFacts, CaughtFacts DEF Acting
  <2> QED
    BY <1>1, <2>1, <2>3 DEF Acting
<1> QED
  BY <1>2, <1>3

\* Only the holder of the maintenance lock works, and no journal replaces another.
LEMMA SectionStep ==
  ASSUME TypeInv, SectionInv, [Next]_vars
  PROVE  SectionInv' /\ (journal # None /\ journal' # None => journal' = journal)
<1> USE DEF locks, engine, ghosts
<1>1. up \in Ups /\ cli \in Command \cup {None}
  BY DEF TypeInv, Typed, TypeOK, Ups
<1>2. ASSUME NEW u \in Updaters, Managed(u) \/ Step(u) \/ Breaks(u) \/ Crash(u)
      PROVE  SectionInv' /\ (journal # None /\ journal' # None => journal' = journal)
  <2>1. /\ up'[u].at \in Inside => maint' = u
        /\ maint' # maint => maint \in {None, u}
        /\ up'[u].at \in {"prepare", "cut"} => journal' = None
        /\ journal' # journal => maint = u
        /\ journal # None /\ journal' # None => journal' = journal
    BY <1>2, InsideStep
  <2>2. \A w \in Updaters \ {u}: up'[w] = up[w]
    BY <1>1, <1>2, Others
  <2>3. cli' = cli \/ cli'.by = u
    <3>1. ASSUME NEW op, NEW p, Issue(u, op, p)
          PROVE  cli'.by = u
      BY <3>1 DEF Issue
    <3> QED
      BY <1>2, <3>1 DEF Managed, Step, Breaks, Crash, Maintain, Check, Prepare, Cut, Update, Resurrect, Look, Adjust,
        Verify, VerifyFails, Point, Unjournal, Tell, TellFailed, Leave, Report, Write
  <2>4. cli' # None /\ cli'.by \in Clients => maint' = cli'.by
    BY <2>1, <2>3, Apart DEF SectionInv
  <2> QED
    BY <2>1, <2>2, <2>4, Apart DEF SectionInv, Inside
<1>3. ASSUME NEW p \in Procs, ServiceFails(p)
      PROVE  SectionInv' /\ journal' = journal
  BY <1>3 DEF ServiceFails, SectionInv
<1>4. CASE CommandEnds \/ CommandFails
  <2>1. UNCHANGED <<journal, locks>>
    BY <1>4 DEF CommandEnds, CommandFails
  <2> QED
    BY <1>4, <2>1, CommandStep DEF SectionInv, Inside, Acting
<1>5. ASSUME NEW c \in Clients, Enter(c) \/ Call(c) \/ Return(c)
      PROVE  SectionInv' /\ journal' = journal
  <2>1. up' = up /\ journal' = journal
    BY <1>5 DEF Enter, Call, Return
  <2>2. \A u \in Updaters: maint # u
    BY <1>5, Apart DEF Enter, Call, Return, Waiting, SectionInv
  <2>3. cli' # None /\ cli'.by \in Clients => maint' = cli'.by
    BY <1>5, Apart DEF Enter, Call, Return, Waiting, SectionInv
  <2> QED
    BY <2>1, <2>2, <2>3 DEF SectionInv
<1>6. CASE UNCHANGED vars
  BY <1>6 DEF vars, SectionInv
<1> QED
  BY <1>2, <1>3, <1>4, <1>5, <1>6 DEF Next

\* The states an interrupted update has recorded are those that are restored: an updater
\* that writes a journal has the lock and has found none.
THEOREM JournalIsKept == Spec => JournalKept
<1>1. Init => SectionInv
  BY DEF Init, SectionInv, Fresh, Inside, Acting
<1>2. Init => TypeInv
  BY InitTypes
<1>3. TypeInv /\ SectionInv /\ [Next]_vars => TypeInv' /\ SectionInv'
  BY TypeStep, SectionStep
<1>4. TypeInv /\ SectionInv /\ [Next]_vars => [journal # None /\ journal' # None => journal' = journal]_vars
  BY SectionStep
<1> QED
  BY <1>1, <1>2, <1>3, <1>4, PTL DEF Spec, JournalKept

-----------------------------------------------------------------------------
(* The engine and the reports, as long as the reports can be written. *)

\* What a report says is true.
Truthful ==
  job' # job /\ (job'.status = "succeeded" \/ job'.rolled) => journal' = None /\ daemon' = current'

\* What a step of an updater does to the engine, when it can write its reports.
LEMMA EngineUpdaterStep ==
  ASSUME "write" \notin Faults, TypeInv, SectionInv, EngineInv,
         NEW u \in Updaters, Managed(u) \/ Step(u) \/ Breaks(u) \/ Crash(u)
  PROVE  /\ journal' = None => daemon' = current' /\ (cli' # None => cli'.by \in Clients)
         /\ up'[u].at \in Acting => journal' # None
         /\ up'[u].at \in {"point", "unjournal"} => cli' = None /\ daemon' = Engine(u)'
         /\ up'[u].at = "unjournal" => current' = Engine(u)'
         /\ up'[u].at = "tell" => journal' = None
         /\ UNCHANGED <<daemon, current, journal, cli>> \/ maint = u
         /\ Truthful
<1> USE DEF locks, engine, ghosts
<1>1. up \in Ups /\ up[u] \in Updater /\ current \in Versions
  BY DEF TypeInv, Typed, TypeOK, Ups
<1>2. ASSUME NEW at \in Place, Goes(u, at)
      PROVE  up'[u].at = at /\ Engine(u)' = Engine(u)
  BY <1>1, <1>2, GoesFacts DEF Engine
<1>3. ASSUME NEW err \in BOOLEAN, up' = Quits(u, err)
      PROVE  up'[u].at = "leave"
  BY <1>1, <1>3, QuitsFacts
<1>4. up[u].at \in Inside => maint = u
  BY DEF SectionInv
<1>5. journal = None => daemon = current /\ (cli # None => cli.by \in Clients)
  BY DEF EngineInv
<1>6. ASSUME UNCHANGED <<daemon, current, journal, cli>>, Truthful,
             up'[u].at \notin Acting \cup {"tell"} \/ (up'[u].at \in Acting \ {"point", "unjournal"} /\ journal # None)
      PROVE  /\ journal' = None => daemon' = current' /\ (cli' # None => cli'.by \in Clients)
             /\ up'[u].at \in Acting => journal' # None
             /\ up'[u].at \in {"point", "unjournal"} => cli' = None /\ daemon' = Engine(u)'
             /\ up'[u].at = "unjournal" => current' = Engine(u)'
             /\ up'[u].at = "tell" => journal' = None
             /\ UNCHANGED <<daemon, current, journal, cli>> \/ maint = u
             /\ Truthful
  BY <1>5, <1>6 DEF Acting
<1>7. CASE Managed(u) \/ Maintain(u) \/ Report(u) \/ Write(u)
  <2>1. up'[u].at \in {"maint", "report", "check", "write", "done"}
    BY <1>2, <1>7 DEF Managed, Maintain, Report, Write, Place
  <2>2. Truthful
    BY <1>7 DEF Managed, Maintain, Report, Write, Says, Truthful
  <2>3. UNCHANGED <<daemon, current, journal, cli>>
    BY <1>7 DEF Managed, Maintain, Report, Write
  <2> QED
    BY <1>6, <2>1, <2>2, <2>3 DEF Acting
<1>8. CASE Leave(u) \/ Crash(u)
  <2>1. up'[u].at \in {"report", "done", "dead"}
    BY <1>1, <1>8, EndsFacts DEF Leave, Crash
  <2>2. UNCHANGED <<daemon, current, journal, cli, job>>
    BY <1>8 DEF Leave, Crash
  <2> QED
    BY <1>6, <2>1, <2>2 DEF Acting, Truthful
<1>9. CASE Check(u)
  <2>1. UNCHANGED <<daemon, current, journal, cli>> /\ Truthful
    BY <1>9 DEF Check, Says, Truthful
  <2>2. CASE Interrupted
    <3>1. up' = [up EXCEPT ![u].at = "update", ![u].back = TRUE, ![u].rec = journal]
      BY <1>9, <2>2 DEF Check
    <3>2. up'[u].at = "update"
      BY <1>1, <3>1 DEF Ups
    <3> QED
      BY <1>6, <2>1, <2>2, <3>2 DEF Acting, Interrupted
  <2>3. CASE ~Interrupted
    <3>1. up'[u].at = "prepare"
      BY <1>2, <1>9, <2>3 DEF Check, Place
    <3> QED
      BY <1>6, <2>1, <3>1 DEF Acting
  <2> QED
    BY <2>2, <2>3
<1>10. CASE Prepare(u)
  <2>1. journal = None /\ daemon = current /\ daemon # None
    BY <1>1, <1>5, <1>10, Apart DEF Prepare, SectionInv
  <2>2. UNCHANGED <<daemon, current, journal, cli>>
    BY <1>10, <2>1 DEF Prepare, Connect
  <2>3. up'[u].at \in {"cut", "leave"}
    <3>1. ASSUME NEW v,
                 up' = [up EXCEPT ![u].at = "cut", ![u].to = v,
                                  ![u].rec = [before |-> procs', version |-> daemon']]
          PROVE  up'[u].at = "cut"
      BY <1>1, <3>1 DEF Ups
    <3> QED
      BY <1>3, <1>10, <3>1 DEF Prepare
  <2>4. Truthful
    BY <2>1, <2>2 DEF Truthful
  <2> QED
    BY <1>6, <2>2, <2>3, <2>4 DEF Acting
<1>11. CASE Cut(u)
  <2>1. maint = u /\ job' = job /\ UNCHANGED <<daemon, current, cli>>
    BY <1>4, <1>11 DEF Cut, Inside
  <2>2. CASE up' = Quits(u, TRUE) /\ journal' = journal
    BY <1>3, <1>6, <2>1, <2>2 DEF Acting, Truthful
  <2>3. CASE journal' = [up[u].rec EXCEPT !.before = procs] /\ Goes(u, "update")
    <3>1. journal' \in Recovery
      BY <1>11, <2>3 DEF Cut, TypeInv, Typed, TypeOK, Planned, Recovery
    <3>2. journal' # None
      BY <3>1, NoRecord DEF Recovery, State
    <3>3. up'[u].at = "update"
      BY <1>2, <2>3 DEF Place
    <3> QED
      BY <2>1, <3>2, <3>3 DEF Truthful
  <2> QED
    BY <1>11, <2>2, <2>3 DEF Cut
<1>12. CASE Update(u) \/ Resurrect(u) \/ Adjust(u)
  <2>1. up[u].at \in {"update", "resurrect", "starting", "holding"} /\ up' = up
    BY <1>12 DEF Update, Resurrect, Adjust
  <2>2. maint = u /\ journal # None /\ journal' = journal
    BY <1>4, <1>12, <2>1 DEF Update, Resurrect, Adjust, Inside, Acting, EngineInv
  <2>3. Truthful
    BY <1>12 DEF Update, Resurrect, Adjust, Says, Truthful
  <2> QED
    BY <2>1, <2>2, <2>3
<1>13. CASE Look(u)
  <2>1. Todo(u) \in SUBSET Procs
    BY DEF Todo
  <2>2. up'[u].at \in {"starting", "holding", "hold", "verify"}
    BY <1>1, <1>13, <2>1, AdjustingFacts DEF Look
  <2>3. maint = u /\ journal # None /\ journal' = journal /\ job' = job
    BY <1>4, <1>13 DEF Look, Inside, Acting, EngineInv
  <2> QED
    BY <2>2, <2>3 DEF Truthful
<1>14. CASE Verify(u)
  <2>1. up'[u].at = "point" /\ Engine(u)' = Engine(u)
    BY <1>2, <1>14 DEF Verify, Place
  <2>2. maint = u /\ journal # None /\ journal' = journal /\ cli' = None /\ daemon' = Engine(u)
    BY <1>4, <1>14 DEF Verify, Verified, Inside, Acting, EngineInv
  <2>3. Truthful
    BY <1>14 DEF Verify, Says, Truthful
  <2> QED
    BY <2>1, <2>2, <2>3
<1>15. CASE Point(u)
  <2>1. up'[u].at = "unjournal" /\ Engine(u)' = Engine(u)
    BY <1>2, <1>15 DEF Point, Place
  <2>2. maint = u /\ journal # None /\ cli = None /\ daemon = Engine(u)
    BY <1>4, <1>15 DEF Point, Inside, Acting, EngineInv
  <2>3. UNCHANGED <<daemon, journal, cli, job>> /\ current' = Engine(u)
    BY <1>15 DEF Point, Selected
  <2> QED
    BY <2>1, <2>2, <2>3 DEF Truthful
<1>16. CASE Unjournal(u)
  <2>1. up'[u].at = "tell"
    BY <1>2, <1>16 DEF Unjournal, Place
  <2>2. maint = u /\ cli = None /\ daemon = current
    BY <1>4, <1>16 DEF Unjournal, Inside, Acting, EngineInv
  <2>3. UNCHANGED <<daemon, current, cli, job>> /\ journal' = None
    BY <1>16 DEF Unjournal
  <2> QED
    BY <2>1, <2>2, <2>3 DEF Acting, Truthful
<1>17. CASE Tell(u) \/ TellFailed(u)
  <2>1. up'[u].at = "leave" /\ UNCHANGED <<daemon, current, journal, cli>>
    BY <1>3, <1>17 DEF Tell, TellFailed
  <2>2. CASE Tell(u)
    <3>1. journal = None
      BY <2>2 DEF Tell, EngineInv
    <3>2. Truthful
      BY <1>5, <2>1, <3>1 DEF Truthful
    <3> QED
      BY <1>6, <2>1, <3>2 DEF Acting
  <2>3. CASE TellFailed(u)
    <3>1. Truthful
      BY <2>3 DEF TellFailed, Restored, Says, Truthful
    <3> QED
      BY <1>6, <2>1, <3>1 DEF Acting
  <2> QED
    BY <1>17, <2>2, <2>3
<1>18. CASE VerifyFails(u)
  <2>1. maint = u /\ journal # None /\ journal' = journal /\ job' = job /\ up' = Caught(u)
    BY <1>4, <1>18 DEF VerifyFails, Inside, Acting, EngineInv
  <2>2. up'[u].at \in {"done", "leave", "sorry", "update"}
    BY <1>1, <2>1, CaughtFacts
  <2> QED
    BY <2>1, <2>2 DEF Acting, Truthful
<1>19. CASE Breaks(u)
  <2>1. up' = Caught(u) /\ UNCHANGED <<daemon, current, journal, cli, job>>
    BY <1>19 DEF Breaks
  <2>2. up[u].at \in Acting \cup {"prepare", "cut"}
    BY <1>1, <1>19 DEF Breaks, Trouble, Updater, Place, Acting
  <2>3. up'[u].at \in {"leave", "sorry"} \/ (up'[u].at = "update" /\ up[u].at \in Acting)
    BY <1>1, <2>1, <2>2, CaughtFacts DEF Acting
  <2>4. up'[u].at = "update" => journal # None
    BY <2>3 DEF EngineInv
  <2> QED
    BY <1>6, <2>1, <2>3, <2>4 DEF Acting, Truthful
<1> QED
  BY <1>7, <1>8, <1>9, <1>10, <1>11, <1>12, <1>13, <1>14, <1>15, <1>16, <1>17, <1>18, <1>19 DEF Step

\* Without a journal, the engine selected stays the one that runs.
LEMMA EngineStep ==
  ASSUME "write" \notin Faults, TypeInv, SectionInv, EngineInv, [Next]_vars
  PROVE  EngineInv' /\ Truthful
<1> USE DEF locks, engine, ghosts
<1>1. /\ up \in Ups /\ current \in Versions
  BY DEF TypeInv, Typed, TypeOK, Ups
<1>2. ASSUME NEW u \in Updaters, Managed(u) \/ Step(u) \/ Breaks(u) \/ Crash(u)
      PROVE  EngineInv' /\ Truthful
  <2>1. /\ journal' = None => daemon' = current' /\ (cli' # None => cli'.by \in Clients)
        /\ up'[u].at \in Acting => journal' # None
        /\ up'[u].at \in {"point", "unjournal"} => cli' = None /\ daemon' = Engine(u)'
        /\ up'[u].at = "unjournal" => current' = Engine(u)'
        /\ up'[u].at = "tell" => journal' = None
        /\ UNCHANGED <<daemon, current, journal, cli>> \/ maint = u
        /\ Truthful
    BY <1>2, EngineUpdaterStep
  <2>2. ASSUME NEW w \in Updaters \ {u}
        PROVE  /\ up'[w].at \in Acting => journal' # None
               /\ up'[w].at \in {"point", "unjournal"} => cli' = None /\ daemon' = Engine(w)'
               /\ up'[w].at = "unjournal" => current' = Engine(w)'
               /\ up'[w].at = "tell" => journal' = None
    <3>1. up'[w] = up[w] /\ Engine(w)' = Engine(w)
      BY <1>1, <1>2, Others DEF Engine
    <3>2. CASE up[w].at \in Inside
      <4>1. maint # u
        BY <3>2 DEF SectionInv
      <4> QED
        BY <2>1, <3>1, <4>1 DEF EngineInv
    <3>3. CASE up[w].at \notin Inside
      BY <3>1, <3>3 DEF Inside, Acting
    <3> QED
      BY <3>2, <3>3
  <2> QED
    BY <2>1, <2>2 DEF EngineInv
<1>3. ASSUME NEW p \in Procs, ServiceFails(p)
      PROVE  EngineInv' /\ Truthful
  BY <1>3 DEF ServiceFails, EngineInv, Engine, Truthful
<1>4. CASE CommandEnds \/ CommandFails
  <2>1. UNCHANGED <<journal, current, job>>
    BY <1>4 DEF CommandEnds, CommandFails
  <2>2. /\ cli # None /\ cli.by \in Updaters /\ cli' = None
        /\ up' = up \/ (/\ up[cli.by].at \in Acting
                       /\ up'[cli.by].at \in (Acting \ {"point", "unjournal"}) \cup {"leave", "sorry"})
        /\ \A w \in Updaters \ {cli.by}: up'[w] = up[w]
    BY <1>4, CommandStep
  <2>3. journal # None
    BY <2>2, Apart DEF EngineInv
  <2>4. \A w \in Updaters: up[w].at \notin {"point", "unjournal", "tell"}
    BY <2>2, <2>3 DEF EngineInv
  <2> QED
    BY <2>1, <2>2, <2>3, <2>4 DEF EngineInv, Acting, Truthful
<1>5. ASSUME NEW c \in Clients, Enter(c) \/ Call(c) \/ Return(c)
      PROVE  EngineInv' /\ Truthful
  <2>1. UNCHANGED <<up, journal, current, job>>
    BY <1>5 DEF Enter, Call, Return
  <2>2. \A u \in Updaters: maint # u
    BY <1>5, Apart DEF Enter, Call, Return, Waiting, SectionInv
  <2>3. \A u \in Updaters: up'[u].at \notin Inside
    BY <2>1, <2>2 DEF SectionInv
  <2>4. journal = None => daemon' = daemon
    BY <1>1, <1>5, Apart DEF Enter, Call, Return, EngineInv
  <2>5. journal' = None => daemon' = current' /\ (cli' # None => cli'.by \in Clients)
    BY <1>5, <2>1, <2>4 DEF Enter, Call, Return, EngineInv
  <2> QED
    BY <2>1, <2>3, <2>5 DEF EngineInv, Inside, Acting, Truthful
<1>6. CASE UNCHANGED vars
  BY <1>6 DEF vars, EngineInv, Engine, Truthful
<1> QED
  BY <1>2, <1>3, <1>4, <1>5, <1>6 DEF Next

\* The whole invariant, as long as the reports can be written.
LEMMA EngineHolds ==
  ASSUME "write" \notin Faults
  PROVE  Spec => [](TypeInv /\ SectionInv /\ EngineInv)
<1>1. Init => TypeInv /\ SectionInv /\ EngineInv
  <2>1. Init => SectionInv /\ EngineInv
    BY DEF Init, SectionInv, EngineInv, Fresh, Inside, Acting
  <2> QED
    BY <2>1, InitTypes
<1>2. TypeInv /\ SectionInv /\ EngineInv /\ [Next]_vars => TypeInv' /\ SectionInv' /\ EngineInv'
  BY TypeStep, SectionStep, EngineStep
<1> QED
  BY <1>1, <1>2, PTL DEF Spec

\* Whenever others are let in, the engine that runs is the one they use, however many
\* updaters failed or died in a cutover, as long as their reports can be written.
THEOREM EngineIsFenced ==
  ASSUME "write" \notin Faults
  PROVE  Spec => []FencedWhileMixed
<1>1. EngineInv => FencedWhileMixed
  BY DEF EngineInv, FencedWhileMixed, Unfenced
<1> QED
  BY <1>1, EngineHolds, PTL

\* An update reported as done, or as rolled back, is.
THEOREM ReportsAreTrue ==
  ASSUME "write" \notin Faults
  PROVE  Spec => ReportsTrue
<1>1. TypeInv /\ SectionInv /\ EngineInv /\ [Next]_vars =>
        [job' # job /\ (job'.status = "succeeded" \/ job'.rolled) => journal' = None /\ daemon' = current']_vars
  BY EngineStep DEF Truthful
<1> QED
  BY <1>1, EngineHolds, PTL DEF Spec, ReportsTrue
-----------------------------------------------------------------------------
(* The states of the services, as long as the reports can be written. *)

\* The services are as they were asked to be, but for those that failed by themselves.
Kept == \A p \in Procs \ moved: procs[p] = intent[p]

\* While there is a journal it says what the services were asked to be, whoever works
\* works with it, and no client is inside; a cutover is over once the services are
\* what it says, and without a journal they stay so.
StatesInv ==
  /\ maint \in Clients => journal = None
  /\ journal # None => intent = journal.before
  /\ journal = None => Kept
  /\ \A u \in Updaters: /\ up[u].at \in Acting => up[u].rec = journal
                        /\ up[u].at \in {"point", "unjournal"} => Kept

\* What a step of an updater does to the services and to what was asked of them.
LEMMA StatesUpdaterStep ==
  ASSUME "write" \notin Faults, TypeInv, SectionInv, EngineInv, StatesInv,
         NEW u \in Updaters, Managed(u) \/ Step(u) \/ Breaks(u) \/ Crash(u)
  PROVE  /\ journal' # None => intent' = journal'.before
         /\ journal' = None => Kept'
         /\ up'[u].at \in Acting => up'[u].rec = journal'
         /\ up'[u].at \in {"point", "unjournal"} => Kept'
         /\ UNCHANGED <<procs, ghosts>> \/ maint = u
<1> USE DEF locks, engine, ghosts
<1>1. up \in Ups /\ up[u] \in Updater /\ current \in Versions
  BY DEF TypeInv, Typed, TypeOK, Ups
<1>2. ASSUME NEW at \in Place, Goes(u, at)
      PROVE  up'[u].at = at /\ up'[u].rec = up[u].rec
  BY <1>1, <1>2, GoesFacts
<1>3. ASSUME NEW err \in BOOLEAN, up' = Quits(u, err)
      PROVE  up'[u].at = "leave"
  BY <1>1, <1>3, QuitsFacts
<1>4. up[u].at \in Inside => maint = u
  BY DEF SectionInv
<1>5. up[u].at \in Acting => maint = u /\ journal # None /\ up[u].rec = journal /\ intent = journal.before
  BY <1>4 DEF EngineInv, StatesInv, Inside
\* A step that changes neither the services nor the journal, and leads to no new place of rest.
<1>6. ASSUME UNCHANGED <<procs, ghosts, journal>>, up'[u].at \in Acting => up'[u].rec = journal,
             up'[u].at \in {"point", "unjournal"} => Kept
      PROVE  /\ journal' # None => intent' = journal'.before
             /\ journal' = None => Kept'
             /\ up'[u].at \in Acting => up'[u].rec = journal'
             /\ up'[u].at \in {"point", "unjournal"} => Kept'
             /\ UNCHANGED <<procs, ghosts>> \/ maint = u
  BY <1>6 DEF StatesInv, Kept
<1>7. CASE Managed(u) \/ Maintain(u) \/ Report(u) \/ Write(u)
  <2>1. up'[u].at \in {"maint", "report", "check", "write", "done"}
    BY <1>2, <1>7 DEF Managed, Maintain, Report, Write, Place
  <2>2. UNCHANGED <<procs, ghosts, journal>>
    BY <1>7 DEF Managed, Maintain, Report, Write
  <2> QED
    BY <1>6, <2>1, <2>2 DEF Acting
<1>8. CASE Leave(u) \/ Crash(u)
  <2>1. up'[u].at \in {"report", "done", "dead"}
    BY <1>1, <1>8, EndsFacts DEF Leave, Crash
  <2>2. UNCHANGED <<procs, ghosts, journal>>
    BY <1>8 DEF Leave, Crash
  <2> QED
    BY <1>6, <2>1, <2>2 DEF Acting
<1>9. CASE Check(u)
  <2>1. UNCHANGED <<procs, ghosts, journal>>
    BY <1>9 DEF Check
  <2>2. CASE Interrupted
    <3>1. up' = [up EXCEPT ![u].at = "update", ![u].back = TRUE, ![u].rec = journal]
      BY <1>9, <2>2 DEF Check
    <3>2. up'[u].at = "update" /\ up'[u].rec = journal
      BY <1>1, <3>1 DEF Ups, Updater
    <3> QED
      BY <1>6, <2>1, <3>2
  <2>3. CASE ~Interrupted
    <3>1. up'[u].at = "prepare"
      BY <1>2, <1>9, <2>3 DEF Check, Place
    <3> QED
      BY <1>6, <2>1, <3>1 DEF Acting
  <2> QED
    BY <2>2, <2>3
<1>10. CASE Prepare(u)
  <2>1. journal = None /\ daemon = current /\ daemon # None
    BY <1>1, <1>10, Apart DEF Prepare, SectionInv, EngineInv
  <2>2. UNCHANGED <<procs, ghosts, journal>>
    BY <1>10, <2>1 DEF Prepare, Connect
  <2>3. up'[u].at \in {"cut", "leave"}
    <3>1. ASSUME NEW v,
                 up' = [up EXCEPT ![u].at = "cut", ![u].to = v,
                                  ![u].rec = [before |-> procs', version |-> daemon']]
          PROVE  up'[u].at = "cut"
      BY <1>1, <3>1 DEF Ups
    <3> QED
      BY <1>3, <1>10, <3>1 DEF Prepare
  <2> QED
    BY <1>6, <2>2, <2>3 DEF Acting
<1>11. CASE Cut(u)
  <2>1. maint = u /\ UNCHANGED procs
    BY <1>4, <1>11 DEF Cut, Inside
  <2>2. CASE up' = Quits(u, TRUE) /\ UNCHANGED <<journal, ghosts>>
    BY <1>3, <1>6, <2>1, <2>2 DEF Acting
  <2>3. CASE /\ StatesMatch(up[u].rec.before, procs)
             /\ journal' = [up[u].rec EXCEPT !.before = procs] /\ Goes(u, "update")
             /\ intent' = procs
    <3>1. up[u].rec \in Recovery /\ up[u].rec.before = procs
      BY <1>11, <2>3 DEF Cut, StatesMatch, TypeInv, Typed, Planned
    <3>2. journal' = up[u].rec /\ journal'.before = procs /\ journal' # None
      BY <2>3, <3>1, NoRecord DEF Recovery, State
    <3>3. up'[u].at = "update" /\ up'[u].rec = up[u].rec
      BY <1>2, <2>3 DEF Place
    <3> QED
      BY <2>1, <2>3, <3>2, <3>3
  <2> QED
    BY <1>11, <2>2, <2>3 DEF Cut
<1>12. CASE Update(u) \/ Resurrect(u) \/ Adjust(u)
  <2>1. /\ up[u].at \in Acting /\ up[u].at \notin {"point", "unjournal"} /\ up' = up
        /\ UNCHANGED <<procs, ghosts, journal>>
    BY <1>12 DEF Update, Resurrect, Adjust, Acting
  <2> QED
    BY <1>5, <1>6, <2>1
<1>13. CASE Look(u)
  <2>1. Todo(u) \in SUBSET Procs
    BY DEF Todo
  <2>2. up'[u].at \in {"starting", "holding", "hold", "verify"} /\ up'[u].rec = up[u].rec
    BY <1>1, <1>13, <2>1, AdjustingFacts DEF Look
  <2>3. up[u].at \in Acting /\ UNCHANGED <<ghosts, journal>>
    BY <1>13 DEF Look, Acting
  <2> QED
    BY <1>5, <2>2, <2>3
<1>14. CASE Verify(u)
  <2>1. up'[u].at = "point" /\ up'[u].rec = up[u].rec
    BY <1>2, <1>14 DEF Verify, Place
  <2>2. up[u].at \in Acting /\ UNCHANGED <<intent, journal>> /\ procs' = up[u].rec.before
    BY <1>14 DEF Verify, Verified, StatesMatch, Acting
  <2>3. Kept'
    BY <1>5, <2>2 DEF Kept
  <2> QED
    BY <1>5, <2>1, <2>2, <2>3
<1>15. CASE Point(u)
  <2>1. up'[u].at = "unjournal" /\ up'[u].rec = up[u].rec
    BY <1>2, <1>15 DEF Point, Place
  <2>2. up[u].at \in Acting /\ Kept /\ UNCHANGED <<procs, ghosts, journal>>
    BY <1>15 DEF Point, Acting, StatesInv
  <2> QED
    BY <1>5, <1>6, <2>1, <2>2
<1>16. CASE Unjournal(u)
  <2>1. up'[u].at = "tell"
    BY <1>2, <1>16 DEF Unjournal, Place
  <2>2. up[u].at \in Acting /\ Kept /\ UNCHANGED <<procs, ghosts>> /\ journal' = None
    BY <1>16 DEF Unjournal, Acting, StatesInv
  <2>3. Kept'
    BY <2>2 DEF Kept
  <2> QED
    BY <2>1, <2>2, <2>3 DEF Acting
<1>17. CASE Tell(u) \/ TellFailed(u)
  <2>1. up'[u].at = "leave" /\ UNCHANGED <<procs, ghosts, journal>>
    BY <1>3, <1>17 DEF Tell, TellFailed
  <2> QED
    BY <1>6, <2>1 DEF Acting
<1>18. CASE VerifyFails(u)
  <2>1. up[u].at = "verify" /\ UNCHANGED <<ghosts, journal>> /\ up' = Caught(u)
    BY <1>18 DEF VerifyFails
  <2>2. /\ up'[u].at \in {"done", "leave", "sorry", "update"}
        /\ up'[u].at = "update" => up'[u].rec = up[u].rec
    BY <1>1, <2>1, CaughtFacts
  <2>3. up'[u].at \in Acting => up'[u].at = "update"
    BY <2>2 DEF Acting
  <2>4. /\ maint = u /\ journal # None /\ up[u].rec = journal /\ intent = journal.before
        /\ up'[u].at \notin {"point", "unjournal"}
    BY <1>5, <2>1, <2>2 DEF Acting
  <2> QED
    BY <2>1, <2>2, <2>3, <2>4
<1>19. CASE Breaks(u)
  <2>1. up' = Caught(u) /\ UNCHANGED <<procs, ghosts, journal>>
    BY <1>19 DEF Breaks
  <2>2. CASE up'[u].at = "update"
    <3>1. /\ up[u].at \notin {"report", "write", "sorry", "prepare", "cut"}
          /\ up'[u].rec = up[u].rec
      BY <1>1, <2>1, <2>2, CaughtFacts
    <3>2. up[u].at \notin {"managed", "maint", "leave", "done", "dead", "check", "tell"}
      BY <1>19 DEF Breaks, Trouble
    <3>3. up[u].at \in Acting
      BY <1>1, <3>1, <3>2 DEF Acting, Updater, Place
    <3> QED
      BY <1>5, <1>6, <2>1, <2>2, <3>1, <3>3
  <2>3. CASE up'[u].at \in {"done", "leave", "sorry"}
    BY <1>6, <2>1, <2>3 DEF Acting
  <2> QED
    BY <1>1, <2>1, <2>2, <2>3, CaughtFacts
<1> QED
  BY <1>7, <1>8, <1>9, <1>10, <1>11, <1>12, <1>13, <1>14, <1>15, <1>16, <1>17, <1>18, <1>19 DEF Step

\* Whoever moves a service takes note, or is inside and puts it back.
LEMMA StatesStep ==
  ASSUME "write" \notin Faults, TypeInv, SectionInv, EngineInv, StatesInv, [Next]_vars
  PROVE  StatesInv'
<1> USE DEF locks, engine, ghosts
<1>1. /\ up \in Ups /\ procs \in State /\ intent \in State
      /\ cli \in Command \cup {None} /\ current \in Versions
  BY DEF TypeInv, Typed, TypeOK, Ups
<1>2. ASSUME NEW u \in Updaters, Managed(u) \/ Step(u) \/ Breaks(u) \/ Crash(u)
      PROVE  StatesInv'
  <2>1. /\ journal' # None => intent' = journal'.before
        /\ journal' = None => Kept'
        /\ up'[u].at \in Acting => up'[u].rec = journal'
        /\ up'[u].at \in {"point", "unjournal"} => Kept'
        /\ UNCHANGED <<procs, ghosts>> \/ maint = u
    BY <1>2, StatesUpdaterStep
  <2>2. /\ maint' # maint => maint' \in {None, u}
        /\ journal' # journal => maint = u
        /\ up[u].at \in Inside => maint = u
    <3>1. maint' \in {maint, None, u}
      BY <1>2 DEF Managed, Step, Breaks, Crash, Maintain, Check, Prepare, Cut, Update, Resurrect, Look, Adjust,
        Issue, Verify, VerifyFails, Point, Unjournal, Tell, TellFailed, Leave, Report, Write
    <3> QED
      BY <1>2, <3>1, InsideStep DEF SectionInv
  <2>3. maint' \in Clients => journal' = None
    BY <2>2, Apart DEF StatesInv
  <2>4. ASSUME NEW w \in Updaters \ {u}
        PROVE  /\ up'[w].at \in Acting => up'[w].rec = journal'
               /\ up'[w].at \in {"point", "unjournal"} => Kept'
    <3>1. up'[w] = up[w]
      BY <1>1, <1>2, Others
    <3>2. CASE up[w].at \in Inside
      <4>1. maint # u
        BY <3>2 DEF SectionInv
      <4> QED
        BY <2>1, <2>2, <3>1, <4>1 DEF StatesInv, Kept
    <3>3. CASE up[w].at \notin Inside
      BY <3>1, <3>3 DEF Inside, Acting
    <3> QED
      BY <3>2, <3>3
  <2> QED
    BY <2>1, <2>3, <2>4 DEF StatesInv
<1>3. ASSUME NEW p \in Procs, ServiceFails(p)
      PROVE  StatesInv'
  <2>1. Kept => Kept'
    BY <1>1, <1>3 DEF ServiceFails, Kept, State
  <2> QED
    BY <1>3, <2>1 DEF ServiceFails, StatesInv
<1>4. CASE CommandEnds \/ CommandFails
  <2>1. UNCHANGED <<journal, intent, moved, maint>>
    BY <1>4 DEF CommandEnds, CommandFails
  <2>2. /\ cli # None /\ cli.by \in Updaters /\ cli' = None
        /\ up' = up \/ (/\ up[cli.by].at \in Acting
                       /\ up'[cli.by].at \in (Acting \ {"point", "unjournal"}) \cup {"leave", "sorry"})
        /\ \A w \in Updaters \ {cli.by}: up'[w] = up[w]
    BY <1>4, CommandStep
  <2>3. journal # None
    BY <2>2, Apart DEF EngineInv
  <2>4. \A w \in Updaters: up[w].at \notin {"point", "unjournal", "tell"}
    BY <2>2, <2>3 DEF EngineInv
  <2>5. up'[cli.by].rec = up[cli.by].rec \/ up'[cli.by].at \notin Acting
    <3>1. CASE Over(cli.by)
      BY <1>4, <3>1 DEF CommandEnds, CommandFails
    <3>2. CASE ~Over(cli.by)
      <4>1. up' \in {Ended(cli.by), Caught(cli.by)}
        BY <1>4, <3>2 DEF CommandEnds, CommandFails
      <4>2. up[cli.by].at \in Acting
        BY <2>2, <3>2 DEF Over, TypeInv, Awaited, Acting
      <4> QED
        BY <1>1, <2>2, <4>1, <4>2, EndedFacts, CaughtFacts DEF Acting
    <3> QED
      BY <3>1, <3>2
  <2> QED
    BY <2>1, <2>2, <2>3, <2>4, <2>5 DEF StatesInv, Acting
<1>5. ASSUME NEW c \in Clients, Enter(c) \/ Call(c) \/ Return(c)
      PROVE  StatesInv'
  <2>1. UNCHANGED <<up, journal>>
    BY <1>5 DEF Enter, Call, Return
  <2>2. \A u \in Updaters: maint # u
    BY <1>5, Apart DEF Enter, Call, Return, Waiting, SectionInv
  <2>3. \A u \in Updaters: up'[u].at \notin Inside
    BY <2>1, <2>2 DEF SectionInv
  <2>4. journal = None
    BY <1>5 DEF Enter, Admitted, Call, Return, Waiting, SectionInv, StatesInv
  <2>5. Kept'
    <3>1. CASE Enter(c) \/ Call(c)
      BY <2>4, <3>1 DEF Enter, Call, StatesInv, Kept
    <3>2. CASE Return(c)
      <4>1. daemon # None /\ cli.on \in Procs \cup {None}
        BY <1>1, <2>4, <3>2, Apart DEF Return, Waiting, EngineInv, Command
      <4>2. PICK s \in {"online", "stopped"}:
              /\ procs' = [p \in Procs |-> IF p = cli.on THEN s ELSE procs[p]]
              /\ intent' = [intent EXCEPT ![cli.on] = s]
        BY <3>2, <4>1 DEF Return
      <4>3. \A p \in Procs: /\ procs'[p] = (IF p = cli.on THEN s ELSE procs[p])
                            /\ intent'[p] = (IF p = cli.on THEN s ELSE intent[p])
        BY <1>1, <4>2 DEF State
      <4>4. moved' = moved \ {cli.on} /\ Kept
        BY <2>4, <3>2 DEF Return, StatesInv
      <4> QED
        BY <4>3, <4>4 DEF Kept
    <3> QED
      BY <1>5, <3>1, <3>2
  <2> QED
    BY <2>1, <2>3, <2>4, <2>5 DEF StatesInv, Inside, Acting
<1>6. CASE UNCHANGED vars
  BY <1>6 DEF vars, StatesInv, Kept
<1> QED
  BY <1>2, <1>3, <1>4, <1>5, <1>6 DEF Next

\* Whenever others are let in, every service is as it was last asked to be, unless it
\* failed by itself since: an update that succeeds, is undone or dies in a cutover and is
\* finished by another neither starts, stops nor drops one.
THEOREM StatesArePreserved ==
  ASSUME "write" \notin Faults
  PROVE  Spec => []StatesPreserved
<1>1. Init => StatesInv
  BY DEF Init, StatesInv, Kept, Fresh, Acting
<1>2. TypeInv /\ SectionInv /\ EngineInv /\ StatesInv /\ [Next]_vars => StatesInv'
  BY StatesStep
<1>3. StatesInv => StatesPreserved
  BY DEF StatesInv, Kept, StatesPreserved, Unfenced
<1> QED
  BY <1>1, <1>2, <1>3, EngineHolds, PTL DEF Spec
=============================================================================
