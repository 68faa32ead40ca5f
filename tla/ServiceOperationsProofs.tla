------------------------ MODULE ServiceOperationsProofs ------------------------
(***************************************************************************)
(* Theorems about ServiceOperations, for any services, clients, jobs and     *)
(* configurations.                                                           *)
(***************************************************************************)
EXTENDS ServiceOperations, FiniteSetTheorems, SequenceTheorems, TLAPS

-----------------------------------------------------------------------------
(* The configuration and the plan of a worker. *)

\* A valid configuration names services only, and no service is its own
\* dependency.
LEMMA RegistryFacts ==
  ASSUME NEW r \in Registries
  PROVE  /\ DOMAIN r \subseteq Services
         /\ \A s \in DOMAIN r: /\ r[s] \in Definition
                               /\ r[s].deps \subseteq DOMAIN r
                               /\ s \notin r[s].deps
<1>1. ValidRegistry(r)
  BY RegistriesValid
<1>2. Cardinality(Services) \in Nat
  BY ServicesFinite, FS_CardinalityType
<1>3. PICK rank \in [DOMAIN r -> 1..Cardinality(Services)]:
        \A s \in DOMAIN r: \A d \in r[s].deps: rank[d] < rank[s]
  BY <1>1 DEF ValidRegistry
<1>4. \A s \in DOMAIN r: s \notin r[s].deps
  BY <1>2, <1>3
<1> QED
  BY <1>1, <1>4 DEF ValidRegistry

\* A function on 1..n is a sequence of length n.
LEMMA FunctionIsSeq ==
  ASSUME NEW S, NEW n \in Nat, NEW f \in [1..n -> S]
  PROVE  f \in Seq(S) /\ Len(f) = n
<1>1. f \in Seq(S)
  BY SeqDef
<1>2. DOMAIN f = 1..Len(f) /\ Len(f) \in Nat
  BY <1>1, LenProperties
<1> QED
  BY <1>1, <1>2

\* The plan of a group is a sequence of steps on its members.
LEMMA PlanType ==
  ASSUME NEW S \in SUBSET Services, NEW o \in Orders(S), NEW act \in Action
  PROVE  Plan(act, o) \in Seq([svc: S, act: Action])
<1> DEFINE Step == [svc: S, act: Action]
<1>1. PICK n \in Nat: o \in [1..n -> S] /\ Len(o) = n
  <2>1. Cardinality(S) \in Nat
    BY ServicesFinite, FS_Subset, FS_CardinalityType
  <2>2. o \in [1..Cardinality(S) -> S]
    BY DEF Orders
  <2> QED
    BY <2>1, <2>2, FunctionIsSeq
<1>2. \A i \in 1..n: o[n + 1 - i] \in S /\ o[i] \in S
  BY <1>1
<1>3. CASE act = "stop"
  <2>1. Plan(act, o) = [i \in 1..n |-> [svc |-> o[n + 1 - i], act |-> "stop"]]
    BY <1>1, <1>3 DEF Plan
  <2>2. Plan(act, o) \in [1..n -> Step]
    BY <1>2, <2>1 DEF Action
  <2> QED
    BY <2>2, FunctionIsSeq
<1>4. CASE act = "start"
  <2>1. Plan(act, o) = [i \in 1..n |-> [svc |-> o[i], act |-> "start"]]
    BY <1>1, <1>4 DEF Plan
  <2>2. Plan(act, o) \in [1..n -> Step]
    BY <1>2, <2>1 DEF Action
  <2> QED
    BY <2>2, FunctionIsSeq
<1>5. CASE act = "restart"
  <2>1. Plan(act, o) = [i \in 1..(2 * n) |->
                         IF i <= n THEN [svc |-> o[n + 1 - i], act |-> "stop"]
                                   ELSE [svc |-> o[i - n], act |-> "start"]]
    BY <1>1, <1>5 DEF Plan
  <2>2. \A i \in 1..(2 * n): i <= n \/ i - n \in 1..n
    OBVIOUS
  <2>3. Plan(act, o) \in [1..(2 * n) -> Step]
    BY <1>1, <1>2, <2>1, <2>2 DEF Action
  <2>4. 2 * n \in Nat
    OBVIOUS
  <2> QED
    BY <2>3, <2>4, FunctionIsSeq
<1> QED
  BY <1>3, <1>4, <1>5 DEF Action

\* Leaving jobs out keeps the table a sequence of jobs.
LEMMA RetainType ==
  ASSUME NEW table \in Seq(JobIds)
  PROVE  Retain(table) \in Seq(JobIds)
<1>1. Len(table) \in Nat /\ \A i \in 1..Len(table): table[i] \in JobIds
  BY LenProperties, ElementOfSeq
<1>2. ASSUME Len(table) > JobLimit
      PROVE  SubSeq(table, Len(table) - JobLimit + 1, Len(table)) \in Seq(JobIds)
  <2>1. /\ Len(table) - JobLimit + 1 \in Int /\ Len(table) \in Int
        /\ \A i \in (Len(table) - JobLimit + 1)..Len(table): table[i] \in JobIds
    BY <1>1, <1>2, JobLimitPositive
  <2> QED
    BY <2>1, SubSeqProperties
<1> QED
  BY <1>2 DEF Retain

\* The arguments of a worker have their types.
LEMMA TaskType ==
  ASSUME registry \in Registries, gen \in [Services -> Nat],
         NEW S \in SUBSET DOMAIN registry, NEW o \in Orders(S), NEW act \in Action
  PROVE  TaskOK(Task(act, o, S))
<1>1. S \in SUBSET Services
  BY RegistryFacts
<1>2. Plan(act, o) \in Seq([svc: S, act: Action])
  BY <1>1, PlanType
<1>3. [s \in S |-> registry[s]] \in [S -> Definition]
  BY RegistryFacts
<1>4. [s \in S |-> gen[s]] \in [S -> Nat]
  BY <1>1
<1> QED
  BY <1>1, <1>2, <1>3, <1>4 DEF Task, TaskOK

\* What the arguments of a worker are made of.
LEMMA TaskFacts ==
  ASSUME NEW t, TaskOK(t)
  PROVE  /\ t.act \in Action
         /\ DOMAIN t.bound \subseteq Services
         /\ t.bound \in [DOMAIN t.bound -> Definition]
         /\ t.intent \in [DOMAIN t.bound -> Nat]
         /\ t.plan \in Seq([svc: DOMAIN t.bound, act: Action])
         /\ t \in [act: Action, plan: Seq([svc: DOMAIN t.bound, act: Action]),
                   bound: [DOMAIN t.bound -> Definition], intent: [DOMAIN t.bound -> Nat]]
<1>1. PICK S \in SUBSET Services:
        t \in [act: Action, plan: Seq([svc: S, act: Action]), bound: [S -> Definition], intent: [S -> Nat]]
  BY DEF TaskOK
<1>2. DOMAIN t.bound = S
  BY <1>1
<1> QED
  BY <1>1, <1>2

-----------------------------------------------------------------------------
(* Types. *)

\* A thread that holds the lock, or is about to take it, has a goal.
ThreadInv ==
  /\ pc \in [Actors -> PC]
  /\ goal \in [Actors -> Goal \cup {None}]
  /\ \A a \in Actors: pc[a] \in Holding \cup {"acquire", "wait"} => goal[a] \in Goal
  /\ cursor \in [Workers -> Nat \ {0}]
  /\ result \in [Workers -> [Services -> Outcome]]
  /\ online0 \in [Workers -> SUBSET Services]
  /\ attempt \in 0..2

\* A worker that was started, and a request about to register, has its arguments.
TaskInv ==
  /\ DOMAIN task = Actors /\ \A a \in Actors: task[a] = None \/ TaskOK(task[a])
  /\ \A c \in Clients: pc[c] = "register" => TaskOK(task[c])
  /\ \A w \in Workers: pc[w] # "idle" => TaskOK(task[w])

SharedInv ==
  /\ proc \in [Services -> Status]
  /\ registry \in Registries
  /\ lock \in Actors \cup {None}
  /\ gen \in [Services -> Nat]
  /\ maintenance \in BOOLEAN /\ shutdown \in BOOLEAN
  /\ jobs \in Seq(JobIds)
  /\ jobStatus \in [JobIds -> {"none", "queued", "running", "succeeded", "failed"}]
  /\ todo \in [Actors -> SUBSET Services]
  /\ cmd = None \/ cmd \in [op: {"start", "stop"}, svc: Services, by: Actors]
  /\ drift \subseteq Services

TypeInv == ThreadInv /\ TaskInv /\ SharedInv

\* Whatever a command leaves behind is a status.
LEMMA OutcomeTypes ==
  ASSUME NEW status \in Status
  PROVE  /\ StartOutcomes(status) \subseteq Status \X BOOLEAN
         /\ StopOutcomes(status) \subseteq Status \X BOOLEAN
         /\ <<status, FALSE>> \in Status \X BOOLEAN
         /\ \A outcome \in Status \X BOOLEAN: outcome[1] \in Status
<1>1. AliveStatus \subseteq Status /\ "stopped" \in Status /\ "waiting" \in Status
  BY DEF AliveStatus, Status
<1>2. \A x \in Status: \A b \in BOOLEAN: <<x, b>> \in Status \X BOOLEAN
  OBVIOUS
<1>3. \A outcome \in Status \X BOOLEAN: outcome[1] \in Status
  OBVIOUS
<1>4. StopOutcomes(status) \subseteq Status \X BOOLEAN
  BY <1>1, <1>2 DEF StopOutcomes
<1>5. (AliveStatus \X {TRUE}) \cup (Status \X {FALSE}) \subseteq Status \X BOOLEAN
  BY <1>1
<1>6. StartOutcomes(status) \subseteq Status \X BOOLEAN
  BY <1>2, <1>5 DEF StartOutcomes
<1> QED
  BY <1>2, <1>3, <1>4, <1>6

\* A worker that ends a step keeps the types.
LEMMA ConcludeType ==
  ASSUME ThreadInv, TaskInv, task' = task,
         NEW w \in Workers, pc[w] \in Holding \cup {"acquire", "wait"},
         NEW r \in Outcome, Conclude(w, r)
  PROVE  ThreadInv' /\ TaskInv'
<1>1. goal[w] \in Goal /\ w \in Actors /\ TaskOK(task[w])
  BY DEF ThreadInv, TaskInv, Actors, Holding
<1>2. ThreadInv'
  <2>1. result' \in [Workers -> [Services -> Outcome]]
    BY <1>1 DEF ThreadInv, Conclude, Goal
  <2>2. pc' \in [Actors -> PC] /\ goal' \in [Actors -> Goal \cup {None}]
    BY <1>1 DEF ThreadInv, Conclude, PC
  <2>3. cursor' \in [Workers -> Nat \ {0}] /\ attempt' \in 0..2 /\ online0' = online0
    BY DEF ThreadInv, Conclude
  <2>4. \A a \in Actors: pc'[a] \in Holding \cup {"acquire", "wait"} => goal'[a] \in Goal
    BY <1>1 DEF ThreadInv, Conclude, Holding
  <2> QED
    BY <2>1, <2>2, <2>3, <2>4 DEF ThreadInv
<1>3. TaskInv'
  BY <1>1 DEF ThreadInv, TaskInv, Conclude, Actors
<1> QED
  BY <1>2, <1>3

LEMMA WorkerFailsType ==
  ASSUME ThreadInv, TaskInv, task' = task,
         NEW w \in Workers, pc[w] \in Holding \cup {"acquire", "wait"},
         NEW retryable, WorkerFails(w, retryable)
  PROVE  ThreadInv' /\ TaskInv'
<1>1. CASE Conclude(w, "failed")
  BY <1>1, ConcludeType DEF Outcome
<1>2. CASE /\ attempt < 2
           /\ attempt' = attempt + 1
           /\ pc' = [pc EXCEPT ![w] = "acquire"]
           /\ UNCHANGED <<goal, cursor, result, online0>>
  BY <1>2 DEF ThreadInv, TaskInv, PC, Holding, Actors
<1> QED
  BY <1>1, <1>2 DEF WorkerFails

LEMMA AbortType ==
  ASSUME ThreadInv, TaskInv, SharedInv, task' = task,
         NEW a \in Actors, pc[a] \in Holding,
         NEW retryable, Abort(a, retryable)
  PROVE  /\ ThreadInv' /\ TaskInv'
         /\ lock' = None /\ drift' = {} /\ todo' \in [Actors -> SUBSET Services]
<1>1. /\ lock' = None /\ drift' = {}
      /\ todo' \in [Actors -> SUBSET Services]
  BY DEF Abort, Release, SharedInv
<1>2. CASE a \in Clients
  <2>1. pc' = [pc EXCEPT ![a] = "idle"] /\ goal' = [goal EXCEPT ![a] = None] /\ UNCHANGED workVars
    BY <1>2 DEF Abort
  <2>2. ThreadInv'
    BY <2>1 DEF ThreadInv, PC, Holding, workVars
  <2>3. TaskInv'
    BY <1>2, <2>1, ActorsDistinct DEF ThreadInv, TaskInv, Actors
  <2> QED
    BY <1>1, <2>2, <2>3
<1>3. CASE a \notin Clients
  BY <1>1, <1>3, WorkerFailsType DEF Abort, Actors
<1> QED
  BY <1>1, <1>2, <1>3

\* Every step keeps the types.
LEMMA TypeInvStep == TypeInv /\ [Next]_vars => TypeInv'
<1> SUFFICES ASSUME TypeInv, [Next]_vars
             PROVE  TypeInv'
  OBVIOUS
<1> USE DEF TypeInv
<1>1. ASSUME NEW a \in Actors, NEW s \in Services, PassCheck(a, s)
      PROVE  TypeInv'
  <2>1. ThreadInv'
    BY <1>1 DEF PassCheck, ctrlVars, jobVars, workVars, ThreadInv
  <2>2. TaskInv'
    BY <1>1, ActorsDistinct DEF PassCheck, ctrlVars, jobVars, workVars, ThreadInv, TaskInv
  <2>3. SharedInv'
    BY <1>1 DEF PassCheck, ctrlVars, jobVars, workVars, SharedInv
  <2> QED
    BY <2>1, <2>2, <2>3
<1>2. ASSUME NEW a \in Actors, CheckFails(a)
      PROVE  TypeInv'
  <2>1. pc[a] \in Holding /\ task' = task /\ \E retryable: Abort(a, retryable)
    BY <1>2 DEF CheckFails, Holding, jobVars
  <2>2. ThreadInv' /\ TaskInv'
    BY <1>2, <2>1, AbortType DEF TypeInv
  <2>3. SharedInv'
    BY <1>2, <2>1, AbortType DEF CheckFails, ctrlVars, jobVars, workVars, SharedInv
  <2> QED
    BY <2>2, <2>3
<1>3. ASSUME NEW a \in Actors, EndCheck(a)
      PROVE  TypeInv'
  <2>1. ThreadInv'
    BY <1>3 DEF EndCheck, Actors, ctrlVars, jobVars, workVars, ThreadInv, PC, Holding
  <2>2. TaskInv'
    BY <1>3, ActorsDistinct DEF EndCheck, Actors, ctrlVars, jobVars, workVars, ThreadInv, TaskInv
  <2>3. SharedInv'
    <3>1. todo' = todo \/ todo' = [todo EXCEPT ![a] = Dependents(goal[a].svc) \ Scope(a)]
      BY <1>3 DEF EndCheck
    <3>2. Dependents(goal[a].svc) \subseteq Services
      BY RegistryFacts DEF SharedInv, Dependents
    <3>3. todo' \in [Actors -> SUBSET Services]
      BY <3>1, <3>2 DEF SharedInv
    <3> QED
      BY <1>3, <3>3 DEF EndCheck, SharedInv, ctrlVars, jobVars
  <2> QED
    BY <2>1, <2>2, <2>3
<1>4. ASSUME NEW w \in Workers, AlreadyOnline(w)
      PROVE  TypeInv'
  <2>1. ThreadInv'
    BY <1>4 DEF AlreadyOnline, Release, Actors, ctrlVars, jobVars, workVars, ThreadInv, PC, Holding
  <2>2. TaskInv'
    BY <1>4, ActorsDistinct DEF AlreadyOnline, Release, Actors, ctrlVars, jobVars, workVars, ThreadInv, TaskInv
  <2>3. SharedInv'
    BY <1>4 DEF AlreadyOnline, Release, Actors, ctrlVars, jobVars, workVars, SharedInv
  <2> QED
    BY <2>1, <2>2, <2>3
<1>5. ASSUME NEW a \in Actors, StopCommand(a)
      PROVE  TypeInv'
  <2>1. pc[a] \in Holding /\ task' = task /\ goal[a] \in Goal
    BY <1>5 DEF StopCommand, Command, ctrlVars, jobVars, workVars, Holding, ThreadInv
  <2>2. proc' \in [Services -> Status]
    <3>1. proc[goal[a].svc] \in Status
      BY <2>1 DEF SharedInv, Goal
    <3>2. PICK outcome \in IF maintenance THEN {<<proc[goal[a].svc], FALSE>>}
                            ELSE StopOutcomes(proc[goal[a].svc]):
            proc' = [proc EXCEPT ![goal[a].svc] = outcome[1]]
      BY <1>5 DEF StopCommand, Command
    <3>3. outcome[1] \in Status
      BY <3>1, <3>2, OutcomeTypes
    <3> QED
      BY <3>2, <3>3 DEF SharedInv
  <2>3. cmd' \in [op: {"start", "stop"}, svc: Services, by: Actors]
    BY <1>5, <2>1 DEF StopCommand, Command, ctrlVars, jobVars, workVars, Goal
  <2>4. \/ \E retryable: Abort(a, retryable)
        \/ /\ \E next \in {"record", "relaunch"}: pc' = [pc EXCEPT ![a] = next]
           /\ UNCHANGED <<lock, goal, todo, drift, workVars>>
    BY <1>5 DEF StopCommand, Command, ctrlVars, jobVars, workVars
  <2>5. ThreadInv' /\ TaskInv'
    BY <2>1, <2>4, AbortType DEF ThreadInv, TaskInv, Holding, PC, workVars, Actors
  <2>6. lock' \in Actors \cup {None} /\ drift' \subseteq Services /\ todo' \in [Actors -> SUBSET Services]
    BY <2>1, <2>4, AbortType DEF SharedInv
  <2>7. SharedInv'
    BY <1>5, <2>2, <2>3, <2>6 DEF SharedInv, StopCommand, Command, ctrlVars, jobVars, workVars
  <2> QED
    BY <2>5, <2>7
<1>6. ASSUME NEW a \in Actors, StartCommand(a)
      PROVE  TypeInv'
  <2>1. pc[a] \in Holding /\ task' = task /\ goal[a] \in Goal
    BY <1>6 DEF StartCommand, Command, ctrlVars, jobVars, workVars, Holding, ThreadInv
  <2>2. proc' \in [Services -> Status]
    <3>1. proc[goal[a].svc] \in Status
      BY <2>1 DEF SharedInv, Goal
    <3>2. PICK outcome \in IF maintenance THEN {<<proc[goal[a].svc], FALSE>>}
                            ELSE StartOutcomes(proc[goal[a].svc]):
            proc' = [proc EXCEPT ![goal[a].svc] = outcome[1]]
      BY <1>6 DEF StartCommand, Command
    <3>3. outcome[1] \in Status
      BY <3>1, <3>2, OutcomeTypes
    <3> QED
      BY <3>2, <3>3 DEF SharedInv
  <2>3. cmd' \in [op: {"start", "stop"}, svc: Services, by: Actors]
    BY <1>6, <2>1 DEF StartCommand, Command, ctrlVars, jobVars, workVars, Goal
  <2>4. \/ \E retryable: Abort(a, retryable)
        \/ /\ \E next \in {"record", "relaunch"}: pc' = [pc EXCEPT ![a] = next]
           /\ UNCHANGED <<lock, goal, todo, drift, workVars>>
    BY <1>6 DEF StartCommand, Command, ctrlVars, jobVars, workVars
  <2>5. ThreadInv' /\ TaskInv'
    BY <2>1, <2>4, AbortType DEF ThreadInv, TaskInv, Holding, PC, workVars, Actors
  <2>6. lock' \in Actors \cup {None} /\ drift' \subseteq Services /\ todo' \in [Actors -> SUBSET Services]
    BY <2>1, <2>4, AbortType DEF SharedInv
  <2>7. SharedInv'
    BY <1>6, <2>2, <2>3, <2>6 DEF SharedInv, StartCommand, Command, ctrlVars, jobVars, workVars
  <2> QED
    BY <2>5, <2>7
<1>7. ASSUME NEW a \in Actors, Record(a)
      PROVE  TypeInv'
  <2>1. pc[a] \in Holding /\ task' = task /\ goal[a] \in Goal
    BY <1>7 DEF Record, Release, ctrlVars, jobVars, workVars, Holding, ThreadInv
  <2>2. ThreadInv' /\ TaskInv'
    BY <1>7, <2>1, ConcludeType, ActorsDistinct DEF Record, Release, ctrlVars, jobVars, workVars, ThreadInv, TaskInv, PC, Holding, Outcome, Actors
  <2>3. gen' \in [Services -> Nat]
    <3>1. gen' = gen \/ gen' = [gen EXCEPT ![goal[a].svc] = @ + 1]
      BY <1>7 DEF Record
    <3> QED
      BY <2>1, <3>1 DEF SharedInv, Goal
  <2>4. SharedInv'
    BY <1>7, <2>3 DEF Record, Release, ctrlVars, jobVars, workVars, SharedInv
  <2> QED
    BY <2>2, <2>4
<1>8. ASSUME NEW c \in Clients, Register(c)
      PROVE  TypeInv'
  <2>1. CASE Busy
    <3>1. TaskInv'
      BY <1>8, <2>1 DEF Register, TaskInv, TaskOK, ThreadInv, Actors, Workers
    <3>2. ThreadInv' /\ SharedInv'
      BY <1>8, <2>1 DEF Register, ThreadInv, SharedInv, PC, Holding, Actors, ctrlVars, workVars
    <3> QED
      BY <3>1, <3>2
  <2>2. CASE ~Busy
    <3>1. PICK j \in JobIds:
            /\ jobs' = Retain(Append(jobs, j))
            /\ jobStatus' = [jobStatus EXCEPT ![j] = "queued"]
            /\ task' = [task EXCEPT ![c] = None, ![j] =
                 [task[c] EXCEPT !.intent = [s \in DOMAIN task[c].bound |-> gen[s]]]]
            /\ pc' = [pc EXCEPT ![c] = "idle", ![j] = "queued"]
      BY <1>8, <2>2 DEF Register
    <3>2. c \in Actors /\ j \in Actors /\ j \in Workers /\ c # j /\ c \notin Workers /\ j \notin Clients
      BY ActorsDistinct DEF Actors, Workers
    <3>3. TaskOK(task[c])
      BY <1>8, <3>2 DEF Register, TaskInv
    <3> DEFINE new == [task[c] EXCEPT !.intent = [s \in DOMAIN task[c].bound |-> gen[s]]]
    <3>4. TaskOK(new)
      <4>1. [s \in DOMAIN task[c].bound |-> gen[s]] \in [DOMAIN task[c].bound -> Nat]
        BY <3>3, TaskFacts DEF SharedInv
      <4> QED
        BY <3>3, <4>1, TaskFacts DEF TaskOK
    <3>5. TaskInv'
      <4>1. /\ DOMAIN task' = Actors
            /\ \A a \in Actors: task'[a] = IF a = j THEN new ELSE IF a = c THEN None ELSE task[a]
        BY <3>1, <3>2 DEF TaskInv
      <4>2. \A a \in Actors: pc'[a] = IF a = j THEN "queued" ELSE IF a = c THEN "idle" ELSE pc[a]
        BY <3>1, <3>2 DEF ThreadInv
      <4> HIDE DEF new
      <4> QED
        BY <3>2, <3>4, <4>1, <4>2 DEF TaskInv, Actors
    <3>6. jobs' \in Seq(JobIds)
      BY <3>1, RetainType, AppendProperties DEF SharedInv
    <3>7. ThreadInv' /\ SharedInv'
      BY <1>8, <3>1, <3>2, <3>6 DEF Register, ThreadInv, SharedInv, PC, Holding, ctrlVars, workVars
    <3> QED
      BY <3>5, <3>7
  <2> QED
    BY <2>1, <2>2
<1>9. ASSUME NEW j \in JobIds, RunJob(j)
      PROVE  TypeInv'
  <2>1. ThreadInv'
    BY <1>9 DEF RunJob, Actors, Workers, ctrlVars, jobVars, workVars, ThreadInv, PC, Holding
  <2>2. TaskInv'
    BY <1>9, ActorsDistinct DEF RunJob, Actors, Workers, ctrlVars, jobVars, workVars, ThreadInv, TaskInv
  <2>3. SharedInv'
    BY <1>9, TaskFacts DEF RunJob, Actors, Workers, ctrlVars, jobVars, workVars, SharedInv, TaskInv
  <2> QED
    BY <2>1, <2>2, <2>3
<1>10. ASSUME NEW j \in JobIds, NEW s \in Services, SurveyOne(j, s)
      PROVE  TypeInv'
  <2>1. ThreadInv'
    BY <1>10 DEF SurveyOne, Actors, Workers, ctrlVars, jobVars, workVars, ThreadInv
  <2>2. TaskInv'
    BY <1>10, ActorsDistinct DEF SurveyOne, Actors, Workers, ctrlVars, jobVars, workVars, ThreadInv, TaskInv
  <2>3. SharedInv'
    BY <1>10 DEF SurveyOne, Actors, Workers, ctrlVars, jobVars, workVars, SharedInv
  <2> QED
    BY <2>1, <2>2, <2>3
<1>11. ASSUME NEW j \in JobIds, SurveyFails(j)
      PROVE  TypeInv'
  <2>1. ThreadInv'
    BY <1>11 DEF SurveyFails, Actors, Workers, ctrlVars, jobVars, workVars, ThreadInv, PC, Holding
  <2>2. TaskInv'
    BY <1>11, ActorsDistinct DEF SurveyFails, Actors, Workers, ctrlVars, jobVars, workVars, ThreadInv, TaskInv
  <2>3. SharedInv'
    BY <1>11 DEF SurveyFails, Actors, Workers, ctrlVars, jobVars, workVars, SharedInv
  <2> QED
    BY <2>1, <2>2, <2>3
<1>12. ASSUME NEW j \in JobIds, SurveyDone(j)
      PROVE  TypeInv'
  <2>1. ThreadInv'
    BY <1>12 DEF SurveyDone, Actors, Workers, ctrlVars, jobVars, workVars, ThreadInv, PC, Holding
  <2>2. TaskInv'
    BY <1>12, ActorsDistinct DEF SurveyDone, Actors, Workers, ctrlVars, jobVars, workVars, ThreadInv, TaskInv
  <2>3. SharedInv'
    BY <1>12 DEF SurveyDone, Actors, Workers, ctrlVars, jobVars, workVars, SharedInv
  <2> QED
    BY <2>1, <2>2, <2>3
<1>13. ASSUME Autostart
      PROVE  TypeInv'
  <2> DEFINE S == AutoSelected
  <2>1. PICK o \in Orders(S): task' = [task EXCEPT ![Starter] = Task("start", o, S)]
    BY <1>13 DEF Autostart
  <2>2. S \in SUBSET DOMAIN registry
    BY DEF Selected, AutoSelected
  <2>3. TaskOK(Task("start", o, S))
    BY <2>2, TaskType DEF SharedInv, Action
  <2>4. TaskInv'
    BY <1>13, <2>1, <2>3, ActorsDistinct DEF Autostart, Actors, Workers, ctrlVars, jobVars, workVars, ThreadInv, TaskInv, Workers
  <2>5. ThreadInv' /\ SharedInv'
    BY <1>13 DEF Autostart, Actors, Workers, ctrlVars, jobVars, workVars, ThreadInv, SharedInv, PC, Holding
  <2> QED
    BY <2>4, <2>5
<1>14. ASSUME NEW w \in Workers, NextStep(w)
      PROVE  TypeInv'
  <2> DEFINE step == task[w].plan[cursor[w]]
  <2>1. w \in Actors /\ TaskOK(task[w])
    BY <1>14 DEF NextStep, TaskInv, Actors
  <2>2. step \in Goal
    <3>1. cursor[w] \in 1..Len(task[w].plan)
      BY <1>14, <2>1, TaskFacts, LenProperties DEF NextStep, ThreadInv
    <3> QED
      <4>1. step \in [svc: DOMAIN task[w].bound, act: Action]
        BY <2>1, <3>1, TaskFacts, ElementOfSeq
      <4> QED
        BY <2>1, <4>1, TaskFacts DEF Goal
  <2> HIDE DEF step
  <2>3. \/ /\ \E r \in Outcome: result' = [result EXCEPT ![w][step.svc] = r]
           /\ cursor' = [cursor EXCEPT ![w] = @ + 1]
           /\ UNCHANGED <<pc, goal>>
        \/ /\ goal' = [goal EXCEPT ![w] = step]
           /\ pc' = [pc EXCEPT ![w] = "acquire"]
           /\ UNCHANGED <<result, cursor>>
    <3>1. result[w][step.svc] \in Outcome /\ "skipped" \in Outcome /\ "blocked" \in Outcome
      BY <2>2 DEF ThreadInv, Outcome, Goal
    <3> QED
      BY <1>14, <3>1 DEF NextStep, step
  <2>4. ThreadInv'
    <3>1. UNCHANGED <<online0, attempt>>
      BY <1>14 DEF NextStep
    <3>2. CASE /\ \E r \in Outcome: result' = [result EXCEPT ![w][step.svc] = r]
               /\ cursor' = [cursor EXCEPT ![w] = @ + 1]
               /\ UNCHANGED <<pc, goal>>
      <4>1. result' \in [Workers -> [Services -> Outcome]]
        BY <2>2, <3>2 DEF ThreadInv, Goal
      <4>2. cursor' \in [Workers -> Nat \ {0}]
        BY <3>2 DEF ThreadInv
      <4> QED
        BY <3>1, <3>2, <4>1, <4>2 DEF ThreadInv
    <3>3. CASE /\ goal' = [goal EXCEPT ![w] = step]
               /\ pc' = [pc EXCEPT ![w] = "acquire"]
               /\ UNCHANGED <<result, cursor>>
      BY <2>1, <2>2, <3>1, <3>3 DEF ThreadInv, PC, Holding
    <3> QED
      BY <2>3, <3>2, <3>3
  <2>5. TaskInv'
    BY <1>14, <2>1, <2>3, ActorsDistinct DEF NextStep, TaskInv, ThreadInv, Actors, jobVars
  <2>6. SharedInv'
    BY <1>14 DEF NextStep, SharedInv, ctrlVars, jobVars
  <2> QED
    BY <2>4, <2>5, <2>6
<1>15. ASSUME NEW w \in Workers, BeginStep(w)
      PROVE  TypeInv'
  <2>1. todo' \in [Actors -> SUBSET Services]
    BY <1>15, RegistryFacts DEF BeginStep, Enter, Actors, ctrlVars, jobVars, workVars, SharedInv, ThreadInv, Dependents, Current, Goal
  <2>2. ThreadInv'
    BY <1>15, ActorsDistinct DEF BeginStep, Enter, Actors, ctrlVars, jobVars, workVars, ThreadInv, PC, Holding, Goal
  <2>3. TaskInv'
    BY <1>15, ActorsDistinct DEF BeginStep, Enter, Actors, ctrlVars, jobVars, workVars, ThreadInv, TaskInv, Workers
  <2>4. SharedInv'
    BY <1>15, <2>1 DEF BeginStep, Enter, Actors, ctrlVars, jobVars, workVars, SharedInv
  <2> QED
    BY <2>2, <2>3, <2>4
<1>16. ASSUME NEW w \in Workers, RefuseStep(w)
      PROVE  TypeInv'
  <2>1. pc[w] \in {"acquire", "wait"} /\ task' = task
    BY <1>16 DEF RefuseStep, ctrlVars, jobVars, workVars
  <2>2. ThreadInv' /\ TaskInv'
    BY <1>16, <2>1, ConcludeType, WorkerFailsType DEF RefuseStep, Outcome
  <2>3. SharedInv'
    BY <1>16 DEF RefuseStep, ctrlVars, jobVars, workVars, SharedInv
  <2> QED
    BY <2>2, <2>3
<1>17. ASSUME NEW w \in Workers, Ready(w)
      PROVE  TypeInv'
  <2>1. pc[w] \in {"acquire", "wait"} /\ task' = task
    BY <1>17 DEF Ready, ctrlVars, jobVars, workVars
  <2>2. ThreadInv' /\ TaskInv'
    BY <1>17, <2>1, ConcludeType, WorkerFailsType DEF Ready, Outcome
  <2>3. SharedInv'
    BY <1>17 DEF Ready, ctrlVars, jobVars, workVars, SharedInv
  <2> QED
    BY <2>2, <2>3
<1>18. ASSUME NEW w \in Workers, NotReady(w)
      PROVE  TypeInv'
  <2>1. pc[w] \in {"acquire", "wait"} /\ task' = task
    BY <1>18 DEF NotReady, ctrlVars, jobVars, workVars
  <2>2. ThreadInv' /\ TaskInv'
    BY <1>18, <2>1, ConcludeType, WorkerFailsType DEF NotReady, Outcome
  <2>3. SharedInv'
    BY <1>18 DEF NotReady, ctrlVars, jobVars, workVars, SharedInv
  <2> QED
    BY <2>2, <2>3
<1>19. ASSUME NEW w \in Workers, Finish(w)
      PROVE  TypeInv'
  <2>1. ThreadInv'
    BY <1>19 DEF Finish, Actors, ctrlVars, jobVars, workVars, ThreadInv, PC, Holding
  <2>2. TaskInv'
    BY <1>19, ActorsDistinct DEF Finish, Actors, ctrlVars, jobVars, workVars, ThreadInv, TaskInv
  <2>3. SharedInv'
    BY <1>19 DEF Finish, Actors, ctrlVars, jobVars, workVars, SharedInv, Workers
  <2> QED
    BY <2>1, <2>2, <2>3
<1>20. ASSUME AutostartReturns
      PROVE  TypeInv'
  <2>1. ThreadInv'
    BY <1>20 DEF AutostartReturns, Actors, Workers, ctrlVars, jobVars, workVars, ThreadInv, PC, Holding
  <2>2. TaskInv'
    BY <1>20, ActorsDistinct DEF AutostartReturns, Actors, Workers, ctrlVars, jobVars, workVars, ThreadInv, TaskInv
  <2>3. SharedInv'
    BY <1>20 DEF AutostartReturns, Actors, Workers, ctrlVars, jobVars, workVars, SharedInv
  <2> QED
    BY <2>1, <2>2, <2>3
<1>21. ASSUME NEW c \in Clients, NEW s \in Services, NEW act \in Action, Request(c, s, act)
      PROVE  TypeInv'
  <2>1. todo' \in [Actors -> SUBSET Services]
    BY <1>21, RegistryFacts DEF Request, Enter, Actors, ctrlVars, jobVars, workVars, SharedInv, Dependents
  <2>2. ThreadInv'
    BY <1>21, ActorsDistinct DEF Request, Enter, Actors, ctrlVars, jobVars, workVars, ThreadInv, PC, Holding, Goal
  <2>3. TaskInv'
    BY <1>21, ActorsDistinct DEF Request, Enter, Actors, ctrlVars, jobVars, workVars, ThreadInv, TaskInv, Workers
  <2>4. SharedInv'
    BY <1>21, <2>1 DEF Request, Enter, Actors, ctrlVars, jobVars, workVars, SharedInv
  <2> QED
    BY <2>2, <2>3, <2>4
<1>22. ASSUME NEW c \in Clients, NEW g \in Groups, NEW act \in Action, Submit(c, g, act)
      PROVE  TypeInv'
  <2> DEFINE S == Selected(g)
  <2>1. PICK o \in Orders(S): task' = [task EXCEPT ![c] = Task(act, o, S)]
    BY <1>22 DEF Submit
  <2>2. S \in SUBSET DOMAIN registry
    BY DEF Selected, AutoSelected
  <2>3. TaskOK(Task(act, o, S))
    BY <2>2, TaskType DEF SharedInv, Action
  <2>4. TaskInv'
    BY <1>22, <2>1, <2>3, ActorsDistinct DEF Submit, Actors, ctrlVars, jobVars, workVars, ThreadInv, TaskInv, Workers
  <2>5. ThreadInv' /\ SharedInv'
    BY <1>22 DEF Submit, Actors, ctrlVars, jobVars, workVars, ThreadInv, SharedInv, PC, Holding
  <2> QED
    BY <2>4, <2>5
<1>23. ASSUME NEW r \in Registries, EditConfig(r)
      PROVE  TypeInv'
  <2>1. ThreadInv'
    BY <1>23 DEF EditConfig, ctrlVars, jobVars, workVars, ThreadInv
  <2>2. TaskInv'
    BY <1>23, ActorsDistinct DEF EditConfig, ctrlVars, jobVars, workVars, ThreadInv, TaskInv
  <2>3. SharedInv'
    BY <1>23 DEF EditConfig, ctrlVars, jobVars, workVars, SharedInv, Status
  <2> QED
    BY <2>1, <2>2, <2>3
<1>24. ASSUME Maintain
      PROVE  TypeInv'
  <2>1. ThreadInv'
    BY <1>24 DEF Maintain, ctrlVars, jobVars, workVars, ThreadInv
  <2>2. TaskInv'
    BY <1>24, ActorsDistinct DEF Maintain, ctrlVars, jobVars, workVars, ThreadInv, TaskInv
  <2>3. SharedInv'
    BY <1>24 DEF Maintain, ctrlVars, jobVars, workVars, SharedInv
  <2> QED
    BY <2>1, <2>2, <2>3
<1>25. ASSUME Shutdown
      PROVE  TypeInv'
  <2>1. ThreadInv'
    BY <1>25 DEF Shutdown, ctrlVars, jobVars, workVars, ThreadInv
  <2>2. TaskInv'
    BY <1>25, ActorsDistinct DEF Shutdown, ctrlVars, jobVars, workVars, ThreadInv, TaskInv
  <2>3. SharedInv'
    BY <1>25 DEF Shutdown, ctrlVars, jobVars, workVars, SharedInv
  <2> QED
    BY <2>1, <2>2, <2>3
<1>26. ASSUME NEW s \in Services, Pm2Step(s)
      PROVE  TypeInv'
  <2>1. ThreadInv'
    BY <1>26 DEF Pm2Step, ctrlVars, jobVars, workVars, ThreadInv
  <2>2. TaskInv'
    BY <1>26, ActorsDistinct DEF Pm2Step, ctrlVars, jobVars, workVars, ThreadInv, TaskInv
  <2>3. SharedInv'
    BY <1>26 DEF Pm2Step, ctrlVars, jobVars, workVars, SharedInv, Pm2Moves, Crash, Respawn, Boot, Status
  <2> QED
    BY <2>1, <2>2, <2>3
<1>27. ASSUME UNCHANGED vars
      PROVE  TypeInv'
  BY <1>27 DEF ThreadInv, TaskInv, SharedInv, vars
<1> QED
  BY <1>1, <1>2, <1>3, <1>4, <1>5, <1>6, <1>7, <1>8, <1>9, <1>10, <1>11, <1>12, <1>13, <1>14, <1>15, <1>16, <1>17, <1>18, <1>19, <1>20, <1>21, <1>22, <1>23, <1>24, <1>25, <1>26, <1>27
  DEF Next, ClientStep, JobStep, WorkerStep, AutoStep, Ask, Section, Actors, Workers

LEMMA TypeInvInit == Init => TypeInv
<1> SUFFICES ASSUME Init
             PROVE  TypeInv
  OBVIOUS
<1>1. ThreadInv
  BY DEF Init, ThreadInv, PC, Holding, Outcome
<1>2. TaskInv
  BY DEF Init, TaskInv, TaskOK, Actors
<1>3. SharedInv
  BY EmptySeq DEF Init, SharedInv, Status
<1> QED
  BY <1>1, <1>2, <1>3 DEF TypeInv

\* The variables have their types, whatever the services, clients and jobs.
THEOREM TypeCorrect == Spec => []TypeOK
<1>1. TypeInv => TypeOK
  BY DEF TypeInv, ThreadInv, TaskInv, SharedInv, TypeOK
<1> QED
  BY <1>1, TypeInvInit, TypeInvStep, PTL DEF Spec

-----------------------------------------------------------------------------
(* The locked section. *)

\* A worker in the section works on the definition it was bound to, and a job
\* on a service without an explicit action since it was submitted.
Bound(w) ==
  LET s == goal[w].svc IN
  /\ registry[s] = task[w].bound[s]
  /\ w # Starter => gen[s] = task[w].intent[s]

\* What the checks made so far have established, and PM2 has not undone.
Checked(a) ==
  LET s == goal[a].svc
      act == goal[a].act
  IN  /\ s \in DOMAIN registry
      /\ pc[a] = "deps" => act # "stop"
      /\ pc[a] = "dependents" => act # "start"
      /\ pc[a] = "relaunch" => act = "restart"
      /\ act # "stop" /\ pc[a] # "record" =>
           \A d \in registry[s].deps:
             Online(d) \/ d \in drift \/ (pc[a] = "deps" /\ d \in todo[a])
      /\ act # "start" /\ pc[a] \in {"dependents", "command"} =>
           \A t \in Dependents(s) \ Scope(a):
             ~Online(t) \/ t \in drift \/ (pc[a] = "dependents" /\ t \in todo[a])

Held(a) == lock = a /\ Checked(a) /\ (a \in Workers => Bound(a))

\* A thread in the section holds the lock, and what it checked still holds.
SectionInv == \A a \in Actors: pc[a] \in Holding => Held(a)

\* One thread at a time is in the section.
LEMMA Alone ==
  ASSUME SectionInv, NEW a \in Actors, NEW b \in Actors, pc[a] \in Holding, pc[b] \in Holding
  PROVE  a = b
BY DEF SectionInv, Held

\* None is, while the lock is free.
LEMMA LockFree ==
  ASSUME SectionInv, lock = None, NEW a \in Actors
  PROVE  pc[a] \notin Holding
BY ActorsDistinct DEF SectionInv, Held

\* What no one but PM2 touches stays checked.
LEMMA Frame ==
  ASSUME TypeInv, SectionInv, NEW a \in Actors, pc[a] \in Holding,
         UNCHANGED <<lock, registry, gen>>,
         pc'[a] = pc[a], goal'[a] = goal[a], todo'[a] = todo[a], task'[a] = task[a],
         drift \subseteq drift', \A s \in Services: proc'[s] = proc[s] \/ s \in drift'
  PROVE  Held(a)'
<1>1. Held(a) /\ registry \in Registries
  BY DEF SectionInv, TypeInv, SharedInv
<1>2. goal[a].svc \in DOMAIN registry /\ DOMAIN registry \subseteq Services
      /\ registry[goal[a].svc].deps \subseteq Services
  BY <1>1, RegistryFacts DEF Held, Checked
<1>3. Checked(a)'
  BY <1>1, <1>2 DEF Held, Checked, Online, Dependents, Scope
<1>4. a \in Workers => Bound(a)'
  BY <1>1 DEF Held, Bound
<1> QED
  BY <1>1, <1>3, <1>4 DEF Held

LEMMA SectionInvStep == TypeInv /\ SectionInv /\ [Next]_vars => SectionInv'
<1> SUFFICES ASSUME TypeInv, SectionInv, [Next]_vars, NEW a \in Actors, pc'[a] \in Holding
             PROVE  Held(a)'
  BY DEF SectionInv
<1> USE DEF TypeInv
<1>1. ASSUME NEW b \in Actors, NEW s \in Services, PassCheck(b, s)
      PROVE  Held(a)'
  <2>1. a = b /\ Held(a) /\ registry \in Registries
    BY <1>1, Alone DEF PassCheck, Holding, SectionInv, SharedInv
  <2>2. /\ UNCHANGED <<proc, registry, lock, gen, pc, goal, task, drift>>
        /\ todo'[a] = todo[a] \ {s}
        /\ \/ pc[a] = "deps" /\ Online(s)
           \/ pc[a] = "dependents" /\ ~Online(s)
    BY <1>1, <2>1 DEF PassCheck, SharedInv, ctrlVars, jobVars
  <2>3. Checked(a)'
    BY <2>1, <2>2 DEF Held, Checked, Online, Dependents, Scope
  <2> QED
    BY <2>1, <2>2, <2>3 DEF Held, Bound
<1>2. ASSUME NEW b \in Actors, EndCheck(b)
      PROVE  Held(a)'
  <2>1. a = b /\ Held(a)
    BY <1>2, Alone DEF EndCheck, Holding, SectionInv, ThreadInv
  <2>2. UNCHANGED <<proc, registry, lock, gen, goal, task, drift>> /\ todo[a] = {}
    BY <1>2, <2>1 DEF EndCheck, ctrlVars, jobVars
  <2>3. goal[a] \in Goal
    BY <1>2, <2>1 DEF EndCheck, ThreadInv, Holding
  <2>4. CASE pc[a] = "deps" /\ goal[a].act = "restart"
    <3>1. pc'[a] = "dependents" /\ todo'[a] = Dependents(goal[a].svc) \ Scope(a)
      BY <1>2, <2>1, <2>4 DEF EndCheck, ThreadInv, SharedInv
    <3>2. Checked(a)'
      BY <2>1, <2>2, <2>4, <3>1 DEF Held, Checked, Online, Dependents, Scope
    <3> QED
      BY <2>1, <2>2, <3>2 DEF Held, Bound
  <2>5. CASE ~(pc[a] = "deps" /\ goal[a].act = "restart")
    <3>1. pc'[a] = "command" /\ pc[a] \in {"deps", "dependents"}
      BY <1>2, <2>1, <2>5 DEF EndCheck, ThreadInv
    <3>2. Checked(a)'
      BY <2>1, <2>2, <2>3, <2>5, <3>1 DEF Held, Checked, Online, Dependents, Scope, Goal, Action
    <3> QED
      BY <2>1, <2>2, <3>2 DEF Held, Bound
  <2> QED
    BY <2>4, <2>5
<1>3. ASSUME NEW b \in Actors, StopCommand(b)
      PROVE  Held(a)'
  <2>1. pc[b] \in Holding
    BY <1>3 DEF StopCommand, Holding
  <2>2. /\ UNCHANGED <<registry, gen, task>>
        /\ \A s \in Services: s # goal[b].svc => proc'[s] = proc[s]
    BY <1>3 DEF StopCommand, Command, SharedInv, ctrlVars, jobVars
  <2>3. CASE \E retryable: Abort(b, retryable)
    BY <2>1, <2>3, Alone DEF Abort, Release, WorkerFails, Conclude, ThreadInv, Holding
  <2>4. CASE /\ UNCHANGED <<lock, goal, todo, drift>>
             /\ pc' = [pc EXCEPT ![b] = IF goal[b].act = "restart" THEN "relaunch" ELSE "record"]
    <3>1. a = b /\ Held(a) /\ registry \in Registries
      BY <2>1, <2>4, Alone DEF ThreadInv, SectionInv, SharedInv
    <3>2. pc'[a] = "record" \/ (pc'[a] = "relaunch" /\ goal[a].act = "restart")
      BY <2>4, <3>1 DEF ThreadInv
    <3>3. /\ goal[a].svc \in DOMAIN registry
          /\ registry[goal[a].svc].deps \subseteq Services \ {goal[a].svc}
      BY <3>1, RegistryFacts DEF Held, Checked
    <3>4. Checked(a)'
      BY <1>3, <2>2, <2>4, <3>1, <3>2, <3>3 DEF StopCommand, Held, Checked, Online
    <3> QED
      BY <2>2, <2>4, <3>1, <3>4 DEF Held, Bound
  <2> QED
    BY <1>3, <2>3, <2>4 DEF StopCommand, Command
<1>4. ASSUME NEW b \in Actors, StartCommand(b)
      PROVE  Held(a)'
  <2>1. pc[b] \in Holding
    BY <1>4 DEF StartCommand, Holding
  <2>2. /\ UNCHANGED <<registry, gen, task>>
        /\ \A s \in Services: s # goal[b].svc => proc'[s] = proc[s]
    BY <1>4 DEF StartCommand, Command, SharedInv, ctrlVars, jobVars
  <2>3. CASE \E retryable: Abort(b, retryable)
    BY <2>1, <2>3, Alone DEF Abort, Release, WorkerFails, Conclude, ThreadInv, Holding
  <2>4. CASE /\ UNCHANGED <<lock, goal, todo, drift>>
             /\ pc' = [pc EXCEPT ![b] = "record"]
    <3>1. a = b /\ Held(a) /\ registry \in Registries
      BY <2>1, <2>4, Alone DEF ThreadInv, SectionInv, SharedInv
    <3>2. pc'[a] = "record"
      BY <2>4, <3>1 DEF ThreadInv
    <3>3. /\ goal[a].svc \in DOMAIN registry
          /\ registry[goal[a].svc].deps \subseteq Services \ {goal[a].svc}
      BY <3>1, RegistryFacts DEF Held, Checked
    <3>4. Checked(a)'
      BY <1>4, <2>2, <2>4, <3>1, <3>2, <3>3 DEF StartCommand, Held, Checked, Online
    <3> QED
      BY <2>2, <2>4, <3>1, <3>4 DEF Held, Bound
  <2> QED
    BY <1>4, <2>3, <2>4 DEF StartCommand, Command
<1>5. ASSUME NEW b \in Actors, CheckFails(b)
      PROVE  Held(a)'
  <2>1. pc[b] \in Holding
    BY <1>5 DEF CheckFails, Holding
  <2> QED
    BY <1>5, <2>1, Alone DEF CheckFails, Abort, WorkerFails, Conclude, ThreadInv, Holding
<1>6. ASSUME NEW b \in Actors, Record(b)
      PROVE  Held(a)'
  <2>1. pc[b] \in Holding
    BY <1>6 DEF Record, Holding
  <2> QED
    BY <1>6, <2>1, Alone DEF Record, Conclude, ThreadInv, Holding
<1>7. ASSUME NEW w \in Workers, AlreadyOnline(w)
      PROVE  Held(a)'
  <2>1. pc[w] \in Holding /\ w \in Actors
    BY <1>7 DEF AlreadyOnline, Holding, Actors
  <2> QED
    BY <1>7, <2>1, Alone DEF AlreadyOnline, ThreadInv, Holding
<1>8. ASSUME NEW w \in Workers, BeginStep(w)
      PROVE  Held(a)'
  <2>1. a = w
    BY <1>8, LockFree DEF BeginStep, Enter, ThreadInv
  <2>2. /\ lock' = a
        /\ UNCHANGED <<proc, registry, gen, goal, task>>
        /\ goal[a] \in Goal /\ registry \in Registries
    BY <1>8, <2>1 DEF BeginStep, Enter, ThreadInv, SharedInv, ctrlVars, jobVars
  <2>3. goal[a].svc \in DOMAIN registry /\ Bound(a)
    BY <1>8, <2>1 DEF BeginStep, Current, Bound
  <2>4. /\ pc'[a] = IF goal[a].act = "stop" THEN "dependents" ELSE "deps"
        /\ todo'[a] = IF goal[a].act = "stop" THEN Dependents(goal[a].svc) \ Scope(a)
                       ELSE registry[goal[a].svc].deps
    BY <1>8, <2>1 DEF BeginStep, Enter, ThreadInv, SharedInv
  <2>5. Checked(a)'
    BY <2>2, <2>3, <2>4 DEF Checked, Dependents, Scope
  <2> QED
    BY <2>2, <2>3, <2>5 DEF Held, Bound
<1>9. ASSUME NEW c \in Clients, NEW s \in Services, NEW act \in Action, Request(c, s, act)
      PROVE  Held(a)'
  <2>1. a = c /\ a \notin Workers
    BY <1>9, LockFree, ActorsDistinct DEF Request, Enter, ThreadInv
  <2>2. /\ lock' = a /\ s \in DOMAIN registry
        /\ UNCHANGED <<proc, registry, gen, task>>
        /\ goal'[a] = [svc |-> s, act |-> act]
    BY <1>9, <2>1 DEF Request, Enter, ThreadInv, SharedInv, ctrlVars, jobVars
  <2>3. /\ pc'[a] = IF act = "stop" THEN "dependents" ELSE "deps"
        /\ todo'[a] = IF act = "stop" THEN Dependents(s) \ {s} ELSE registry[s].deps
    BY <1>9, <2>1 DEF Request, Enter, ThreadInv, SharedInv
  <2>4. Checked(a)'
    BY <1>9, <2>1, <2>2, <2>3 DEF Checked, Dependents, Scope
  <2> QED
    BY <2>1, <2>2, <2>4 DEF Held
<1>10. ASSUME NEW c \in Clients, Register(c)
      PROVE  Held(a)'
  <2>1. pc'[a] = pc[a] /\ goal'[a] = goal[a] /\ todo'[a] = todo[a] /\ task'[a] = task[a]
    BY <1>10 DEF Register, ThreadInv, TaskInv, SharedInv, Holding, Actors, ctrlVars, jobVars, workVars
  <2> QED
    BY <1>10, <2>1, Frame DEF Register, ctrlVars, jobVars, workVars
<1>11. ASSUME NEW j \in JobIds, RunJob(j)
      PROVE  Held(a)'
  <2>1. pc'[a] = pc[a] /\ goal'[a] = goal[a] /\ todo'[a] = todo[a] /\ task'[a] = task[a]
    BY <1>11 DEF RunJob, Workers, ThreadInv, TaskInv, SharedInv, Holding, Actors, ctrlVars, jobVars, workVars
  <2> QED
    BY <1>11, <2>1, Frame DEF RunJob, ctrlVars, jobVars, workVars
<1>12. ASSUME NEW j \in JobIds, NEW s \in Services, SurveyOne(j, s)
      PROVE  Held(a)'
  <2>1. pc'[a] = pc[a] /\ goal'[a] = goal[a] /\ todo'[a] = todo[a] /\ task'[a] = task[a]
    BY <1>12 DEF SurveyOne, ThreadInv, TaskInv, SharedInv, Holding, Actors, ctrlVars, jobVars, workVars
  <2> QED
    BY <1>12, <2>1, Frame DEF SurveyOne, ctrlVars, jobVars, workVars
<1>13. ASSUME NEW j \in JobIds, SurveyFails(j)
      PROVE  Held(a)'
  <2>1. pc'[a] = pc[a] /\ goal'[a] = goal[a] /\ todo'[a] = todo[a] /\ task'[a] = task[a]
    BY <1>13 DEF SurveyFails, Workers, ThreadInv, TaskInv, SharedInv, Holding, Actors, ctrlVars, jobVars, workVars
  <2> QED
    BY <1>13, <2>1, Frame DEF SurveyFails, ctrlVars, jobVars, workVars
<1>14. ASSUME NEW j \in JobIds, SurveyDone(j)
      PROVE  Held(a)'
  <2>1. pc'[a] = pc[a] /\ goal'[a] = goal[a] /\ todo'[a] = todo[a] /\ task'[a] = task[a]
    BY <1>14 DEF SurveyDone, Workers, ThreadInv, TaskInv, SharedInv, Holding, Actors, ctrlVars, jobVars, workVars
  <2> QED
    BY <1>14, <2>1, Frame DEF SurveyDone, ctrlVars, jobVars, workVars
<1>15. ASSUME Autostart
      PROVE  Held(a)'
  <2>1. pc'[a] = pc[a] /\ goal'[a] = goal[a] /\ todo'[a] = todo[a] /\ task'[a] = task[a]
    BY <1>15 DEF Autostart, Workers, ThreadInv, TaskInv, SharedInv, Holding, Actors, ctrlVars, jobVars, workVars
  <2> QED
    BY <1>15, <2>1, Frame DEF Autostart, ctrlVars, jobVars, workVars
<1>16. ASSUME NEW w \in Workers, NextStep(w)
      PROVE  Held(a)'
  <2>1. pc'[a] = pc[a] /\ goal'[a] = goal[a] /\ todo'[a] = todo[a] /\ task'[a] = task[a]
    BY <1>16 DEF NextStep, ThreadInv, TaskInv, SharedInv, Holding, Actors, ctrlVars, jobVars, workVars
  <2> QED
    BY <1>16, <2>1, Frame DEF NextStep, ctrlVars, jobVars, workVars
<1>17. ASSUME NEW w \in Workers, RefuseStep(w)
      PROVE  Held(a)'
  <2>1. pc'[a] = pc[a] /\ goal'[a] = goal[a] /\ todo'[a] = todo[a] /\ task'[a] = task[a]
    BY <1>17 DEF RefuseStep, WorkerFails, Conclude, ThreadInv, TaskInv, SharedInv, Holding, Actors, ctrlVars, jobVars, workVars
  <2> QED
    BY <1>17, <2>1, Frame DEF RefuseStep, ctrlVars, jobVars, workVars
<1>18. ASSUME NEW w \in Workers, Ready(w)
      PROVE  Held(a)'
  <2>1. pc'[a] = pc[a] /\ goal'[a] = goal[a] /\ todo'[a] = todo[a] /\ task'[a] = task[a]
    BY <1>18 DEF Ready, Conclude, ThreadInv, TaskInv, SharedInv, Holding, Actors, ctrlVars, jobVars, workVars
  <2> QED
    BY <1>18, <2>1, Frame DEF Ready, ctrlVars, jobVars, workVars
<1>19. ASSUME NEW w \in Workers, NotReady(w)
      PROVE  Held(a)'
  <2>1. pc'[a] = pc[a] /\ goal'[a] = goal[a] /\ todo'[a] = todo[a] /\ task'[a] = task[a]
    BY <1>19 DEF NotReady, WorkerFails, Conclude, ThreadInv, TaskInv, SharedInv, Holding, Actors, ctrlVars, jobVars, workVars
  <2> QED
    BY <1>19, <2>1, Frame DEF NotReady, ctrlVars, jobVars, workVars
<1>20. ASSUME NEW w \in Workers, Finish(w)
      PROVE  Held(a)'
  <2>1. pc'[a] = pc[a] /\ goal'[a] = goal[a] /\ todo'[a] = todo[a] /\ task'[a] = task[a]
    BY <1>20 DEF Finish, ThreadInv, TaskInv, SharedInv, Holding, Actors, ctrlVars, jobVars, workVars
  <2> QED
    BY <1>20, <2>1, Frame DEF Finish, ctrlVars, jobVars, workVars
<1>21. ASSUME AutostartReturns
      PROVE  Held(a)'
  <2>1. pc'[a] = pc[a] /\ goal'[a] = goal[a] /\ todo'[a] = todo[a] /\ task'[a] = task[a]
    BY <1>21 DEF AutostartReturns, Workers, ThreadInv, TaskInv, SharedInv, Holding, Actors, ctrlVars, jobVars, workVars
  <2> QED
    BY <1>21, <2>1, Frame DEF AutostartReturns, ctrlVars, jobVars, workVars
<1>22. ASSUME NEW c \in Clients, NEW g \in Groups, NEW act \in Action, Submit(c, g, act)
      PROVE  Held(a)'
  <2>1. pc'[a] = pc[a] /\ goal'[a] = goal[a] /\ todo'[a] = todo[a] /\ task'[a] = task[a]
    BY <1>22 DEF Submit, ThreadInv, TaskInv, SharedInv, Holding, Actors, ctrlVars, jobVars, workVars
  <2> QED
    BY <1>22, <2>1, Frame DEF Submit, ctrlVars, jobVars, workVars
<1>23. ASSUME NEW r \in Registries, EditConfig(r)
      PROVE  Held(a)'
  BY <1>23, LockFree DEF EditConfig
<1>24. ASSUME Maintain
      PROVE  Held(a)'
  <2>1. pc'[a] = pc[a] /\ goal'[a] = goal[a] /\ todo'[a] = todo[a] /\ task'[a] = task[a]
    BY <1>24 DEF Maintain, ThreadInv, TaskInv, SharedInv, Holding, Actors, ctrlVars, jobVars, workVars
  <2> QED
    BY <1>24, <2>1, Frame DEF Maintain, ctrlVars, jobVars, workVars
<1>25. ASSUME Shutdown
      PROVE  Held(a)'
  <2>1. pc'[a] = pc[a] /\ goal'[a] = goal[a] /\ todo'[a] = todo[a] /\ task'[a] = task[a]
    BY <1>25 DEF Shutdown, ThreadInv, TaskInv, SharedInv, Holding, Actors, ctrlVars, jobVars, workVars
  <2> QED
    BY <1>25, <2>1, Frame DEF Shutdown, ctrlVars, jobVars, workVars
<1>26. ASSUME NEW s \in Services, Pm2Step(s)
      PROVE  Held(a)'
  <2>1. pc[a] \in Holding /\ lock # None
    BY <1>26, LockFree DEF Pm2Step
  <2>2. drift' = drift \cup {s} /\ \A x \in Services: x # s => proc'[x] = proc[x]
    BY <1>26, <2>1 DEF Pm2Step, Pm2Moves, Crash, Respawn, Boot, SharedInv
  <2> QED
    BY <1>26, <2>1, <2>2, Frame DEF Pm2Step, ctrlVars, jobVars
<1>27. ASSUME UNCHANGED vars
      PROVE  Held(a)'
  BY <1>27, Frame DEF vars
<1> QED
  BY <1>1, <1>2, <1>3, <1>4, <1>5, <1>6, <1>7, <1>8, <1>9, <1>10, <1>11, <1>12, <1>13, <1>14, <1>15, <1>16, <1>17, <1>18, <1>19, <1>20, <1>21, <1>22, <1>23, <1>24, <1>25, <1>26, <1>27
  DEF Next, ClientStep, JobStep, WorkerStep, AutoStep, Ask, Section, Actors, Workers

LEMMA SectionCorrect == Spec => [](TypeInv /\ SectionInv)
<1>1. Init => SectionInv
  BY DEF Init, SectionInv, Holding
<1> QED
  BY <1>1, TypeInvInit, TypeInvStep, SectionInvStep, PTL DEF Spec

-----------------------------------------------------------------------------
(* Commands. *)

\* Only the two command actions report a command.
LEMMA CommandSteps ==
  ASSUME [Next]_vars, ~UNCHANGED vars, cmd' # None
  PROVE  \E a \in Actors:
           \/ StopCommand(a) /\ cmd' = [op |-> "stop", svc |-> goal[a].svc, by |-> a]
           \/ StartCommand(a) /\ cmd' = [op |-> "start", svc |-> goal[a].svc, by |-> a]
<1>1. \A a \in Actors: /\ StopCommand(a) => cmd' = [op |-> "stop", svc |-> goal[a].svc, by |-> a]
                       /\ StartCommand(a) => cmd' = [op |-> "start", svc |-> goal[a].svc, by |-> a]
  BY DEF StopCommand, StartCommand, Command
<1>2. \A a \in Actors: Section(a) => StopCommand(a) \/ StartCommand(a)
  BY DEF Section, PassCheck, CheckFails, EndCheck, Record
<1>3. \A c \in Clients: ClientStep(c) => Section(c)
  BY DEF ClientStep, Register
<1>4. \A w \in Workers: WorkerStep(w) => Section(w)
  BY DEF WorkerStep, AlreadyOnline, NextStep, BeginStep, RefuseStep, Ready, NotReady, Finish
<1>5. \A j \in JobIds: JobStep(j) => WorkerStep(j)
  BY DEF JobStep, RunJob, SurveyFails, SurveyDone, SurveyOne
<1>6. AutoStep => WorkerStep(Starter)
  BY DEF AutoStep, AutostartReturns
<1>7. /\ \A c \in Clients: ~Ask(c)
      /\ ~Autostart /\ ~Maintain /\ ~Shutdown
      /\ \A r \in Registries: ~EditConfig(r)
      /\ \A s \in Services: ~Pm2Step(s)
  BY DEF Ask, Request, Submit, Autostart, Maintain, Shutdown, EditConfig, Pm2Step
<1>8. \E a \in Actors: Section(a)
  BY <1>3, <1>4, <1>5, <1>6, <1>7 DEF Next, Actors, Workers
<1> QED
  BY <1>1, <1>2, <1>8

\* A worker's command concerns a service as the worker was bound to it, and a
\* job's one nobody has acted on since (_mutation, _check_intent).
THEOREM CurrentCommands == Spec => WorkerCommandsAreCurrent
<1> DEFINE A == cmd' # None /\ cmd'.by \in Workers =>
                  /\ cmd'.svc \in DOMAIN registry
                  /\ registry[cmd'.svc] = task[cmd'.by].bound[cmd'.svc]
                  /\ cmd'.by \in JobIds => gen[cmd'.svc] = task[cmd'.by].intent[cmd'.svc]
<1>1. TypeInv /\ SectionInv /\ [Next]_vars => [A]_vars
  <2> SUFFICES ASSUME SectionInv, [Next]_vars, ~UNCHANGED vars, cmd' # None, cmd'.by \in Workers
               PROVE  A
    OBVIOUS
  <2>1. PICK a \in Actors: /\ pc[a] \in Holding
                          /\ cmd'.svc = goal[a].svc /\ cmd'.by = a
    BY CommandSteps DEF StopCommand, StartCommand, Holding
  <2>2. Held(a) /\ a \in Workers
    BY <2>1 DEF SectionInv
  <2> QED
    BY <2>1, <2>2, ActorsDistinct DEF Held, Checked, Bound
<1> QED
  BY <1>1, SectionCorrect, PTL DEF Spec, WorkerCommandsAreCurrent

\* A service is started only with its dependencies seen online under the lock
\* (_dependencies_ready).
THEOREM DependenciesFirst == Spec => StartsAfterDependencies
<1> DEFINE A == cmd' # None /\ cmd'.op = "start" =>
                  \A d \in registry[cmd'.svc].deps: Online(d) \/ d \in drift
<1>1. TypeInv /\ SectionInv /\ [Next]_vars => [A]_vars
  <2> SUFFICES ASSUME SectionInv, [Next]_vars, ~UNCHANGED vars, cmd' # None, cmd'.op = "start"
               PROVE  A
    OBVIOUS
  <2>1. PICK a \in Actors: StartCommand(a) /\ cmd'.svc = goal[a].svc
    BY CommandSteps
  <2>2. /\ pc[a] \in {"command", "relaunch"}
        /\ pc[a] = "command" => goal[a].act # "stop"
    BY <2>1 DEF StartCommand
  <2>3. Checked(a)
    BY <2>2 DEF SectionInv, Held, Holding
  <2> QED
    BY <2>1, <2>2, <2>3 DEF Checked
<1> QED
  BY <1>1, SectionCorrect, PTL DEF Spec, StartsAfterDependencies

\* A service is stopped only with the dependents outside the request seen not
\* online under the lock (_refuse_external_dependents).
THEOREM DependentsSpared == Spec => StopsSpareDependents
<1> DEFINE A == cmd' # None /\ cmd'.op = "stop" =>
                  \A t \in Dependents(cmd'.svc) \ Scope(cmd'.by): ~Online(t) \/ t \in drift
<1>1. TypeInv /\ SectionInv /\ [Next]_vars => [A]_vars
  <2> SUFFICES ASSUME SectionInv, [Next]_vars, ~UNCHANGED vars, cmd' # None, cmd'.op = "stop"
               PROVE  A
    OBVIOUS
  <2>1. PICK a \in Actors: StopCommand(a) /\ cmd'.svc = goal[a].svc /\ cmd'.by = a
    BY CommandSteps
  <2>2. pc[a] = "command" /\ goal[a].act # "start"
    BY <2>1 DEF StopCommand
  <2>3. Checked(a)
    BY <2>2 DEF SectionInv, Held, Holding
  <2> QED
    BY <2>1, <2>2, <2>3 DEF Checked
<1> QED
  BY <1>1, SectionCorrect, PTL DEF Spec, StopsSpareDependents

-----------------------------------------------------------------------------
(* The group jobs: they implement JobBoard, and at most one is active. *)

\* What a client is told of a job whose worker is at p.
Told(p) ==
  IF p = "idle" THEN {"none"}
  ELSE IF p = "queued" THEN {"queued"}
  ELSE IF p = "done" THEN {"succeeded", "failed"}
  ELSE {"running"}

\* The status of a job says where its worker is.
StatusInv == \A j \in JobIds: jobStatus[j] \in Told(pc[j])

\* A step that begins no job, ends none and takes none leaves the table alone.
Quiet ==
  /\ UNCHANGED <<jobs, jobStatus>>
  /\ \A j \in JobIds: Told(pc'[j]) = Told(pc[j])

LEMMA QuietSteps ==
  ASSUME TypeInv, [Next]_vars
  PROVE  \/ Quiet
         \/ \E c \in Clients: Register(c) /\ ~Busy
         \/ \E j \in JobIds: RunJob(j) \/ SurveyFails(j) \/ Finish(j)
<1> USE DEF TypeInv
<1>1. ASSUME NEW b \in Actors, NEW s \in Services, PassCheck(b, s)
      PROVE  Quiet
  <2>1. UNCHANGED <<jobs, jobStatus>>
    BY <1>1 DEF PassCheck, jobVars
  <2>2. \A i \in JobIds: Told(pc'[i]) = Told(pc[i])
    BY <1>1, ActorsDistinct DEF PassCheck, Told, ThreadInv, Actors, Workers
  <2> QED
    BY <2>1, <2>2 DEF Quiet
<1>2. ASSUME NEW b \in Actors, CheckFails(b)
      PROVE  Quiet
  <2>1. UNCHANGED <<jobs, jobStatus>>
    BY <1>2 DEF CheckFails, Abort, Release, WorkerFails, Conclude, jobVars
  <2>2. \A i \in JobIds: Told(pc'[i]) = Told(pc[i])
    BY <1>2, ActorsDistinct DEF CheckFails, Abort, Release, WorkerFails, Conclude, Told, ThreadInv, Actors, Workers
  <2> QED
    BY <2>1, <2>2 DEF Quiet
<1>3. ASSUME NEW b \in Actors, EndCheck(b)
      PROVE  Quiet
  <2>1. UNCHANGED <<jobs, jobStatus>>
    BY <1>3 DEF EndCheck, jobVars
  <2>2. \A i \in JobIds: Told(pc'[i]) = Told(pc[i])
    BY <1>3, ActorsDistinct DEF EndCheck, Told, ThreadInv, Actors, Workers
  <2> QED
    BY <2>1, <2>2 DEF Quiet
<1>4. ASSUME NEW w \in Workers, AlreadyOnline(w)
      PROVE  Quiet
  <2>1. UNCHANGED <<jobs, jobStatus>>
    BY <1>4 DEF AlreadyOnline, Actors, jobVars
  <2>2. \A i \in JobIds: Told(pc'[i]) = Told(pc[i])
    BY <1>4, ActorsDistinct DEF AlreadyOnline, Actors, Told, ThreadInv, Actors, Workers
  <2> QED
    BY <2>1, <2>2 DEF Quiet
<1>5. ASSUME NEW b \in Actors, StopCommand(b)
      PROVE  Quiet
  <2>1. UNCHANGED <<jobs, jobStatus>>
    BY <1>5 DEF StopCommand, Command, Abort, Release, WorkerFails, Conclude, jobVars
  <2>2. \A i \in JobIds: Told(pc'[i]) = Told(pc[i])
    BY <1>5, ActorsDistinct DEF StopCommand, Command, Abort, Release, WorkerFails, Conclude, Told, ThreadInv, Actors, Workers
  <2> QED
    BY <2>1, <2>2 DEF Quiet
<1>6. ASSUME NEW b \in Actors, StartCommand(b)
      PROVE  Quiet
  <2>1. UNCHANGED <<jobs, jobStatus>>
    BY <1>6 DEF StartCommand, Command, Abort, Release, WorkerFails, Conclude, jobVars
  <2>2. \A i \in JobIds: Told(pc'[i]) = Told(pc[i])
    BY <1>6, ActorsDistinct DEF StartCommand, Command, Abort, Release, WorkerFails, Conclude, Told, ThreadInv, Actors, Workers
  <2> QED
    BY <2>1, <2>2 DEF Quiet
<1>7. ASSUME NEW b \in Actors, Record(b)
      PROVE  Quiet
  <2>1. UNCHANGED <<jobs, jobStatus>>
    BY <1>7 DEF Record, Conclude, jobVars
  <2>2. \A i \in JobIds: Told(pc'[i]) = Told(pc[i])
    BY <1>7, ActorsDistinct DEF Record, Conclude, Told, ThreadInv, Actors, Workers
  <2> QED
    BY <2>1, <2>2 DEF Quiet
<1>8. ASSUME NEW c \in Clients, Register(c), Busy
      PROVE  Quiet
  <2>1. UNCHANGED <<jobs, jobStatus>>
    BY <1>8 DEF Register, jobVars
  <2>2. \A i \in JobIds: Told(pc'[i]) = Told(pc[i])
    BY <1>8, ActorsDistinct DEF Register, Told, ThreadInv, Actors, Workers
  <2> QED
    BY <2>1, <2>2 DEF Quiet
<1>9. ASSUME NEW j \in JobIds, NEW s \in Services, SurveyOne(j, s)
      PROVE  Quiet
  <2>1. UNCHANGED <<jobs, jobStatus>>
    BY <1>9 DEF SurveyOne, jobVars
  <2>2. \A i \in JobIds: Told(pc'[i]) = Told(pc[i])
    BY <1>9, ActorsDistinct DEF SurveyOne, Told, ThreadInv, Actors, Workers
  <2> QED
    BY <2>1, <2>2 DEF Quiet
<1>10. ASSUME NEW j \in JobIds, SurveyDone(j)
      PROVE  Quiet
  <2>1. UNCHANGED <<jobs, jobStatus>>
    BY <1>10 DEF SurveyDone, jobVars
  <2>2. \A i \in JobIds: Told(pc'[i]) = Told(pc[i])
    BY <1>10, ActorsDistinct DEF SurveyDone, Told, ThreadInv, Actors, Workers
  <2> QED
    BY <2>1, <2>2 DEF Quiet
<1>11. ASSUME Autostart
      PROVE  Quiet
  <2>1. UNCHANGED <<jobs, jobStatus>>
    BY <1>11 DEF Autostart, jobVars
  <2>2. \A i \in JobIds: Told(pc'[i]) = Told(pc[i])
    BY <1>11, ActorsDistinct DEF Autostart, Told, ThreadInv, Actors, Workers
  <2> QED
    BY <2>1, <2>2 DEF Quiet
<1>12. ASSUME NEW w \in Workers, NextStep(w)
      PROVE  Quiet
  <2>1. UNCHANGED <<jobs, jobStatus>>
    BY <1>12 DEF NextStep, jobVars
  <2>2. \A i \in JobIds: Told(pc'[i]) = Told(pc[i])
    BY <1>12, ActorsDistinct DEF NextStep, Told, ThreadInv, Actors, Workers
  <2> QED
    BY <2>1, <2>2 DEF Quiet
<1>13. ASSUME NEW w \in Workers, BeginStep(w)
      PROVE  Quiet
  <2>1. UNCHANGED <<jobs, jobStatus>>
    BY <1>13 DEF BeginStep, Enter, jobVars
  <2>2. \A i \in JobIds: Told(pc'[i]) = Told(pc[i])
    BY <1>13, ActorsDistinct DEF BeginStep, Enter, Told, ThreadInv, Actors, Workers
  <2> QED
    BY <2>1, <2>2 DEF Quiet
<1>14. ASSUME NEW w \in Workers, RefuseStep(w)
      PROVE  Quiet
  <2>1. UNCHANGED <<jobs, jobStatus>>
    BY <1>14 DEF RefuseStep, WorkerFails, Conclude, jobVars
  <2>2. \A i \in JobIds: Told(pc'[i]) = Told(pc[i])
    BY <1>14, ActorsDistinct DEF RefuseStep, WorkerFails, Conclude, Told, ThreadInv, Actors, Workers
  <2> QED
    BY <2>1, <2>2 DEF Quiet
<1>15. ASSUME NEW w \in Workers, Ready(w)
      PROVE  Quiet
  <2>1. UNCHANGED <<jobs, jobStatus>>
    BY <1>15 DEF Ready, Conclude, jobVars
  <2>2. \A i \in JobIds: Told(pc'[i]) = Told(pc[i])
    BY <1>15, ActorsDistinct DEF Ready, Conclude, Told, ThreadInv, Actors, Workers
  <2> QED
    BY <2>1, <2>2 DEF Quiet
<1>16. ASSUME NEW w \in Workers, NotReady(w)
      PROVE  Quiet
  <2>1. UNCHANGED <<jobs, jobStatus>>
    BY <1>16 DEF NotReady, WorkerFails, Conclude, jobVars
  <2>2. \A i \in JobIds: Told(pc'[i]) = Told(pc[i])
    BY <1>16, ActorsDistinct DEF NotReady, WorkerFails, Conclude, Told, ThreadInv, Actors, Workers
  <2> QED
    BY <2>1, <2>2 DEF Quiet
<1>17. ASSUME Finish(Starter)
      PROVE  Quiet
  <2>1. UNCHANGED <<jobs, jobStatus>>
    BY <1>17 DEF Finish, jobVars
  <2>2. \A i \in JobIds: Told(pc'[i]) = Told(pc[i])
    BY <1>17, ActorsDistinct DEF Finish, Told, ThreadInv, Actors, Workers
  <2> QED
    BY <2>1, <2>2 DEF Quiet
<1>18. ASSUME AutostartReturns
      PROVE  Quiet
  <2>1. UNCHANGED <<jobs, jobStatus>>
    BY <1>18 DEF AutostartReturns, jobVars
  <2>2. \A i \in JobIds: Told(pc'[i]) = Told(pc[i])
    BY <1>18, ActorsDistinct DEF AutostartReturns, Told, ThreadInv, Actors, Workers
  <2> QED
    BY <2>1, <2>2 DEF Quiet
<1>19. ASSUME NEW c \in Clients, NEW s \in Services, NEW act \in Action, Request(c, s, act)
      PROVE  Quiet
  <2>1. UNCHANGED <<jobs, jobStatus>>
    BY <1>19 DEF Request, Enter, jobVars
  <2>2. \A i \in JobIds: Told(pc'[i]) = Told(pc[i])
    BY <1>19, ActorsDistinct DEF Request, Enter, Told, ThreadInv, Actors, Workers
  <2> QED
    BY <2>1, <2>2 DEF Quiet
<1>20. ASSUME NEW c \in Clients, NEW g \in Groups, NEW act \in Action, Submit(c, g, act)
      PROVE  Quiet
  <2>1. UNCHANGED <<jobs, jobStatus>>
    BY <1>20 DEF Submit, jobVars
  <2>2. \A i \in JobIds: Told(pc'[i]) = Told(pc[i])
    BY <1>20, ActorsDistinct DEF Submit, Told, ThreadInv, Actors, Workers
  <2> QED
    BY <2>1, <2>2 DEF Quiet
<1>21. ASSUME NEW r \in Registries, EditConfig(r)
      PROVE  Quiet
  <2>1. UNCHANGED <<jobs, jobStatus>>
    BY <1>21 DEF EditConfig, jobVars
  <2>2. \A i \in JobIds: Told(pc'[i]) = Told(pc[i])
    BY <1>21, ActorsDistinct DEF EditConfig, Told, ThreadInv, Actors, Workers
  <2> QED
    BY <2>1, <2>2 DEF Quiet
<1>22. ASSUME Maintain
      PROVE  Quiet
  <2>1. UNCHANGED <<jobs, jobStatus>>
    BY <1>22 DEF Maintain, jobVars
  <2>2. \A i \in JobIds: Told(pc'[i]) = Told(pc[i])
    BY <1>22, ActorsDistinct DEF Maintain, Told, ThreadInv, Actors, Workers
  <2> QED
    BY <2>1, <2>2 DEF Quiet
<1>23. ASSUME Shutdown
      PROVE  Quiet
  <2>1. UNCHANGED <<jobs, jobStatus>>
    BY <1>23 DEF Shutdown, jobVars
  <2>2. \A i \in JobIds: Told(pc'[i]) = Told(pc[i])
    BY <1>23, ActorsDistinct DEF Shutdown, Told, ThreadInv, Actors, Workers
  <2> QED
    BY <2>1, <2>2 DEF Quiet
<1>24. ASSUME NEW s \in Services, Pm2Step(s)
      PROVE  Quiet
  <2>1. UNCHANGED <<jobs, jobStatus>>
    BY <1>24 DEF Pm2Step, jobVars
  <2>2. \A i \in JobIds: Told(pc'[i]) = Told(pc[i])
    BY <1>24, ActorsDistinct DEF Pm2Step, Told, ThreadInv, Actors, Workers
  <2> QED
    BY <2>1, <2>2 DEF Quiet
<1>25. ASSUME UNCHANGED vars
      PROVE  Quiet
  <2>1. UNCHANGED <<jobs, jobStatus>>
    BY <1>25 DEF vars, jobVars
  <2>2. \A i \in JobIds: Told(pc'[i]) = Told(pc[i])
    BY <1>25, ActorsDistinct DEF vars, Told, ThreadInv, Actors, Workers
  <2> QED
    BY <2>1, <2>2 DEF Quiet
<1> QED
  BY <1>1, <1>2, <1>3, <1>4, <1>5, <1>6, <1>7, <1>8, <1>9, <1>10, <1>11, <1>12, <1>13, <1>14, <1>15, <1>16, <1>17, <1>18, <1>19, <1>20, <1>21, <1>22, <1>23, <1>24, <1>25
  DEF Next, ClientStep, JobStep, WorkerStep, AutoStep, Ask, Section, Actors, Workers

LEMMA StatusInvStep ==
  ASSUME TypeInv, StatusInv, [Next]_vars
  PROVE  StatusInv'
<1>1. CASE Quiet
  BY <1>1 DEF Quiet, StatusInv
<1>2. ASSUME NEW c \in Clients, Register(c), ~Busy
      PROVE  StatusInv'
  <2>1. PICK j \in JobIds: /\ jobStatus' = [jobStatus EXCEPT ![j] = "queued"]
                          /\ pc' = [pc EXCEPT ![c] = "idle", ![j] = "queued"]
    BY <1>2 DEF Register
  <2> QED
    BY <2>1, ActorsDistinct DEF StatusInv, Told, TypeInv, ThreadInv, SharedInv, Actors, Workers
<1>3. ASSUME NEW j \in JobIds, RunJob(j)
      PROVE  StatusInv'
  BY <1>3 DEF RunJob, StatusInv, Told, TypeInv, ThreadInv, SharedInv, Actors, Workers
<1>4. ASSUME NEW j \in JobIds, SurveyFails(j) \/ Finish(j)
      PROVE  StatusInv'
  <2>1. /\ pc' = [pc EXCEPT ![j] = "done"]
        /\ \E status \in {"succeeded", "failed"}: jobStatus' = [jobStatus EXCEPT ![j] = status]
    BY <1>4, ActorsDistinct DEF SurveyFails, Finish
  <2>2. \A i \in JobIds: i # j => pc'[i] = pc[i] /\ jobStatus'[i] = jobStatus[i]
    BY <2>1 DEF TypeInv, ThreadInv, SharedInv, Actors, Workers
  <2>3. pc'[j] = "done" /\ jobStatus'[j] \in {"succeeded", "failed"}
    BY <2>1 DEF TypeInv, ThreadInv, SharedInv, Actors, Workers
  <2> QED
    BY <2>2, <2>3 DEF StatusInv, Told
<1> QED
  BY <1>1, <1>2, <1>3, <1>4, QuietSteps

-----------------------------------------------------------------------------
(* The table of jobs. *)

\* The jobs left in the table are the newest ones.
LEMMA RetainFacts ==
  ASSUME NEW table \in Seq(JobIds), table # <<>>
  PROVE  /\ Retain(table) \in Seq(JobIds)
         /\ Len(Retain(table)) \in 1..JobLimit
         /\ Retain(table)[Len(Retain(table))] = table[Len(table)]
<1>1. Len(table) \in Nat \ {0} /\ \A i \in 1..Len(table): table[i] \in JobIds
  BY EmptySeq, LenProperties, ElementOfSeq
<1>2. CASE Len(table) > JobLimit
  <2> DEFINE m == Len(table) - JobLimit + 1
  <2>1. /\ m \in Int /\ Len(table) \in Int /\ m <= Len(table)
        /\ Len(table) - m + 1 = JobLimit
        /\ m + JobLimit - 1 = Len(table)
        /\ \A i \in m..Len(table): table[i] \in JobIds
    BY <1>1, <1>2, JobLimitPositive
  <2>2. Retain(table) = SubSeq(table, m, Len(table))
    BY <1>2 DEF Retain
  <2> HIDE DEF m
  <2>3. /\ SubSeq(table, m, Len(table)) \in Seq(JobIds)
        /\ Len(SubSeq(table, m, Len(table))) = JobLimit
        /\ \A i \in 1..JobLimit: SubSeq(table, m, Len(table))[i] = table[m + i - 1]
    BY <2>1, SubSeqProperties
  <2> QED
    BY <2>1, <2>2, <2>3, JobLimitPositive
<1>3. CASE ~(Len(table) > JobLimit)
  BY <1>1, <1>3, JobLimitPositive DEF Retain
<1> QED
  BY <1>2, <1>3

\* The active job is the newest in the table, and the table keeps its bound.
TableInv ==
  /\ \A j \in JobIds: jobStatus[j] \in Active => jobs # <<>> /\ jobs[Len(jobs)] = j
  /\ Len(jobs) <= JobLimit

LEMMA TableInvStep ==
  ASSUME TypeInv, StatusInv, TableInv, [Next]_vars
  PROVE  TableInv'
<1>1. CASE Quiet
  BY <1>1 DEF Quiet, TableInv
<1>2. ASSUME NEW c \in Clients, Register(c), ~Busy
      PROVE  TableInv'
  <2>1. PICK j \in JobIds: /\ jobStatus' = [jobStatus EXCEPT ![j] = "queued"]
                          /\ jobs' = Retain(Append(jobs, j))
    BY <1>2 DEF Register
  <2>2. /\ Append(jobs, j) \in Seq(JobIds) /\ Append(jobs, j) # <<>>
        /\ Append(jobs, j)[Len(Append(jobs, j))] = j
    BY AppendProperties, LenProperties DEF TypeInv, SharedInv
  <2>3. /\ jobs' \in Seq(JobIds) /\ Len(jobs') \in 1..JobLimit
        /\ jobs'[Len(jobs')] = j
    BY <2>1, <2>2, RetainFacts
  <2>4. jobs' # <<>> /\ Len(jobs') <= JobLimit
    BY <2>3, EmptySeq, JobLimitPositive
  <2>5. \A i \in JobIds: jobStatus'[i] \in Active => i = j
    BY <1>2, <2>1 DEF Busy, TypeInv, SharedInv
  <2> QED
    BY <2>3, <2>4, <2>5 DEF TableInv
<1>3. ASSUME NEW j \in JobIds, RunJob(j) \/ SurveyFails(j) \/ Finish(j)
      PROVE  TableInv'
  <2>1. jobStatus[j] \in Active
    BY <1>3 DEF RunJob, SurveyFails, Finish, StatusInv, Told, Active
  <2>2. UNCHANGED jobs /\ \A i \in JobIds: i # j => jobStatus'[i] = jobStatus[i]
    BY <1>3 DEF RunJob, SurveyFails, Finish, TypeInv, SharedInv
  <2> QED
    BY <2>1, <2>2 DEF TableInv
<1> QED
  BY <1>1, <1>2, <1>3, QuietSteps

LEMMA JobsCorrect == Spec => [](TypeInv /\ StatusInv /\ TableInv)
<1>1. Init => StatusInv /\ TableInv
  <2> SUFFICES ASSUME Init
               PROVE  StatusInv /\ TableInv
    OBVIOUS
  <2>1. StatusInv
    BY DEF Init, StatusInv, Told, Actors, Workers
  <2>2. TableInv
    BY JobLimitPositive, EmptySeq DEF Init, TableInv, Active
  <2> QED
    BY <2>1, <2>2
<1> QED
  BY <1>1, TypeInvInit, TypeInvStep, StatusInvStep, TableInvStep, PTL DEF Spec

\* At most one job is active, it is in the table when its worker reports, and the
\* table keeps its bound (submit_group).
THEOREM OneJobAtATime == Spec => []OneActiveJob
<1>1. TypeInv /\ TableInv => OneActiveJob
  <2> SUFFICES ASSUME TypeInv, TableInv
               PROVE  OneActiveJob
    OBVIOUS
  <2>1. jobs # <<>> => Len(jobs) \in DOMAIN jobs
    BY EmptySeq, LenProperties DEF TypeInv, SharedInv
  <2> QED
    BY <2>1 DEF TableInv, OneActiveJob
<1> QED
  BY <1>1, JobsCorrect, PTL

\* Taking, beginning and ending a job are steps of the board, and nothing else
\* touches it (submit_group, _run_job).
THEOREM JobsImplementBoard == Spec => JobsFollowBoard
<1>1. Init => Board!Init
  BY DEF Init, Board!Init
<1>2. TypeInv /\ StatusInv /\ [Next]_vars => [Board!Next]_(Board!vars)
  <2> SUFFICES ASSUME TypeInv, StatusInv, [Next]_vars
               PROVE  [Board!Next]_(Board!vars)
    OBVIOUS
  <2>1. CASE Quiet
    BY <2>1 DEF Quiet, Board!vars
  <2>2. ASSUME NEW c \in Clients, Register(c), ~Busy
        PROVE  Board!Next
    <3>1. PICK j \in JobIds: /\ jobStatus[j] = "none"
                            /\ jobStatus' = [jobStatus EXCEPT ![j] = "queued"]
                            /\ jobs' = Retain(Append(jobs, j))
      BY <2>2 DEF Register
    <3>2. Append(jobs, j) \in Seq(JobIds)
      BY AppendProperties DEF TypeInv, SharedInv
    <3>3. Retain(Append(jobs, j)) = Board!Latest(JobLimit, Append(jobs, j))
      BY <3>2, SubSeqFull DEF Retain, Board!Latest
    <3> QED
      BY <2>2, <3>1, <3>3 DEF Busy, Active, Board!Active, Board!Submit, Board!Next
  <2>3. ASSUME NEW j \in JobIds, RunJob(j)
        PROVE  Board!Next
    BY <2>3 DEF RunJob, StatusInv, Told, Board!Begin, Board!Next
  <2>4. ASSUME NEW j \in JobIds, SurveyFails(j) \/ Finish(j)
        PROVE  Board!Next
    <3>1. jobStatus[j] = "running" /\ UNCHANGED jobs
      BY <2>4 DEF SurveyFails, Finish, StatusInv, Told
    <3>2. \E outcome \in {"succeeded", "failed"}: jobStatus' = [jobStatus EXCEPT ![j] = outcome]
      BY <2>4, ActorsDistinct DEF SurveyFails, Finish
    <3> QED
      BY <3>1, <3>2 DEF Board!Ended, Board!End, Board!Next
  <2> QED
    BY <2>1, <2>2, <2>3, <2>4, QuietSteps
<1> QED
  BY <1>1, <1>2, JobsCorrect, PTL DEF Spec, Board!Spec, JobsFollowBoard

-----------------------------------------------------------------------------
(* What a job reports: a plan passes every service in an order that follows the  *)
(* dependencies, and each outcome depends on those reported before it.           *)

Step(s, act) == [svc |-> s, act |-> act]

\* The plan p passes x before y.
Before(p, x, y) == \A k \in DOMAIN p: p[k] = y => \E l \in DOMAIN p: l < k /\ p[l] = x

\* A plan takes each step once, stops before it starts, leaves out no member of the
\* group, and stops dependents and starts dependencies first.
PlanOK(t) ==
  /\ \A k, l \in DOMAIN t.plan: t.plan[k] = t.plan[l] => k = l
  /\ \A k \in DOMAIN t.plan: /\ t.plan[k].act \in {"start", "stop"}
                             /\ t.act # "restart" => t.plan[k].act = t.act
  /\ \A k, l \in DOMAIN t.plan: k < l /\ t.plan[k].act = "start" => t.plan[l].act = "start"
  /\ \A s \in DOMAIN t.bound:
       /\ t.act # "stop" => \E k \in DOMAIN t.plan: t.plan[k] = Step(s, "start")
       /\ t.act # "start" => \E k \in DOMAIN t.plan: t.plan[k] = Step(s, "stop")
  /\ \A s \in DOMAIN t.bound: \A d \in t.bound[s].deps \cap DOMAIN t.bound:
       /\ Before(t.plan, Step(d, "start"), Step(s, "start"))
       /\ Before(t.plan, Step(s, "stop"), Step(d, "stop"))

Working == Holding \cup {"acquire", "wait"}

\* The steps job j has passed.
Past(j) == {k \in DOMAIN task[j].plan: k < cursor[j]}

\* What job j reports so far: something for each service it has passed and nothing for
\* the others; a restart skips what was not online when it began, and nothing else.
Reported(j) ==
  /\ \A s \in Services: result[j][s] # "none" <=> \E k \in Past(j): task[j].plan[k].svc = s
  /\ task[j].act # "restart" => \A s \in Services: result[j][s] # "skipped"
  /\ task[j].act = "restart" =>
       \A s \in Services: result[j][s] # "none" => (result[j][s] = "skipped" <=> s \notin online0[j])

\* A start that succeeded was made on dependencies that are not reported as failed, a
\* stop after every dependent was stopped.
Ordered(j) ==
  \A s \in DOMAIN task[j].bound: \A d \in task[j].bound[s].deps \cap DOMAIN task[j].bound:
    /\ \A k \in Past(j):
         task[j].plan[k] = Step(s, "start") /\ result[j][s] = "succeeded" =>
           result[j][d] \in {"succeeded", "skipped"}
    /\ task[j].act = "stop" =>
         (result[j][d] = "succeeded" => result[j][s] = "succeeded")

\* The job works on the step its cursor is at, which is neither passed over nor blocked.
Attempted(j) ==
  /\ cursor[j] \in DOMAIN task[j].plan
  /\ goal[j] = task[j].plan[cursor[j]]
  /\ ~Skipped(j, goal[j]) /\ ~Blocked(j, goal[j])

\* Before its loop a job has passed nothing; one that is done has passed everything, or
\* never began.
Fresh(j) == cursor[j] = 1 /\ \A s \in Services: result[j][s] = "none"

JobInv(j) ==
  /\ pc[j] \in {"idle", "queued", "survey"} => Fresh(j)
  /\ pc[j] # "idle" => PlanOK(task[j]) /\ Reported(j) /\ Ordered(j)
  /\ pc[j] \in Working => Attempted(j)
  /\ pc[j] = "done" => Fresh(j) \/ cursor[j] > Len(task[j].plan)

ReportInv ==
  /\ \A c \in Clients: pc[c] = "register" => PlanOK(task[c])
  /\ \A j \in JobIds: JobInv(j)

\* An order passes each member once, and dependencies first.
LEMMA OrderFacts ==
  ASSUME registry \in Registries, NEW S \in SUBSET DOMAIN registry, NEW o \in Orders(S)
  PROVE  \E n \in Nat:
           /\ o \in [1..n -> S] /\ Len(o) = n
           /\ \A i, m \in 1..n: o[i] = o[m] => i = m
           /\ \A s \in S: \E i \in 1..n: o[i] = s
           /\ \A i, m \in 1..n: o[m] \in registry[o[i]].deps => m < i
<1>1. S \subseteq Services /\ \A s \in S: s \notin registry[s].deps
  BY RegistryFacts
<1>2. IsFiniteSet(S)
  BY <1>1, ServicesFinite, FS_Subset
<1>3. PICK n \in Nat: n = Cardinality(S)
  BY <1>2, FS_CardinalityType
<1>4. o \in [1..n -> S] /\ \A i, m \in 1..n: i < m => o[i] # o[m] /\ o[m] \notin registry[o[i]].deps
  BY <1>3 DEF Orders
<1>5. \A i, m \in 1..n: o[i] = o[m] => i = m
  <2>1. \A i, m \in 1..n: i = m \/ i < m \/ m < i
    OBVIOUS
  <2> QED
    BY <1>4, <2>1
<1>6. \A s \in S: \E i \in 1..n: o[i] = s
  <2>1. o \in Injection(1..n, S)
    BY <1>4, <1>5 DEF Injection, IsInjective
  <2>2. 1 \in Int /\ n \in Int /\ IsFiniteSet(1..n)
    BY FS_Interval
  <2>3. Cardinality(1..n) = IF 1 > n THEN 0 ELSE n - 1 + 1
    BY <2>2, FS_Interval
  <2>4. Cardinality(1..n) = Cardinality(S)
    BY <1>3, <2>3
  <2>5. o \in Surjection(1..n, S)
    BY <1>2, <2>1, <2>4, FS_Injection
  <2> QED
    BY <2>5 DEF Surjection
<1>7. ASSUME NEW i \in 1..n, NEW m \in 1..n, o[m] \in registry[o[i]].deps
      PROVE  m < i
  <2>1. ~(i < m)
    BY <1>4, <1>7
  <2>2. o[i] \in S /\ i # m
    BY <1>1, <1>4, <1>7
  <2> QED
    BY <2>1, <2>2
<1>8. Len(o) = n
  BY <1>4, FunctionIsSeq
<1> QED
  BY <1>4, <1>5, <1>6, <1>7, <1>8

\* The plan of a group is as it should be.
LEMMA PlanFacts ==
  ASSUME registry \in Registries, NEW S \in SUBSET DOMAIN registry, NEW o \in Orders(S),
         NEW act \in Action
  PROVE  PlanOK(Task(act, o, S))
<1>1. PICK n \in Nat: /\ o \in [1..n -> S] /\ Len(o) = n
                      /\ \A i, m \in 1..n: o[i] = o[m] => i = m
                      /\ \A s \in S: \E i \in 1..n: o[i] = s
                      /\ \A i, m \in 1..n: o[m] \in registry[o[i]].deps => m < i
  BY OrderFacts
<1> DEFINE p == Plan(act, o)
           t == Task(act, o, S)
<1>2. PICK b \in Nat, N \in Nat:
        /\ act = "restart" => b = n
        /\ DOMAIN p = 1..N
        /\ \A k \in 1..N:
             \/ act # "start" /\ n + 1 - k \in 1..n /\ p[k] = Step(o[n + 1 - k], "stop")
             \/ act # "stop" /\ k - b \in 1..n /\ p[k] = Step(o[k - b], "start")
        /\ \A i \in 1..n:
             /\ act # "stop" => b + i \in 1..N /\ p[b + i] = Step(o[i], "start")
             /\ act # "start" => n + 1 - i \in 1..N /\ p[n + 1 - i] = Step(o[i], "stop")
  <2>1. CASE act = "stop"
    <3>1. p = [i \in 1..n |-> Step(o[n + 1 - i], "stop")]
      BY <1>1, <2>1 DEF Plan, Step
    <3> HIDE DEF p
    <3>2. \A i \in 1..n: n + 1 - i \in 1..n /\ n + 1 - (n + 1 - i) = i
      OBVIOUS
    <3>3. DOMAIN p = 1..n /\ \A i \in 1..n: p[i] = Step(o[n + 1 - i], "stop")
      BY <3>1
    <3>4. \A i \in 1..n: p[n + 1 - i] = Step(o[i], "stop")
      BY <3>2, <3>3
    <3> QED
      BY <2>1, <3>2, <3>3, <3>4
  <2>2. CASE act = "start"
    <3>1. p = [i \in 1..n |-> Step(o[i], "start")]
      BY <1>1, <2>2 DEF Plan, Step
    <3> HIDE DEF p
    <3>2. 0 \in Nat /\ \A i \in 1..n: i - 0 \in 1..n /\ 0 + i = i /\ i - 0 = i
      OBVIOUS
    <3>3. DOMAIN p = 1..n /\ \A i \in 1..n: p[i] = Step(o[i], "start")
      BY <3>1
    <3>4. \A i \in 1..n: p[0 + i] = Step(o[i], "start") /\ p[i] = Step(o[i - 0], "start")
      BY <3>2, <3>3
    <3> QED
      BY <2>2, <3>2, <3>3, <3>4
  <2>3. CASE act = "restart"
    <3>1. p = [i \in 1..(2 * n) |-> IF i <= n THEN Step(o[n + 1 - i], "stop")
                                              ELSE Step(o[i - n], "start")]
      BY <1>1, <2>3 DEF Plan, Step
    <3> HIDE DEF p
    <3>2. /\ 2 * n \in Nat
          /\ \A k \in 1..(2 * n): IF k <= n THEN n + 1 - k \in 1..n ELSE k - n \in 1..n
          /\ \A i \in 1..n: /\ n + i \in 1..(2 * n) /\ ~(n + i <= n) /\ n + i - n = i
                            /\ n + 1 - i \in 1..(2 * n) /\ n + 1 - i <= n
                            /\ n + 1 - (n + 1 - i) = i
      OBVIOUS
    <3>3. DOMAIN p = 1..(2 * n)
          /\ \A i \in 1..(2 * n): p[i] = IF i <= n THEN Step(o[n + 1 - i], "stop")
                                                   ELSE Step(o[i - n], "start")
      BY <3>1
    <3>4. \A i \in 1..n: p[n + i] = Step(o[i], "start") /\ p[n + 1 - i] = Step(o[i], "stop")
      <4> TAKE i \in 1..n
      <4>1. p[n + i] = Step(o[n + i - n], "start")
        BY <3>2, <3>3
      <4>2. p[n + 1 - i] = Step(o[n + 1 - (n + 1 - i)], "stop")
        BY <3>2, <3>3
      <4> QED
        BY <3>2, <4>1, <4>2
    <3>5. \A k \in 1..(2 * n):
            \/ n + 1 - k \in 1..n /\ p[k] = Step(o[n + 1 - k], "stop")
            \/ k - n \in 1..n /\ p[k] = Step(o[k - n], "start")
      BY <3>2, <3>3
    <3>6. \A i \in 1..n: n + i \in 1..(2 * n) /\ n + 1 - i \in 1..(2 * n)
      BY <3>2
    <3> DEFINE N == 2 * n
    <3>7. n \in Nat /\ N \in Nat
      OBVIOUS
    <3> HIDE DEF N
    <3>8. /\ DOMAIN p = 1..N
          /\ \A k \in 1..N:
               \/ n + 1 - k \in 1..n /\ p[k] = Step(o[n + 1 - k], "stop")
               \/ k - n \in 1..n /\ p[k] = Step(o[k - n], "start")
          /\ \A i \in 1..n: n + i \in 1..N /\ n + 1 - i \in 1..N
      BY <3>3, <3>5, <3>6 DEF N
    <3> QED
      BY <2>3, <3>4, <3>7, <3>8
  <2> QED
    BY <2>1, <2>2, <2>3 DEF Action
<1>3. /\ t.act = act /\ t.plan = p /\ DOMAIN t.bound = S
      /\ \A s \in S: t.bound[s] = registry[s]
  BY DEF Task
<1>4. \A s, x, a, e: /\ Step(s, a) = Step(x, e) => s = x /\ a = e
                     /\ Step(s, a).act = a /\ Step(s, a).svc = s
  BY DEF Step
<1> HIDE DEF p, t
\* Where the steps are.
<1>5. ASSUME NEW i \in 1..n, NEW k \in 1..N, p[k] = Step(o[i], "start")
      PROVE  act # "stop" /\ k = b + i
  <2>1. act # "stop" /\ k - b \in 1..n /\ p[k] = Step(o[k - b], "start")
    BY <1>2, <1>4, <1>5
  <2>2. k - b = i
    BY <1>1, <1>4, <1>5, <2>1
  <2> QED
    BY <2>1, <2>2
<1>6. ASSUME NEW i \in 1..n, NEW k \in 1..N, p[k] = Step(o[i], "stop")
      PROVE  act # "start" /\ k = n + 1 - i
  <2>1. act # "start" /\ n + 1 - k \in 1..n /\ p[k] = Step(o[n + 1 - k], "stop")
    BY <1>2, <1>4, <1>6
  <2>2. n + 1 - k = i
    BY <1>1, <1>4, <1>6, <2>1
  <2> QED
    BY <2>1, <2>2
<1>7. \A k \in 1..N: \E i \in 1..n, a \in {"start", "stop"}: p[k] = Step(o[i], a)
  BY <1>2
<1>8. ASSUME NEW k \in 1..N, NEW l \in 1..N, p[k] = p[l]
      PROVE  k = l
  <2>1. PICK i \in 1..n, a \in {"start", "stop"}: p[k] = Step(o[i], a)
    BY <1>7
  <2>2. CASE a = "start"
    BY <1>5, <1>8, <2>1, <2>2
  <2>3. CASE a = "stop"
    BY <1>6, <1>8, <2>1, <2>3
  <2> QED
    BY <2>2, <2>3
<1>9. ASSUME NEW k \in 1..N
      PROVE  p[k].act \in {"start", "stop"} /\ (act # "restart" => p[k].act = act)
  <2>1. PICK i \in 1..n, a \in {"start", "stop"}: p[k] = Step(o[i], a)
    BY <1>7
  <2>2. p[k].act = a
    BY <1>4, <2>1
  <2> QED
    BY <1>5, <1>6, <2>1, <2>2 DEF Action
<1>10. ASSUME NEW k \in 1..N, NEW l \in 1..N, k < l, p[k].act = "start"
       PROVE  p[l].act = "start"
  <2>1. PICK i \in 1..n, a \in {"start", "stop"}: p[k] = Step(o[i], a)
    BY <1>7
  <2>2. PICK m \in 1..n, e \in {"start", "stop"}: p[l] = Step(o[m], e)
    BY <1>7
  <2>3. a = "start" /\ p[l].act = e
    BY <1>4, <1>10, <2>1, <2>2
  <2>4. act # "stop" /\ k = b + i
    BY <1>5, <2>1, <2>3
  <2>5. ASSUME e = "stop" PROVE FALSE
    <3>1. act # "start" /\ l = n + 1 - m
      BY <1>6, <2>2, <2>5
    <3>2. b = n
      BY <1>2, <2>4, <3>1 DEF Action
    <3> QED
      BY <1>10, <2>4, <3>1, <3>2
  <2> QED
    BY <2>3, <2>5
<1>11. ASSUME NEW s \in S
       PROVE  /\ act # "stop" => \E k \in 1..N: p[k] = Step(s, "start")
              /\ act # "start" => \E k \in 1..N: p[k] = Step(s, "stop")
  <2>1. PICK i \in 1..n: o[i] = s
    BY <1>1
  <2> QED
    BY <1>2, <2>1
<1>12. ASSUME NEW s \in S, NEW d \in registry[s].deps \cap S
       PROVE  /\ \A k \in 1..N: p[k] = Step(s, "start") => \E l \in 1..N: l < k /\ p[l] = Step(d, "start")
              /\ \A k \in 1..N: p[k] = Step(d, "stop") => \E l \in 1..N: l < k /\ p[l] = Step(s, "stop")
  <2>1. PICK i \in 1..n: o[i] = s
    BY <1>1
  <2>2. PICK m \in 1..n: o[m] = d
    BY <1>1
  <2>3. m < i
    BY <1>1, <2>1, <2>2
  <2>4. ASSUME NEW k \in 1..N, p[k] = Step(s, "start")
        PROVE  \E l \in 1..N: l < k /\ p[l] = Step(d, "start")
    <3>1. act # "stop" /\ k = b + i
      BY <1>5, <2>1, <2>4
    <3>2. b + m \in 1..N /\ p[b + m] = Step(d, "start")
      BY <1>2, <2>2, <3>1
    <3>3. b + m < k
      BY <2>3, <3>1
    <3> QED
      BY <3>2, <3>3
  <2>5. ASSUME NEW k \in 1..N, p[k] = Step(d, "stop")
        PROVE  \E l \in 1..N: l < k /\ p[l] = Step(s, "stop")
    <3>1. act # "start" /\ k = n + 1 - m
      BY <1>6, <2>2, <2>5
    <3>2. n + 1 - i \in 1..N /\ p[n + 1 - i] = Step(s, "stop")
      BY <1>2, <2>1, <3>1
    <3>3. n + 1 - i < k
      BY <2>3, <3>1
    <3> QED
      BY <3>2, <3>3
  <2> QED
    BY <2>4, <2>5
<1>13. /\ \A s \in DOMAIN t.bound: /\ t.act # "stop" => \E k \in DOMAIN t.plan: t.plan[k] = Step(s, "start")
                                   /\ t.act # "start" => \E k \in DOMAIN t.plan: t.plan[k] = Step(s, "stop")
  BY <1>2, <1>3, <1>11
<1>14. ASSUME NEW s \in DOMAIN t.bound, NEW d \in t.bound[s].deps \cap DOMAIN t.bound
       PROVE  /\ Before(t.plan, Step(d, "start"), Step(s, "start"))
              /\ Before(t.plan, Step(s, "stop"), Step(d, "stop"))
  <2>1. s \in S /\ d \in registry[s].deps \cap S
    BY <1>3
  <2>2. \A k \in 1..N: p[k] = Step(s, "start") => \E l \in 1..N: l < k /\ p[l] = Step(d, "start")
    BY <1>12, <2>1
  <2>3. \A k \in 1..N: p[k] = Step(d, "stop") => \E l \in 1..N: l < k /\ p[l] = Step(s, "stop")
    BY <1>12, <2>1
  <2> QED
    BY <1>2, <1>3, <2>2, <2>3 DEF Before
<1>15. /\ \A k, l \in DOMAIN t.plan: t.plan[k] = t.plan[l] => k = l
       /\ \A k \in DOMAIN t.plan: /\ t.plan[k].act \in {"start", "stop"}
                                  /\ t.act # "restart" => t.plan[k].act = t.act
       /\ \A k, l \in DOMAIN t.plan: k < l /\ t.plan[k].act = "start" => t.plan[l].act = "start"
  BY <1>2, <1>3, <1>8, <1>9, <1>10
<1>16. PlanOK(t)
  BY <1>13, <1>14, <1>15 DEF PlanOK
<1> QED
  BY <1>16 DEF t

\* What a worker reports at a step: it passed the step over, it was blocked, or it tried.
Says(w, step, r) ==
  \/ Skipped(w, step) /\ r = IF step.act = "stop" THEN "skipped" ELSE result[w][step.svc]
  \/ ~Skipped(w, step) /\ Blocked(w, step) /\ r = "blocked"
  \/ ~Skipped(w, step) /\ ~Blocked(w, step) /\ r \in {"succeeded", "failed"}

\* One more step of the plan keeps the reports in order.
LEMMA ReportStep ==
  ASSUME TypeInv, NEW j \in JobIds, TaskOK(task[j]), PlanOK(task[j]), Reported(j), Ordered(j),
         NEW step, cursor[j] \in DOMAIN task[j].plan, step = task[j].plan[cursor[j]],
         NEW r, Says(j, step, r),
         task'[j] = task[j], online0'[j] = online0[j], cursor'[j] = cursor[j] + 1,
         result'[j] = [result[j] EXCEPT ![step.svc] = r]
  PROVE  Reported(j)' /\ Ordered(j)'
<1> DEFINE t == task[j]
           p == t.plan
           at == cursor[j]
           x == step.svc
<1>1. /\ j \in Workers /\ result[j] \in [Services -> Outcome]
      /\ DOMAIN t.bound \subseteq Services
      /\ p \in Seq([svc: DOMAIN t.bound, act: Action])
      /\ at \in Nat
  BY TaskFacts DEF TypeInv, ThreadInv, Workers
<1>2. DOMAIN p \subseteq Nat /\ \A k \in DOMAIN p: p[k] \in [svc: DOMAIN t.bound, act: Action]
  <2>1. DOMAIN p = 1..Len(p) /\ Len(p) \in Nat
    BY <1>1, LenProperties
  <2>2. 1..Len(p) \subseteq Nat
    BY <2>1
  <2> HIDE DEF p
  <2>3. \A k \in 1..Len(p): p[k] \in [svc: DOMAIN t.bound, act: Action]
    BY <1>1, ElementOfSeq
  <2> QED
    BY <2>1, <2>2, <2>3
<1>3. x \in Services /\ x \in DOMAIN t.bound /\ step = Step(x, step.act)
  BY <1>1, <1>2 DEF Step
<1>4. \A k \in DOMAIN p: p[k] = Step(p[k].svc, p[k].act)
  BY <1>2 DEF Step
<1>5. \A s, a: Step(s, a).svc = s /\ Step(s, a).act = a
  BY DEF Step
<1> HIDE DEF t, p, at, x
<1>6. /\ \A k, l \in DOMAIN p: p[k] = p[l] => k = l
      /\ \A k \in DOMAIN p: p[k].act \in {"start", "stop"} /\ (t.act # "restart" => p[k].act = t.act)
      /\ \A k, l \in DOMAIN p: k < l /\ p[k].act = "start" => p[l].act = "start"
  BY DEF PlanOK, t, p
<1>7. \A s \in DOMAIN t.bound: t.act # "start" => \E k \in DOMAIN p: p[k] = Step(s, "stop")
  BY DEF PlanOK, t, p
<1>8. \A s \in DOMAIN t.bound: \A d \in t.bound[s].deps \cap DOMAIN t.bound:
        /\ \A k \in DOMAIN p: p[k] = Step(s, "start") => \E l \in DOMAIN p: l < k /\ p[l] = Step(d, "start")
        /\ \A k \in DOMAIN p: p[k] = Step(d, "stop") => \E l \in DOMAIN p: l < k /\ p[l] = Step(s, "stop")
  BY DEF PlanOK, Before, t, p
<1>9. at \in DOMAIN p /\ p[at] = step
  BY DEF at, p, t
<1>10. \A k \in DOMAIN p: k \in Past(j) <=> k < at
  BY DEF Past, p, t, at
<1>11. /\ \A s \in Services: result[j][s] # "none" <=> \E k \in DOMAIN p: k < at /\ p[k].svc = s
       /\ t.act # "restart" => \A s \in Services: result[j][s] # "skipped"
       /\ t.act = "restart" =>
            \A s \in Services: result[j][s] # "none" => (result[j][s] = "skipped" <=> s \notin online0[j])
  BY DEF Reported, Past, p, t, at
<1>12. \A s \in DOMAIN t.bound: \A d \in t.bound[s].deps \cap DOMAIN t.bound:
         /\ \A k \in DOMAIN p: k < at /\ p[k] = Step(s, "start") /\ result[j][s] = "succeeded" =>
              result[j][d] \in {"succeeded", "skipped"}
         /\ t.act = "stop" => (result[j][d] = "succeeded" => result[j][s] = "succeeded")
  BY DEF Ordered, Past, p, t, at
<1>13. /\ result'[j][x] = r
       /\ \A s \in Services: s # x => result'[j][s] = result[j][s]
  BY <1>1, <1>3 DEF x
<1>14. \A k \in DOMAIN p: (k \in Past(j))' <=> (k < at \/ k = at)
  <2>1. \A k \in DOMAIN p: k < at + 1 <=> (k < at \/ k = at)
    BY <1>1, <1>2
  <2>2. \A k \in DOMAIN p: (k \in Past(j))' <=> k < at + 1
    BY DEF Past, p, t, at
  <2> QED
    BY <2>1, <2>2
\* Another member of the group, once its step of the same kind is behind.
<1>15. \A s, a: \A l \in DOMAIN p: l < at /\ p[l] = Step(s, a) /\ step.act = a => s # x
  <2> SUFFICES ASSUME NEW a, NEW l \in DOMAIN p, l < at, p[l] = Step(x, a), step.act = a
               PROVE  FALSE
    OBVIOUS
  <2>1. l = at
    BY <1>3, <1>6, <1>9
  <2> QED
    BY <1>1, <2>1
<1>16. \A s \in Services: \A a: \A l \in DOMAIN p: l < at /\ p[l] = Step(s, a) => result[j][s] # "none"
  BY <1>5, <1>11
<1>17. r # "none" /\ (Skipped(j, step) /\ step.act = "start" => r = result[j][x])
  <2>1. ASSUME Skipped(j, step), step.act = "start"
        PROVE  r = result[j][x] /\ result[j][x] # "none"
    <3>1. r = result[j][x]
      BY <2>1 DEF Says, x
    <3>2. CASE x \in Failed(j)
      BY <3>1, <3>2 DEF Failed
    <3>3. CASE x \notin Failed(j)
      <4>1. t.act = "restart"
        BY <2>1, <3>3 DEF Skipped, t, x
      <4>2. PICK l \in DOMAIN p: p[l] = Step(x, "stop")
        BY <1>3, <1>7, <4>1
      <4>3. ~(at < l) /\ l # at
        BY <1>5, <1>6, <1>9, <2>1, <4>2
      <4>4. l < at
        BY <1>1, <1>2, <4>3
      <4> QED
        BY <1>3, <1>16, <3>1, <4>2, <4>4
    <3> QED
      BY <3>2, <3>3
  <2>2. step.act \in {"start", "stop"}
    BY <1>6, <1>9
  <2>3. r # "none"
    <3>1. CASE Skipped(j, step) /\ step.act = "start"
      BY <2>1, <3>1
    <3>2. CASE Skipped(j, step) /\ step.act = "stop"
      BY <3>2 DEF Says
    <3>3. CASE ~Skipped(j, step)
      BY <3>3 DEF Says
    <3> QED
      BY <2>2, <3>1, <3>2, <3>3
  <2> QED
    BY <2>1, <2>3
<1>18. Reported(j)'
  <2>1. ASSUME NEW s \in Services
        PROVE  result'[j][s] # "none" <=> \E k \in DOMAIN p: (k < at \/ k = at) /\ p[k].svc = s
    <3>1. CASE s = x
      BY <1>9, <1>13, <1>17, <3>1 DEF x
    <3>2. CASE s # x
      BY <1>9, <1>11, <1>13, <3>2 DEF x
    <3> QED
      BY <3>1, <3>2
  <2>2. ASSUME t.act # "restart", NEW s \in Services
        PROVE  result'[j][s] # "skipped"
    <3>1. ASSUME r = "skipped" PROVE FALSE
      <4>1. Skipped(j, step)
        BY <3>1 DEF Says
      <4>2. step.act = "start"
        BY <2>2, <4>1 DEF Skipped, t
      <4> QED
        BY <1>3, <1>11, <1>17, <2>2, <3>1, <4>1, <4>2
    <3> QED
      BY <1>11, <1>13, <2>2, <3>1
  <2>3. ASSUME t.act = "restart", NEW s \in Services, result'[j][s] # "none"
        PROVE  result'[j][s] = "skipped" <=> s \notin online0[j]
    <3>1. r = "skipped" <=> x \notin online0[j]
      <4>1. CASE Skipped(j, step) /\ step.act = "start"
        BY <1>3, <1>11, <1>17, <2>3, <4>1
      <4>2. CASE Skipped(j, step) /\ step.act # "start"
        <5>1. x \notin online0[j]
          BY <4>2 DEF Skipped, x
        <5>2. step.act = "stop"
          BY <1>6, <1>9, <4>2
        <5>3. r = "skipped"
          BY <4>2, <5>2 DEF Says
        <5> QED
          BY <5>1, <5>3
      <4>3. CASE ~Skipped(j, step)
        BY <2>3, <4>3 DEF Says, Skipped, t, x
      <4> QED
        BY <4>1, <4>2, <4>3
    <3> QED
      BY <1>11, <1>13, <2>3, <3>1
  <2>4. \A s \in Services: result'[j][s] # "none" <=> \E k \in Past(j)': p[k].svc = s
    <3>1. Past(j)' \subseteq DOMAIN p
      BY DEF Past, p, t
    <3> QED
      BY <1>14, <2>1, <3>1
  <2> QED
    BY <2>2, <2>3, <2>4 DEF Reported, p, t
<1>19. ASSUME NEW s \in DOMAIN t.bound, NEW d \in t.bound[s].deps \cap DOMAIN t.bound
       PROVE  /\ \A k \in DOMAIN p:
                   (k < at \/ k = at) /\ p[k] = Step(s, "start") /\ result'[j][s] = "succeeded" =>
                     result'[j][d] \in {"succeeded", "skipped"}
              /\ t.act = "stop" => (result'[j][d] = "succeeded" => result'[j][s] = "succeeded")
  <2>1. s \in Services /\ d \in Services
    BY <1>1 DEF t
  <2>2. ASSUME NEW k \in DOMAIN p, k < at, p[k] = Step(s, "start"), result'[j][s] = "succeeded"
        PROVE  result'[j][d] \in {"succeeded", "skipped"}
    <3>1. step.act = "start"
      BY <1>5, <1>6, <1>9, <2>2
    <3>2. s # x
      BY <1>15, <2>2, <3>1
    <3>3. PICK l \in DOMAIN p: l < k /\ p[l] = Step(d, "start")
      BY <1>8, <1>19, <2>2
    <3>4. l < at
      BY <1>1, <1>2, <2>2, <3>3
    <3>5. d # x
      BY <1>15, <3>1, <3>3, <3>4
    <3> QED
      BY <1>12, <1>13, <1>19, <2>1, <2>2, <3>2, <3>5
  <2>3. ASSUME p[at] = Step(s, "start"), result'[j][s] = "succeeded"
        PROVE  result'[j][d] \in {"succeeded", "skipped"}
    <3>1. s = x /\ step.act = "start"
      BY <1>5, <1>9, <2>3 DEF x
    <3>2. PICK l \in DOMAIN p: l < at /\ p[l] = Step(d, "start")
      BY <1>8, <1>9, <1>19, <2>3
    <3>3. d # x /\ result[j][d] # "none"
      BY <1>15, <1>16, <2>1, <3>1, <3>2
    <3>4. r = "succeeded"
      BY <1>13, <2>3, <3>1
    <3>5. ~Skipped(j, step)
      <4>1. SUFFICES ASSUME Skipped(j, step) PROVE FALSE
        OBVIOUS
      <4>2. result[j][x] = "succeeded"
        BY <1>17, <3>1, <3>4, <4>1
      <4>3. x \notin Failed(j)
        BY <4>2 DEF Failed
      <4>4. t.act = "restart" /\ x \notin online0[j]
        BY <4>1, <4>3 DEF Skipped, t, x
      <4> QED
        BY <1>3, <1>11, <4>2, <4>4
    <3>6. ~Blocked(j, step)
      BY <3>4, <3>5 DEF Says
    <3>7. d \notin Failed(j)
      BY <1>19, <3>1, <3>6 DEF Blocked, t, x
    <3>8. result[j][d] \in Outcome \ {"none", "failed", "blocked"}
      BY <1>1, <2>1, <3>3, <3>7 DEF Failed
    <3> QED
      BY <1>13, <2>1, <3>3, <3>8 DEF Outcome
  <2>4. ASSUME t.act = "stop", result'[j][d] = "succeeded"
        PROVE  result'[j][s] = "succeeded"
    <3>1. step.act = "stop"
      BY <1>6, <1>9, <2>4
    <3>2. CASE d = x
      <4>1. PICK l \in DOMAIN p: l < at /\ p[l] = Step(s, "stop")
        BY <1>3, <1>8, <1>9, <1>19, <3>1, <3>2
      <4>2. s # x /\ result[j][s] # "none"
        BY <1>15, <1>16, <2>1, <3>1, <4>1
      <4>3. r = "succeeded"
        BY <1>13, <2>4, <3>2
      <4>4. ~Blocked(j, step)
        BY <3>1, <4>3 DEF Says
      <4>5. s \notin Failed(j)
        BY <1>19, <3>1, <3>2, <4>4 DEF Blocked, t, x
      <4>6. result[j][s] \in Outcome \ {"none", "failed", "blocked", "skipped"}
        BY <1>1, <1>11, <2>1, <2>4, <4>2, <4>5 DEF Failed
      <4> QED
        BY <1>13, <2>1, <4>2, <4>6 DEF Outcome
    <3>3. CASE d # x
      <4>1. result[j][d] = "succeeded"
        BY <1>13, <2>1, <2>4, <3>3
      <4>2. result[j][s] = "succeeded"
        BY <1>12, <1>19, <2>4, <4>1
      <4>3. PICK k \in DOMAIN p: k < at /\ p[k].svc = s
        BY <1>11, <2>1, <4>2
      <4>4. p[k] = Step(s, "stop")
        BY <1>4, <1>6, <2>4, <4>3
      <4>5. s # x
        BY <1>15, <3>1, <4>3, <4>4
      <4> QED
        BY <1>13, <2>1, <4>2, <4>5
    <3> QED
      BY <3>2, <3>3
  <2> QED
    BY <2>2, <2>3, <2>4
<1>20. Ordered(j)'
  <2>1. Past(j)' \subseteq DOMAIN p
    BY DEF Past, p, t
  <2>2. \A s \in DOMAIN t.bound: \A d \in t.bound[s].deps \cap DOMAIN t.bound:
          /\ \A k \in Past(j)': p[k] = Step(s, "start") /\ result'[j][s] = "succeeded" =>
               result'[j][d] \in {"succeeded", "skipped"}
          /\ t.act = "stop" => (result'[j][d] = "succeeded" => result'[j][s] = "succeeded")
    BY <1>14, <1>19, <2>1
  <2> QED
    BY <2>2 DEF Ordered, p, t
<1> QED
  BY <1>18, <1>20

\* What a step leaves of the work of job j, if it only moves it within a step of its plan.
Untouched(j) ==
  /\ task'[j] = task[j] /\ cursor'[j] = cursor[j] /\ result'[j] = result[j]
  /\ online0'[j] = online0[j] /\ goal'[j] = goal[j]
  /\ pc'[j] = pc[j] \/ (pc[j] \in Working /\ pc'[j] \in Working)

Ends(j) ==
  /\ pc[j] \in Working /\ task' = task
  /\ \E r \in {"succeeded", "failed"}: Conclude(j, r)

\* A worker that ends its step is the only one that reports.
LEMMA OthersUntouched ==
  ASSUME TypeInv, NEW w \in Workers, pc[w] \in Working, task' = task,
         NEW r \in {"succeeded", "failed"}, Conclude(w, r), NEW j \in JobIds
  PROVE  Untouched(j) \/ Ends(j)
<1>1. CASE w = j
  BY <1>1 DEF Ends
<1>2. CASE w # j
  BY <1>2 DEF Conclude, Untouched, TypeInv, ThreadInv, TaskInv, Actors, Workers
<1> QED
  BY <1>1, <1>2

LEMMA FailureEnds ==
  ASSUME TypeInv, NEW w \in Workers, pc[w] \in Working, task' = task,
         NEW retryable, WorkerFails(w, retryable), NEW j \in JobIds
  PROVE  Untouched(j) \/ Ends(j)
<1>1. CASE Conclude(w, "failed")
  BY <1>1, OthersUntouched
<1>2. CASE /\ w = Starter
           /\ pc' = [pc EXCEPT ![w] = "acquire"]
           /\ UNCHANGED <<goal, cursor, result, online0>>
  BY <1>2, ActorsDistinct DEF Untouched, TypeInv, ThreadInv, Actors, Workers
<1> QED
  BY <1>1, <1>2 DEF WorkerFails

LEMMA AbortEnds ==
  ASSUME TypeInv, NEW a \in Actors, pc[a] \in Holding, task' = task,
         NEW retryable, Abort(a, retryable), NEW j \in JobIds
  PROVE  Untouched(j) \/ Ends(j)
<1>1. CASE a \in Clients
  BY <1>1, ActorsDistinct DEF Abort, Untouched, TypeInv, ThreadInv, Actors, Workers, workVars
<1>2. CASE a \notin Clients
  BY <1>2, FailureEnds DEF Abort, Actors, Working
<1> QED
  BY <1>1, <1>2

\* The steps that make progress with job j, and what all others do to it.
LEMMA OwnSteps ==
  ASSUME TypeInv, [Next]_vars, NEW j \in JobIds
  PROVE  \/ Untouched(j) \/ Ends(j)
         \/ NextStep(j) \/ RunJob(j) \/ SurveyDone(j) \/ SurveyFails(j) \/ Finish(j)
         \/ \E s \in Services: SurveyOne(j, s)
         \/ \E c \in Clients: Register(c) /\ ~Busy
<1> USE DEF TypeInv
<1>1. ASSUME NEW a \in Actors, NEW s \in Services, PassCheck(a, s)
      PROVE  Untouched(j)
  BY <1>1, ActorsDistinct
  DEF PassCheck, Untouched, Working, Holding, ThreadInv, TaskInv, Actors, Workers, jobVars, workVars
<1>2. ASSUME NEW a \in Actors, CheckFails(a)
      PROVE  Untouched(j) \/ Ends(j)
  BY <1>2, AbortEnds DEF CheckFails, Holding, jobVars
<1>3. ASSUME NEW a \in Actors, EndCheck(a)
      PROVE  Untouched(j)
  BY <1>3, ActorsDistinct
  DEF EndCheck, Untouched, Working, Holding, ThreadInv, TaskInv, Actors, Workers, jobVars, workVars
<1>4. ASSUME NEW w \in Workers, AlreadyOnline(w)
      PROVE  Untouched(j)
  BY <1>4, ActorsDistinct
  DEF AlreadyOnline, Untouched, Working, Holding, ThreadInv, TaskInv, Actors, Workers, jobVars, workVars
<1>5. ASSUME NEW a \in Actors, StopCommand(a)
      PROVE  Untouched(j) \/ Ends(j)
  <2>1. pc[a] \in Holding /\ task' = task
    BY <1>5 DEF StopCommand, Command, Holding, jobVars
  <2>2. \/ \E retryable: Abort(a, retryable)
        \/ /\ \E next \in {"record", "relaunch"}: pc' = [pc EXCEPT ![a] = next]
           /\ UNCHANGED <<goal, workVars>>
    BY <1>5 DEF StopCommand, Command
  <2>3. ASSUME NEW next \in {"record", "relaunch"}, pc' = [pc EXCEPT ![a] = next],
               UNCHANGED <<goal, workVars>>
        PROVE  Untouched(j)
    BY <2>1, <2>3 DEF Untouched, Working, Holding, ThreadInv, Actors, Workers, workVars
  <2> QED
    BY <2>1, <2>2, <2>3, AbortEnds
<1>6. ASSUME NEW a \in Actors, StartCommand(a)
      PROVE  Untouched(j) \/ Ends(j)
  <2>1. pc[a] \in Holding /\ task' = task
    BY <1>6 DEF StartCommand, Command, Holding, jobVars
  <2>2. \/ \E retryable: Abort(a, retryable)
        \/ /\ \E next \in {"record", "relaunch"}: pc' = [pc EXCEPT ![a] = next]
           /\ UNCHANGED <<goal, workVars>>
    BY <1>6 DEF StartCommand, Command
  <2>3. ASSUME NEW next \in {"record", "relaunch"}, pc' = [pc EXCEPT ![a] = next],
               UNCHANGED <<goal, workVars>>
        PROVE  Untouched(j)
    BY <2>1, <2>3 DEF Untouched, Working, Holding, ThreadInv, Actors, Workers, workVars
  <2> QED
    BY <2>1, <2>2, <2>3, AbortEnds
<1>7. ASSUME NEW a \in Actors, Record(a)
      PROVE  Untouched(j) \/ Ends(j)
  <2>1. task' = task
    BY <1>7 DEF Record, jobVars
  <2>2. CASE a \in Clients
    BY <1>7, <2>1, <2>2, ActorsDistinct
    DEF Record, Untouched, ThreadInv, Actors, Workers, workVars
  <2>3. CASE a \notin Clients /\ goal[a].act = "start"
    BY <1>7, <2>1, <2>3 DEF Record, Untouched, Working, Holding, ThreadInv, Actors, Workers, workVars
  <2>4. CASE a \notin Clients /\ goal[a].act # "start"
    BY <1>7, <2>1, <2>4, OthersUntouched DEF Record, Working, Holding, Actors
  <2> QED
    BY <2>2, <2>3, <2>4
<1>8. ASSUME NEW c \in Clients, Register(c), Busy
      PROVE  Untouched(j)
  BY <1>8, ActorsDistinct DEF Register, Untouched, ThreadInv, TaskInv, Actors, Workers, workVars
<1>9. ASSUME NEW i \in JobIds, i # j, RunJob(i)
      PROVE  Untouched(j)
  BY <1>9, ActorsDistinct
  DEF RunJob, Untouched, Working, Holding, ThreadInv, TaskInv, Actors, Workers, jobVars, workVars
<1>10. ASSUME NEW i \in JobIds, i # j, NEW s \in Services, SurveyOne(i, s)
      PROVE  Untouched(j)
  BY <1>10, ActorsDistinct
  DEF SurveyOne, Untouched, Working, Holding, ThreadInv, TaskInv, Actors, Workers, jobVars, workVars
<1>11. ASSUME NEW i \in JobIds, i # j, SurveyFails(i)
      PROVE  Untouched(j)
  BY <1>11, ActorsDistinct
  DEF SurveyFails, Untouched, Working, Holding, ThreadInv, TaskInv, Actors, Workers, jobVars, workVars
<1>12. ASSUME NEW i \in JobIds, i # j, SurveyDone(i)
      PROVE  Untouched(j)
  BY <1>12, ActorsDistinct
  DEF SurveyDone, Untouched, Working, Holding, ThreadInv, TaskInv, Actors, Workers, jobVars, workVars
<1>13. ASSUME Autostart
      PROVE  Untouched(j)
  BY <1>13, ActorsDistinct
  DEF Autostart, Untouched, Working, Holding, ThreadInv, TaskInv, Actors, Workers, jobVars, workVars
<1>14. ASSUME NEW w \in Workers, w # j, NextStep(w)
      PROVE  Untouched(j)
  BY <1>14, ActorsDistinct
  DEF NextStep, Untouched, Working, Holding, ThreadInv, TaskInv, Actors, Workers, jobVars, workVars
<1>15. ASSUME NEW w \in Workers, BeginStep(w)
      PROVE  Untouched(j)
  BY <1>15, ActorsDistinct
  DEF BeginStep, Enter, Untouched, Working, Holding, ThreadInv, TaskInv, Actors, Workers, jobVars, workVars
<1>16. ASSUME NEW w \in Workers, RefuseStep(w)
      PROVE  Untouched(j) \/ Ends(j)
  BY <1>16, FailureEnds DEF RefuseStep, Working, jobVars
<1>17. ASSUME NEW w \in Workers, Ready(w)
      PROVE  Untouched(j) \/ Ends(j)
  BY <1>17, OthersUntouched DEF Ready, Working, jobVars
<1>18. ASSUME NEW w \in Workers, NotReady(w)
      PROVE  Untouched(j) \/ Ends(j)
  BY <1>18, FailureEnds DEF NotReady, Working, jobVars
<1>19. ASSUME NEW w \in Workers, w # j, Finish(w)
      PROVE  Untouched(j)
  BY <1>19, ActorsDistinct
  DEF Finish, Untouched, Working, Holding, ThreadInv, TaskInv, Actors, Workers, jobVars, workVars
<1>20. ASSUME AutostartReturns
      PROVE  Untouched(j)
  BY <1>20, ActorsDistinct
  DEF AutostartReturns, Untouched, Working, Holding, ThreadInv, TaskInv, Actors, Workers, jobVars, workVars
<1>21. ASSUME NEW c \in Clients, NEW s \in Services, NEW act \in Action, Request(c, s, act)
      PROVE  Untouched(j)
  BY <1>21, ActorsDistinct
  DEF Request, Enter, Untouched, Working, Holding, ThreadInv, TaskInv, Actors, Workers, jobVars, workVars
<1>22. ASSUME NEW c \in Clients, NEW g \in Groups, NEW act \in Action, Submit(c, g, act)
      PROVE  Untouched(j)
  BY <1>22, ActorsDistinct
  DEF Submit, Untouched, Working, Holding, ThreadInv, TaskInv, Actors, Workers, jobVars, workVars
<1>23. ASSUME NEW r \in Registries, EditConfig(r)
      PROVE  Untouched(j)
  BY <1>23 DEF EditConfig, Untouched, jobVars, workVars
<1>24. ASSUME Maintain
      PROVE  Untouched(j)
  BY <1>24 DEF Maintain, Untouched, jobVars, workVars
<1>25. ASSUME Shutdown
      PROVE  Untouched(j)
  BY <1>25 DEF Shutdown, Untouched, jobVars, workVars
<1>26. ASSUME NEW s \in Services, Pm2Step(s)
      PROVE  Untouched(j)
  BY <1>26 DEF Pm2Step, Untouched, jobVars, workVars
<1>27. ASSUME UNCHANGED vars
      PROVE  Untouched(j)
  BY <1>27 DEF vars, Untouched, jobVars, workVars
<1> QED
  BY <1>1, <1>2, <1>3, <1>4, <1>5, <1>6, <1>7, <1>8, <1>9, <1>10, <1>11, <1>12, <1>13, <1>14, <1>15, <1>16, <1>17, <1>18, <1>19, <1>20, <1>21, <1>22, <1>23, <1>24, <1>25, <1>26, <1>27
  DEF Next, ClientStep, JobStep, WorkerStep, AutoStep, Ask, Section, Actors, Workers

\* A client that is about to register has its arguments from its own submission.
LEMMA RegisterSteps ==
  ASSUME TypeInv, [Next]_vars, NEW c \in Clients, pc'[c] = "register"
  PROVE  \/ pc[c] = "register" /\ task'[c] = task[c]
         \/ \E g \in Groups, act \in Action: Submit(c, g, act)
<1> DEFINE Kept == pc[c] = "register" /\ task'[c] = task[c]
<1> USE DEF TypeInv
<1>1. ASSUME NEW a \in Actors, NEW s \in Services, PassCheck(a, s)
      PROVE  Kept
  BY <1>1, ActorsDistinct
  DEF PassCheck, ThreadInv, TaskInv, Actors, Workers, jobVars, workVars
<1>2. ASSUME NEW a \in Actors, CheckFails(a)
      PROVE  Kept
  BY <1>2, ActorsDistinct
  DEF CheckFails, Abort, Release, WorkerFails, Conclude, ThreadInv, TaskInv, Actors, Workers, jobVars, workVars
<1>3. ASSUME NEW a \in Actors, EndCheck(a)
      PROVE  Kept
  BY <1>3, ActorsDistinct
  DEF EndCheck, ThreadInv, TaskInv, Actors, Workers, jobVars, workVars
<1>4. ASSUME NEW w \in Workers, AlreadyOnline(w)
      PROVE  Kept
  BY <1>4, ActorsDistinct
  DEF AlreadyOnline, ThreadInv, TaskInv, Actors, Workers, jobVars, workVars
<1>5. ASSUME NEW a \in Actors, StopCommand(a)
      PROVE  Kept
  BY <1>5, ActorsDistinct
  DEF StopCommand, Command, Abort, Release, WorkerFails, Conclude, ThreadInv, TaskInv, Actors, Workers, jobVars, workVars
<1>6. ASSUME NEW a \in Actors, StartCommand(a)
      PROVE  Kept
  BY <1>6, ActorsDistinct
  DEF StartCommand, Command, Abort, Release, WorkerFails, Conclude, ThreadInv, TaskInv, Actors, Workers, jobVars, workVars
<1>7. ASSUME NEW a \in Actors, Record(a)
      PROVE  Kept
  BY <1>7, ActorsDistinct
  DEF Record, Conclude, ThreadInv, TaskInv, Actors, Workers, jobVars, workVars
<1>8. ASSUME NEW b \in Clients, Register(b)
      PROVE  Kept
  BY <1>8, ActorsDistinct
  DEF Register, ThreadInv, TaskInv, Actors, Workers, jobVars, workVars
<1>9. ASSUME NEW j \in JobIds, RunJob(j)
      PROVE  Kept
  BY <1>9, ActorsDistinct
  DEF RunJob, ThreadInv, TaskInv, Actors, Workers, jobVars, workVars
<1>10. ASSUME NEW j \in JobIds, NEW s \in Services, SurveyOne(j, s)
      PROVE  Kept
  BY <1>10, ActorsDistinct
  DEF SurveyOne, ThreadInv, TaskInv, Actors, Workers, jobVars, workVars
<1>11. ASSUME NEW j \in JobIds, SurveyFails(j)
      PROVE  Kept
  BY <1>11, ActorsDistinct
  DEF SurveyFails, ThreadInv, TaskInv, Actors, Workers, jobVars, workVars
<1>12. ASSUME NEW j \in JobIds, SurveyDone(j)
      PROVE  Kept
  BY <1>12, ActorsDistinct
  DEF SurveyDone, ThreadInv, TaskInv, Actors, Workers, jobVars, workVars
<1>13. ASSUME Autostart
      PROVE  Kept
  BY <1>13, ActorsDistinct
  DEF Autostart, ThreadInv, TaskInv, Actors, Workers, jobVars, workVars
<1>14. ASSUME NEW w \in Workers, NextStep(w)
      PROVE  Kept
  BY <1>14, ActorsDistinct
  DEF NextStep, ThreadInv, TaskInv, Actors, Workers, jobVars, workVars
<1>15. ASSUME NEW w \in Workers, BeginStep(w)
      PROVE  Kept
  BY <1>15, ActorsDistinct
  DEF BeginStep, Enter, ThreadInv, TaskInv, Actors, Workers, jobVars, workVars
<1>16. ASSUME NEW w \in Workers, RefuseStep(w)
      PROVE  Kept
  BY <1>16, ActorsDistinct
  DEF RefuseStep, WorkerFails, Conclude, ThreadInv, TaskInv, Actors, Workers, jobVars, workVars
<1>17. ASSUME NEW w \in Workers, Ready(w)
      PROVE  Kept
  BY <1>17, ActorsDistinct
  DEF Ready, Conclude, ThreadInv, TaskInv, Actors, Workers, jobVars, workVars
<1>18. ASSUME NEW w \in Workers, NotReady(w)
      PROVE  Kept
  BY <1>18, ActorsDistinct
  DEF NotReady, WorkerFails, Conclude, ThreadInv, TaskInv, Actors, Workers, jobVars, workVars
<1>19. ASSUME NEW w \in Workers, Finish(w)
      PROVE  Kept
  BY <1>19, ActorsDistinct
  DEF Finish, ThreadInv, TaskInv, Actors, Workers, jobVars, workVars
<1>20. ASSUME AutostartReturns
      PROVE  Kept
  BY <1>20, ActorsDistinct
  DEF AutostartReturns, ThreadInv, TaskInv, Actors, Workers, jobVars, workVars
<1>21. ASSUME NEW b \in Clients, NEW s \in Services, NEW act \in Action, Request(b, s, act)
      PROVE  Kept
  BY <1>21, ActorsDistinct
  DEF Request, Enter, ThreadInv, TaskInv, Actors, Workers, jobVars, workVars
<1>22. ASSUME NEW b \in Clients, b # c, NEW g \in Groups, NEW act \in Action, Submit(b, g, act)
      PROVE  Kept
  BY <1>22, ActorsDistinct
  DEF Submit, ThreadInv, TaskInv, Actors, Workers, jobVars, workVars
<1>23. ASSUME NEW r \in Registries, EditConfig(r)
      PROVE  Kept
  BY <1>23, ActorsDistinct
  DEF EditConfig, ThreadInv, TaskInv, Actors, Workers, jobVars, workVars
<1>24. ASSUME Maintain
      PROVE  Kept
  BY <1>24, ActorsDistinct
  DEF Maintain, ThreadInv, TaskInv, Actors, Workers, jobVars, workVars
<1>25. ASSUME Shutdown
      PROVE  Kept
  BY <1>25, ActorsDistinct
  DEF Shutdown, ThreadInv, TaskInv, Actors, Workers, jobVars, workVars
<1>26. ASSUME NEW s \in Services, Pm2Step(s)
      PROVE  Kept
  BY <1>26, ActorsDistinct
  DEF Pm2Step, ThreadInv, TaskInv, Actors, Workers, jobVars, workVars
<1>27. ASSUME UNCHANGED vars
      PROVE  Kept
  BY <1>27, ActorsDistinct
  DEF vars, ThreadInv, TaskInv, Actors, Workers, jobVars, workVars
<1> QED
  BY <1>1, <1>2, <1>3, <1>4, <1>5, <1>6, <1>7, <1>8, <1>9, <1>10, <1>11, <1>12, <1>13, <1>14, <1>15, <1>16, <1>17, <1>18, <1>19, <1>20, <1>21, <1>22, <1>23, <1>24, <1>25, <1>26, <1>27
  DEF Next, ClientStep, JobStep, WorkerStep, AutoStep, Ask, Section, Actors, Workers

\* A job that has passed nothing reports nothing.
LEMMA FreshReports ==
  ASSUME NEW j \in JobIds, TaskOK(task'[j]), Fresh(j)'
  PROVE  Reported(j)' /\ Ordered(j)'
<1>1. task'[j].plan \in Seq([svc: DOMAIN task'[j].bound, act: Action])
      /\ DOMAIN task'[j].bound \subseteq Services
  BY TaskFacts
<1>2. DOMAIN task'[j].plan = 1..Len(task'[j].plan) /\ Len(task'[j].plan) \in Nat
  BY <1>1, LenProperties
<1>3. Past(j)' = {}
  BY <1>2 DEF Past, Fresh
<1>4. \A s \in Services: result'[j][s] = "none"
  BY DEF Fresh
<1>5. Reported(j)'
  BY <1>3, <1>4 DEF Reported
<1>6. Ordered(j)'
  BY <1>1, <1>3, <1>4 DEF Ordered
<1> QED
  BY <1>5, <1>6

LEMMA UntouchedInv ==
  ASSUME NEW j \in JobIds, JobInv(j), Untouched(j)
  PROVE  JobInv(j)'
<1>1. /\ Fresh(j)' <=> Fresh(j)
      /\ PlanOK(task'[j]) <=> PlanOK(task[j])
      /\ Reported(j)' <=> Reported(j)
      /\ Ordered(j)' <=> Ordered(j)
      /\ Attempted(j)' <=> Attempted(j)
  <2>1. Fresh(j)' <=> Fresh(j)
    BY DEF Untouched, Fresh
  <2>2. PlanOK(task'[j]) <=> PlanOK(task[j])
    BY DEF Untouched
  <2>3. Past(j)' = Past(j)
    BY DEF Untouched, Past
  <2>4. Reported(j)' <=> Reported(j)
    BY <2>3 DEF Untouched, Reported
  <2>5. Ordered(j)' <=> Ordered(j)
    BY <2>3 DEF Untouched, Ordered
  <2>6. Attempted(j)' <=> Attempted(j)
    BY DEF Untouched, Attempted, Skipped, Blocked, Failed
  <2> QED
    BY <2>1, <2>2, <2>4, <2>5, <2>6
<1>2. CASE pc'[j] = pc[j]
  BY <1>1, <1>2 DEF JobInv, Untouched
<1>3. CASE pc[j] \in Working /\ pc'[j] \in Working
  BY <1>1, <1>3 DEF JobInv, Working, Holding
<1> QED
  BY <1>2, <1>3 DEF Untouched

LEMMA JobInvStep ==
  ASSUME TypeInv, TypeInv', StatusInv, ReportInv, [Next]_vars, NEW j \in JobIds
  PROVE  JobInv(j)'
<1>1. /\ JobInv(j) /\ j \in Workers /\ j \in Actors /\ j \notin Clients
      /\ pc[j] # "idle" => TaskOK(task[j])
      /\ pc'[j] # "idle" => TaskOK(task'[j])
  BY ActorsDistinct DEF ReportInv, TypeInv, TaskInv, Workers, Actors
<1>2. CASE Untouched(j)
  BY <1>1, <1>2, UntouchedInv
<1>3. CASE Ends(j)
  <2>1. PICK r \in {"succeeded", "failed"}: Conclude(j, r)
    BY <1>3 DEF Ends
  <2>2. pc[j] # "idle" /\ Attempted(j) /\ pc'[j] = "loop" /\ task' = task
    BY <1>1, <1>3, <2>1 DEF Ends, Conclude, JobInv, Working, Holding, TypeInv, ThreadInv
  <2>3. Says(j, goal[j], r)
    BY <2>2 DEF Attempted, Says
  <2>4. /\ online0'[j] = online0[j] /\ cursor'[j] = cursor[j] + 1
        /\ result'[j] = [result[j] EXCEPT ![goal[j].svc] = r]
    BY <1>1, <2>1 DEF Conclude, TypeInv, ThreadInv
  <2>5. Reported(j)' /\ Ordered(j)'
    BY <1>1, <2>2, <2>3, <2>4, ReportStep DEF JobInv, Attempted
  <2> QED
    BY <1>1, <2>2, <2>5 DEF JobInv, Working, Holding
<1>4. CASE NextStep(j)
  <2> DEFINE step == task[j].plan[cursor[j]]
  <2>1. pc[j] = "loop" /\ task' = task /\ online0' = online0
    BY <1>4 DEF NextStep, jobVars
  <2>2. TaskOK(task[j]) /\ PlanOK(task[j]) /\ Reported(j) /\ Ordered(j)
    BY <1>1, <2>1 DEF JobInv
  <2>3. cursor[j] \in DOMAIN task[j].plan
    <3>1. task[j].plan \in Seq([svc: DOMAIN task[j].bound, act: Action])
      BY <2>2, TaskFacts
    <3>2. DOMAIN task[j].plan = 1..Len(task[j].plan) /\ Len(task[j].plan) \in Nat
      BY <3>1, LenProperties
    <3>3. cursor[j] \in Nat \ {0} /\ cursor[j] <= Len(task[j].plan)
      BY <1>1, <1>4 DEF NextStep, TypeInv, ThreadInv
    <3> QED
      BY <3>2, <3>3
  <2>4. ASSUME NEW r, Says(j, step, r), pc' = pc,
               result' = [result EXCEPT ![j][step.svc] = r], cursor' = [cursor EXCEPT ![j] = @ + 1]
        PROVE  JobInv(j)'
    <3>1. cursor'[j] = cursor[j] + 1 /\ result'[j] = [result[j] EXCEPT ![step.svc] = r]
      BY <1>1, <2>4 DEF TypeInv, ThreadInv
    <3>2. Reported(j)' /\ Ordered(j)'
      BY <2>1, <2>2, <2>3, <2>4, <3>1, ReportStep
    <3> QED
      BY <2>1, <2>2, <2>4, <3>2 DEF JobInv, Working, Holding
  <2>5. CASE ~Skipped(j, step) /\ ~Blocked(j, step)
    <3>1. /\ goal'[j] = step /\ pc'[j] = "acquire"
          /\ UNCHANGED <<result, cursor>>
      BY <1>1, <1>4, <2>5 DEF NextStep, TypeInv, ThreadInv
    <3>2. Past(j)' = Past(j)
      BY <2>1, <3>1 DEF Past
    <3>3. Reported(j)' /\ Ordered(j)'
      BY <2>1, <2>2, <3>1, <3>2 DEF Reported, Ordered
    <3>4. Attempted(j)'
      BY <2>1, <2>3, <2>5, <3>1 DEF Attempted, Skipped, Blocked, Failed
    <3> QED
      BY <2>1, <2>2, <3>1, <3>3, <3>4 DEF JobInv
  <2>6. CASE Skipped(j, step)
    <3> DEFINE r == IF step.act = "stop" THEN "skipped" ELSE result[j][step.svc]
    <3>1. /\ result' = [result EXCEPT ![j][step.svc] = r] /\ pc' = pc
          /\ cursor' = [cursor EXCEPT ![j] = @ + 1]
      BY <1>4, <2>6 DEF NextStep
    <3>2. Says(j, step, r)
      BY <2>6 DEF Says
    <3> QED
      BY <2>4, <3>1, <3>2
  <2>7. CASE ~Skipped(j, step) /\ Blocked(j, step)
    <3>1. /\ result' = [result EXCEPT ![j][step.svc] = "blocked"] /\ pc' = pc
          /\ cursor' = [cursor EXCEPT ![j] = @ + 1]
      BY <1>4, <2>7 DEF NextStep
    <3>2. Says(j, step, "blocked")
      BY <2>7 DEF Says
    <3> QED
      BY <2>4, <3>1, <3>2
  <2> QED
    BY <2>5, <2>6, <2>7
<1>5. CASE RunJob(j) \/ SurveyDone(j) \/ SurveyFails(j) \/ \E s \in Services: SurveyOne(j, s)
  <2>1. /\ pc[j] \in {"queued", "survey"} /\ pc'[j] \in {"survey", "loop", "done"}
        /\ task' = task /\ cursor' = cursor /\ result' = result
    BY <1>1, <1>5
    DEF RunJob, SurveyDone, SurveyFails, SurveyOne, jobVars, workVars, TypeInv, ThreadInv
  <2>2. Fresh(j)' /\ PlanOK(task'[j])
    BY <1>1, <2>1 DEF JobInv, Fresh
  <2>3. Reported(j)' /\ Ordered(j)'
    BY <1>1, <2>1, <2>2, FreshReports
  <2> QED
    BY <2>1, <2>2, <2>3 DEF JobInv, Working, Holding
<1>6. CASE Finish(j)
  <2>1. /\ pc[j] = "loop" /\ pc'[j] = "done" /\ cursor[j] > Len(task[j].plan)
        /\ UNCHANGED <<task, cursor, result, online0>>
    BY <1>1, <1>6 DEF Finish, workVars, TypeInv, ThreadInv
  <2>2. Past(j)' = Past(j)
    BY <2>1 DEF Past
  <2>3. PlanOK(task'[j]) /\ Reported(j)' /\ Ordered(j)'
    BY <1>1, <2>1, <2>2 DEF JobInv, Reported, Ordered
  <2> QED
    BY <2>1, <2>3 DEF JobInv, Working, Holding
<1>7. ASSUME NEW c \in Clients, Register(c), ~Busy
      PROVE  JobInv(j)'
  <2>1. PICK i \in JobIds:
          /\ jobStatus[i] = "none"
          /\ task' = [task EXCEPT ![c] = None, ![i] =
                 [task[c] EXCEPT !.intent = [s \in DOMAIN task[c].bound |-> gen[s]]]]
          /\ pc' = [pc EXCEPT ![c] = "idle", ![i] = "queued"]
    BY <1>7 DEF Register
  <2>2. UNCHANGED <<goal, cursor, result, online0>>
    BY <1>7 DEF Register, workVars
  <2>3. CASE i # j
    <3>1. pc'[j] = pc[j] /\ task'[j] = task[j]
      BY <1>1, <2>1, <2>3 DEF TypeInv, ThreadInv, TaskInv
    <3>2. Untouched(j)
      BY <2>2, <3>1 DEF Untouched
    <3> QED
      BY <1>1, <3>2, UntouchedInv
  <2>4. CASE i = j
    <3>1. pc'[j] = "queued"
          /\ task'[j] = [task[c] EXCEPT !.intent = [s \in DOMAIN task[c].bound |-> gen[s]]]
      BY <1>1, <2>1, <2>4 DEF TypeInv, ThreadInv, TaskInv
    <3>2. pc[j] = "idle"
      BY <2>1, <2>4 DEF StatusInv, Told
    <3>3. Fresh(j)'
      BY <1>1, <2>2, <3>2 DEF JobInv, Fresh
    <3>4. PlanOK(task[c]) /\ TaskOK(task[c])
      BY <1>7 DEF Register, ReportInv, TypeInv, TaskInv
    <3>5. /\ task'[j].plan = task[c].plan /\ task'[j].bound = task[c].bound
          /\ task'[j].act = task[c].act
      BY <3>1, <3>4, TaskFacts
    <3>6. PlanOK(task'[j])
      BY <3>4, <3>5 DEF PlanOK
    <3>7. Reported(j)' /\ Ordered(j)'
      BY <1>1, <3>1, <3>3, FreshReports
    <3> QED
      BY <3>1, <3>3, <3>6, <3>7 DEF JobInv, Working, Holding
  <2> QED
    BY <2>3, <2>4
<1> QED
  BY <1>2, <1>3, <1>4, <1>5, <1>6, <1>7, OwnSteps

LEMMA ReportInvStep ==
  ASSUME TypeInv, TypeInv', StatusInv, ReportInv, [Next]_vars
  PROVE  ReportInv'
<1>1. ASSUME NEW c \in Clients, pc'[c] = "register"
      PROVE  PlanOK(task'[c])
  <2>1. CASE pc[c] = "register" /\ task'[c] = task[c]
    BY <2>1 DEF ReportInv
  <2>2. ASSUME NEW g \in Groups, NEW act \in Action, Submit(c, g, act)
        PROVE  PlanOK(task'[c])
    <3>1. PICK o \in Orders(Selected(g)): task' = [task EXCEPT ![c] = Task(act, o, Selected(g))]
      BY <2>2 DEF Submit
    <3>2. task'[c] = Task(act, o, Selected(g))
      BY <3>1 DEF TypeInv, TaskInv, Actors
    <3>3. Selected(g) \in SUBSET DOMAIN registry /\ registry \in Registries
      BY DEF Selected, TypeInv, SharedInv
    <3> QED
      BY <3>2, <3>3, PlanFacts
  <2> QED
    BY <1>1, <2>1, <2>2, RegisterSteps
<1> QED
  BY <1>1, JobInvStep DEF ReportInv

LEMMA ReportsCorrect == Spec => [](TypeInv /\ SectionInv /\ ReportInv)
<1>1. Init => ReportInv
  BY DEF Init, ReportInv, JobInv, Fresh, Actors, Workers, Working, Holding
<1>2. TypeInv /\ TypeInv' /\ StatusInv /\ ReportInv /\ [Next]_vars => ReportInv'
  BY ReportInvStep
<1> QED
  BY <1>1, <1>2, SectionCorrect, JobsCorrect, PTL DEF Spec

\* What a finished job reports of a service and of one it depends on is consistent
\* (_run_job).
THEOREM ReportsAreConsistent == Spec => []ReportsFollowDependencies
<1>1. TypeInv /\ ReportInv => ReportsFollowDependencies
  <2> SUFFICES ASSUME TypeInv, ReportInv, NEW j \in JobIds, pc[j] = "done",
                      NEW s \in DOMAIN task[j].bound,
                      NEW d \in task[j].bound[s].deps \cap DOMAIN task[j].bound
               PROVE  CASE task[j].act = "start"   -> result[j][s] = "succeeded" => result[j][d] = "succeeded"
                        [] task[j].act = "stop"    -> result[j][d] = "succeeded" => result[j][s] = "succeeded"
                        [] task[j].act = "restart" -> result[j][s] = "succeeded" =>
                                                        result[j][d] \in {"succeeded", "skipped"}
    BY DEF ReportsFollowDependencies
  <2>1. /\ PlanOK(task[j]) /\ Reported(j) /\ Ordered(j)
        /\ Fresh(j) \/ cursor[j] > Len(task[j].plan)
    BY DEF ReportInv, JobInv
  <2>2. TaskOK(task[j]) /\ cursor[j] \in Nat
    BY DEF TypeInv, TaskInv, ThreadInv, Workers
  <2>3. s \in Services /\ d \in Services
    BY <2>2, TaskFacts
  <2>4. ASSUME task[j].act # "stop", result[j][s] = "succeeded"
        PROVE  result[j][d] \in {"succeeded", "skipped"}
    <3>1. cursor[j] > Len(task[j].plan)
      BY <2>1, <2>3, <2>4 DEF Fresh
    <3>2. PICK k \in DOMAIN task[j].plan: task[j].plan[k] = Step(s, "start")
      BY <2>1, <2>4 DEF PlanOK
    <3>3. k \in Past(j)
      <4>1. task[j].plan \in Seq([svc: DOMAIN task[j].bound, act: Action])
        BY <2>2, TaskFacts
      <4>2. k \in 1..Len(task[j].plan) /\ Len(task[j].plan) \in Nat
        BY <4>1, LenProperties
      <4>3. k < cursor[j]
        BY <2>2, <3>1, <4>2
      <4> QED
        BY <4>3 DEF Past
    <3> QED
      BY <2>1, <2>4, <3>2, <3>3 DEF Ordered
  <2>5. task[j].act # "restart" => result[j][d] # "skipped"
    BY <2>1, <2>3 DEF Reported
  <2>6. task[j].act = "stop" => (result[j][d] = "succeeded" => result[j][s] = "succeeded")
    BY <2>1 DEF Ordered
  <2>7. task[j].act \in {"start", "stop", "restart"}
    BY <2>2, TaskFacts DEF Action
  <2> QED
    BY <2>4, <2>5, <2>6, <2>7
<1> QED
  BY <1>1, ReportsCorrect, PTL

\* A group restart starts only what was online when the job began and what the job
\* itself has stopped (_run_job).
THEOREM NothingIsRevived == Spec => RestartRevivesNothing
<1> DEFINE A == cmd' # None /\ cmd'.op = "start" /\ cmd'.by \in JobIds /\ task[cmd'.by].act = "restart"
                  => /\ cmd'.svc \in online0[cmd'.by]
                     /\ result[cmd'.by][cmd'.svc] = "succeeded"
<1>1. TypeInv /\ SectionInv /\ ReportInv /\ [Next]_vars => [A]_vars
  <2> SUFFICES ASSUME TypeInv, SectionInv, ReportInv, [Next]_vars, ~UNCHANGED vars, cmd' # None,
                      cmd'.op = "start", cmd'.by \in JobIds, task[cmd'.by].act = "restart"
               PROVE  A
    OBVIOUS
  <2>1. PICK j \in Actors: StartCommand(j) /\ cmd'.svc = goal[j].svc /\ cmd'.by = j
    BY CommandSteps
  <2>2. j \in JobIds /\ j \in Workers /\ task[j].act = "restart" /\ pc[j] \in {"command", "relaunch"}
    BY <2>1 DEF StartCommand, Workers
  <2> DEFINE p == task[j].plan
             at == cursor[j]
             s == goal[j].svc
  <2>3. PlanOK(task[j]) /\ Reported(j) /\ Attempted(j) /\ Checked(j) /\ TaskOK(task[j])
    BY <2>2 DEF ReportInv, JobInv, Working, Holding, SectionInv, Held, TypeInv, TaskInv
  <2>4. at \in DOMAIN p /\ p[at] = goal[j]
    BY <2>3 DEF Attempted
  <2>5. goal[j].act = "start" /\ s \in Services /\ s \in DOMAIN task[j].bound
    <3>1. goal[j].act \in {"start", "stop"}
      BY <2>3, <2>4 DEF PlanOK
    <3>2. goal[j].act # "stop"
      BY <2>1, <2>2, <2>3 DEF StartCommand, Checked
    <3>3. goal[j] \in [svc: DOMAIN task[j].bound, act: Action]
      <4>1. p \in Seq([svc: DOMAIN task[j].bound, act: Action])
        BY <2>3, TaskFacts
      <4> HIDE DEF p
      <4>2. at \in 1..Len(p)
        BY <2>4, <4>1, LenProperties
      <4>3. p[at] \in [svc: DOMAIN task[j].bound, act: Action]
        BY <4>1, <4>2, ElementOfSeq
      <4> QED
        BY <2>4, <4>3
    <3>4. DOMAIN task[j].bound \subseteq Services
      BY <2>3, TaskFacts
    <3> QED
      BY <3>1, <3>2, <3>3, <3>4
  <2>6. ~Skipped(j, goal[j])
    BY <2>3 DEF Attempted
  <2>7. s \in online0[j] /\ s \notin Failed(j)
    BY <2>2, <2>5, <2>6 DEF Skipped
  <2>8. PICK l \in DOMAIN p: p[l] = Step(s, "stop")
    BY <2>2, <2>3, <2>5 DEF PlanOK
  <2>9. l \in Nat /\ at \in Nat
    <3>1. p \in Seq([svc: DOMAIN task[j].bound, act: Action])
      BY <2>3, TaskFacts
    <3>2. DOMAIN p \subseteq Nat
      BY <3>1, LenProperties
    <3> QED
      BY <2>4, <3>2
  <2>10. l \in Past(j)
    <3>1. p[l].act = "stop"
      BY <2>8 DEF Step
    <3>2. l # at /\ ~(at < l)
      BY <2>3, <2>4, <2>5, <3>1 DEF PlanOK
    <3> QED
      BY <2>9, <3>2 DEF Past
  <2>11. result[j][s] # "none" /\ result[j][s] # "skipped"
    BY <2>2, <2>3, <2>5, <2>7, <2>8, <2>10 DEF Reported, Step
  <2>12. result[j][s] \in Outcome
    BY <2>2, <2>5 DEF TypeInv, ThreadInv
  <2>13. result[j][s] = "succeeded"
    BY <2>5, <2>7, <2>11, <2>12 DEF Failed, Outcome
  <2> QED
    BY <2>1, <2>7, <2>13
<1> QED
  BY <1>1, ReportsCorrect, PTL DEF Spec, RestartRevivesNothing
=============================================================================
