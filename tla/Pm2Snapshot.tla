----------------------------- MODULE Pm2Snapshot -----------------------------
(***************************************************************************)
(* The listing of PM2 processes that Pm2Manager shares between its readers   *)
(* (pm2_manager.py, snapshot).  One load runs at a time; readers that find   *)
(* one under way wait for it; readers that must not wait are served the last *)
(* listing while a background thread refreshes it; a command invalidates it. *)
(* Every step is a section under _condition, or an answer of the PM2 CLI.    *)
(***************************************************************************)
EXTENDS Integers, FiniteSets

CONSTANTS
  Readers,     \* threads that call snapshot
  Refresher,   \* the background refresh thread
  MaxChanges,  \* bound: changes of the processes under PM2
  None

ASSUME ReadersDistinct == Refresher \notin Readers
ASSUME NoneDistinct == None \notin Readers \cup {Refresher} \cup Nat
ASSUME MaxChangesNat == MaxChanges \in Nat

Threads == Readers \cup {Refresher}

\* A plain call may be served from the cache, a forced one may not, a readonly
\* one never waits.
Kind == {"plain", "force", "readonly"}

\* A call: its kind, the state of the processes and of the cache when it was
\* made, and whether the listing was renewed since.
CallType == [kind: Kind, since: Nat, stale: BOOLEAN, refreshed: BOOLEAN]

ASSUME NoneIsNoCall == None \notin CallType

VARIABLES
  world,        \* how often the processes changed; a listing shows one such number
  snap,         \* _snapshot: what the cached listing shows, None before the first
  expired,      \* the cached listing is older than its TTL
  invalidated,  \* _snapshot_invalidated
  loading,      \* _snapshot_loading: the thread that loads
  failed,       \* _snapshot_last_error is set
  throttled,    \* the last attempt is recent (_snapshot_last_attempt_at)
  closed,       \* _closed
  pc,           \* where each thread is
  call,         \* the call a reader is in, or None
  listing,      \* what PM2 answered to the load of a thread
  woken,        \* waiting readers that were notified
  answer,       \* the answer given by the last step, or None
  seen          \* what each reader was last answered

vars == <<world, snap, expired, invalidated, loading, failed, throttled, closed, pc, call,
          listing, woken, answer, seen>>
cacheVars == <<snap, expired, invalidated, failed>>

PC == {"idle", "commanded", "confirm", "wait", "fetch", "finish"}

Valid == snap # None /\ ~invalidated /\ ~expired

\* r called with the given kind; what the cache held then is remembered.
Called(r, kind) ==
  [kind |-> kind, since |-> world, stale |-> ~Valid, refreshed |-> FALSE]

\* The call c of r returns a listing.
Answer(r, c, version) ==
  /\ answer' = [by |-> r, call |-> c, version |-> version]
  /\ seen' = [seen EXCEPT ![r] = version]

Silent == answer' = None /\ UNCHANGED seen

\* Mutant of MayBegin: a load does not wait for the one under way.
MayBeginMut == TRUE

\* A load begins only when none is under way.
MayBegin == loading = None

\* Thread t begins to load.
Begin(t) ==
  /\ loading' = t
  /\ throttled' = TRUE
  /\ pc' = [pc EXCEPT ![t] = "fetch"]

-----------------------------------------------------------------------------
(* snapshot *)

MayCall(r, kind) == pc[r] = "idle" \/ (pc[r] = "confirm" /\ kind = "force")

\* The cached listing is recent and will do.
CallCached(r, kind) ==
  /\ MayCall(r, kind)
  /\ kind # "force"
  /\ Valid
  /\ Answer(r, Called(r, kind), snap)
  /\ UNCHANGED <<world, cacheVars, loading, throttled, closed, pc, call, listing, woken>>

\* A readonly call takes what there is, and has it refreshed.
CallReadonly(r) ==
  /\ MayCall(r, "readonly")
  /\ ~Valid
  /\ IF closed \/ ~MayBegin \/ throttled
     THEN UNCHANGED <<loading, throttled, pc>>
     ELSE Begin(Refresher)
  /\ IF snap = None THEN Silent ELSE Answer(r, Called(r, "readonly"), snap)
  /\ UNCHANGED <<world, cacheVars, closed, call, listing, woken>>

\* A load is under way: wait for it.
CallWaits(r, kind) ==
  /\ MayCall(r, kind)
  /\ kind = "force" \/ (kind = "plain" /\ ~Valid)
  /\ ~MayBegin
  /\ call' = [call EXCEPT ![r] = Called(r, kind)]
  /\ pc' = [pc EXCEPT ![r] = "wait"]
  /\ Silent
  /\ UNCHANGED <<world, cacheVars, loading, throttled, closed, listing, woken>>

CallLoads(r, kind) ==
  /\ MayCall(r, kind)
  /\ kind = "force" \/ (kind = "plain" /\ ~Valid)
  /\ MayBegin
  /\ call' = [call EXCEPT ![r] = Called(r, kind)]
  /\ Begin(r)
  /\ Silent
  /\ UNCHANGED <<world, cacheVars, closed, listing, woken>>

Return(r) ==
  /\ pc' = [pc EXCEPT ![r] = "idle"]
  /\ call' = [call EXCEPT ![r] = None]

\* Mutant of Served: a waiter takes whatever listing there is.
ServedMut == snap # None

\* What a waiter wakes up for.
Served == Valid

\* The wait is as long as the CLI may take, and began after the load under way:
\* when it times out PM2 has answered, though the listing may not be stored yet.
Overdue == loading # None /\ pc[loading] = "finish"

\* A waiting reader was notified or timed out: it takes a valid listing, whatever its kind,
\* gives up after a first load that failed, sleeps on while another loads, or
\* loads itself.
Wake(r) ==
  /\ pc[r] = "wait"
  /\ r \in woken \/ Overdue
  /\ woken' = woken \ {r}
  /\ \/ /\ Served
        /\ Answer(r, call[r], snap)
        /\ Return(r)
        /\ UNCHANGED <<loading, throttled>>
     \/ /\ ~Served
        /\ loading = None /\ snap = None /\ failed
        /\ Silent
        /\ Return(r)
        /\ UNCHANGED <<loading, throttled>>
     \/ /\ ~Served
        /\ loading # None
        /\ Silent
        /\ UNCHANGED <<pc, call, loading, throttled>>
     \/ /\ ~Served
        /\ loading = None /\ ~(snap = None /\ failed)
        /\ Silent
        /\ Begin(r)
        /\ UNCHANGED call
  /\ UNCHANGED <<world, cacheVars, closed, listing>>

-----------------------------------------------------------------------------
(* A load: the CLI answers, then _finish_snapshot_refresh. *)

Waiting == {r \in Readers: pc[r] = "wait"}

Fetched(t) ==
  /\ pc[t] = "fetch"
  /\ listing' = [listing EXCEPT ![t] = world]
  /\ pc' = [pc EXCEPT ![t] = "finish"]
  /\ Silent
  /\ UNCHANGED <<world, cacheVars, loading, throttled, closed, call, woken>>

\* Mutant of Release: the flag stays up after a failed load.
ReleaseMut(t, ok) == loading' = (IF ok THEN None ELSE loading) /\ woken' = woken \cup Waiting

\* The load is over, every waiter is notified.
Release(t, ok) == loading' = None /\ woken' = woken \cup Waiting

\* The calls under way notice that the listing was renewed.
Renew(c) == [r \in Readers |-> IF c[r] = None THEN None ELSE [c[r] EXCEPT !.refreshed = TRUE]]

Finish(t) ==
  /\ pc[t] = "finish"
  /\ snap' = listing[t]
  /\ expired' = FALSE
  /\ invalidated' = FALSE
  /\ failed' = FALSE
  /\ Release(t, TRUE)
  /\ pc' = [pc EXCEPT ![t] = "idle"]
  /\ IF t = Refresher
     THEN Silent /\ call' = Renew(call)
     ELSE /\ Answer(t, Renew(call)[t], listing[t])
          /\ call' = [Renew(call) EXCEPT ![t] = None]
  /\ listing' = [listing EXCEPT ![t] = 0]
  /\ UNCHANGED <<world, throttled, closed>>

\* The CLI failed or timed out; what was cached stays.
FetchFails(t) ==
  /\ pc[t] = "fetch"
  /\ failed' = TRUE
  /\ Release(t, FALSE)
  /\ pc' = [pc EXCEPT ![t] = "idle"]
  /\ call' = IF t = Refresher THEN call ELSE [call EXCEPT ![t] = None]
  /\ Silent
  /\ UNCHANGED <<world, snap, expired, invalidated, throttled, closed, listing>>

-----------------------------------------------------------------------------
(* Commands, PM2 and time. *)

\* start, stop or delete: the command takes effect ...
Mutate(r) ==
  /\ pc[r] = "idle"
  /\ world < MaxChanges
  /\ world' = world + 1
  /\ pc' = [pc EXCEPT ![r] = "commanded"]
  /\ Silent
  /\ UNCHANGED <<cacheVars, loading, throttled, closed, call, listing, woken>>

\* ... the listing is invalidated, and a forced read is to confirm the effect.
Invalidate(r) ==
  /\ pc[r] = "commanded"
  /\ invalidated' = TRUE
  /\ throttled' = FALSE
  /\ pc' = [pc EXCEPT ![r] = "confirm"]
  /\ Silent
  /\ UNCHANGED <<world, snap, expired, failed, loading, closed, call, listing, woken>>

\* A process exits or comes back by itself.
Pm2Changes ==
  /\ world < MaxChanges
  /\ world' = world + 1
  /\ Silent
  /\ UNCHANGED <<cacheVars, loading, throttled, closed, pc, call, listing, woken>>

\* The TTL of the listing, or the time to the next background attempt, passes.
TimePasses ==
  /\ \/ snap # None /\ ~expired /\ expired' = TRUE /\ UNCHANGED throttled
     \/ throttled /\ throttled' = FALSE /\ UNCHANGED expired
  /\ Silent
  /\ UNCHANGED <<world, snap, invalidated, failed, loading, closed, pc, call, listing, woken>>

Shutdown ==
  /\ ~closed
  /\ closed' = TRUE
  /\ invalidated' = TRUE
  /\ Silent
  /\ UNCHANGED <<world, snap, expired, failed, loading, throttled, pc, call, listing, woken>>

-----------------------------------------------------------------------------

Init ==
  /\ world = 0
  /\ snap = None
  /\ expired = FALSE
  /\ invalidated = FALSE
  /\ loading = None
  /\ failed = FALSE
  /\ throttled = FALSE
  /\ closed = FALSE
  /\ pc = [t \in Threads |-> "idle"]
  /\ call = [r \in Readers |-> None]
  /\ listing = [t \in Threads |-> 0]
  /\ woken = {}
  /\ answer = None
  /\ seen = [r \in Readers |-> 0]

Call(r) ==
  \/ \E kind \in Kind: CallCached(r, kind) \/ CallWaits(r, kind) \/ CallLoads(r, kind)
  \/ CallReadonly(r)

Load(t) == Fetched(t) \/ FetchFails(t) \/ Finish(t)

Next ==
  \/ \E r \in Readers: Call(r) \/ Wake(r) \/ Mutate(r) \/ Invalidate(r)
  \/ \E t \in Threads: Load(t)
  \/ Pm2Changes \/ TimePasses \/ Shutdown

Spec == Init /\ [][Next]_vars

\* The CLI answers or times out.  _condition is not fair, but a notified reader
\* that keeps finding it free gets it, also when no load is under way.
FairSpec ==
  /\ Spec
  /\ \A t \in Threads: WF_vars(Load(t))
  /\ \A r \in Readers: WF_vars(Wake(r)) /\ SF_vars(MayBegin /\ Wake(r))

-----------------------------------------------------------------------------
(* Properties. *)

\* The variables have their types.
TypeOK ==
  /\ world \in Nat
  /\ snap \in Nat \cup {None}
  /\ expired \in BOOLEAN /\ invalidated \in BOOLEAN /\ failed \in BOOLEAN
  /\ throttled \in BOOLEAN /\ closed \in BOOLEAN
  /\ loading \in Threads \cup {None}
  /\ pc \in [Threads -> PC]
  /\ call \in [Readers -> CallType \cup {None}]
  /\ listing \in [Threads -> Nat]
  /\ woken \subseteq Readers
  /\ answer = None \/ answer \in [by: Readers, call: CallType, version: Nat]
  /\ seen \in [Readers -> Nat]

\* One thread loads at a time, and the flag is up exactly while it does, so that
\* no failure leaves the readers waiting for a load that is not there (380-395,
\* 454-472).
SingleFlight == \A t \in Threads: pc[t] \in {"fetch", "finish"} <=> loading = t

\* A reader is never answered with an older state than it was answered before,
\* by whichever path the answers came (349-395).
ReadsNeverGoBack == [][answer' # None => answer'.version >= seen[answer'.by]]_vars

\* A reader that waits or loads and called while the listing was invalidated or
\* too old is answered with one that was renewed since (371-384).
StaleIsRenewed ==
  [][ answer' # None /\ answer'.call.kind # "readonly" /\ answer'.call.stale
        => answer'.call.refreshed ]_vars

\* Every reader that waits goes on (376-384, 454-472).
WaitersReturn == \A r \in Readers: pc[r] = "wait" ~> pc[r] # "wait"

\* docs/operations/source-runtime.md:74 says that a mutation is followed by a
\* confirming read: a forced read shows what had happened when it was asked for.
ForcedIsCurrent ==
  [][answer' # None /\ answer'.call.kind = "force" => answer'.version >= answer'.call.since]_vars
=============================================================================
