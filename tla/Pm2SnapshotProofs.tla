-------------------------- MODULE Pm2SnapshotProofs --------------------------
(***************************************************************************)
(* Theorems about Pm2Snapshot, for any readers and any number of changes.    *)
(***************************************************************************)
EXTENDS Pm2Snapshot, TLAPS

\* The call a reader is in is remembered while it waits or loads.
CallInv ==
  \A r \in Readers: /\ pc[r] \in {"wait", "fetch", "finish"} => call[r] \in CallType
                    /\ pc[r] \notin {"wait", "fetch", "finish"} => call[r] = None

TypeInv == TypeOK /\ CallInv

\* What a reader or the cache shows is never ahead of what a load brings.
OrderInv ==
  /\ snap # None => snap <= world
  /\ \A r \in Readers: seen[r] <= IF snap = None THEN 0 ELSE snap
  /\ \A t \in Threads: pc[t] = "finish" => listing[t] <= world /\ (snap # None => snap <= listing[t])

\* A call made while the listing would not do is under way until it is renewed.
StaleInv == \A r \in Readers: call[r] # None /\ call[r].stale /\ ~call[r].refreshed => ~Valid

\* A call is recorded with its type.
LEMMA CalledType ==
  ASSUME TypeOK, NEW r \in Readers, NEW kind \in Kind
  PROVE  /\ Called(r, kind) \in CallType
         /\ Called(r, kind).kind = kind
         /\ Called(r, kind).stale = ~Valid
BY DEF Called, CallType, TypeOK, Valid

\* Renewing the listing marks the calls under way, and only those.
LEMMA RenewFacts ==
  ASSUME NEW c \in [Readers -> CallType \cup {None}]
  PROVE  /\ Renew(c) \in [Readers -> CallType \cup {None}]
         /\ \A r \in Readers: c[r] = None => Renew(c)[r] = None
         /\ \A r \in Readers: c[r] \in CallType =>
              Renew(c)[r] \in CallType /\ Renew(c)[r].refreshed
<1>1. ASSUME NEW r \in Readers, c[r] # None
      PROVE  [c[r] EXCEPT !.refreshed = TRUE] \in CallType /\ [c[r] EXCEPT !.refreshed = TRUE].refreshed
  <2>1. c[r] \in CallType
    BY <1>1
  <2> QED
    BY <2>1 DEF CallType
<1> QED
  BY <1>1, NoneIsNoCall DEF Renew

\* Every step keeps the types.
LEMMA TypeInvStep ==
  ASSUME TypeInv, [Next]_vars
  PROVE  TypeInv'
<1>1. ASSUME NEW r \in Readers, NEW kind \in Kind, CallCached(r, kind)
      PROVE  TypeInv'
  BY <1>1, ReadersDistinct, NoneDistinct DEF CallCached, MayCall, Answer, Called, cacheVars, TypeInv, TypeOK, CallInv, CallType, Threads, PC, Kind, Valid
<1>2. ASSUME NEW r \in Readers, CallReadonly(r)
      PROVE  TypeInv'
  <2>1. answer' = None \/ answer' \in [by: Readers, call: CallType, version: Nat]
    <3>1. CASE snap = None
      BY <1>2, <3>1 DEF CallReadonly, Silent
    <3>2. CASE snap # None
      BY <1>2, <3>2, CalledType DEF CallReadonly, Answer, Kind, TypeInv, TypeOK
    <3> QED
      BY <3>1, <3>2
  <2>2. seen' \in [Readers -> Nat]
    BY <1>2 DEF CallReadonly, Answer, Silent, TypeInv, TypeOK
  <2>3. CASE closed \/ ~MayBegin \/ throttled
    BY <1>2, <2>1, <2>2, <2>3 DEF CallReadonly, cacheVars, TypeInv, TypeOK, CallInv
  <2>4. CASE ~(closed \/ ~MayBegin \/ throttled)
    <3>1. Begin(Refresher) /\ UNCHANGED <<world, snap, expired, invalidated, failed, closed, call, listing, woken>>
      BY <1>2, <2>4 DEF CallReadonly, cacheVars
    <3>2. TypeOK'
      BY <2>1, <2>2, <3>1 DEF Begin, TypeInv, TypeOK, Threads, PC
    <3>3. CallInv'
      BY <3>1, ReadersDistinct DEF Begin, TypeInv, TypeOK, CallInv, Threads
    <3> QED
      BY <3>2, <3>3 DEF TypeInv
  <2> QED
    BY <2>3, <2>4
<1>3. ASSUME NEW r \in Readers, NEW kind \in Kind, CallWaits(r, kind)
      PROVE  TypeInv'
  BY <1>3, ReadersDistinct, NoneDistinct DEF CallWaits, MayCall, Called, Silent, MayBegin, cacheVars, TypeInv, TypeOK, CallInv, CallType, Threads, PC, Kind, Valid
<1>4. ASSUME NEW r \in Readers, NEW kind \in Kind, CallLoads(r, kind)
      PROVE  TypeInv'
  BY <1>4, ReadersDistinct, NoneDistinct DEF CallLoads, MayCall, Called, Silent, Begin, MayBegin, cacheVars, TypeInv, TypeOK, CallInv, CallType, Threads, PC, Kind, Valid
<1>5. ASSUME NEW r \in Readers, Wake(r)
      PROVE  TypeInv'
  <2> USE <1>5 DEF Wake, TypeInv, TypeOK
  <2>1. call[r] \in CallType
    BY DEF CallInv
  <2>2. CASE Answer(r, call[r], snap) /\ Served /\ Return(r) /\ UNCHANGED <<loading, throttled>>
    <3>1. TypeOK'
      BY <2>1, <2>2 DEF Answer, Served, Valid, Return, PC, Threads, cacheVars
    <3>2. CallInv'
      BY <2>2 DEF Return, CallInv, Threads
    <3> QED
      BY <3>1, <3>2
  <2>3. CASE Silent /\ Return(r) /\ UNCHANGED <<loading, throttled>>
    <3>1. TypeOK'
      BY <2>3 DEF Silent, Return, PC, Threads, cacheVars
    <3>2. CallInv'
      BY <2>3 DEF Return, CallInv, Threads
    <3> QED
      BY <3>1, <3>2
  <2>4. CASE Silent /\ UNCHANGED <<pc, call, loading, throttled>>
    <3>1. TypeOK'
      BY <2>4 DEF Silent, cacheVars
    <3>2. CallInv'
      BY <2>4 DEF CallInv
    <3> QED
      BY <3>1, <3>2
  <2>5. CASE Silent /\ Begin(r) /\ UNCHANGED call
    <3>1. TypeOK'
      BY <2>5 DEF Silent, Begin, PC, Threads, cacheVars
    <3>2. CallInv'
      BY <2>1, <2>5 DEF Begin, CallInv, Threads
    <3> QED
      BY <3>1, <3>2
  <2> QED
    BY <2>2, <2>3, <2>4, <2>5
<1>6. ASSUME NEW r \in Readers, Mutate(r)
      PROVE  TypeInv'
  BY <1>6, ReadersDistinct, NoneDistinct DEF Mutate, Silent, cacheVars, TypeInv, TypeOK, CallInv, CallType, Threads, PC, Kind, Valid
<1>7. ASSUME NEW r \in Readers, Invalidate(r)
      PROVE  TypeInv'
  BY <1>7, ReadersDistinct, NoneDistinct DEF Invalidate, Silent, cacheVars, TypeInv, TypeOK, CallInv, CallType, Threads, PC, Kind, Valid
<1>8. ASSUME NEW t \in Threads, Fetched(t)
      PROVE  TypeInv'
  BY <1>8, ReadersDistinct, NoneDistinct DEF Fetched, Silent, cacheVars, TypeInv, TypeOK, CallInv, CallType, Threads, PC, Kind, Valid
<1>9. ASSUME NEW t \in Threads, FetchFails(t)
      PROVE  TypeInv'
  BY <1>9, ReadersDistinct, NoneDistinct DEF FetchFails, Release, Silent, Waiting, TypeInv, TypeOK, CallInv, CallType, Threads, PC, Kind, Valid
<1>10. ASSUME NEW t \in Threads, Finish(t)
      PROVE  TypeInv'
  <2>1. call' \in [Readers -> CallType \cup {None}]
    BY <1>10, RenewFacts DEF Finish, TypeInv, TypeOK
  <2>2. (answer' = None \/ answer' \in [by: Readers, call: CallType, version: Nat]) /\ seen' \in [Readers -> Nat]
    <3>1. CASE t = Refresher
      BY <1>10, <3>1 DEF Finish, Silent, TypeInv, TypeOK
    <3>2. CASE t # Refresher
      <4>1. t \in Readers /\ Renew(call)[t] \in CallType /\ listing[t] \in Nat
        BY <1>10, <3>2, RenewFacts DEF Finish, Threads, TypeInv, TypeOK, CallInv
      <4> QED
        BY <1>10, <3>2, <4>1 DEF Finish, Answer, TypeInv, TypeOK
    <3> QED
      BY <3>1, <3>2
  <2>3. TypeOK'
    BY <1>10, <2>1, <2>2 DEF Finish, Release, Waiting, TypeInv, TypeOK, PC, Threads
  <2>4. ASSUME NEW r \in Readers
        PROVE  /\ pc'[r] \in {"wait", "fetch", "finish"} => call'[r] \in CallType
               /\ pc'[r] \notin {"wait", "fetch", "finish"} => call'[r] = None
    <3>1. CASE r = t
      BY <1>10, <2>1, <3>1, RenewFacts, ReadersDistinct DEF Finish, TypeInv, TypeOK, Threads
    <3>2. CASE r # t
      <4>1. pc'[r] = pc[r] /\ call'[r] = Renew(call)[r]
        BY <1>10, <3>2, RenewFacts DEF Finish, TypeInv, TypeOK, Threads
      <4> QED
        BY <4>1, RenewFacts DEF TypeInv, TypeOK, CallInv
    <3> QED
      BY <3>1, <3>2
  <2> QED
    BY <2>3, <2>4 DEF TypeInv, CallInv
<1>11. ASSUME Pm2Changes
      PROVE  TypeInv'
  BY <1>11, ReadersDistinct, NoneDistinct DEF Pm2Changes, Silent, cacheVars, TypeInv, TypeOK, CallInv, CallType, Threads, PC, Kind, Valid
<1>12. ASSUME TimePasses
      PROVE  TypeInv'
  BY <1>12, ReadersDistinct, NoneDistinct DEF TimePasses, Silent, cacheVars, TypeInv, TypeOK, CallInv, CallType, Threads, PC, Kind, Valid
<1>13. ASSUME Shutdown
      PROVE  TypeInv'
  BY <1>13, ReadersDistinct, NoneDistinct DEF Shutdown, Silent, TypeInv, TypeOK, CallInv, CallType, Threads, PC, Kind, Valid
<1>14. ASSUME UNCHANGED vars
      PROVE  TypeInv'
  BY <1>14, ReadersDistinct, NoneDistinct DEF vars, cacheVars, TypeInv, TypeOK, CallInv, CallType, Threads, PC, Kind, Valid
<1> QED
  BY <1>1, <1>2, <1>3, <1>4, <1>5, <1>6, <1>7, <1>8, <1>9, <1>10, <1>11, <1>12, <1>13, <1>14 DEF Next, Call, Load

\* A load begins only when none is under way, and its end lowers the flag.
LEMMA SingleFlightStep ==
  ASSUME TypeInv, SingleFlight, [Next]_vars
  PROVE  SingleFlight'
<1>1. ASSUME NEW r \in Readers, NEW kind \in Kind, CallCached(r, kind)
      PROVE  SingleFlight'
  BY <1>1, ReadersDistinct, NoneDistinct DEF CallCached, MayCall, Answer, Called, cacheVars, TypeInv, TypeOK, SingleFlight, Threads
<1>2. ASSUME NEW r \in Readers, CallReadonly(r)
      PROVE  SingleFlight'
  BY <1>2, ReadersDistinct, NoneDistinct DEF CallReadonly, MayCall, Answer, Called, Silent, Begin, MayBegin, cacheVars, TypeInv, TypeOK, SingleFlight, Threads
<1>3. ASSUME NEW r \in Readers, NEW kind \in Kind, CallWaits(r, kind)
      PROVE  SingleFlight'
  BY <1>3, ReadersDistinct, NoneDistinct DEF CallWaits, MayCall, Called, Silent, MayBegin, cacheVars, TypeInv, TypeOK, SingleFlight, Threads
<1>4. ASSUME NEW r \in Readers, NEW kind \in Kind, CallLoads(r, kind)
      PROVE  SingleFlight'
  BY <1>4, ReadersDistinct, NoneDistinct DEF CallLoads, MayCall, Called, Silent, Begin, MayBegin, cacheVars, TypeInv, TypeOK, SingleFlight, Threads
<1>5. ASSUME NEW r \in Readers, Wake(r)
      PROVE  SingleFlight'
  BY <1>5, ReadersDistinct, NoneDistinct DEF Wake, Answer, Return, Silent, Begin, Served, cacheVars, TypeInv, TypeOK, SingleFlight, Threads
<1>6. ASSUME NEW r \in Readers, Mutate(r)
      PROVE  SingleFlight'
  BY <1>6, ReadersDistinct, NoneDistinct DEF Mutate, Silent, cacheVars, TypeInv, TypeOK, SingleFlight, Threads
<1>7. ASSUME NEW r \in Readers, Invalidate(r)
      PROVE  SingleFlight'
  BY <1>7, ReadersDistinct, NoneDistinct DEF Invalidate, Silent, cacheVars, TypeInv, TypeOK, SingleFlight, Threads
<1>8. ASSUME NEW t \in Threads, Fetched(t)
      PROVE  SingleFlight'
  BY <1>8, ReadersDistinct, NoneDistinct DEF Fetched, Silent, cacheVars, TypeInv, TypeOK, SingleFlight, Threads
<1>9. ASSUME NEW t \in Threads, FetchFails(t)
      PROVE  SingleFlight'
  BY <1>9, ReadersDistinct, NoneDistinct DEF FetchFails, Release, Silent, Waiting, TypeInv, TypeOK, SingleFlight, Threads
<1>10. ASSUME NEW t \in Threads, Finish(t)
      PROVE  SingleFlight'
  BY <1>10, ReadersDistinct, NoneDistinct DEF Finish, Release, Answer, Silent, Renew, Waiting, TypeInv, TypeOK, SingleFlight, Threads
<1>11. ASSUME Pm2Changes
      PROVE  SingleFlight'
  BY <1>11, ReadersDistinct, NoneDistinct DEF Pm2Changes, Silent, cacheVars, TypeInv, TypeOK, SingleFlight, Threads
<1>12. ASSUME TimePasses
      PROVE  SingleFlight'
  BY <1>12, ReadersDistinct, NoneDistinct DEF TimePasses, Silent, cacheVars, TypeInv, TypeOK, SingleFlight, Threads
<1>13. ASSUME Shutdown
      PROVE  SingleFlight'
  BY <1>13, ReadersDistinct, NoneDistinct DEF Shutdown, Silent, TypeInv, TypeOK, SingleFlight, Threads
<1>14. ASSUME UNCHANGED vars
      PROVE  SingleFlight'
  BY <1>14, ReadersDistinct, NoneDistinct DEF vars, cacheVars, TypeInv, TypeOK, SingleFlight, Threads
<1> QED
  BY <1>1, <1>2, <1>3, <1>4, <1>5, <1>6, <1>7, <1>8, <1>9, <1>10, <1>11, <1>12, <1>13, <1>14 DEF Next, Call, Load

\* Loads come one after the other, so that each shows no older state.
LEMMA OrderInvStep ==
  ASSUME TypeInv, SingleFlight, OrderInv, [Next]_vars
  PROVE  OrderInv'
<1>1. ASSUME NEW r \in Readers, NEW kind \in Kind, CallCached(r, kind)
      PROVE  OrderInv'
  BY <1>1, ReadersDistinct, NoneDistinct DEF CallCached, MayCall, Answer, Called, cacheVars, TypeInv, TypeOK, SingleFlight, OrderInv, Threads, Valid
<1>2. ASSUME NEW r \in Readers, CallReadonly(r)
      PROVE  OrderInv'
  BY <1>2, ReadersDistinct, NoneDistinct DEF CallReadonly, MayCall, Answer, Called, Silent, Begin, MayBegin, cacheVars, TypeInv, TypeOK, SingleFlight, OrderInv, Threads, Valid
<1>3. ASSUME NEW r \in Readers, NEW kind \in Kind, CallWaits(r, kind)
      PROVE  OrderInv'
  BY <1>3, ReadersDistinct, NoneDistinct DEF CallWaits, MayCall, Called, Silent, MayBegin, cacheVars, TypeInv, TypeOK, SingleFlight, OrderInv, Threads, Valid
<1>4. ASSUME NEW r \in Readers, NEW kind \in Kind, CallLoads(r, kind)
      PROVE  OrderInv'
  BY <1>4, ReadersDistinct, NoneDistinct DEF CallLoads, MayCall, Called, Silent, Begin, MayBegin, cacheVars, TypeInv, TypeOK, SingleFlight, OrderInv, Threads, Valid
<1>5. ASSUME NEW r \in Readers, Wake(r)
      PROVE  OrderInv'
  BY <1>5, ReadersDistinct, NoneDistinct DEF Wake, Answer, Return, Silent, Begin, Served, cacheVars, TypeInv, TypeOK, SingleFlight, OrderInv, Threads, Valid
<1>6. ASSUME NEW r \in Readers, Mutate(r)
      PROVE  OrderInv'
  BY <1>6, ReadersDistinct, NoneDistinct DEF Mutate, Silent, cacheVars, TypeInv, TypeOK, SingleFlight, OrderInv, Threads, Valid
<1>7. ASSUME NEW r \in Readers, Invalidate(r)
      PROVE  OrderInv'
  BY <1>7, ReadersDistinct, NoneDistinct DEF Invalidate, Silent, cacheVars, TypeInv, TypeOK, SingleFlight, OrderInv, Threads, Valid
<1>8. ASSUME NEW t \in Threads, Fetched(t)
      PROVE  OrderInv'
  BY <1>8, ReadersDistinct, NoneDistinct DEF Fetched, Silent, cacheVars, TypeInv, TypeOK, SingleFlight, OrderInv, Threads, Valid
<1>9. ASSUME NEW t \in Threads, FetchFails(t)
      PROVE  OrderInv'
  BY <1>9, ReadersDistinct, NoneDistinct DEF FetchFails, Release, Silent, Waiting, TypeInv, TypeOK, SingleFlight, OrderInv, Threads, Valid
<1>10. ASSUME NEW t \in Threads, Finish(t)
      PROVE  OrderInv'
  BY <1>10, ReadersDistinct, NoneDistinct DEF Finish, Release, Answer, Silent, Renew, Waiting, TypeInv, TypeOK, SingleFlight, OrderInv, Threads, Valid
<1>11. ASSUME Pm2Changes
      PROVE  OrderInv'
  BY <1>11, ReadersDistinct, NoneDistinct DEF Pm2Changes, Silent, cacheVars, TypeInv, TypeOK, SingleFlight, OrderInv, Threads, Valid
<1>12. ASSUME TimePasses
      PROVE  OrderInv'
  BY <1>12, ReadersDistinct, NoneDistinct DEF TimePasses, Silent, cacheVars, TypeInv, TypeOK, SingleFlight, OrderInv, Threads, Valid
<1>13. ASSUME Shutdown
      PROVE  OrderInv'
  BY <1>13, ReadersDistinct, NoneDistinct DEF Shutdown, Silent, TypeInv, TypeOK, SingleFlight, OrderInv, Threads, Valid
<1>14. ASSUME UNCHANGED vars
      PROVE  OrderInv'
  BY <1>14, ReadersDistinct, NoneDistinct DEF vars, cacheVars, TypeInv, TypeOK, SingleFlight, OrderInv, Threads, Valid
<1> QED
  BY <1>1, <1>2, <1>3, <1>4, <1>5, <1>6, <1>7, <1>8, <1>9, <1>10, <1>11, <1>12, <1>13, <1>14 DEF Next, Call, Load

\* Only the end of a load makes the listing valid.
LEMMA StaleInvStep ==
  ASSUME TypeInv, StaleInv, [Next]_vars
  PROVE  StaleInv'
<1>1. ASSUME NEW r \in Readers, NEW kind \in Kind, CallCached(r, kind)
      PROVE  StaleInv'
  BY <1>1, ReadersDistinct, NoneDistinct DEF CallCached, MayCall, Answer, Called, cacheVars, TypeInv, TypeOK, CallInv, CallType, StaleInv, Threads, Valid, Kind
<1>2. ASSUME NEW r \in Readers, CallReadonly(r)
      PROVE  StaleInv'
  BY <1>2, ReadersDistinct, NoneDistinct DEF CallReadonly, MayCall, Answer, Called, Silent, Begin, MayBegin, cacheVars, TypeInv, TypeOK, CallInv, CallType, StaleInv, Threads, Valid, Kind
<1>3. ASSUME NEW r \in Readers, NEW kind \in Kind, CallWaits(r, kind)
      PROVE  StaleInv'
  BY <1>3, ReadersDistinct, NoneDistinct DEF CallWaits, MayCall, Called, Silent, MayBegin, cacheVars, TypeInv, TypeOK, CallInv, CallType, StaleInv, Threads, Valid, Kind
<1>4. ASSUME NEW r \in Readers, NEW kind \in Kind, CallLoads(r, kind)
      PROVE  StaleInv'
  BY <1>4, ReadersDistinct, NoneDistinct DEF CallLoads, MayCall, Called, Silent, Begin, MayBegin, cacheVars, TypeInv, TypeOK, CallInv, CallType, StaleInv, Threads, Valid, Kind
<1>5. ASSUME NEW r \in Readers, Wake(r)
      PROVE  StaleInv'
  BY <1>5, ReadersDistinct, NoneDistinct DEF Wake, Answer, Return, Silent, Begin, Served, cacheVars, TypeInv, TypeOK, CallInv, CallType, StaleInv, Threads, Valid, Kind
<1>6. ASSUME NEW r \in Readers, Mutate(r)
      PROVE  StaleInv'
  BY <1>6, ReadersDistinct, NoneDistinct DEF Mutate, Silent, cacheVars, TypeInv, TypeOK, CallInv, CallType, StaleInv, Threads, Valid, Kind
<1>7. ASSUME NEW r \in Readers, Invalidate(r)
      PROVE  StaleInv'
  BY <1>7, ReadersDistinct, NoneDistinct DEF Invalidate, Silent, cacheVars, TypeInv, TypeOK, CallInv, CallType, StaleInv, Threads, Valid, Kind
<1>8. ASSUME NEW t \in Threads, Fetched(t)
      PROVE  StaleInv'
  BY <1>8, ReadersDistinct, NoneDistinct DEF Fetched, Silent, cacheVars, TypeInv, TypeOK, CallInv, CallType, StaleInv, Threads, Valid, Kind
<1>9. ASSUME NEW t \in Threads, FetchFails(t)
      PROVE  StaleInv'
  BY <1>9, ReadersDistinct, NoneDistinct DEF FetchFails, Release, Silent, Waiting, TypeInv, TypeOK, CallInv, CallType, StaleInv, Threads, Valid, Kind
<1>10. ASSUME NEW t \in Threads, Finish(t)
      PROVE  StaleInv'
  BY <1>10, ReadersDistinct, NoneDistinct DEF Finish, Release, Answer, Silent, Renew, Waiting, TypeInv, TypeOK, CallInv, CallType, StaleInv, Threads, Valid, Kind
<1>11. ASSUME Pm2Changes
      PROVE  StaleInv'
  BY <1>11, ReadersDistinct, NoneDistinct DEF Pm2Changes, Silent, cacheVars, TypeInv, TypeOK, CallInv, CallType, StaleInv, Threads, Valid, Kind
<1>12. ASSUME TimePasses
      PROVE  StaleInv'
  BY <1>12, ReadersDistinct, NoneDistinct DEF TimePasses, Silent, cacheVars, TypeInv, TypeOK, CallInv, CallType, StaleInv, Threads, Valid, Kind
<1>13. ASSUME Shutdown
      PROVE  StaleInv'
  BY <1>13, ReadersDistinct, NoneDistinct DEF Shutdown, Silent, TypeInv, TypeOK, CallInv, CallType, StaleInv, Threads, Valid, Kind
<1>14. ASSUME UNCHANGED vars
      PROVE  StaleInv'
  BY <1>14, ReadersDistinct, NoneDistinct DEF vars, cacheVars, TypeInv, TypeOK, CallInv, CallType, StaleInv, Threads, Valid, Kind
<1> QED
  BY <1>1, <1>2, <1>3, <1>4, <1>5, <1>6, <1>7, <1>8, <1>9, <1>10, <1>11, <1>12, <1>13, <1>14 DEF Next, Call, Load

LEMMA SnapshotInit == Init => TypeInv /\ SingleFlight /\ OrderInv /\ StaleInv
<1> SUFFICES ASSUME Init PROVE TypeInv /\ SingleFlight /\ OrderInv /\ StaleInv
  OBVIOUS
<1>1. TypeOK
  BY DEF Init, TypeOK, Threads, PC
<1>2. CallInv
  BY DEF Init, CallInv, Threads
<1>3. SingleFlight
  BY NoneDistinct DEF Init, SingleFlight, Threads
<1>4. OrderInv
  BY DEF Init, OrderInv, Threads
<1>5. StaleInv
  BY DEF Init, StaleInv
<1> QED
  BY <1>1, <1>2, <1>3, <1>4, <1>5 DEF TypeInv

LEMMA SnapshotCorrect == Spec => [](TypeInv /\ SingleFlight /\ OrderInv /\ StaleInv)
BY SnapshotInit, TypeInvStep, SingleFlightStep, OrderInvStep, StaleInvStep, PTL DEF Spec

\* One thread loads at a time, and the flag is up exactly while it does.
THEOREM OneLoad == Spec => []SingleFlight
BY SnapshotCorrect, PTL

\* An answer comes from a call of the cache, from a waiter or from a load.
LEMMA Answers ==
  ASSUME Next, answer' # None
  PROVE  \/ \E r \in Readers, kind \in Kind: CallCached(r, kind)
         \/ \E r \in Readers: CallReadonly(r) \/ Wake(r)
         \/ \E t \in Threads: Finish(t) /\ t # Refresher
BY DEF Next, Call, Load, CallWaits, CallLoads, Mutate, Invalidate, Fetched, FetchFails,
       Finish, Pm2Changes, TimePasses, Shutdown, Silent

\* A waiter that is answered was served the cached listing.
LEMMA Woken ==
  ASSUME NEW r \in Readers, Wake(r), answer' # None
  PROVE  pc[r] = "wait" /\ Valid /\ snap' = snap /\ Answer(r, call[r], snap)
BY DEF Wake, Served, Silent, cacheVars

\* An answer shows the listing that is cached when it is given, which is not
\* older than the one before.
LEMMA AnswerFacts ==
  ASSUME TypeInv, OrderInv, Next, answer' # None
  PROVE  /\ answer'.by \in Readers
         /\ answer'.version = snap' /\ snap' \in Nat
         /\ snap # None => snap' >= snap
<1>1. ASSUME NEW r \in Readers, NEW c, Answer(r, c, snap), snap' = snap, snap # None
      PROVE  /\ answer'.by \in Readers
             /\ answer'.version = snap' /\ snap' \in Nat
             /\ snap # None => snap' >= snap
  BY <1>1 DEF Answer, TypeInv, TypeOK
<1>2. ASSUME NEW r \in Readers, NEW kind \in Kind, CallCached(r, kind)
      PROVE  Answer(r, Called(r, kind), snap) /\ snap' = snap /\ snap # None
  BY <1>2 DEF CallCached, Valid, cacheVars
<1>3. ASSUME NEW r \in Readers, CallReadonly(r)
      PROVE  Answer(r, Called(r, "readonly"), snap) /\ snap' = snap /\ snap # None
  BY <1>3 DEF CallReadonly, Silent, cacheVars
<1>4. ASSUME NEW r \in Readers, Wake(r)
      PROVE  Answer(r, call[r], snap) /\ snap' = snap /\ snap # None
  BY <1>4, Woken DEF Valid
<1>5. ASSUME NEW t \in Threads, Finish(t), t # Refresher
      PROVE  /\ answer'.by \in Readers
             /\ answer'.version = snap' /\ snap' \in Nat
             /\ snap # None => snap' >= snap
  BY <1>5 DEF Finish, Answer, Threads, OrderInv, TypeInv, TypeOK
<1> QED
  BY <1>1, <1>2, <1>3, <1>4, <1>5, Answers

\* No reader is answered with an older state than before.
THEOREM NoReadGoesBack == Spec => ReadsNeverGoBack
<1>1. ASSUME TypeInv, OrderInv, Next, answer' # None
      PROVE  answer'.version >= seen[answer'.by]
  BY <1>1, AnswerFacts DEF OrderInv, TypeInv, TypeOK
<1>2. ASSUME TypeInv, OrderInv, [Next]_vars
      PROVE  [answer' # None => answer'.version >= seen[answer'.by]]_vars
  BY <1>1, <1>2
<1> QED
  BY <1>2, SnapshotCorrect, PTL DEF Spec, ReadsNeverGoBack

\* A waiting or loading reader that found the listing stale gets a renewed one.
THEOREM StaleCallsAreRenewed == Spec => StaleIsRenewed
<1>1. ASSUME TypeInv, StaleInv, Next, answer' # None,
             answer'.call.kind # "readonly", answer'.call.stale
      PROVE  answer'.call.refreshed
  <2>1. ASSUME NEW r \in Readers, NEW kind \in Kind, CallCached(r, kind)
        PROVE  FALSE
    <3>1. answer'.call = Called(r, kind) /\ Valid
      BY <2>1 DEF CallCached, Answer
    <3> QED
      BY <1>1, <3>1, CalledType DEF TypeInv
  <2>2. ASSUME NEW r \in Readers, CallReadonly(r)
        PROVE  FALSE
    <3>1. answer'.call = Called(r, "readonly")
      BY <1>1, <2>2 DEF CallReadonly, Answer, Silent
    <3> QED
      BY <1>1, <3>1, CalledType DEF TypeInv, Kind
  <2>3. ASSUME NEW r \in Readers, Wake(r)
        PROVE  answer'.call.refreshed
    <3>1. answer'.call = call[r] /\ pc[r] = "wait" /\ Valid
      BY <1>1, <2>3, Woken DEF Answer
    <3>2. call[r] # None /\ call[r] \in CallType
      BY <1>1, <3>1, NoneIsNoCall DEF TypeInv, CallInv
    <3> QED
      BY <1>1, <3>1, <3>2 DEF StaleInv
  <2>4. ASSUME NEW t \in Threads, Finish(t), t # Refresher
        PROVE  answer'.call.refreshed
    <3>1. t \in Readers /\ call[t] \in CallType /\ answer'.call = Renew(call)[t]
      BY <1>1, <2>4 DEF Finish, Answer, Threads, TypeInv, CallInv
    <3> QED
      BY <1>1, <3>1, RenewFacts DEF TypeInv, TypeOK
  <2> QED
    BY <1>1, <2>1, <2>2, <2>3, <2>4, Answers
<1>2. ASSUME TypeInv, StaleInv, [Next]_vars
      PROVE  [answer' # None /\ answer'.call.kind # "readonly" /\ answer'.call.stale
                => answer'.call.refreshed]_vars
  BY <1>1, <1>2
<1> QED
  BY <1>2, SnapshotCorrect, PTL DEF Spec, StaleIsRenewed
=============================================================================
