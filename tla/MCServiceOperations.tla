------------------------- MODULE MCServiceOperations -------------------------
(* Small instances of ServiceOperations. *)
EXTENDS ServiceOperations, TLC

CONSTANTS db, web,   \* services
          apps, data      \* groups

Service(deps, group, autostart) ==
  [deps |-> deps, group |-> group, offers |-> Action, autostart |-> autostart, image |-> 1]

\* web needs db, both in one group.
Pair == (db :> Service({}, apps, FALSE)) @@ (web :> Service({db}, apps, FALSE))

\* The same with the dependency in a group of its own.
Split == (db :> Service({}, data, FALSE)) @@ (web :> Service({db}, apps, FALSE))

\* One service, the same rebuilt, and started with the controller.
Single  == db :> Service({}, apps, FALSE)
Rebuilt == [Single EXCEPT ![db].image = 2]
Auto    == [Single EXCEPT ![db].autostart = TRUE]

OnePair  == {Pair}
Pairs    == {Pair, Split}
Rebuilds == {Single, Rebuilt}
OneAuto  == {Auto}

Symmetry == Permutations(JobIds) \cup Permutations(Clients)
=============================================================================
