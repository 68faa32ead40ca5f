------------------------- MODULE MCConfigTransaction -------------------------
(* Small instances of ConfigTransaction. *)
EXTENDS ConfigTransaction, TLC

CONSTANTS i1, i2   \* images

Alone(i) == [image |-> i, deps |-> {}]
Needing(s) == [image |-> i1, deps |-> {s}]

\* Two images, and dependencies in either direction.
Few == {Alone(i1), Alone(i2)} \cup {Needing(s) : s \in Services}

Symmetric == Permutations(Services)
=============================================================================
