--------------------------- MODULE MCProcessManager ---------------------------
(* Small instances of ProcessManager. *)
EXTENDS ProcessManager, TLC

CONSTANTS a, b, t1, t2, p1, p2

Symmetric == Permutations({t1, t2}) \cup Permutations({a, b}) \cup Permutations({p1, p2})
FitsBoth == {Services}
=============================================================================
