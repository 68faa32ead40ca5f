----------------------------- MODULE MCActionRuns -----------------------------
(* Small instances of ActionRuns. *)
EXTENDS ActionRuns
=============================================================================
