------------------------------- MODULE JobBoard -------------------------------
(***************************************************************************)
(* What ServiceOperations promises of group jobs, whatever they do: jobs are *)
(* taken one at a time, each is queued, runs and ends, and the board keeps   *)
(* the most recent ones (submit_group, job, _update_job).                    *)
(***************************************************************************)
EXTENDS Naturals, Sequences

CONSTANTS JobIds, Limit

VARIABLES board,   \* the jobs a client can still ask about, oldest first
          state    \* the life of every job

vars == <<board, state>>

Active == {"queued", "running"}
Ended  == {"succeeded", "failed"}

Init ==
  /\ board = <<>>
  /\ state = [j \in JobIds |-> "none"]

\* The last n elements of a sequence, all of it when it is shorter.
Latest(n, seq) == SubSeq(seq, IF Len(seq) > n THEN Len(seq) - n + 1 ELSE 1, Len(seq))

Submit(j) ==
  /\ state[j] = "none"
  /\ \A i \in JobIds: state[i] \notin Active
  /\ state' = [state EXCEPT ![j] = "queued"]
  /\ board' = Latest(Limit, Append(board, j))

Begin(j) ==
  /\ state[j] = "queued"
  /\ state' = [state EXCEPT ![j] = "running"]
  /\ UNCHANGED board

End(j) ==
  /\ state[j] = "running"
  /\ \E outcome \in Ended: state' = [state EXCEPT ![j] = outcome]
  /\ UNCHANGED board

Next == \E j \in JobIds: Submit(j) \/ Begin(j) \/ End(j)

Spec == Init /\ [][Next]_vars
=============================================================================
