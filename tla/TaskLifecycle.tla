---------------------------- MODULE TaskLifecycle ----------------------------
(***************************************************************************)
(* What aqsh promises a client that polls GET /executions/{id}: the        *)
(* statuses docs/api.md lists, the order README's "Life of a Task" gives   *)
(* them, the bound max_retry puts on the failures, and an exit code of 0   *)
(* behind every "completed".  Nothing here knows of workers, contexts or   *)
(* attempts that outlive their deadline.                                   *)
(***************************************************************************)
EXTENDS Naturals

CONSTANT MaxRetry   \* the task's max_retry; see BoundsAssumption in Execution

VARIABLES
  status,   \* the status of the response; "unknown": 404
  retried,  \* its "retried" field
  exit      \* the exit code in the stored result, as far as it matters

vars == <<status, retried, exit>>

Init == status = "unknown" /\ retried = 0 /\ exit = "none"

Submit  == status = "unknown" /\ status' = "pending" /\ UNCHANGED <<retried, exit>>

Start   == status = "pending" /\ status' = "running" /\ UNCHANGED <<retried, exit>>

\* A worker is shut down in the middle of the task.
Requeue == status = "running" /\ status' = "pending" /\ UNCHANGED <<retried, exit>>

\* The script has exited and its result is stored.
Store ==
  /\ status = "running"
  /\ exit' \in {"zero", "nonzero"}
  /\ UNCHANGED <<status, retried>>

Complete ==
  /\ status = "running"
  /\ exit = "zero"
  /\ status' = "completed"
  /\ UNCHANGED <<retried, exit>>

Retry ==
  /\ status = "running"
  /\ retried < MaxRetry
  /\ status' = "retrying"
  /\ retried' = retried + 1
  /\ UNCHANGED exit

Again   == status = "retrying" /\ status' = "pending" /\ UNCHANGED <<retried, exit>>

Fail ==
  /\ status = "running"
  /\ retried = MaxRetry
  /\ status' = "failed"
  /\ UNCHANGED <<retried, exit>>

Leave == Requeue \/ Complete \/ Retry \/ Fail

Next == Submit \/ Start \/ Again \/ Store \/ Leave

Spec == Init /\ [][Next]_vars

\* No status but the final ones lasts for ever.
FairSpec ==
  /\ Spec
  /\ WF_vars(Start) /\ WF_vars(Again) /\ WF_vars(Leave)

==============================================================================
