------------------------- MODULE ExecutionLifecycle -------------------------
(***************************************************************************)
(* The life of one task_executions row and of the goroutine that owns it,  *)
(* seen from outside: no plan, no steps, no agent.  TaskLifecycle and      *)
(* ExecutionRun implement it.                                              *)
(***************************************************************************)

VARIABLES
  status,   \* task_executions.status, "none" before the row exists
  phase     \* the goroutine: Run, then the validation trigger, then the repair

lifecycleVars == <<status, phase>>

ExecStatuses == {"none", "pending", "running", "completed",
                 "completed_with_deviations", "failed", "cancelled"}

RunPhases == {"idle", "launched", "stepping", "inStep", "finishing",
              "validating", "ended"}

Init == status = "none" /\ phase = "idle"

(* CreateExecution: the row appears as pending.                            *)
Insert == status = "none" /\ status' = "pending" /\ UNCHANGED phase

(* go orchestrator.Run                                                     *)
Launch == status # "none" /\ phase = "idle" /\ phase' = "launched" /\ UNCHANGED status

(* MarkRunning is guarded by status = 'pending', and may be lost.          *)
MarkRunning ==
  /\ phase = "launched"
  /\ phase' = "stepping"
  /\ \/ status = "pending" /\ status' = "running"
     \/ UNCHANGED status

(* The poll between two steps finds no cancellation, or cannot read the    *)
(* row, and the step begins.                                               *)
EnterStep ==
  /\ phase = "stepping"
  /\ phase' = "inStep"
  /\ UNCHANGED status

(* A step ends and another one, or the end of the plan, follows.           *)
LeaveStep ==
  /\ phase \in {"stepping", "inStep"}
  /\ phase' \in {"stepping", "finishing"}
  /\ UNCHANGED status

(* The poll sees the cancellation.                                         *)
StopCancelled ==
  /\ phase = "stepping" /\ status = "cancelled"
  /\ phase' = "ended"
  /\ UNCHANGED status

(* An infrastructure failure: MarkFailed has no guard.                     *)
Fail ==
  /\ phase \in {"stepping", "inStep"}
  /\ phase' = "ended"
  /\ status' = "failed"

(* MarkCompletedWithStatus has no guard; validation starts afterwards, also*)
(* when the statement was lost.                                            *)
Finish ==
  /\ phase = "finishing"
  /\ phase' = "validating"
  /\ status' \in {"completed", "completed_with_deviations", status}

(* MarkCancelled, from the cancel endpoint, at any moment.                 *)
Cancel ==
  /\ status \notin {"none", "completed", "failed", "cancelled"}
  /\ status' = "cancelled"
  /\ UNCHANGED phase

(* The trigger and the repair end, the process dies, MarkFailed is lost.   *)
Stop == phase # "ended" /\ phase' = "ended" /\ UNCHANGED status

Next == \/ Insert \/ Launch \/ MarkRunning \/ EnterStep \/ LeaveStep
        \/ StopCancelled \/ Fail \/ Finish \/ Cancel \/ Stop

Spec == Init /\ [][Next]_lifecycleVars
=============================================================================
