----------------------------- MODULE WorkItemRow -----------------------------
(***************************************************************************)
(* The guarded UPDATE statements of WorkItemRepository, each as a function *)
(* from the status found in the row to the status left in it.  An UPDATE   *)
(* whose WHERE clause matches no row changes nothing and, unless the code  *)
(* counts the rows, reports no error.                                      *)
(***************************************************************************)

WorkItemStatuses ==
  {"draft", "planning", "planning_failed", "plan_ready", "plan_approved",
   "executing", "repairing", "done", "failed", "cancelled"}

ApprovalStatuses == {"pending_review", "approved"}

(* UPDATE ... SET status = to WHERE status IN from                         *)
Moved(status, from, to) == IF status \in from THEN to ELSE status

(* Faulty variants, for checking that the properties can fail.             *)
FaultyPlanningFailed(status) == status                                      \* the failure is only logged
FaultyExecuting(status) == Moved(status, {"plan_approved", "plan_ready"}, "executing")
FaultyFailed(status) == Moved(status, {"executing", "repairing"}, "done")   \* copied, target not changed
FaultyCanReplan(status) == status \in {"plan_ready", "plan_approved", "planning_failed"}
FaultyCanCancel(status) == status \notin {"done", "cancelled"}

AfterStartPlanning(status)  == Moved(status, {"draft"}, "planning")
AfterPlanReady(status)      == Moved(status, {"planning"}, "plan_ready")
AfterPlanningFailed(status) == Moved(status, {"planning"}, "planning_failed")
AfterExecuting(status)      == Moved(status, {"plan_approved"}, "executing")
AfterRepairing(status)      == Moved(status, {"executing"}, "repairing")
AfterDone(status)           == Moved(status, {"executing", "repairing"}, "done")
AfterFailed(status)         == Moved(status, {"executing", "repairing"}, "failed")

(* These three count the rows: the caller learns that nothing matched.     *)
CanApprove(status) == status = "plan_ready"
CanReplan(status)  == status \in {"plan_ready", "planning_failed"}
CanCancel(status)  == status \notin {"done", "failed", "cancelled"}
=============================================================================
