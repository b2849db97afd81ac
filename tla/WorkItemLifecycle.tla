-------------------------- MODULE WorkItemLifecycle --------------------------
(***************************************************************************)
(* The documented life of a work item: its transitions and the approval    *)
(* gate, with no word of the handlers and goroutines that make them.       *)
(***************************************************************************)

VARIABLES status, approval

workItemVars == <<status, approval>>

Init == status = "draft" /\ approval = "pending_review"

Become(to) == status' = to /\ UNCHANGED approval

Plan   == status = "draft" /\ Become("planning")
Planned == status = "planning" /\ (Become("plan_ready") \/ Become("planning_failed"))
Replan == /\ status \in {"plan_ready", "planning_failed"}
          /\ status' = "planning" /\ approval' = "pending_review"

(* A stored edit resets the item, wherever it stands by then.              *)
Revise  == status' = "plan_ready" /\ approval' = "pending_review"
Approve == status = "plan_ready" /\ status' = "plan_approved" /\ approval' = "approved"

(* Nothing goes beyond plan_approved without the approval.                 *)
Execute == status = "plan_approved" /\ approval = "approved" /\ Become("executing")
Repair  == status = "executing" /\ Become("repairing")
End     == status \in {"executing", "repairing"} /\ (Become("done") \/ Become("failed"))
Cancel  == status \notin {"done", "failed", "cancelled"} /\ Become("cancelled")

Next == Plan \/ Planned \/ Replan \/ Revise \/ Approve \/ Execute \/ Repair \/ End \/ Cancel

Spec == Init /\ [][Next]_workItemVars
=============================================================================
