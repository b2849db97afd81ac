------------------------- MODULE TaskLifecycleProofs -------------------------
(***************************************************************************)
(* What holds of a work item for any number of planners, edits, executions *)
(* and faults.                                                             *)
(***************************************************************************)
EXTENDS TaskLifecycle, TLAPS

-----------------------------------------------------------------------------
(* The inductive invariants.                                               *)

InFlight(p) == planner[p] \in {"requested", "streaming", "stored"}

(* As long as no edit was stored there is one planner at a time, and while *)
(* it may still store a plan nothing is approved; from the approval on the *)
(* active plan is fixed, and the executions have it.                       *)
OnePlanner == \A p, q \in Planners : InFlight(p) /\ InFlight(q) => p = q

PlannerBeforeApproval ==
  \A p \in Planners :
    /\ InFlight(p) => approval = "pending_review"
    /\ planner[p] = "requested" => status \in {"draft", "cancelled"}
    /\ planner[p] \in {"streaming", "stored"} => status \in {"planning", "cancelled"}

ApprovalFixesPlan ==
  approval = "approved" =>
    /\ status \in {"plan_approved", "executing", "repairing", "done", "failed", "cancelled"}
    /\ active \in approved

HasPlan(s) ==
  starter[s] \in {"loaded", "created"} \/ exec[s] # "none" \/ run[s] \notin {"idle", "ended"}

StartersAfterApproval ==
  \A s \in Starters :
    /\ starter[s] # "unused" => approval = "approved"
    /\ HasPlan(s) => starter[s] # "unused" /\ planOf[s] = active

PlanInv ==
  NoEdits => OnePlanner /\ PlannerBeforeApproval /\ ApprovalFixesPlan /\ StartersAfterApproval

(* A verdict belongs to an execution that went to its end, and a good one  *)
(* is the last thing its goroutine does.                                   *)
VerdictInv ==
  \A s \in Starters :
    /\ run[s] \in {"validating", "repairGate", "repairSession", "repairing"} \/ verdict[s] # "none"
         => exec[s] \in {"completed", "completed_with_deviations", "cancelled"} \/ Faulted
    /\ run[s] \notin {"idle", "ended"} \/ verdict[s] # "none" => exec[s] # "none"
    /\ verdict[s] = "done" => run[s] = "ended"
    /\ run[s] \in {"idle", "launched", "stepping", "inStep", "finishing"} => verdict[s] = "none"
    /\ starter[s] \in {"unused", "gated", "loaded", "created"} => run[s] = "idle"
    /\ starter[s] \in {"unused", "gated", "loaded"} => exec[s] = "none"
    /\ starter[s] = "created" => exec[s] # "none"

(* An item is done on a verdict, or a publisher overtook an execution.     *)
DoneHasVerdict ==
  status = "done" =>
    \E s \in Starters : verdict[s] = "done" \/ (publisher = "overtook" /\ exec[s] # "none")
(* Proofs begin *)
-----------------------------------------------------------------------------
(* Type correctness.                                                       *)

(* Every variable keeps its type, and GetLatestForWorkItem names a row that*)
(* exists, for any number of goroutines, requests and faults.              *)
THEOREM TypeCorrect == Spec => []TypeOK
<1>1. Init => TypeOK
  BY FaultsAssumption, StartersAssumption DEF Init, TypeOK, WorkItemStatuses, ApprovalStatuses,
     PlannerStates, EditorStates, StarterStates, ExecStatuses, RunPhases, PublisherStates,
     Verdicts
<1>2. TypeOK /\ [Next]_vars => TypeOK'
  <2> SUFFICES ASSUME TypeOK, [Next]_vars PROVE TypeOK'
    OBVIOUS
  <2> USE FaultsAssumption
  <2>1. ASSUME NEW p \in Planners, PlannerStep(p) \/ Replan(p)
         PROVE  TypeOK'
    <3>1. CASE StartPlanning(p)
      BY <3>1 DEF StartPlanning, TypeOK, itemVars, AfterStartPlanning,
         WorkItemStatuses, Moved, PlannerStates
    <3>2. CASE PlanningFails(p)
      BY <3>2 DEF PlanningFails, TypeOK, itemVars, AfterPlanningFailed,
         WorkItemStatuses, Moved, PlannerStates
    <3>3. CASE PlannerGivesUp(p)
      BY <3>3 DEF PlannerGivesUp, TypeOK, itemVars, Fault, PlannerStates
    <3>4. CASE StorePlan(p)
      BY <3>4 DEF StorePlan, TypeOK, itemVars, PlannerStates
    <3>5. CASE MarkPlanReady(p)
      BY <3>5 DEF MarkPlanReady, TypeOK, itemVars, AfterPlanReady,
         WorkItemStatuses, Moved, PlannerStates
    <3>6. CASE Replan(p)
      BY <3>6 DEF Replan, TypeOK, itemVars, WorkItemStatuses, ApprovalStatuses,
         PlannerStates
    <3> QED BY <2>1, <3>1, <3>2, <3>3, <3>4, <3>5, <3>6 DEF PlannerStep
  <2>2. ASSUME NEW e \in Editors, EditorStep(e) \/ EditCheck(e)
         PROVE  TypeOK'
    <3>1. CASE EditStore(e)
      BY <3>1 DEF EditStore, TypeOK, itemVars, Fault, EditorStates
    <3>2. CASE EditReset(e)
      BY <3>2 DEF EditReset, TypeOK, itemVars, Fault, EditorStates,
         WorkItemStatuses, ApprovalStatuses
    <3>3. CASE EditCheck(e)
      BY <3>3 DEF EditCheck, TypeOK, itemVars, EditorStates
    <3> QED BY <2>2, <3>1, <3>2, <3>3 DEF EditorStep
  <2>3. ASSUME NEW s \in Starters, StartGate(s) \/ StarterStep(s)
         PROVE  TypeOK'
    <3>1. CASE StartGate(s) \/ LoadPlan(s)
      BY <3>1 DEF StartGate, LoadPlan, TypeOK, itemVars, StarterStates
    <3>2. CASE CreateExecution(s)
      BY <3>2 DEF CreateExecution, TypeOK, itemVars, Fault, StarterStates,
         ExecStatuses
    <3>3. CASE LaunchRun(s)
      BY <3>3 DEF LaunchRun, TypeOK, itemVars, Fault, AfterExecuting,
         WorkItemStatuses, Moved, StarterStates, RunPhases
    <3> QED BY <2>3, <3>1, <3>2, <3>3 DEF StarterStep
  <2>4. ASSUME NEW s \in Starters, ExecuteStep(s) \/ LeaveStep(s)
         PROVE  TypeOK'
    <3>1. CASE MarkRunning(s)
      BY <3>1 DEF MarkRunning, TypeOK, itemVars, Fault, ExecStatuses, RunPhases
    <3>2. CASE RunLosesRow(s)
      BY <3>2 DEF RunLosesRow, TypeOK, itemVars, Fault, RunPhases
    <3>3. CASE StopCancelled(s) \/ LeaveStep(s)
      BY <3>3 DEF StopCancelled, LeaveStep, TypeOK, itemVars, RunPhases
    <3>4. CASE RunFails(s)
      BY <3>4 DEF RunFails, TypeOK, itemVars, ExecStatuses, RunPhases
    <3>5. CASE FinishRun(s)
      BY <3>5 DEF FinishRun, TypeOK, itemVars, Fault, ExecStatuses, RunPhases
    <3>6. CASE EnterStep(s)
      BY <3>6 DEF EnterStep, TypeOK, itemVars, Fault, RunPhases
    <3> QED BY <2>4, <3>1, <3>2, <3>3, <3>4, <3>5, <3>6 DEF ExecuteStep
  <2>5. ASSUME NEW s \in Starters, ConcludeStep(s)
         PROVE  TypeOK'
    <3>1. CASE ValidationDone(s) \/ RepairSucceeds(s)
      BY <3>1 DEF ValidationDone, RepairSucceeds, TypeOK, itemVars, AfterDone,
         WorkItemStatuses, Moved, Conclude, RunPhases, Verdicts
    <3>2. CASE ValidationFails(s) \/ RepairDenied(s) \/ RepairFails(s)
      BY <3>2 DEF ValidationFails, RepairDenied, RepairFails, TypeOK, itemVars,
         AfterFailed, WorkItemStatuses, Moved, Conclude, RunPhases, Verdicts
    <3>3. CASE ValidationWantsRepair(s)
      BY <3>3 DEF ValidationWantsRepair, TypeOK, itemVars, Conclude, RunPhases,
         Verdicts
    <3>4. CASE TriggerGivesUp(s)
      BY <3>4 DEF TriggerGivesUp, TypeOK, itemVars, Fault, RunPhases
    <3>5. CASE RepairAllowed(s)
      BY <3>5 DEF RepairAllowed, TypeOK, itemVars, AfterRepairing,
         WorkItemStatuses, Moved, RunPhases
    <3>6. CASE OpenRepairSession(s)
      BY <3>6 DEF OpenRepairSession, TypeOK, itemVars, Fault, RunPhases
    <3> QED BY <2>5, <3>1, <3>2, <3>3, <3>4, <3>5, <3>6 DEF ConcludeStep
  <2>6. CASE Approve
    BY <2>6 DEF Approve, TypeOK, itemVars, WorkItemStatuses, ApprovalStatuses
  <2>7. CASE CancelTask
    BY <2>7 DEF CancelTask, TypeOK, itemVars, WorkItemStatuses
  <2>8. CASE CancelExecution
    BY <2>8 DEF CancelExecution, TypeOK, itemVars, ExecStatuses
  <2>9. CASE Crash
    BY <2>9 DEF Crash, TypeOK, itemVars, Fault, PlannerStates, EditorStates,
       StarterStates, RunPhases, PublisherStates, HasSession
  <2>10. CASE PublishStep
    <3>1. CASE StartPublish
      BY <3>1 DEF StartPublish, TypeOK, itemVars, PublisherStates
    <3>2. CASE PublishingFails
      <4>1. publisher' \in PublisherStates /\ faults' \in 0..MaxFaults
        BY <3>2 DEF PublishingFails, TypeOK, Fault, PublisherStates
      <4> QED BY <3>2, <4>1 DEF PublishingFails, TypeOK, itemVars
    <3>3. CASE FinishPublishing
      BY <3>3 DEF FinishPublishing, TypeOK, itemVars, Fault, AfterDone, Moved,
         WorkItemStatuses, PublisherStates
    <3> QED BY <2>10, <3>1, <3>2, <3>3 DEF PublishStep
  <2>11. CASE UNCHANGED vars
    BY <2>11 DEF vars, TypeOK, itemVars
  <2> QED BY <2>1, <2>2, <2>3, <2>4, <2>5, <2>6, <2>7, <2>8, <2>9, <2>10, <2>11 DEF Next
<1> QED BY <1>1, <1>2, PTL DEF Spec

-----------------------------------------------------------------------------
(* The approval gate and the approved plan.                                *)

(* No step takes an item past plan_approved, or leaves it there, while its *)
(* approval is pending.                                                    *)
LEMMA ApprovalGateStep == ApprovalGate /\ [Next]_vars => ApprovalGate'
<1> SUFFICES ASSUME ApprovalGate, [Next]_vars PROVE ApprovalGate'
  OBVIOUS
<1>1. ASSUME NEW p \in Planners, PlannerStep(p) \/ Replan(p)
       PROVE  ApprovalGate'
  <2>1. CASE StartPlanning(p)
    BY <2>1 DEF StartPlanning, ApprovalGate, itemVars, AfterStartPlanning,
       Moved
  <2>2. CASE PlanningFails(p)
    BY <2>2 DEF PlanningFails, ApprovalGate, itemVars, AfterPlanningFailed,
       Moved
  <2>3. CASE PlannerGivesUp(p) \/ StorePlan(p)
    BY <2>3 DEF PlannerGivesUp, StorePlan, ApprovalGate, itemVars
  <2>4. CASE MarkPlanReady(p)
    BY <2>4 DEF MarkPlanReady, ApprovalGate, itemVars, AfterPlanReady, Moved
  <2>5. CASE Replan(p)
    BY <2>5 DEF Replan, ApprovalGate, itemVars, CanReplan
  <2> QED BY <1>1, <2>1, <2>2, <2>3, <2>4, <2>5 DEF PlannerStep
<1>2. ASSUME NEW e \in Editors, EditorStep(e) \/ EditCheck(e)
       PROVE  ApprovalGate'
  <2>1. CASE EditStore(e) \/ EditReset(e) \/ EditCheck(e)
    BY <2>1 DEF EditStore, EditReset, EditCheck, ApprovalGate, itemVars
  <2> QED BY <1>2, <2>1 DEF EditorStep
<1>3. ASSUME NEW s \in Starters, StartGate(s) \/ StarterStep(s)
       PROVE  ApprovalGate'
  <2>1. CASE StartGate(s) \/ LoadPlan(s) \/ CreateExecution(s)
    BY <2>1 DEF StartGate, LoadPlan, CreateExecution, ApprovalGate, itemVars
  <2>2. CASE LaunchRun(s)
    BY <2>2 DEF LaunchRun, ApprovalGate, itemVars, AfterExecuting, Moved
  <2> QED BY <1>3, <2>1, <2>2 DEF StarterStep
<1>4. ASSUME NEW s \in Starters, ExecuteStep(s) \/ LeaveStep(s)
       PROVE  ApprovalGate'
  <2>1. CASE MarkRunning(s) \/ RunLosesRow(s) \/ EnterStep(s) \/
     StopCancelled(s) \/ RunFails(s) \/ FinishRun(s) \/ LeaveStep(s)
    BY <2>1 DEF MarkRunning, RunLosesRow, EnterStep, StopCancelled, RunFails,
       FinishRun, LeaveStep, ApprovalGate, itemVars
  <2> QED BY <1>4, <2>1 DEF ExecuteStep
<1>5. ASSUME NEW s \in Starters, ConcludeStep(s)
       PROVE  ApprovalGate'
  <2>1. CASE ValidationDone(s) \/ RepairSucceeds(s)
    BY <2>1 DEF ValidationDone, RepairSucceeds, ApprovalGate, itemVars, AfterDone,
       Moved
  <2>2. CASE ValidationFails(s) \/ RepairDenied(s) \/ RepairFails(s)
    BY <2>2 DEF ValidationFails, RepairDenied, RepairFails, ApprovalGate,
       itemVars, AfterFailed, Moved
  <2>3. CASE ValidationWantsRepair(s) \/ TriggerGivesUp(s) \/
     OpenRepairSession(s)
    BY <2>3 DEF ValidationWantsRepair, TriggerGivesUp, OpenRepairSession,
       ApprovalGate, itemVars
  <2>4. CASE RepairAllowed(s)
    BY <2>4 DEF RepairAllowed, ApprovalGate, itemVars, AfterRepairing, Moved
  <2> QED BY <1>5, <2>1, <2>2, <2>3, <2>4 DEF ConcludeStep
<1>6. CASE Approve
  BY <1>6 DEF Approve, ApprovalGate, itemVars, CanApprove
<1>7. CASE CancelTask
  BY <1>7 DEF CancelTask, ApprovalGate, itemVars, CanCancel
<1>8. CASE CancelExecution \/ Crash
  BY <1>8 DEF CancelExecution, Crash, ApprovalGate, itemVars
<1>9. CASE PublishStep
  BY <1>9 DEF PublishStep, StartPublish, PublishingFails, FinishPublishing,
     HasSession, ApprovalGate, itemVars, AfterDone, Moved
<1>10. CASE UNCHANGED vars
  BY <1>10 DEF vars, ApprovalGate, itemVars
<1> QED BY <1>1, <1>2, <1>3, <1>4, <1>5, <1>6, <1>7, <1>8, <1>9, <1>10 DEF Next

(* The hard gate, as an invariant of every behaviour.                      *)
THEOREM ApprovalGateHolds == Spec => []ApprovalGate
<1>1. Init => ApprovalGate
  BY DEF Init, ApprovalGate
<1> QED BY <1>1, ApprovalGateStep, PTL DEF Spec

(* The plan invariant is preserved: only a planner and an edit store plans,*)
(* no planner is in flight once the item is approved, and NoEdits excludes *)
(* the edit.                                                               *)
LEMMA PlanInvStep == TypeOK /\ PlanInv /\ [Next]_vars => PlanInv'
<1> SUFFICES ASSUME TypeOK, PlanInv, [Next]_vars PROVE PlanInv'
  OBVIOUS
<1> USE DEF TypeOK, PlanInv, NoEdits, OnePlanner, PlannerBeforeApproval,
            ApprovalFixesPlan, StartersAfterApproval, HasPlan, InFlight
<1>1. ASSUME NEW p \in Planners, PlannerStep(p) \/ Replan(p)
       PROVE  PlanInv'
  <2>1. CASE StartPlanning(p)
    BY <2>1 DEF StartPlanning, itemVars, AfterStartPlanning, Moved
  <2>2. CASE PlanningFails(p)
    BY <2>2 DEF PlanningFails, itemVars, AfterPlanningFailed, Moved
  <2>3. CASE PlannerGivesUp(p)
    BY <2>3 DEF PlannerGivesUp, itemVars
  <2>4. CASE StorePlan(p)
    BY <2>4 DEF StorePlan, itemVars
  <2>5. CASE MarkPlanReady(p)
    BY <2>5 DEF MarkPlanReady, itemVars, AfterPlanReady, Moved
  <2>6. CASE Replan(p)
    BY <2>6 DEF Replan, itemVars, CanReplan
  <2> QED BY <1>1, <2>1, <2>2, <2>3, <2>4, <2>5, <2>6 DEF PlannerStep
<1>2. ASSUME NEW e \in Editors, EditorStep(e) \/ EditCheck(e)
       PROVE  PlanInv'
  <2>1. CASE EditStore(e)
    BY <2>1 DEF EditStore, itemVars
  <2>2. CASE EditReset(e)
    BY <2>2 DEF EditReset, itemVars
  <2>3. CASE EditCheck(e)
    BY <2>3 DEF EditCheck, itemVars
  <2> QED BY <1>2, <2>1, <2>2, <2>3 DEF EditorStep
<1>3. ASSUME NEW s \in Starters, StartGate(s) \/ StarterStep(s)
       PROVE  PlanInv'
  <2>1. CASE StartGate(s)
    BY <2>1 DEF StartGate, itemVars
  <2>2. CASE LoadPlan(s)
    BY <2>2 DEF LoadPlan, itemVars
  <2>3. CASE CreateExecution(s)
    BY <2>3 DEF CreateExecution, itemVars
  <2>4. CASE LaunchRun(s)
    BY <2>4 DEF LaunchRun, itemVars, AfterExecuting, Moved
  <2> QED BY <1>3, <2>1, <2>2, <2>3, <2>4 DEF StarterStep
<1>4. ASSUME NEW s \in Starters, ExecuteStep(s) \/ LeaveStep(s)
       PROVE  PlanInv'
  <2>1. CASE MarkRunning(s)
    BY <2>1 DEF MarkRunning, itemVars
  <2>2. CASE RunLosesRow(s)
    BY <2>2 DEF RunLosesRow, itemVars
  <2>3. CASE EnterStep(s)
    BY <2>3 DEF EnterStep, itemVars
  <2>4. CASE StopCancelled(s)
    BY <2>4 DEF StopCancelled, itemVars
  <2>5. CASE RunFails(s)
    BY <2>5 DEF RunFails, itemVars
  <2>6. CASE FinishRun(s)
    BY <2>6 DEF FinishRun, itemVars
  <2>7. CASE LeaveStep(s)
    BY <2>7 DEF LeaveStep, itemVars
  <2> QED BY <1>4, <2>1, <2>2, <2>3, <2>4, <2>5, <2>6, <2>7 DEF ExecuteStep
<1>5. ASSUME NEW s \in Starters, ConcludeStep(s)
       PROVE  PlanInv'
  <2>1. CASE ValidationDone(s)
    BY <2>1 DEF ValidationDone, itemVars, AfterDone, Moved, Conclude
  <2>2. CASE ValidationFails(s)
    BY <2>2 DEF ValidationFails, itemVars, AfterFailed, Moved, Conclude
  <2>3. CASE ValidationWantsRepair(s)
    BY <2>3 DEF ValidationWantsRepair, itemVars, Conclude
  <2>4. CASE TriggerGivesUp(s)
    BY <2>4 DEF TriggerGivesUp, itemVars
  <2>5. CASE RepairDenied(s)
    BY <2>5 DEF RepairDenied, itemVars, AfterFailed, Moved, Conclude
  <2>6. CASE RepairAllowed(s)
    BY <2>6 DEF RepairAllowed, itemVars, AfterRepairing, Moved
  <2>7. CASE OpenRepairSession(s)
    BY <2>7 DEF OpenRepairSession, itemVars
  <2>8. CASE RepairSucceeds(s)
    BY <2>8 DEF RepairSucceeds, itemVars, AfterDone, Moved, Conclude
  <2>9. CASE RepairFails(s)
    BY <2>9 DEF RepairFails, itemVars, AfterFailed, Moved, Conclude
  <2> QED BY <1>5, <2>1, <2>2, <2>3, <2>4, <2>5, <2>6, <2>7, <2>8, <2>9
     DEF ConcludeStep
<1>6. CASE Approve
  BY <1>6 DEF Approve, itemVars, CanApprove
<1>7. CASE CancelTask
  BY <1>7 DEF CancelTask, itemVars, CanCancel
<1>8. CASE CancelExecution
  BY <1>8 DEF CancelExecution, itemVars
<1>9. CASE Crash
  BY <1>9 DEF Crash, itemVars
<1>10. CASE PublishStep
  BY <1>10 DEF PublishStep, StartPublish, PublishingFails, FinishPublishing,
     HasSession, itemVars, AfterDone,
     Moved
<1>11. CASE UNCHANGED vars
  BY <1>11 DEF vars, itemVars
<1> QED BY <1>1, <1>2, <1>3, <1>4, <1>5, <1>6, <1>7, <1>8, <1>9, <1>10, <1>11 DEF Next

(* As long as no edit was stored, every execution runs a plan a user       *)
(* approved, and it stays the active plan while the execution is under way.*)
THEOREM ApprovedPlanRuns == Spec => []ExecutedPlanWasApproved
<1>1. Init => PlanInv
  BY DEF Init, PlanInv, NoEdits, OnePlanner, PlannerBeforeApproval, ApprovalFixesPlan,
     StartersAfterApproval, HasPlan, InFlight
<1>2. PlanInv => ExecutedPlanWasApproved
  BY DEF PlanInv, ApprovalFixesPlan, StartersAfterApproval, HasPlan, ExecutedPlanWasApproved
<1> QED BY <1>1, <1>2, PlanInvStep, TypeCorrect, PTL DEF Spec

-----------------------------------------------------------------------------
(* Done means a verdict.                                                   *)

(* A fault is not forgotten.                                               *)
LEMMA FaultsRemembered ==
  ASSUME TypeOK
  PROVE  (Fault => Faulted') /\ (UNCHANGED faults => (Faulted <=> Faulted'))
BY FaultsAssumption DEF TypeOK, Fault, Faulted

(* The step of the verdict invariant.                                     *)
LEMMA VerdictInvStep == TypeOK /\ VerdictInv /\ [Next]_vars => VerdictInv'
<1> SUFFICES ASSUME TypeOK, VerdictInv, [Next]_vars PROVE VerdictInv'
  OBVIOUS
<1> USE FaultsRemembered DEF TypeOK, VerdictInv
<1>1. ASSUME NEW p \in Planners, PlannerStep(p) \/ Replan(p)
       PROVE  VerdictInv'
  <2>1. CASE StartPlanning(p) \/ PlanningFails(p) \/ PlannerGivesUp(p) \/
     StorePlan(p) \/ MarkPlanReady(p) \/ Replan(p)
    BY <2>1 DEF StartPlanning, PlanningFails, PlannerGivesUp, StorePlan,
       MarkPlanReady, Replan, itemVars
  <2> QED BY <1>1, <2>1 DEF PlannerStep
<1>2. ASSUME NEW e \in Editors, EditorStep(e) \/ EditCheck(e)
       PROVE  VerdictInv'
  <2>1. CASE EditStore(e) \/ EditReset(e) \/ EditCheck(e)
    BY <2>1 DEF EditStore, EditReset, EditCheck, itemVars
  <2> QED BY <1>2, <2>1 DEF EditorStep
<1>3. ASSUME NEW s \in Starters, StartGate(s) \/ StarterStep(s)
       PROVE  VerdictInv'
  <2>1. CASE StartGate(s) \/ LoadPlan(s)
    BY <2>1 DEF StartGate, LoadPlan, itemVars
  <2>2. CASE CreateExecution(s)
    BY <2>2 DEF CreateExecution, itemVars
  <2>3. CASE LaunchRun(s)
    BY <2>3 DEF LaunchRun, itemVars
  <2> QED BY <1>3, <2>1, <2>2, <2>3 DEF StarterStep
<1>4. ASSUME NEW s \in Starters, ExecuteStep(s) \/ LeaveStep(s)
       PROVE  VerdictInv'
  <2>1. CASE MarkRunning(s)
    BY <2>1 DEF MarkRunning, itemVars
  <2>2. CASE RunLosesRow(s) \/ StopCancelled(s) \/ LeaveStep(s)
    BY <2>2 DEF RunLosesRow, StopCancelled, LeaveStep, itemVars
  <2>3. CASE EnterStep(s)
    BY <2>3 DEF EnterStep, itemVars
  <2>4. CASE RunFails(s)
    BY <2>4 DEF RunFails, itemVars
  <2>5. CASE FinishRun(s)
    BY <2>5 DEF FinishRun, itemVars
  <2> QED BY <1>4, <2>1, <2>2, <2>3, <2>4, <2>5 DEF ExecuteStep
<1>5. ASSUME NEW s \in Starters, ConcludeStep(s)
       PROVE  VerdictInv'
  <2>1. CASE ValidationDone(s) \/ ValidationFails(s) \/
     ValidationWantsRepair(s) \/ RepairDenied(s) \/
     RepairSucceeds(s) \/ RepairFails(s)
    BY <2>1 DEF ValidationDone, ValidationFails, ValidationWantsRepair, RepairDenied,
       RepairSucceeds, RepairFails, itemVars, Conclude
  <2>2. CASE TriggerGivesUp(s) \/ RepairAllowed(s) \/ OpenRepairSession(s)
    BY <2>2 DEF TriggerGivesUp, RepairAllowed, OpenRepairSession, itemVars
  <2> QED BY <1>5, <2>1, <2>2 DEF ConcludeStep
<1>6. CASE Approve \/ CancelTask \/ CancelExecution \/ Crash
  BY <1>6 DEF Approve, CancelTask, CancelExecution, Crash, itemVars
<1>7. CASE PublishStep
  BY <1>7 DEF PublishStep, StartPublish, PublishingFails, FinishPublishing,
     HasSession, itemVars
<1>8. CASE UNCHANGED vars
  BY <1>8 DEF vars, itemVars
<1> QED BY <1>1, <1>2, <1>3, <1>4, <1>5, <1>6, <1>7, <1>8 DEF Next

(* The row becomes done only together with a good verdict or an overtaking *)
(* publisher, and neither is taken back.                                   *)
LEMMA DoneHasVerdictStep ==
  TypeOK /\ VerdictInv /\ DoneHasVerdict /\ [Next]_vars => DoneHasVerdict'
<1> SUFFICES ASSUME TypeOK, VerdictInv, DoneHasVerdict, [Next]_vars PROVE DoneHasVerdict'
  OBVIOUS
<1>1. ASSUME NEW p \in Planners, PlannerStep(p) \/ Replan(p)
       PROVE  DoneHasVerdict'
  <2>1. CASE StartPlanning(p)
    BY <2>1 DEF StartPlanning, DoneHasVerdict, itemVars, AfterStartPlanning,
       Moved
  <2>2. CASE PlanningFails(p)
    BY <2>2 DEF PlanningFails, DoneHasVerdict, itemVars, AfterPlanningFailed,
       Moved
  <2>3. CASE PlannerGivesUp(p) \/ StorePlan(p)
    BY <2>3 DEF PlannerGivesUp, StorePlan, DoneHasVerdict, itemVars
  <2>4. CASE MarkPlanReady(p)
    BY <2>4 DEF MarkPlanReady, DoneHasVerdict, itemVars, AfterPlanReady,
       Moved
  <2>5. CASE Replan(p)
    BY <2>5 DEF Replan, DoneHasVerdict, itemVars, CanReplan
  <2> QED BY <1>1, <2>1, <2>2, <2>3, <2>4, <2>5 DEF PlannerStep
<1>2. ASSUME NEW e \in Editors, EditorStep(e) \/ EditCheck(e)
       PROVE  DoneHasVerdict'
  <2>1. CASE EditStore(e) \/ EditReset(e) \/ EditCheck(e)
    BY <2>1 DEF EditStore, EditReset, EditCheck, DoneHasVerdict, itemVars
  <2> QED BY <1>2, <2>1 DEF EditorStep
<1>3. ASSUME NEW s \in Starters, StartGate(s) \/ StarterStep(s)
       PROVE  DoneHasVerdict'
  <2>1. CASE StartGate(s) \/ LoadPlan(s) \/ CreateExecution(s)
    BY <2>1 DEF StartGate, LoadPlan, CreateExecution, DoneHasVerdict,
       itemVars, TypeOK
  <2>2. CASE LaunchRun(s)
    BY <2>2 DEF LaunchRun, DoneHasVerdict, itemVars, AfterExecuting, Moved
  <2> QED BY <1>3, <2>1, <2>2 DEF StarterStep
<1>4. ASSUME NEW s \in Starters, ExecuteStep(s) \/ LeaveStep(s)
       PROVE  DoneHasVerdict'
  <2>1. CASE RunLosesRow(s) \/ EnterStep(s) \/ StopCancelled(s) \/ LeaveStep(s)
    BY <2>1 DEF RunLosesRow, EnterStep, StopCancelled, LeaveStep, DoneHasVerdict,
       itemVars
  <2>2. CASE MarkRunning(s)
    BY <2>2 DEF MarkRunning, DoneHasVerdict, itemVars, TypeOK
  <2>3. CASE RunFails(s) \/ FinishRun(s)
    BY <2>3 DEF RunFails, FinishRun, DoneHasVerdict, itemVars, TypeOK
  <2> QED BY <1>4, <2>1, <2>2, <2>3 DEF ExecuteStep
<1>5. ASSUME NEW s \in Starters, ConcludeStep(s)
       PROVE  DoneHasVerdict'
  <2>1. CASE ValidationDone(s) \/ RepairSucceeds(s)
    BY <2>1 DEF ValidationDone, RepairSucceeds, DoneHasVerdict, itemVars,
       AfterDone, Moved, Conclude, VerdictInv, TypeOK
  <2>2. CASE ValidationFails(s) \/ RepairDenied(s) \/ RepairFails(s)
    BY <2>2 DEF ValidationFails, RepairDenied, RepairFails, DoneHasVerdict,
       itemVars, AfterFailed, Moved, Conclude, VerdictInv, TypeOK
  <2>3. CASE ValidationWantsRepair(s)
    BY <2>3 DEF ValidationWantsRepair, DoneHasVerdict, itemVars, Conclude,
       VerdictInv, TypeOK
  <2>4. CASE TriggerGivesUp(s) \/ OpenRepairSession(s)
    BY <2>4 DEF TriggerGivesUp, OpenRepairSession, DoneHasVerdict, itemVars,
       VerdictInv, TypeOK
  <2>5. CASE RepairAllowed(s)
    BY <2>5 DEF RepairAllowed, DoneHasVerdict, itemVars, AfterRepairing,
       Moved, VerdictInv, TypeOK
  <2> QED BY <1>5, <2>1, <2>2, <2>3, <2>4, <2>5 DEF ConcludeStep
<1>6. CASE Approve
  BY <1>6 DEF Approve, DoneHasVerdict, itemVars, CanApprove
<1>7. CASE CancelTask
  BY <1>7 DEF CancelTask, DoneHasVerdict, itemVars, CanCancel
<1>8. CASE CancelExecution \/ Crash
  <2>1. CASE CancelExecution
    BY <2>1 DEF CancelExecution, DoneHasVerdict, itemVars, TypeOK
  <2>2. CASE Crash
    BY <2>2 DEF Crash, DoneHasVerdict, itemVars
  <2> QED BY <1>8, <2>1, <2>2
<1>9. CASE PublishStep
  <2>1. CASE StartPublish \/ PublishingFails
    BY <2>1 DEF StartPublish, PublishingFails, HasSession, DoneHasVerdict, itemVars
  <2>2. CASE FinishPublishing
    <3>1. latest \in Starters /\ exec[latest] # "none" /\ exec' = exec /\ verdict' = verdict
      BY <2>2 DEF FinishPublishing, HasSession, TypeOK
    <3>2. CASE status' # status
      <4>1. publisher' = "overtook"
        BY <2>2, <3>2 DEF FinishPublishing
      <4> QED BY <3>1, <4>1 DEF DoneHasVerdict
    <3>3. CASE status' = status
      BY <2>2, <3>1, <3>3 DEF FinishPublishing, HasSession, DoneHasVerdict, AfterDone, Moved
    <3> QED BY <3>2, <3>3
  <2> QED BY <1>9, <2>1, <2>2 DEF PublishStep
<1>10. CASE UNCHANGED vars
  BY <1>10 DEF vars, DoneHasVerdict, itemVars
<1> QED BY <1>1, <1>2, <1>3, <1>4, <1>5, <1>6, <1>7, <1>8, <1>9, <1>10 DEF Next

(* An item is done on the verdict of an execution that went to its end, or *)
(* because a publisher overtook the verdict of one; and, unless edits      *)
(* interfere, that execution ran an approved plan.                         *)
THEOREM DoneIsEarned == Spec => []DoneByApprovedPlan
<1>1. Init => VerdictInv /\ DoneHasVerdict
  BY DEF Init, VerdictInv, DoneHasVerdict
<1>2. VerdictInv /\ DoneHasVerdict /\ ExecutedPlanWasApproved => DoneByApprovedPlan
  <2> SUFFICES ASSUME VerdictInv, DoneHasVerdict, ExecutedPlanWasApproved, status = "done"
               PROVE  \E s \in Starters :
                        /\ GoodVerdict(s) \/ (publisher = "overtook" /\ exec[s] # "none")
                        /\ NoEdits => planOf[s] \in approved
    BY DEF DoneByApprovedPlan
  <2>1. PICK s \in Starters : verdict[s] = "done" \/ (publisher = "overtook" /\ exec[s] # "none")
    BY DEF DoneHasVerdict
  <2>2. GoodVerdict(s) \/ (publisher = "overtook" /\ exec[s] # "none")
    BY <2>1 DEF VerdictInv, GoodVerdict
  <2>3. NoEdits => planOf[s] \in approved
    BY <2>1 DEF VerdictInv, ExecutedPlanWasApproved
  <2> QED BY <2>2, <2>3
<1> QED
  BY <1>1, <1>2, VerdictInvStep, DoneHasVerdictStep, TypeCorrect, ApprovedPlanRuns,
     PTL DEF Spec

-----------------------------------------------------------------------------
(* The life of the item.                                                   *)

(* Every step of the handlers and goroutines is a transition of the        *)
(* documented life of a work item, or leaves status and approval alone.    *)
LEMMA ItemStep == ApprovalGate /\ [Next]_vars => [Item!Next]_<<status, approval>>
<1> SUFFICES ASSUME ApprovalGate, [Next]_vars PROVE [Item!Next]_<<status, approval>>
  OBVIOUS
<1>1. ASSUME NEW p \in Planners, PlannerStep(p) \/ Replan(p)
       PROVE  [Item!Next]_<<status, approval>>
  <2>1. CASE StartPlanning(p)
    BY <2>1 DEF StartPlanning, itemVars, AfterStartPlanning, Moved,
       Item!Next, Item!Plan, Item!Become
  <2>2. CASE PlanningFails(p)
    BY <2>2 DEF PlanningFails, itemVars, AfterPlanningFailed, Moved,
       Item!Next, Item!Planned, Item!Become
  <2>3. CASE PlannerGivesUp(p) \/ StorePlan(p)
    BY <2>3 DEF PlannerGivesUp, StorePlan, itemVars
  <2>4. CASE MarkPlanReady(p)
    BY <2>4 DEF MarkPlanReady, itemVars, AfterPlanReady, Moved, Item!Next,
       Item!Planned, Item!Become
  <2>5. CASE Replan(p)
    BY <2>5 DEF Replan, itemVars, CanReplan, Item!Next, Item!Replan
  <2> QED BY <1>1, <2>1, <2>2, <2>3, <2>4, <2>5 DEF PlannerStep
<1>2. ASSUME NEW e \in Editors, EditorStep(e) \/ EditCheck(e)
       PROVE  [Item!Next]_<<status, approval>>
  <2>1. CASE EditStore(e) \/ EditCheck(e)
    BY <2>1 DEF EditStore, EditCheck, itemVars
  <2>2. CASE EditReset(e)
    BY <2>2 DEF EditReset, itemVars, Item!Next, Item!Revise
  <2> QED BY <1>2, <2>1, <2>2 DEF EditorStep
<1>3. ASSUME NEW s \in Starters, StartGate(s) \/ StarterStep(s)
       PROVE  [Item!Next]_<<status, approval>>
  <2>1. CASE StartGate(s) \/ LoadPlan(s) \/ CreateExecution(s)
    BY <2>1 DEF StartGate, LoadPlan, CreateExecution, itemVars
  <2>2. CASE LaunchRun(s)
    BY <2>2 DEF LaunchRun, itemVars, AfterExecuting, Moved, Item!Next,
       Item!Execute, Item!Become, ApprovalGate
  <2> QED BY <1>3, <2>1, <2>2 DEF StarterStep
<1>4. ASSUME NEW s \in Starters, ExecuteStep(s) \/ LeaveStep(s)
       PROVE  [Item!Next]_<<status, approval>>
  <2>1. CASE MarkRunning(s) \/ RunLosesRow(s) \/ EnterStep(s) \/
     StopCancelled(s) \/ RunFails(s) \/ FinishRun(s) \/ LeaveStep(s)
    BY <2>1 DEF MarkRunning, RunLosesRow, EnterStep, StopCancelled, RunFails,
       FinishRun, LeaveStep, itemVars
  <2> QED BY <1>4, <2>1 DEF ExecuteStep
<1>5. ASSUME NEW s \in Starters, ConcludeStep(s)
       PROVE  [Item!Next]_<<status, approval>>
  <2>1. CASE ValidationDone(s) \/ RepairSucceeds(s)
    BY <2>1 DEF ValidationDone, RepairSucceeds, itemVars, AfterDone, Moved, Item!Next,
       Item!End, Item!Become
  <2>2. CASE ValidationFails(s) \/ RepairDenied(s) \/ RepairFails(s)
    BY <2>2 DEF ValidationFails, RepairDenied, RepairFails, itemVars,
       AfterFailed, Moved, Item!Next, Item!End, Item!Become
  <2>3. CASE ValidationWantsRepair(s) \/ TriggerGivesUp(s) \/
     OpenRepairSession(s)
    BY <2>3 DEF ValidationWantsRepair, TriggerGivesUp, OpenRepairSession,
       itemVars
  <2>4. CASE RepairAllowed(s)
    BY <2>4 DEF RepairAllowed, itemVars, AfterRepairing, Moved, Item!Next,
       Item!Repair, Item!Become
  <2> QED BY <1>5, <2>1, <2>2, <2>3, <2>4 DEF ConcludeStep
<1>6. CASE Approve
  BY <1>6 DEF Approve, itemVars, CanApprove, Item!Next, Item!Approve
<1>7. CASE CancelTask
  BY <1>7 DEF CancelTask, itemVars, CanCancel, Item!Next, Item!Cancel,
     Item!Become
<1>8. CASE CancelExecution \/ Crash
  BY <1>8 DEF CancelExecution, Crash, itemVars
<1>9. CASE PublishStep
  BY <1>9 DEF PublishStep, StartPublish, PublishingFails, FinishPublishing,
     HasSession, itemVars, AfterDone,
     Moved, Item!Next, Item!End, Item!Become
<1>10. CASE UNCHANGED vars
  BY <1>10 DEF vars, itemVars
<1> QED BY <1>1, <1>2, <1>3, <1>4, <1>5, <1>6, <1>7, <1>8, <1>9, <1>10 DEF Next

(* The handlers and goroutines, with their races and faults, implement the *)
(* documented life of a work item.                                         *)
THEOREM ImplementsItemLife == Spec => ItemKeepsItsLife
<1>1. Init => Item!Init
  BY DEF Init, Item!Init
<1> QED
  BY <1>1, ItemStep, ApprovalGateHolds, PTL
     DEF Spec, ItemKeepsItsLife, Item!Spec, Item!workItemVars

-----------------------------------------------------------------------------
(* The lives of the executions.                                            *)

(* One step of the task is, for every execution, a step of its outer life  *)
(* or no step at all.                                                      *)
LEMMA ExecutionStep ==
  TypeOK /\ VerdictInv /\ [Next]_vars =>
    \A t \in Starters : [Execution(t)!Next]_<<exec[t], OuterPhase(t)>>
<1> SUFFICES ASSUME TypeOK, VerdictInv, [Next]_vars, NEW t \in Starters
             PROVE  [Execution(t)!Next]_<<exec[t], OuterPhase(t)>>
  OBVIOUS
<1>1. ASSUME NEW p \in Planners, PlannerStep(p) \/ Replan(p)
       PROVE  [Execution(t)!Next]_<<exec[t], OuterPhase(t)>>
  <2>1. CASE StartPlanning(p) \/ PlanningFails(p) \/ PlannerGivesUp(p) \/
     StorePlan(p) \/ MarkPlanReady(p) \/ Replan(p)
    BY <2>1 DEF StartPlanning, PlanningFails, PlannerGivesUp, StorePlan,
       MarkPlanReady, Replan, itemVars, OuterPhase
  <2> QED BY <1>1, <2>1 DEF PlannerStep
<1>2. ASSUME NEW e \in Editors, EditorStep(e) \/ EditCheck(e)
       PROVE  [Execution(t)!Next]_<<exec[t], OuterPhase(t)>>
  <2>1. CASE EditStore(e) \/ EditReset(e) \/ EditCheck(e)
    BY <2>1 DEF EditStore, EditReset, EditCheck, itemVars, OuterPhase
  <2> QED BY <1>2, <2>1 DEF EditorStep
<1>3. ASSUME NEW s \in Starters, StartGate(s) \/ StarterStep(s)
       PROVE  [Execution(t)!Next]_<<exec[t], OuterPhase(t)>>
  <2>1. CASE StartGate(s) \/ LoadPlan(s)
    BY <2>1 DEF StartGate, LoadPlan, itemVars, OuterPhase
  <2>2. CASE CreateExecution(s)
    BY <2>2 DEF CreateExecution, itemVars, OuterPhase, Execution!Next,
       Execution!Insert, TypeOK, VerdictInv
  <2>3. CASE LaunchRun(s)
    BY <2>3 DEF LaunchRun, itemVars, OuterPhase, Execution!Next,
       Execution!Launch, TypeOK, VerdictInv
  <2> QED BY <1>3, <2>1, <2>2, <2>3 DEF StarterStep
<1>4. ASSUME NEW s \in Starters, ExecuteStep(s) \/ LeaveStep(s)
       PROVE  [Execution(t)!Next]_<<exec[t], OuterPhase(t)>>
  <2>1. CASE MarkRunning(s)
    BY <2>1 DEF MarkRunning, itemVars, OuterPhase, Execution!Next,
       Execution!MarkRunning, TypeOK
  <2>2. CASE RunLosesRow(s)
    BY <2>2 DEF RunLosesRow, itemVars, OuterPhase, Execution!Next,
       Execution!Stop, TypeOK
  <2>3. CASE EnterStep(s)
    BY <2>3 DEF EnterStep, itemVars, OuterPhase, Execution!Next,
       Execution!EnterStep, TypeOK
  <2>4. CASE StopCancelled(s)
    BY <2>4 DEF StopCancelled, itemVars, OuterPhase, Execution!Next,
       Execution!StopCancelled, TypeOK
  <2>5. CASE RunFails(s)
    BY <2>5 DEF RunFails, itemVars, OuterPhase, Execution!Next,
       Execution!Fail, TypeOK
  <2>6. CASE FinishRun(s)
    BY <2>6 DEF FinishRun, itemVars, OuterPhase, Execution!Next,
       Execution!Finish, TypeOK
  <2>7. CASE LeaveStep(s)
    BY <2>7 DEF LeaveStep, itemVars, OuterPhase, Execution!Next,
       Execution!LeaveStep, TypeOK
  <2> QED BY <1>4, <2>1, <2>2, <2>3, <2>4, <2>5, <2>6, <2>7 DEF ExecuteStep
<1>5. ASSUME NEW s \in Starters, ConcludeStep(s)
       PROVE  [Execution(t)!Next]_<<exec[t], OuterPhase(t)>>
  <2>1. CASE ValidationDone(s) \/ ValidationFails(s) \/ TriggerGivesUp(s) \/
     RepairDenied(s) \/ OpenRepairSession(s) \/ RepairSucceeds(s) \/ RepairFails(s)
    BY <2>1 DEF ValidationDone, ValidationFails, TriggerGivesUp, RepairDenied, OpenRepairSession,
       RepairSucceeds, RepairFails, itemVars, OuterPhase, Execution!Next,
       Execution!Stop, TypeOK
  <2>2. CASE ValidationWantsRepair(s) \/ RepairAllowed(s)
    BY <2>2 DEF ValidationWantsRepair, RepairAllowed, itemVars, OuterPhase,
       TypeOK
  <2> QED BY <1>5, <2>1, <2>2 DEF ConcludeStep
<1>6. CASE CancelExecution
  BY <1>6 DEF CancelExecution, itemVars, OuterPhase, Execution!Next,
     Execution!Cancel, TypeOK
<1>7. CASE Crash
  BY <1>7 DEF Crash, itemVars, OuterPhase, Execution!Next, Execution!Stop,
     TypeOK
<1>8. CASE Approve \/ CancelTask
  BY <1>8 DEF Approve, CancelTask, itemVars, OuterPhase
<1>9. CASE PublishStep
  BY <1>9 DEF PublishStep, StartPublish, PublishingFails, FinishPublishing,
     HasSession, itemVars, OuterPhase
<1>10. CASE UNCHANGED vars
  BY <1>10 DEF vars, itemVars, OuterPhase
<1> QED BY <1>1, <1>2, <1>3, <1>4, <1>5, <1>6, <1>7, <1>8, <1>9, <1>10 DEF Next

(* Each execution row and its goroutine keep to the outer life cycle that  *)
(* ExecutionRun implements in detail.                                      *)
THEOREM ImplementsExecutionLife == Spec => ExecutionsKeepTheirLife
<1>1. Init => VerdictInv /\ \A s \in Starters : Execution(s)!Init
  BY DEF Init, VerdictInv, Execution!Init, OuterPhase
<1>2. TypeOK /\ VerdictInv /\ [Next]_vars =>
        [\A s \in Starters : UNCHANGED <<exec[s], OuterPhase(s)>> \/ Execution(s)!Next]_vars
  BY ExecutionStep
<1> QED
  BY <1>1, <1>2, VerdictInvStep, TypeCorrect, PTL DEF Spec, ExecutionsKeepTheirLife
=============================================================================
