---------------------------- MODULE TaskLifecycle ----------------------------
(***************************************************************************)
(* One work item from its draft to its end: the handlers that plan, edit,  *)
(* approve, start, publish and cancel it, the goroutines that plan,        *)
(* execute, validate, repair and publish it, and the rows they share.      *)
(* Every database statement is one atomic step; between two statements of  *)
(* one handler every other handler may run.  The steps of a plan are       *)
(* abstracted to "one or more" (ExecutionRun has them), the validation run *)
(* to its outcome, the repair loop and a publishing session to their end.  *)
(***************************************************************************)
EXTENDS WorkItemRow, Naturals, FiniteSets

CONSTANTS
  Planners,    \* planning goroutines: the one of CreateTask and those of Replan
  Editors,     \* requests PUT /plan
  Starters,    \* requests POST /execute; each names the execution it creates
  MaxFaults    \* bound: faults of the backend and failures of statements

NoStarter == "no execution"

ASSUME PlannersAssumption == Planners # {} /\ IsFiniteSet(Planners)
ASSUME EditorsAssumption  == IsFiniteSet(Editors)
ASSUME StartersAssumption == NoStarter \notin Starters
ASSUME FaultsAssumption   == MaxFaults \in Nat

VARIABLES
  status,     \* work_items.status
  approval,   \* work_items.approval_status
  active,     \* version of the active plan, 0 before there is one
  planner,    \* [Planners -> state of runPlanning]
  editor,     \* [Editors -> state of UpdatePlan]
  starter,    \* [Starters -> state of StartExecution]
  planOf,     \* [Starters -> plan version the execution was created with]
  exec,       \* [Starters -> task_executions.status]
  latest,     \* the execution GetLatestForWorkItem returns
  publisher,  \* StartPublish, its goroutine, and what is left of its session
  run,        \* [Starters -> phase of the goroutine of the execution]
  verdict,    \* [Starters -> what validation and repair concluded, the end of the item]
  approved,   \* history: the plan versions a user approved
  faults      \* crashes and failures of statements

itemVars == <<status, approval, active, approved>>
vars == <<status, approval, active, planner, editor, starter, planOf, exec,
          latest, publisher, run, verdict, approved, faults>>

ExecStatuses == {"none", "pending", "running", "completed",
                 "completed_with_deviations", "failed", "cancelled"}
PlannerStates == {"unused", "requested", "streaming", "stored", "finished"}
EditorStates  == {"unused", "checked", "stored", "finished"}
StarterStates == {"unused", "gated", "loaded", "created", "finished"}
PublisherStates == {"idle", "publishing", "closed", "overtook"}
RunPhases == {"idle", "launched", "stepping", "inStep", "finishing",
              "validating", "repairGate", "repairSession", "repairing", "ended"}
Verdicts == {"none", "done", "failed"}

(* CreateTask has inserted the row and is about to start the planning.     *)
Init ==
  /\ status = "draft" /\ approval = "pending_review"
  /\ active = 0 /\ approved = {}
  /\ \E p \in Planners : planner = [q \in Planners |-> IF q = p THEN "requested" ELSE "unused"]
  /\ editor  = [e \in Editors |-> "unused"]
  /\ starter = [s \in Starters |-> "unused"]
  /\ planOf  = [s \in Starters |-> 0]
  /\ exec    = [s \in Starters |-> "none"]
  /\ run     = [s \in Starters |-> "idle"]
  /\ verdict = [s \in Starters |-> "none"]
  /\ latest = NoStarter /\ publisher = "idle"
  /\ faults = 0

Fault == faults < MaxFaults /\ faults' = faults + 1

Faulted == faults > 0

-----------------------------------------------------------------------------
(* Planning.                                                               *)

(* The end of CreateTask: when the row has left 'draft' (a cancellation)   *)
(* no planning is dispatched.                                              *)
StartPlanning(p) ==
  /\ planner[p] = "requested"
  /\ planner' = [planner EXCEPT ![p] = IF status = "draft" THEN "streaming" ELSE "finished"]
  /\ status' = AfterStartPlanning(status)
  /\ UNCHANGED <<approval, active, approved, editor, starter, planOf, exec, latest, publisher, run, verdict, faults>>

(* Replan: the approval is reset and a planner of its own is dispatched.   *)
Replan(p) ==
  /\ planner[p] = "unused" /\ CanReplan(status)
  /\ planner' = [planner EXCEPT ![p] = "streaming"]
  /\ status' = "planning" /\ approval' = "pending_review"
  /\ UNCHANGED <<active, approved, editor, starter, planOf, exec, latest, publisher, run, verdict, faults>>

(* runPlanning: a stream error, an error event, an invalid plan, a plan    *)
(* that cannot be stored.                                                  *)
PlanningFails(p) ==
  /\ planner[p] = "streaming"
  /\ planner' = [planner EXCEPT ![p] = "finished"]
  /\ status' = AfterPlanningFailed(status)
  /\ UNCHANGED <<approval, active, approved, editor, starter, planOf, exec, latest, publisher, run, verdict, faults>>

(* The item cannot be loaded, or a statement that moves it fails: the      *)
(* request, or runPlanning, ends and leaves the status as it is.           *)
PlannerGivesUp(p) ==
  /\ planner[p] \in {"requested", "streaming", "stored"} /\ Fault
  /\ planner' = [planner EXCEPT ![p] = "finished"]
  /\ UNCHANGED <<itemVars, editor, starter, planOf, exec, latest, publisher, run, verdict>>

(* runPlanning: CreatePlan, whatever the status of the item is by now.     *)
StorePlan(p) ==
  /\ planner[p] = "streaming"
  /\ planner' = [planner EXCEPT ![p] = "stored"]
  /\ active' = active + 1
  /\ UNCHANGED <<status, approval, approved, editor, starter, planOf, exec, latest, publisher, run, verdict, faults>>

MarkPlanReady(p) ==
  /\ planner[p] = "stored"
  /\ planner' = [planner EXCEPT ![p] = "finished"]
  /\ status' = AfterPlanReady(status)
  /\ UNCHANGED <<approval, active, approved, editor, starter, planOf, exec, latest, publisher, run, verdict, faults>>

-----------------------------------------------------------------------------
(* The user's decisions.                                                   *)

(* UpdatePlan reads the status, stores the plan, resets the approval: three*)
(* statements, and the reset does not look at the status again.            *)
EditCheck(e) ==
  /\ editor[e] = "unused" /\ status \in {"plan_ready", "plan_approved"}
  /\ editor' = [editor EXCEPT ![e] = "checked"]
  /\ UNCHANGED <<itemVars, planner, starter, planOf, exec, latest, publisher, run, verdict, faults>>

EditStore(e) ==
  /\ editor[e] = "checked"
  /\ \/ /\ editor' = [editor EXCEPT ![e] = "stored"]
        /\ active' = active + 1
        /\ UNCHANGED faults
     \/ /\ Fault                                         \* CreatePlan failed
        /\ editor' = [editor EXCEPT ![e] = "finished"]
        /\ UNCHANGED active
  /\ UNCHANGED <<status, approval, approved, planner, starter, planOf, exec, latest, publisher, run, verdict>>

(* ResetApprovalAfterEdit; an error of it is logged and the edit stands.   *)
EditReset(e) ==
  /\ editor[e] = "stored"
  /\ editor' = [editor EXCEPT ![e] = "finished"]
  /\ \/ status' = "plan_ready" /\ approval' = "pending_review" /\ UNCHANGED faults
     \/ Fault /\ UNCHANGED <<status, approval>>
  /\ UNCHANGED <<active, approved, planner, starter, planOf, exec, latest, publisher, run, verdict>>

(* ApproveTask: the approval carries no version, it is given to whatever   *)
(* plan is active when the row is updated.                                 *)
Approve ==
  /\ CanApprove(status)
  /\ status' = "plan_approved" /\ approval' = "approved"
  /\ approved' = approved \cup {active}
  /\ UNCHANGED <<active, planner, editor, starter, planOf, exec, latest, publisher, run, verdict, faults>>

(* CancelTask touches the item only: an execution under way goes on.       *)
CancelTask ==
  /\ CanCancel(status)
  /\ status' = "cancelled"
  /\ UNCHANGED <<approval, active, approved, planner, editor, starter, planOf, exec, latest, publisher, run, verdict, faults>>

-----------------------------------------------------------------------------
(* StartExecution: gate, plan, row, transition, in four statements.        *)

StartGate(s) ==
  /\ starter[s] = "unused"
  /\ approval = "approved" /\ status = "plan_approved"
  /\ starter' = [starter EXCEPT ![s] = "gated"]
  /\ UNCHANGED <<itemVars, planner, editor, planOf, exec, latest, publisher, run, verdict, faults>>

(* Without a ready workspace the request ends with 422.                    *)
LoadPlan(s) ==
  /\ starter[s] = "gated"
  /\ \/ /\ starter' = [starter EXCEPT ![s] = "loaded"]
        /\ active > 0
        /\ planOf' = [planOf EXCEPT ![s] = active]
     \/ /\ starter' = [starter EXCEPT ![s] = "finished"]
        /\ UNCHANGED planOf
  /\ UNCHANGED <<itemVars, planner, editor, exec, latest, publisher, run, verdict, faults>>

(* The new row is the latest one; a database error ends the request.       *)
CreateExecution(s) ==
  /\ starter[s] = "loaded"
  /\ \/ /\ starter' = [starter EXCEPT ![s] = "created"]
        /\ exec' = [exec EXCEPT ![s] = "pending"]
        /\ latest' = s
        /\ UNCHANGED faults
     \/ /\ Fault
        /\ starter' = [starter EXCEPT ![s] = "finished"]
        /\ UNCHANGED <<exec, latest>>
  /\ UNCHANGED <<itemVars, planner, editor, planOf, publisher, run, verdict>>

(* TransitionToExecuting, its result ignored, and go Run.                  *)
LaunchRun(s) ==
  /\ starter[s] = "created"
  /\ starter' = [starter EXCEPT ![s] = "finished"]
  /\ \/ status' = AfterExecuting(status) /\ UNCHANGED faults
     \/ Fault /\ UNCHANGED status
  /\ run' = [run EXCEPT ![s] = "launched"]
  /\ UNCHANGED <<approval, active, approved, planner, editor, planOf, exec, latest, publisher, verdict>>

-----------------------------------------------------------------------------
(* ExecutionOrchestrator.Run.                                              *)

(* Run drops the errors of the statements that mark its row and goes on.   *)

(* Faulty variant: the UPDATE without its guard on 'pending'.              *)
FaultyMarkRunning(s) ==
  /\ run[s] = "launched"
  /\ run' = [run EXCEPT ![s] = "stepping"]
  /\ exec' = [exec EXCEPT ![s] = "running"]
  /\ UNCHANGED <<itemVars, planner, editor, starter, planOf, latest, publisher, verdict, faults>>

MarkRunning(s) ==
  /\ run[s] = "launched"
  /\ run' = [run EXCEPT ![s] = "stepping"]
  /\ \/ exec' = [exec EXCEPT ![s] = IF @ = "pending" THEN "running" ELSE @] /\ UNCHANGED faults
     \/ Fault /\ UNCHANGED exec
  /\ UNCHANGED <<itemVars, planner, editor, starter, planOf, latest, publisher, verdict>>

(* GetExecution fails, or MarkFailed does: the goroutine returns and the   *)
(* row stays as it is.                                                     *)
RunLosesRow(s) ==
  /\ run[s] \in {"launched", "stepping", "inStep"} /\ Fault
  /\ run' = [run EXCEPT ![s] = "ended"]
  /\ UNCHANGED <<itemVars, planner, editor, starter, planOf, exec, latest, publisher, verdict>>

(* The poll finds no cancellation, or cannot read the row, and the step    *)
(* begins ...                                                              *)
EnterStep(s) ==
  /\ run[s] = "stepping"
  /\ \/ exec[s] # "cancelled" /\ UNCHANGED faults
     \/ Fault
  /\ run' = [run EXCEPT ![s] = "inStep"]
  /\ UNCHANGED <<itemVars, planner, editor, starter, planOf, exec, latest, publisher, verdict>>

(* ... or it finds one; MarkCancelled then changes nothing.                *)
StopCancelled(s) ==
  /\ run[s] = "stepping" /\ exec[s] = "cancelled"
  /\ run' = [run EXCEPT ![s] = "ended"]
  /\ UNCHANGED <<itemVars, planner, editor, starter, planOf, exec, latest, publisher, verdict, faults>>

(* A step ends: another poll follows, or the plan is at its end.           *)
LeaveStep(s) ==
  /\ run[s] = "inStep"
  /\ \E phase \in {"stepping", "finishing"} : run' = [run EXCEPT ![s] = phase]
  /\ UNCHANGED <<itemVars, planner, editor, starter, planOf, exec, latest, publisher, verdict, faults>>

(* A plan that cannot be ordered, an agent or database error: MarkFailed,  *)
(* without a guard and without a word to the work item.                    *)
RunFails(s) ==
  /\ run[s] \in {"stepping", "inStep"}
  /\ run' = [run EXCEPT ![s] = "ended"]
  /\ exec' = [exec EXCEPT ![s] = "failed"]
  /\ UNCHANGED <<itemVars, planner, editor, starter, planOf, latest, publisher, verdict, faults>>

(* MarkCompletedWithStatus has no guard either; then go validationTrigger. *)
FinishRun(s) ==
  /\ run[s] = "finishing"
  /\ run' = [run EXCEPT ![s] = "validating"]
  /\ \/ /\ \E final \in {"completed", "completed_with_deviations"} : exec' = [exec EXCEPT ![s] = final]
        /\ UNCHANGED faults
     \/ Fault /\ UNCHANGED exec
  /\ UNCHANGED <<itemVars, planner, editor, starter, planOf, latest, publisher, verdict>>

(* CancelExecution marks the latest execution of the item.                 *)
CancelExecution ==
  /\ latest \in Starters
  /\ exec[latest] \notin {"completed", "failed", "cancelled"}
  /\ exec' = [exec EXCEPT ![latest] = "cancelled"]
  /\ UNCHANGED <<itemVars, planner, editor, starter, planOf, latest, publisher, run, verdict, faults>>

-----------------------------------------------------------------------------
(* The validation trigger and the repair.                                  *)

Conclude(s, v) == verdict' = [verdict EXCEPT ![s] = v]

(* passed marks the item done, and so does failed_environment.             *)
ValidationDone(s) ==
  /\ run[s] = "validating" /\ Conclude(s, "done")
  /\ run' = [run EXCEPT ![s] = "ended"]
  /\ status' = AfterDone(status)
  /\ UNCHANGED <<approval, active, approved, planner, editor, starter, planOf, exec, latest, publisher, faults>>

(* failed_requires_human, an error of the run, no result: failed.          *)
ValidationFails(s) ==
  /\ run[s] = "validating" /\ Conclude(s, "failed")
  /\ run' = [run EXCEPT ![s] = "ended"]
  /\ status' = AfterFailed(status)
  /\ UNCHANGED <<approval, active, approved, planner, editor, starter, planOf, exec, latest, publisher, faults>>

ValidationWantsRepair(s) ==
  /\ run[s] = "validating"
  /\ run' = [run EXCEPT ![s] = "repairGate"]
  /\ UNCHANGED <<itemVars, planner, editor, starter, planOf, exec, latest, publisher, verdict, faults>>

(* The trigger, or the repair, cannot load the execution or the validation *)
(* run, or the statement that moves the item fails: the goroutine ends.    *)
TriggerGivesUp(s) ==
  /\ run[s] \in {"validating", "repairGate", "repairing"} /\ Fault
  /\ run' = [run EXCEPT ![s] = "ended"]
  /\ UNCHANGED <<itemVars, planner, editor, starter, planOf, exec, latest, publisher, verdict>>

(* Faulty variant: a denied repair validates again.                        *)
FaultyRepairDenied(s) ==
  /\ run[s] = "repairGate"
  /\ run' = [run EXCEPT ![s] = "validating"]
  /\ UNCHANGED <<itemVars, planner, editor, starter, planOf, exec, latest, publisher, verdict, faults>>

RepairDenied(s) ==
  /\ run[s] = "repairGate" /\ Conclude(s, "failed")
  /\ run' = [run EXCEPT ![s] = "ended"]
  /\ status' = AfterFailed(status)
  /\ UNCHANGED <<approval, active, approved, planner, editor, starter, planOf, exec, latest, publisher, faults>>

(* TransitionToRepairing moves no row when the item has left 'executing';  *)
(* the repair goes on all the same.                                        *)
RepairAllowed(s) ==
  /\ run[s] = "repairGate"
  /\ run' = [run EXCEPT ![s] = "repairSession"]
  /\ status' = AfterRepairing(status)
  /\ UNCHANGED <<approval, active, approved, planner, editor, starter, planOf, exec, latest, publisher, verdict, faults>>

(* CreateSession; its failure ends the repair and leaves the item as it is.*)
OpenRepairSession(s) ==
  /\ run[s] = "repairSession"
  /\ \/ run' = [run EXCEPT ![s] = "repairing"] /\ UNCHANGED faults
     \/ run' = [run EXCEPT ![s] = "ended"] /\ Fault
  /\ UNCHANGED <<itemVars, planner, editor, starter, planOf, exec, latest, publisher, verdict>>

RepairSucceeds(s) ==
  /\ run[s] = "repairing" /\ Conclude(s, "done")
  /\ run' = [run EXCEPT ![s] = "ended"]
  /\ status' = AfterDone(status)
  /\ UNCHANGED <<approval, active, approved, planner, editor, starter, planOf, exec, latest, publisher, faults>>

RepairFails(s) ==
  /\ run[s] = "repairing" /\ Conclude(s, "failed")
  /\ run' = [run EXCEPT ![s] = "ended"]
  /\ status' = AfterFailed(status)
  /\ UNCHANGED <<approval, active, approved, planner, editor, starter, planOf, exec, latest, publisher, faults>>

-----------------------------------------------------------------------------
(* Publishing, as far as it meets the item: one session at a time (what    *)
(* requests that race for it do, and the steps of it, are in Publishing).  *)

(* StartPublish takes a validated item, and one that is only approved.     *)
StartPublish ==
  /\ publisher = "idle" /\ status \in {"done", "plan_approved"}
  /\ publisher' = "publishing"
  /\ UNCHANGED <<itemVars, planner, editor, starter, planOf, exec, latest, run, verdict, faults>>

(* It wants an execution next, however far that is, and then launches Run, *)
(* which opens the session.  There always is a latest execution once there *)
(* was one, so the steps that need it may look for it themselves.          *)
HasSession == publisher = "publishing" /\ latest \in Starters

(* The request is refused, or a step returns an error: the failed session  *)
(* may be retried.  When MarkSessionFailed fails it stays open, and refuses*)
(* every retry.                                                            *)
PublishingFails ==
  /\ \/ publisher = "publishing" /\ publisher' = "idle" /\ UNCHANGED faults
     \/ HasSession /\ publisher' = "closed" /\ Fault
  /\ UNCHANGED <<itemVars, planner, editor, starter, planOf, exec, latest, run, verdict>>

(* TransitionToDone, its error dropped: it ends an item that is executing  *)
(* or under repair by now, and then the publisher overtook the verdict.    *)
FinishPublishing ==
  /\ HasSession
  /\ \/ /\ publisher' = IF AfterDone(status) = status THEN "closed" ELSE "overtook"
        /\ status' = AfterDone(status)
        /\ UNCHANGED faults
     \/ publisher' = "closed" /\ Fault /\ UNCHANGED status
  /\ UNCHANGED <<approval, active, approved, planner, editor, starter, planOf, exec, latest, run, verdict>>

-----------------------------------------------------------------------------
(* The process dies: goroutines and requests are gone, rows stay, that of a*)
(* publishing session too.  main resumes nothing at startup.               *)
Crash ==
  /\ Fault
  /\ planner' = [p \in Planners |-> IF planner[p] = "unused" THEN "unused" ELSE "finished"]
  /\ editor'  = [e \in Editors |-> IF editor[e] = "unused" THEN "unused" ELSE "finished"]
  /\ starter' = [s \in Starters |-> IF starter[s] = "unused" THEN "unused" ELSE "finished"]
  /\ run'     = [s \in Starters |-> IF run[s] = "idle" /\ starter[s] = "unused" THEN "idle" ELSE "ended"]
  /\ publisher' \in IF publisher # "publishing" THEN {publisher}
                    ELSE IF HasSession THEN {"idle", "closed"} ELSE {"idle"}
  /\ UNCHANGED <<itemVars, planOf, exec, latest, verdict>>

PlannerStep(p) ==
  StartPlanning(p) \/ PlanningFails(p) \/ PlannerGivesUp(p) \/ StorePlan(p) \/ MarkPlanReady(p)

EditorStep(e) == EditStore(e) \/ EditReset(e)

StarterStep(s) == LoadPlan(s) \/ CreateExecution(s) \/ LaunchRun(s)

ExecuteStep(s) ==
  \/ MarkRunning(s) \/ RunLosesRow(s) \/ EnterStep(s) \/ StopCancelled(s) \/ RunFails(s) \/ FinishRun(s)

ConcludeStep(s) ==
  \/ ValidationDone(s) \/ ValidationFails(s) \/ ValidationWantsRepair(s)
  \/ TriggerGivesUp(s) \/ RepairDenied(s) \/ RepairAllowed(s)
  \/ OpenRepairSession(s) \/ RepairSucceeds(s) \/ RepairFails(s)

PublishStep == StartPublish \/ PublishingFails \/ FinishPublishing

Next ==
  \/ \E p \in Planners : PlannerStep(p) \/ Replan(p)
  \/ \E e \in Editors : EditorStep(e) \/ EditCheck(e)
  \/ \E s \in Starters :
       StartGate(s) \/ StarterStep(s) \/ ExecuteStep(s) \/ LeaveStep(s) \/ ConcludeStep(s)
  \/ Approve \/ CancelTask \/ CancelExecution \/ PublishStep \/ Crash

Spec == Init /\ [][Next]_vars

(* What the code schedules by itself: goroutines and requests that began   *)
(* go on (planning, each step and each validation stage has a timeout; the *)
(* repair stream has none, so nothing ends a repair), and the finitely many*)
(* steps of a plan run out.  Users owe nothing.                            *)
Fairness ==
  /\ \A p \in Planners : WF_vars(PlannerStep(p))
  /\ \A e \in Editors : WF_vars(EditorStep(e))
  /\ \A s \in Starters :
       /\ WF_vars(StarterStep(s)) /\ WF_vars(ExecuteStep(s))
       /\ WF_vars(run[s] # "repairing" /\ ConcludeStep(s))
       /\ SF_vars(LeaveStep(s) /\ run'[s] = "finishing")

FairSpec == Spec /\ Fairness
-----------------------------------------------------------------------------
(* Properties.                                                             *)

(* Every variable has its type; the latest execution is one that exists.   *)
TypeOK ==
  /\ status \in WorkItemStatuses /\ approval \in ApprovalStatuses
  /\ active \in Nat /\ approved \subseteq Nat
  /\ planner \in [Planners -> PlannerStates]
  /\ editor \in [Editors -> EditorStates]
  /\ starter \in [Starters -> StarterStates]
  /\ planOf \in [Starters -> Nat]
  /\ exec \in [Starters -> ExecStatuses]
  /\ run \in [Starters -> RunPhases]
  /\ verdict \in [Starters -> Verdicts]
  /\ latest \in Starters \cup {NoStarter}
  /\ (latest \in Starters => exec[latest] # "none")
  /\ publisher \in PublisherStates
  /\ faults \in 0..MaxFaults

(* The hard gate: no item is approved, runs, or has run to an end while its*)
(* approval is pending, even when an edit, a re-plan and an execution that *)
(* is under way interleave.                                                *)
ApprovalGate ==
  status \in {"plan_approved", "executing", "repairing", "done", "failed"}
    => approval = "approved"

(* UpdatePlan has not stored a plan yet.                                   *)
NoEdits == \A e \in Editors : editor[e] \in {"unused", "checked"}

(* As long as no edit was stored, an execution runs a plan that a user     *)
(* approved, and while it is under way that plan stays the active one      *)
(* (which the task page and the publishing step read): StartExecution      *)
(* checks the approval and loads the plan in different statements, and a   *)
(* planner stores its plan without looking at the status.                  *)
ExecutedPlanWasApproved ==
  NoEdits => \A s \in Starters :
    /\ exec[s] # "none" => planOf[s] \in approved
    /\ run[s] \notin {"idle", "ended"} => planOf[s] = active

(* A user edit requires re-approval: every execution runs an approved plan.*)
EditsRequireApproval ==
  \A s \in Starters : exec[s] # "none" => planOf[s] \in approved

(* A verdict of validation and repair, of an execution that went to its end*)
(* (its row says so unless that statement failed).                         *)
GoodVerdict(s) ==
  /\ verdict[s] = "done"
  /\ exec[s] \in {"completed", "completed_with_deviations", "cancelled"} \/ Faulted

(* An item is done on a verdict, or because a publisher that was let in at *)
(* plan_approved ended while an execution of it was under way; and, unless *)
(* edits interfere, that execution ran an approved plan, whatever other    *)
(* executions of the item are still under way.                             *)
DoneByApprovedPlan ==
  status = "done" =>
    \E s \in Starters :
       /\ GoodVerdict(s) \/ (publisher = "overtook" /\ exec[s] # "none")
       /\ NoEdits => planOf[s] \in approved

(* "task must be in done state (validated) before publishing": no item is  *)
(* done without a verdict.                                                 *)
DoneMeansValidated == status = "done" => \E s \in Starters : GoodVerdict(s)

(* An item leaves 'planning' unless a fault takes its planner: no          *)
(* interleaving of re-plans, edits and cancellations leaves it there.      *)
PlanningEnds == status = "planning" ~> (status # "planning" \/ Faulted)

(* The verdict of a validation that began reaches the item, unless it is   *)
(* handed to the repair loop, which nothing forces to end.                 *)
VerdictReachesItem ==
  \A s \in Starters :
    run[s] = "validating" /\ status = "executing" ~>
      (status \notin {"executing", "repairing"} \/ run[s] = "repairing" \/ Faulted)

(* "Called when execution or repair fails": an execution that failed takes *)
(* its item out of 'executing'.                                            *)
FailedExecutionEndsTask ==
  \A s \in Starters :
    exec[s] = "failed" /\ latest = s /\ status = "executing" ~>
      (status # "executing" \/ Faulted)

-----------------------------------------------------------------------------
(* Refinements.                                                            *)

(* Seen from outside, a run that repairs is still validating.              *)
OuterPhase(s) ==
  IF run[s] \in {"repairGate", "repairSession", "repairing"} THEN "validating" ELSE run[s]

Execution(s) == INSTANCE ExecutionLifecycle WITH status <- exec[s], phase <- OuterPhase(s)

(* Each execution row and its goroutine keep to the outer life cycle: the  *)
(* conjunction of Execution(s)!Spec over the executions.                   *)
ExecutionsKeepTheirLife ==
  /\ \A s \in Starters : Execution(s)!Init
  /\ [][\A s \in Starters : UNCHANGED <<exec[s], OuterPhase(s)>> \/ Execution(s)!Next]_vars

Item == INSTANCE WorkItemLifecycle

(* The item only makes the transitions of its life cycle.                  *)
ItemKeepsItsLife == Item!Spec
=============================================================================
