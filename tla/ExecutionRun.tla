----------------------------- MODULE ExecutionRun -----------------------------
(***************************************************************************)
(* ExecutionOrchestrator.Run: one execution, its steps in the order that   *)
(* resolveOrderedSteps gave them, one agent stream per step, while the user*)
(* may cancel and the process may die between any two database statements. *)
(* The steps are numbered by their position in that order, so a dependency *)
(* always has a smaller number (PlanOrder checks that ordering).           *)
(***************************************************************************)
EXTENDS PlanSteps, FiniteSets

CONSTANT MaxFaults  \* bound: faults of the process and failures of statements

ASSUME FaultsAssumption == MaxFaults \in Nat

VARIABLES
  deps,        \* [Steps -> set of steps]: _dep_stable_ids
  status,      \* task_executions.status
  phase,       \* where the goroutine stands
  pos,         \* the step the loop is at, N + 1 after the last
  row,         \* [Steps -> step_executions.status], "none" before the insert
  result,      \* history: [Steps -> how the step ended], "called" while the agent works
  lost,        \* history: the steps whose last statement failed unnoticed
  blocked,     \* deviatedOrFailed, a local variable of Run
  deviation,   \* stepDeviation of the step that streams
  checkpoints, \* the steps that have an execution_checkpoints row
  begunLate,   \* history: agent calls begun since the user cancelled and the poll can read
  faults       \* crashes and failures of statements

stepVars == <<row, result, lost>>
vars == <<deps, status, phase, pos, stepVars, blocked, deviation, checkpoints, begunLate, faults>>

ExecStatuses == {"pending", "running", "completed", "completed_with_deviations",
                 "failed", "cancelled"}
StepStatuses == {"none", "pending", "running", "completed", "failed", "deviated", "skipped"}
Results == {"none", "called", "completed", "failed", "deviated", "skipped"}
Phases == {"launched", "resolving", "polling", "dispatching", "created", "streaming",
           "checkpointing", "failing", "finishing", "validating", "ended"}
(* The events that set stepDeviation; "satisfied" is a plan_deviation whose*)
(* message begins with already_satisfied.                                  *)
Deviations == {"no", "plan", "satisfied", "human", "error"}

(* StartExecution has inserted the row and started the goroutine.          *)
Init ==
  /\ deps \in [Steps -> SUBSET Steps]
  /\ \A i \in Steps : \A d \in deps[i] : d < i
  /\ status = "pending" /\ phase = "launched" /\ pos = 1
  /\ row = [i \in Steps |-> "none"] /\ result = [i \in Steps |-> "none"]
  /\ lost = {}
  /\ blocked = {} /\ checkpoints = {}
  /\ deviation = "no"
  /\ begunLate = 0 /\ faults = 0

Fault == faults < MaxFaults /\ faults' = faults + 1

(* Run drops the errors of the statements that mark a row: such a statement*)
(* either writes or leaves the row as it is, and Run goes on either way.   *)
Mark(to) ==
  \/ status' = to /\ UNCHANGED faults
  \/ Fault /\ UNCHANGED status

MarkStep(to) ==
  \/ row' = [row EXCEPT ![pos] = to] /\ lost' = lost \ {pos} /\ UNCHANGED faults
  \/ Fault /\ lost' = lost \cup {pos} /\ UNCHANGED row

MarkRunning ==
  /\ phase = "launched" /\ phase' = "resolving"
  /\ Mark(IF status = "pending" THEN "running" ELSE status)
  /\ UNCHANGED <<deps, pos, stepVars, blocked, deviation, checkpoints, begunLate>>

(* The execution cannot be loaded: Run returns at once.                    *)
LoseExecution ==
  /\ phase = "launched" /\ Fault /\ phase' = "ended"
  /\ UNCHANGED <<deps, status, pos, stepVars, blocked, deviation, checkpoints, begunLate>>

(* resolveOrderedSteps and the execution context: good, or MarkFailed.     *)
ResolveSteps ==
  /\ phase = "resolving"
  /\ phase' \in {"polling", "failing"}
  /\ UNCHANGED <<deps, status, pos, stepVars, blocked, deviation, checkpoints, begunLate, faults>>

-----------------------------------------------------------------------------
(* The loop over the steps.                                                *)

(* Faulty variant: the poll only looks for executions that failed.         *)
FaultyPoll ==
  /\ phase = "polling" /\ pos \in Steps
  /\ phase' = IF status = "failed" THEN "ended" ELSE "dispatching"
  /\ UNCHANGED <<deps, status, pos, stepVars, blocked, deviation, checkpoints, begunLate, faults>>

(* isCancelled; MarkCancelled after it finds the row cancelled already. A  *)
(* read that fails counts as "not cancelled".                              *)
Poll ==
  /\ phase = "polling" /\ pos \in Steps
  /\ \/ /\ phase' = IF status = "cancelled" THEN "ended" ELSE "dispatching"
        /\ UNCHANGED <<begunLate, faults>>
     \/ /\ Fault /\ begunLate' = 0
        /\ phase' = "dispatching"
  /\ UNCHANGED <<deps, status, pos, stepVars, blocked, deviation, checkpoints>>

(* findBlockingDep                                                         *)
Blocking(i) == deps[i] \cap blocked

(* Faulty variant: a skipped step does not block the steps behind it.      *)
FaultySkipStep ==
  /\ phase = "dispatching" /\ Blocking(pos) # {}
  /\ MarkStep("skipped")
  /\ result' = [result EXCEPT ![pos] = "skipped"]
  /\ pos' = pos + 1
  /\ phase' = "polling"
  /\ UNCHANGED <<deps, status, blocked, deviation, checkpoints, begunLate>>

(* A blocked step is recorded as skipped (unless its row cannot be made or *)
(* marked) and blocks the steps behind it in turn.                         *)
SkipStep ==
  /\ phase = "dispatching" /\ Blocking(pos) # {}
  /\ \/ MarkStep("skipped")
     \/ Fault /\ lost' = lost \cup {pos} /\ row' = [row EXCEPT ![pos] = "pending"]
  /\ result' = [result EXCEPT ![pos] = "skipped"]
  /\ blocked' = blocked \cup {pos}
  /\ pos' = pos + 1
  /\ phase' = "polling"
  /\ UNCHANGED <<deps, status, deviation, checkpoints, begunLate>>

CreateStep ==
  /\ phase = "dispatching" /\ Blocking(pos) = {}
  /\ \/ /\ row' = [row EXCEPT ![pos] = "pending"]
        /\ phase' = "created"
        /\ UNCHANGED faults
     \/ Fault /\ phase' = "failing" /\ UNCHANGED row
  /\ UNCHANGED <<deps, status, pos, result, lost, blocked, deviation, checkpoints, begunLate>>

(* MarkStepRunning, the token, the call of the agent.                      *)
BeginStep ==
  /\ phase = "created"
  /\ MarkStep("running")
  /\ result' = [result EXCEPT ![pos] = "called"]
  /\ deviation' = "no"
  /\ begunLate' = IF status = "cancelled" THEN begunLate + 1 ELSE begunLate
  /\ phase' = "streaming"
  /\ UNCHANGED <<deps, status, pos, blocked, checkpoints>>

(* handleStepEvent: the last deviation the agent reports is the one kept;  *)
(* one with an empty message counts as none.                               *)
ReceiveDeviation ==
  /\ phase = "streaming"
  /\ deviation' \in Deviations
  /\ UNCHANGED <<deps, status, phase, pos, stepVars, blocked, checkpoints, begunLate, faults>>

(* An error event, a broken stream, the step's timeout: the step is failed *)
(* here and the execution in the next statement, whatever was reported.    *)
StreamFails ==
  /\ phase = "streaming"
  /\ MarkStep("failed")
  /\ result' = [result EXCEPT ![pos] = "failed"]
  /\ phase' = "failing"
  /\ UNCHANGED <<deps, status, pos, blocked, deviation, checkpoints, begunLate>>

(* Faulty variant: a step that needs a human does not block.               *)
FaultyBlocks(d) == d \in {"plan", "error"}

(* Which deviations block the steps that depend on the step.               *)
Blocks(d) == d \in {"plan", "human", "error"}

(* What MarkStep... leaves in the row of a step whose stream ended well.   *)
StepOutcome(d) ==
  CASE d \in {"no", "satisfied"} -> "completed"
    [] d = "error"               -> "failed"
    [] d \in {"plan", "human"}   -> "deviated"

StreamEnds ==
  /\ phase = "streaming"
  /\ MarkStep(StepOutcome(deviation))
  /\ result' = [result EXCEPT ![pos] = StepOutcome(deviation)]
  /\ blocked' = IF Blocks(deviation) THEN blocked \cup {pos} ELSE blocked
  /\ phase' = "checkpointing"
  /\ UNCHANGED <<deps, status, pos, deviation, checkpoints, begunLate>>

SaveCheckpoint ==
  /\ phase = "checkpointing"
  /\ \/ checkpoints' = checkpoints \cup {pos} /\ UNCHANGED faults
     \/ Fault /\ UNCHANGED checkpoints
  /\ pos' = pos + 1
  /\ phase' = "polling"
  /\ UNCHANGED <<deps, status, stepVars, blocked, deviation, begunLate>>

-----------------------------------------------------------------------------
(* The end of Run.                                                         *)

LeaveLoop ==
  /\ phase = "polling" /\ pos = N + 1
  /\ phase' = "finishing"
  /\ UNCHANGED <<deps, status, pos, stepVars, blocked, deviation, checkpoints, begunLate, faults>>

(* Faulty variant: the final status looks at the last step only.           *)
FaultyFinalStatus == IF N \in blocked THEN "completed_with_deviations" ELSE "completed"

FinalStatus == IF blocked # {} THEN "completed_with_deviations" ELSE "completed"

(* MarkCompletedWithStatus, an error of which is logged; then, in either   *)
(* case, go validationTrigger.                                             *)
FinishRun ==
  /\ phase = "finishing"
  /\ Mark(FinalStatus)
  /\ phase' = "validating"
  /\ UNCHANGED <<deps, pos, stepVars, blocked, deviation, checkpoints, begunLate>>

(* Faulty variant: Run returns and leaves the row as it is.                *)
FaultyMarkFailed ==
  /\ phase = "failing"
  /\ phase' = "ended"
  /\ UNCHANGED <<deps, status, pos, stepVars, blocked, deviation, checkpoints, begunLate, faults>>

MarkFailed ==
  /\ phase = "failing"
  /\ Mark("failed")
  /\ phase' = "ended"
  /\ UNCHANGED <<deps, pos, stepVars, blocked, deviation, checkpoints, begunLate>>

(* MarkCancelled, from the cancel request.                                 *)
Cancel ==
  /\ status \notin {"completed", "failed", "cancelled"}
  /\ status' = "cancelled"
  /\ UNCHANGED <<deps, phase, pos, stepVars, blocked, deviation, checkpoints, begunLate, faults>>

(* The process dies; nothing takes the execution up again.                 *)
Crash ==
  /\ phase # "ended" /\ Fault
  /\ phase' = "ended"
  /\ UNCHANGED <<deps, status, pos, stepVars, blocked, deviation, checkpoints, begunLate>>

RunStep ==
  \/ MarkRunning \/ LoseExecution \/ ResolveSteps
  \/ Poll \/ SkipStep \/ CreateStep \/ BeginStep \/ StreamFails \/ StreamEnds
  \/ SaveCheckpoint \/ LeaveLoop \/ FinishRun \/ MarkFailed

Next == RunStep \/ ReceiveDeviation \/ Cancel \/ Crash

Spec == Init /\ [][Next]_vars

(* The goroutine goes on; a step's stream ends at the latest at stepTimeout*)
(* (StreamFails), so no fairness is asked of the agent.                    *)
FairSpec == Spec /\ WF_vars(RunStep)

-----------------------------------------------------------------------------
(* Properties.                                                             *)

(* Every variable has its type; within a step the loop stands at a step.   *)
TypeOK ==
  /\ deps \in [Steps -> SUBSET Steps]
  /\ status \in ExecStatuses /\ phase \in Phases
  /\ pos \in 1..(N + 1)
  /\ (phase \in {"dispatching", "created", "streaming", "checkpointing"} => pos \in Steps)
  /\ row \in [Steps -> StepStatuses] /\ result \in [Steps -> Results]
  /\ lost \subseteq Steps
  /\ blocked \subseteq Steps /\ checkpoints \subseteq Steps
  /\ deviation \in Deviations
  /\ begunLate \in Nat /\ faults \in Nat

Attempted(i) == result[i] \notin {"none", "skipped"}

(* A step is attempted only when every step it depends on was completed:   *)
(* not deviated, not failed, not skipped, not merely begun; whatever became*)
(* of the rows that say so.                                                *)
DepsHonoured == \A i \in Steps : Attempted(i) => \A d \in deps[i] : result[d] = "completed"

(* "completed" is said only when every step is, and "with deviations" only *)
(* when some step is not; and whichever way the goroutine settles the row, *)
(* also by a failure, the task view tells how each step ended, but for the *)
(* steps whose last statement was lost.                                    *)
FinalStatusAccurate ==
  /\ status = "completed" => \A i \in Steps : result[i] = "completed"
  /\ status = "completed_with_deviations" => \E i \in Steps : result[i] # "completed"
  /\ status \in {"completed", "completed_with_deviations", "failed"} =>
       \A i \in Steps \ lost : row[i] = result[i]

(* After the user cancelled at most one more agent call begins, the one    *)
(* whose poll came first; a poll that cannot read the row starts the count *)
(* anew.                                                                   *)
CancelStopsTheNextStep == begunLate <= 1

(* Each step of the chain depends on the one before it.                    *)
IsChain(c, n) == \A k \in 1..(n - 1) : c[k] \in deps[c[k + 1]]

Troubled(i) == result[i] \in {"deviated", "failed"}

(* A step behind the loop was skipped exactly when a chain of dependencies *)
(* leads to it from a step that itself deviated or failed: findBlockingDep *)
(* looks one dependency deep and the marks carry the rest.                 *)
SkippedIffBehindATroubledStep ==
  \A i \in Steps : i < pos =>
    (result[i] = "skipped" <=>
       \E n \in 2..N : \E c \in [1..n -> Steps] : c[n] = i /\ IsChain(c, n) /\ Troubled(c[1]))

(* Every run ends with a final status in its row, unless it crashes.       *)
RunSettles ==
  phase = "resolving" ~>
    \/ faults > 0
    \/ status \in {"completed", "completed_with_deviations", "failed", "cancelled"}

(* From outside the loop is one phase, and a step is what happens between  *)
(* the poll and the next one.                                              *)
OuterPhase ==
  CASE phase = "launched" -> "launched"
    [] phase \in {"resolving", "polling", "failing"} -> "stepping"
    [] phase \in {"dispatching", "created", "streaming", "checkpointing"} -> "inStep"
    [] phase \in {"finishing", "validating", "ended"} -> phase

Outer == INSTANCE ExecutionLifecycle WITH phase <- OuterPhase

(* Run implements the life cycle that TaskLifecycle works with, from the   *)
(* launch of the goroutine on.                                             *)
KeepsItsLife == [][Outer!Next]_<<status, OuterPhase>>
=============================================================================
