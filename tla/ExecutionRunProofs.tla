-------------------------- MODULE ExecutionRunProofs --------------------------
(***************************************************************************)
(* What holds of one execution for any plan, of any length; and that the   *)
(* validation and the ordering of a plan, in PlanOrder, give an execution  *)
(* the dependencies it starts from.                                        *)
(***************************************************************************)
EXTENDS ExecutionRun, PlanOrder, FiniteSetTheorems, SequenceTheorems, TLAPS

-----------------------------------------------------------------------------
(* The inductive invariant.                                                *)

FinalStatuses == {"completed", "completed_with_deviations", "failed"}

(* The loop runs over the steps in their order: nothing happens ahead of   *)
(* it, and what it left behind is completed or blocks.                     *)
OrderInv ==
  /\ \A i \in Steps : \A d \in deps[i] : d < i
  /\ \A i \in Steps : result[i] # "none" => i <= pos
  /\ \A i \in Steps : i < pos /\ i \notin blocked => result[i] = "completed"
  /\ \A i \in blocked : i <= pos /\ result[i] \notin {"none", "called", "completed"}
  /\ pos \in blocked => phase \in {"checkpointing", "ended"}

(* How far the step at hand is in each phase.                              *)
StepInv ==
  /\ phase \in {"launched", "resolving"} => pos = 1 /\ blocked = {}
  /\ phase \in {"launched", "resolving", "polling", "dispatching", "created"} =>
       \A i \in Steps : i = pos => result[i] = "none"
  /\ phase \in {"created", "streaming", "checkpointing"} => Blocking(pos) = {}
  /\ phase = "checkpointing" /\ pos \notin blocked => result[pos] = "completed"
  /\ phase = "finishing" => pos = N + 1
  /\ \A i \in Steps : result[i] = "called" =>
       i = pos /\ phase \in {"streaming", "ended"}

(* A row tells how its step ended, but while the step is under way, when a *)
(* statement was lost, and when the process died in the middle.            *)
RowInv ==
  /\ \A i \in Steps \ lost :
       \/ row[i] = result[i]
       \/ i = pos /\ phase \in {"created", "streaming"}
       \/ phase = "ended" /\ status \notin FinalStatuses
  /\ \A i \in Steps : i > pos => i \notin lost /\ row[i] = "none"
  /\ phase \in {"launched", "resolving", "polling", "dispatching"} =>
       \A i \in Steps : i = pos => i \notin lost /\ row[i] = "none"

(* A final status is given last, and it says what became of the steps.     *)
FinalInv ==
  /\ status \in FinalStatuses => phase \in {"validating", "ended"}
  /\ status = "completed" => \A i \in Steps : result[i] = "completed"
  /\ status = "completed_with_deviations" => \E i \in Steps : result[i] # "completed"

RunInv == OrderInv /\ StepInv /\ RowInv /\ FinalInv /\ DepsHonoured

(* Once an agent call has begun after the cancellation, the row says       *)
(* "cancelled" until the goroutine ends, so the next poll sees it.         *)
CancelInv ==
  /\ begunLate \in {0, 1}
  /\ begunLate = 1 => phase \notin {"launched", "resolving", "dispatching", "created"}
  /\ begunLate = 1 /\ phase \in {"streaming", "checkpointing", "polling"} => status = "cancelled"
-----------------------------------------------------------------------------
(* Proofs.                                                                 *)

(* The statement that marks a step keeps the types of what it writes.      *)
LEMMA MarkStepType ==
  ASSUME TypeOK, pos \in Steps, NEW to \in StepStatuses, MarkStep(to)
  PROVE  row' \in [Steps -> StepStatuses] /\ lost' \subseteq Steps /\ faults' \in Nat
<1>1. row' \in [Steps -> StepStatuses]
  BY DEF TypeOK, MarkStep
<1>2. lost' = lost \/ lost' = lost \cup {pos} \/ lost' = lost \ {pos}
  BY DEF MarkStep
<1>3. lost' \subseteq Steps
  BY <1>2 DEF TypeOK
<1>4. faults' = faults \/ faults' = faults + 1
  BY DEF MarkStep, Fault
<1>5. faults' \in Nat
  BY <1>4 DEF TypeOK
<1> QED BY <1>1, <1>3, <1>5

(* A step keeps every variable in its type.                                *)
LEMMA TypeStep == TypeOK /\ [Next]_vars => TypeOK'
<1> SUFFICES ASSUME TypeOK, [Next]_vars PROVE TypeOK'
  OBVIOUS
<1> USE StepsAssumption, FaultsAssumption
    DEF TypeOK, Steps, ExecStatuses, Phases, StepStatuses, Results, Deviations,
        stepVars, Fault, Mark
<1>1. CASE MarkRunning
  BY <1>1 DEF MarkRunning
<1>2. CASE LoseExecution
  BY <1>2 DEF LoseExecution
<1>3. CASE ResolveSteps
  BY <1>3 DEF ResolveSteps
<1>4. CASE Poll
  BY <1>4 DEF Poll
<1>5. CASE SkipStep
  <2>1. row' \in [Steps -> StepStatuses] /\ lost' \subseteq Steps /\ faults' \in Nat
    <3>1. CASE MarkStep("skipped")
      BY <1>5, <3>1, MarkStepType DEF SkipStep
    <3>2. CASE Fault /\ lost' = lost \cup {pos} /\ row' = [row EXCEPT ![pos] = "pending"]
      <4>1. pos \in Steps /\ lost' \subseteq Steps
        BY <1>5, <3>2 DEF SkipStep
      <4>2. row' \in [Steps -> StepStatuses]
        BY <3>2
      <4> QED BY <3>2, <4>1, <4>2
    <3> QED BY <1>5, <3>1, <3>2 DEF SkipStep
  <2> QED BY <1>5, <2>1 DEF SkipStep
<1>6. CASE CreateStep
  BY <1>6 DEF CreateStep
<1>7. CASE BeginStep
  <2>1. row' \in [Steps -> StepStatuses] /\ lost' \subseteq Steps /\ faults' \in Nat
    BY <1>7, MarkStepType DEF BeginStep
  <2> QED BY <1>7, <2>1 DEF BeginStep
<1>8. CASE StreamFails
  <2>1. row' \in [Steps -> StepStatuses] /\ lost' \subseteq Steps /\ faults' \in Nat
    BY <1>8, MarkStepType DEF StreamFails
  <2> QED BY <1>8, <2>1 DEF StreamFails
<1>9. CASE StreamEnds
  <2>1. StepOutcome(deviation) \in StepStatuses \cap Results
    BY DEF StepOutcome
  <2>2. row' \in [Steps -> StepStatuses] /\ lost' \subseteq Steps /\ faults' \in Nat
    BY <1>9, <2>1, MarkStepType DEF StreamEnds
  <2> QED BY <1>9, <2>1, <2>2 DEF StreamEnds
<1>10. CASE SaveCheckpoint
  <2>1. checkpoints' = checkpoints \/ checkpoints' = checkpoints \cup {pos}
    BY <1>10 DEF SaveCheckpoint
  <2>2. pos \in Steps /\ checkpoints' \subseteq Steps
    BY <1>10, <2>1 DEF SaveCheckpoint
  <2>3. pos' \in 1..(N + 1) /\ faults' \in Nat
    BY <1>10, <2>2 DEF SaveCheckpoint
  <2> QED BY <1>10, <2>2, <2>3 DEF SaveCheckpoint
<1>11. CASE LeaveLoop
  BY <1>11 DEF LeaveLoop
<1>12. CASE FinishRun
  BY <1>12 DEF FinishRun, FinalStatus
<1>13. CASE MarkFailed
  BY <1>13 DEF MarkFailed
<1>14. CASE ReceiveDeviation
  BY <1>14 DEF ReceiveDeviation
<1>15. CASE Cancel
  BY <1>15 DEF Cancel
<1>16. CASE Crash
  BY <1>16 DEF Crash
<1>17. CASE UNCHANGED vars
  BY <1>17 DEF vars
<1> QED BY <1>1, <1>2, <1>3, <1>4, <1>5, <1>6, <1>7, <1>8, <1>9, <1>10, <1>11,
   <1>12, <1>13, <1>14, <1>15, <1>16, <1>17 DEF Next, RunStep

(* Every variable keeps its type, for plans of any length.                 *)
THEOREM TypeCorrect == Spec => []TypeOK
<1>1. Init => TypeOK
  BY StepsAssumption, FaultsAssumption
  DEF Init, TypeOK, Steps, ExecStatuses, Phases, StepStatuses, Results, Deviations
<1> QED BY <1>1, TypeStep, PTL DEF Spec

(* The order of the loop and the statuses it gives are kept, action by     *)
(* action.                                                                 *)
LEMMA RunInvStep == TypeOK /\ RunInv /\ [Next]_vars => RunInv'
<1> SUFFICES ASSUME TypeOK, RunInv, [Next]_vars PROVE RunInv'
  OBVIOUS
<1> USE StepsAssumption
    DEF TypeOK, Steps, Blocking, RunInv, OrderInv, StepInv, RowInv, FinalInv, FinalStatuses,
        DepsHonoured, Attempted, stepVars
<1>1. CASE MarkRunning
  BY <1>1 DEF MarkRunning, Mark
<1>2. CASE LoseExecution
  BY <1>2 DEF LoseExecution
<1>3. CASE ResolveSteps
  BY <1>3 DEF ResolveSteps
<1>4. CASE Poll
  BY <1>4 DEF Poll
<1>5. CASE SkipStep
  <2>1. \A i \in Steps : i < pos' <=> i < pos \/ i = pos
    BY <1>5 DEF SkipStep
  <2>2. result'[pos] = "skipped" /\ \A i \in Steps : i # pos => result'[i] = result[i]
    BY <1>5 DEF SkipStep
  <2>3. /\ row'[pos] = "skipped" \/ pos \in lost'
        /\ \A i \in Steps : i # pos => row'[i] = row[i] /\ (i \in lost' <=> i \in lost)
    BY <1>5 DEF SkipStep, MarkStep
  <2>4. OrderInv'
    BY <1>5, <2>1, <2>2 DEF SkipStep
  <2>5. StepInv' /\ FinalInv'
    BY <1>5, <2>1, <2>2 DEF SkipStep
  <2>6. \A i \in Steps : i >= pos' => i > pos
    BY <1>5 DEF SkipStep
  <2>7. RowInv'
    BY <1>5, <2>1, <2>2, <2>3, <2>6 DEF SkipStep
  <2>8. DepsHonoured'
    BY <1>5, <2>2 DEF SkipStep
  <2> QED BY <2>4, <2>5, <2>7, <2>8
<1>6. CASE CreateStep
  BY <1>6 DEF CreateStep
<1>7. CASE BeginStep
  <2>1. OrderInv' /\ StepInv' /\ FinalInv' /\ DepsHonoured'
    BY <1>7 DEF BeginStep
  <2>2. RowInv'
    BY <1>7 DEF BeginStep, MarkStep
  <2> QED BY <2>1, <2>2
<1>8. CASE StreamFails
  <2>1. OrderInv' /\ StepInv' /\ FinalInv' /\ DepsHonoured'
    BY <1>8 DEF StreamFails
  <2>2. RowInv'
    BY <1>8 DEF StreamFails, MarkStep
  <2> QED BY <2>1, <2>2
<1>9. CASE StreamEnds
  <2>1. OrderInv' /\ StepInv' /\ FinalInv' /\ DepsHonoured'
    BY <1>9 DEF StreamEnds, StepOutcome, Blocks, Deviations
  <2>2. RowInv'
    BY <1>9 DEF StreamEnds, MarkStep
  <2> QED BY <2>1, <2>2
<1>10. CASE SaveCheckpoint
  <2>1. \A i \in Steps : i < pos' <=> i < pos \/ i = pos
    BY <1>10 DEF SaveCheckpoint
  <2>2. OrderInv'
    BY <1>10, <2>1 DEF SaveCheckpoint
  <2>3. StepInv' /\ FinalInv' /\ DepsHonoured'
    BY <1>10, <2>1 DEF SaveCheckpoint
  <2>4. \A i \in Steps : i >= pos' => i > pos
    BY <1>10 DEF SaveCheckpoint
  <2>5. RowInv'
    BY <1>10, <2>1, <2>4 DEF SaveCheckpoint
  <2> QED BY <2>2, <2>3, <2>5
<1>11. CASE LeaveLoop
  BY <1>11 DEF LeaveLoop
<1>12. CASE FinishRun
  <2>1. \A i \in Steps : i \notin blocked => result[i] = "completed"
    BY <1>12 DEF FinishRun
  <2>2. blocked # {} => \E i \in Steps : result[i] # "completed"
    BY DEF FinishRun
  <2>3. FinalInv'
    BY <1>12, <2>1, <2>2 DEF FinishRun, Mark, FinalStatus
  <2>4. OrderInv' /\ StepInv' /\ RowInv' /\ DepsHonoured'
    BY <1>12 DEF FinishRun
  <2> QED BY <2>3, <2>4
<1>13. CASE MarkFailed
  BY <1>13 DEF MarkFailed, Mark
<1>14. CASE ReceiveDeviation
  BY <1>14 DEF ReceiveDeviation
<1>15. CASE Cancel
  BY <1>15 DEF Cancel
<1>16. CASE Crash
  BY <1>16 DEF Crash
<1>17. CASE UNCHANGED vars
  BY <1>17 DEF vars
<1> QED BY <1>1, <1>2, <1>3, <1>4, <1>5, <1>6, <1>7, <1>8, <1>9, <1>10, <1>11,
   <1>12, <1>13, <1>14, <1>15, <1>16, <1>17 DEF Next, RunStep

(* The inductive invariant holds of every run.                             *)
LEMMA RunInvariant == Spec => []RunInv
<1>1. Init => RunInv
  BY StepsAssumption
  DEF Init, Steps, Blocking, RunInv, OrderInv, StepInv, RowInv, FinalInv, FinalStatuses,
      DepsHonoured, Attempted
<1> QED BY <1>1, RunInvStep, TypeCorrect, PTL DEF Spec

(* A step is attempted only when each of its dependencies was completed,   *)
(* for every plan and every place of a crash or a cancellation.            *)
THEOREM DependenciesHonoured == Spec => []DepsHonoured
<1>1. RunInv => DepsHonoured
  BY DEF RunInv
<1> QED BY <1>1, RunInvariant, PTL

(* The final status says what became of the steps, and so does the row of  *)
(* each step whose last statement was not lost.                            *)
THEOREM FinalStatusIsAccurate == Spec => []FinalStatusAccurate
<1>1. RunInv => FinalStatusAccurate
  BY DEF RunInv, FinalInv, StepInv, RowInv, FinalStatuses, FinalStatusAccurate
<1> QED BY <1>1, RunInvariant, PTL

(* The cancellation invariant is kept.                                     *)
LEMMA CancelInvStep == TypeOK /\ FinalInv /\ CancelInv /\ [Next]_vars => CancelInv'
<1> SUFFICES ASSUME TypeOK, FinalInv, CancelInv, [Next]_vars PROVE CancelInv'
  OBVIOUS
<1> USE DEF TypeOK, FinalInv, FinalStatuses, CancelInv, Mark
<1>1. CASE MarkRunning
  BY <1>1 DEF MarkRunning
<1>2. CASE LoseExecution \/ ResolveSteps
  BY <1>2 DEF LoseExecution, ResolveSteps
<1>3. CASE Poll
  BY <1>3 DEF Poll
<1>4. CASE SkipStep \/ CreateStep
  BY <1>4 DEF SkipStep, CreateStep
<1>5. CASE BeginStep
  BY <1>5 DEF BeginStep
<1>6. CASE StreamFails \/ StreamEnds \/ SaveCheckpoint \/ ReceiveDeviation
  BY <1>6 DEF StreamFails, StreamEnds, SaveCheckpoint, ReceiveDeviation
<1>7. CASE LeaveLoop \/ FinishRun \/ MarkFailed
  BY <1>7 DEF LeaveLoop, FinishRun, MarkFailed
<1>8. CASE Cancel
  BY <1>8 DEF Cancel
<1>9. CASE Crash
  BY <1>9 DEF Crash
<1>10. CASE UNCHANGED vars
  BY <1>10 DEF vars
<1> QED BY <1>1, <1>2, <1>3, <1>4, <1>5, <1>6, <1>7, <1>8, <1>9, <1>10 DEF
   Next, RunStep

(* After the user cancelled at most one more agent call begins.            *)
THEOREM CancellationStops == Spec => []CancelStopsTheNextStep
<1>1. Init => CancelInv
  BY DEF Init, CancelInv
<1>2. CancelInv => CancelStopsTheNextStep
  BY DEF CancelInv, CancelStopsTheNextStep
<1>3. RunInv => FinalInv
  BY DEF RunInv
<1> QED BY <1>1, <1>2, <1>3, CancelInvStep, RunInvariant, TypeCorrect, PTL DEF Spec

(* One step of Run is a step of the outer life of an execution, or none.   *)
LEMMA OuterStep == TypeOK /\ FinalInv /\ [Next]_vars => [Outer!Next]_<<status, OuterPhase>>
<1> SUFFICES ASSUME TypeOK, FinalInv, [Next]_vars PROVE [Outer!Next]_<<status, OuterPhase>>
  OBVIOUS
<1> USE DEF OuterPhase, Outer!Next, Mark
<1>1. CASE MarkRunning
  BY <1>1 DEF MarkRunning, Outer!MarkRunning
<1>2. CASE LoseExecution
  BY <1>2 DEF LoseExecution, Outer!Stop
<1>3. CASE ResolveSteps \/ BeginStep \/ StreamEnds \/ ReceiveDeviation
  BY <1>3 DEF ResolveSteps, BeginStep, StreamEnds, ReceiveDeviation
<1>4. CASE Poll
  BY <1>4 DEF Poll, Outer!EnterStep, Outer!StopCancelled
<1>5. CASE SkipStep
  BY <1>5 DEF SkipStep, Outer!LeaveStep
<1>6. CASE CreateStep
  BY <1>6 DEF CreateStep, Outer!LeaveStep
<1>7. CASE StreamFails
  BY <1>7 DEF StreamFails, Outer!LeaveStep
<1>8. CASE SaveCheckpoint
  BY <1>8 DEF SaveCheckpoint, Outer!LeaveStep
<1>9. CASE LeaveLoop
  BY <1>9 DEF LeaveLoop, Outer!LeaveStep
<1>10. CASE FinishRun
  BY <1>10 DEF FinishRun, Outer!Finish, FinalStatus
<1>11. CASE MarkFailed
  BY <1>11 DEF MarkFailed, Outer!Fail, Outer!Stop
<1>12. CASE Cancel
  BY <1>12 DEF Cancel, Outer!Cancel, TypeOK, ExecStatuses
<1>13. CASE Crash
  BY <1>13 DEF Crash, Outer!Stop, TypeOK, Phases
<1>14. CASE UNCHANGED vars
  BY <1>14 DEF vars
<1> QED BY <1>1, <1>2, <1>3, <1>4, <1>5, <1>6, <1>7, <1>8, <1>9, <1>10, <1>11,
   <1>12, <1>13, <1>14 DEF Next, RunStep

(* Run, with its steps, its agent and its failures, implements the life    *)
(* cycle the task works with.                                              *)
THEOREM ImplementsExecutionLife == Spec => KeepsItsLife
<1>1. RunInv => FinalInv
  BY DEF RunInv
<1> QED BY <1>1, OuterStep, RunInvariant, TypeCorrect, PTL DEF Spec, KeepsItsLife

-----------------------------------------------------------------------------
(* What the skipped steps have to do with the chains of dependencies: a    *)
(* chain goes up, the steps behind the loop that it reaches from a         *)
(* troubled one are skipped, and every skipped one is reached so.          *)
ChainInv ==
  /\ \A i \in Steps : i < pos =>
       \A n \in Nat : \A c \in [1..n -> Steps] :
         n >= 2 /\ c[n] = i /\ IsChain(c, n) => c[1] < i /\ (Troubled(c[1]) => result[i] = "skipped")
  /\ \A i \in Steps : i < pos /\ result[i] = "skipped" =>
       \E n \in 2..i : \E c \in [1..n -> Steps] : c[n] = i /\ IsChain(c, n) /\ Troubled(c[1])
  /\ phase = "checkpointing" => result[pos] \in {"completed", "failed", "deviated"}

(* A chain to the step at hand comes by one of its dependencies, behind    *)
(* the loop: it goes up, and if it starts with a troubled step, then that  *)
(* dependency blocks.                                                      *)
LEMMA ChainToPos ==
  ASSUME TypeOK, OrderInv, ChainInv, pos \in Steps,
         NEW n \in Nat, n >= 2, NEW c \in [1..n -> Steps], c[n] = pos, IsChain(c, n)
  PROVE  c[1] < pos /\ (Troubled(c[1]) => Blocking(pos) # {})
<1> USE StepsAssumption
<1> DEFINE d == c[n - 1]
<1>1. n - 1 \in 1..n /\ n - 1 \in 1..(n - 1) /\ (n - 1) + 1 = n
  OBVIOUS
<1>2. d \in Steps /\ d \in deps[pos]
  BY <1>1 DEF IsChain
<1>3. d < pos
  BY <1>2 DEF OrderInv
<1>4. Troubled(d) \/ result[d] = "skipped" => d \in blocked
  BY <1>2, <1>3 DEF OrderInv, Troubled
<1>5. CASE n = 2
  BY <1>2, <1>3, <1>4, <1>5 DEF Blocking
<1>6. CASE n > 2
  <2> DEFINE b == [k \in 1..(n - 1) |-> c[k]]
  <2>1. b \in [1..(n - 1) -> Steps] /\ n - 1 \in Nat /\ n - 1 >= 2
    BY <1>6
  <2>2. b[n - 1] = d /\ b[1] = c[1]
    BY <1>1, <1>6
  <2>3. \A k \in 1..(n - 2) : b[k] = c[k] /\ b[k + 1] = c[k + 1]
    BY <1>6
  <2>4. IsChain(b, n - 1)
    BY <2>3 DEF IsChain
  <2> HIDE DEF b, d
  <2>5. b[1] < d /\ (Troubled(b[1]) => result[d] = "skipped")
    BY <1>2, <1>3, <2>1, <2>2, <2>4 DEF ChainInv
  <2>6. c[1] < pos
    BY <1>2, <1>3, <2>1, <2>2, <2>5 DEF Steps
  <2> QED BY <1>2, <1>4, <2>2, <2>5, <2>6 DEF Blocking
<1> QED BY <1>5, <1>6

(* A blocking dependency of the step at hand is the end of a chain, or a   *)
(* troubled step: it leads on to the step at hand.                         *)
LEMMA ChainFromBlocking ==
  ASSUME TypeOK, OrderInv, ChainInv, pos \in Steps, Blocking(pos) # {}
  PROVE  \E n \in 2..pos : \E c \in [1..n -> Steps] : c[n] = pos /\ IsChain(c, n) /\ Troubled(c[1])
<1> USE StepsAssumption
<1>1. PICK d \in deps[pos] : d \in blocked
  BY DEF Blocking
<1>2. d \in Steps /\ d < pos
  BY <1>1 DEF OrderInv, TypeOK
<1>3. Troubled(d) \/ result[d] = "skipped"
  BY <1>1, <1>2 DEF OrderInv, TypeOK, Results, Troubled
<1>4. CASE Troubled(d)
  <2> DEFINE c == [k \in 1..2 |-> IF k = 1 THEN d ELSE pos]
  <2>1. c \in [1..2 -> Steps] /\ c[1] = d /\ c[2] = pos
    BY <1>2
  <2>2. IsChain(c, 2)
    BY <1>1, <2>1 DEF IsChain
  <2>3. 2 \in 2..pos
    BY <1>2 DEF Steps
  <2> HIDE DEF c
  <2> QED BY <1>4, <2>1, <2>2, <2>3
<1>5. CASE result[d] = "skipped"
  <2>1. PICK n \in 2..d : \E b \in [1..n -> Steps] : b[n] = d /\ IsChain(b, n) /\ Troubled(b[1])
    BY <1>2, <1>5 DEF ChainInv
  <2>2. PICK b \in [1..n -> Steps] : b[n] = d /\ IsChain(b, n) /\ Troubled(b[1])
    BY <2>1
  <2> DEFINE c == [k \in 1..(n + 1) |-> IF k = n + 1 THEN pos ELSE b[k]]
  <2>3. n \in Nat /\ n >= 2 /\ n + 1 \in 2..pos
    BY <1>2, <2>1 DEF Steps
  <2>4. c \in [1..(n + 1) -> Steps] /\ c[n + 1] = pos /\ \A k \in 1..n : c[k] = b[k]
    BY <2>3
  <2>5. ASSUME NEW k \in 1..n PROVE c[k] \in deps[c[k + 1]]
    <3>1. CASE k = n
      BY <1>1, <2>2, <2>3, <2>4, <3>1
    <3>2. CASE k < n
      <4>1. k \in 1..(n - 1) /\ k + 1 \in 1..n
        BY <2>3, <3>2
      <4>2. c[k] = b[k] /\ c[k + 1] = b[k + 1]
        BY <2>4, <4>1
      <4> QED BY <2>2, <4>1, <4>2 DEF IsChain
    <3> QED BY <2>3, <3>1, <3>2
  <2>6. IsChain(c, n + 1) /\ c[1] = b[1]
    <3>1. (n + 1) - 1 = n /\ 1 \in 1..n
      BY <2>3
    <3> HIDE DEF c
    <3>2. \A k \in 1..((n + 1) - 1) : c[k] \in deps[c[k + 1]]
      BY <2>5, <3>1
    <3> QED BY <2>4, <3>1, <3>2 DEF IsChain
  <2> HIDE DEF c
  <2> QED BY <2>2, <2>3, <2>4, <2>6
<1> QED BY <1>3, <1>4, <1>5

(* A step keeps the chains in order.                                       *)
LEMMA ChainInvStep == TypeOK /\ RunInv /\ ChainInv /\ [Next]_vars => ChainInv'
<1> SUFFICES ASSUME TypeOK, RunInv, ChainInv, [Next]_vars PROVE ChainInv'
  OBVIOUS
<1> USE StepsAssumption DEF stepVars
<1>1. TypeOK'
  BY TypeStep
<1>2. ASSUME deps' = deps, pos' = pos, \A i \in Steps : i < pos => result'[i] = result[i],
             phase' = "checkpointing" => result'[pos] \in {"completed", "failed", "deviated"}
      PROVE  ChainInv'
  <2>1. \A i \in Steps : i < pos => (Troubled(i)' <=> Troubled(i))
    BY <1>2 DEF Troubled
  <2>2. \A c, n : IsChain(c, n)' <=> IsChain(c, n)
    BY <1>2 DEF IsChain
  <2>3. ASSUME NEW i \in Steps, i < pos, NEW n \in Nat, NEW c \in [1..n -> Steps],
               n >= 2, c[n] = i, IsChain(c, n)
        PROVE  c[1] < i /\ (Troubled(c[1])' => result'[i] = "skipped")
    <3>1. c[1] < i /\ (Troubled(c[1]) => result[i] = "skipped")
      BY <2>3 DEF ChainInv
    <3>2. c[1] \in Steps /\ c[1] < pos
      BY <2>3, <3>1 DEF Steps, TypeOK
    <3> QED BY <1>2, <2>1, <2>3, <3>1, <3>2
  <2>4. ASSUME NEW i \in Steps, i < pos, result'[i] = "skipped"
        PROVE  \E n \in 2..i : \E c \in [1..n -> Steps] : c[n] = i /\ IsChain(c, n) /\ Troubled(c[1])'
    <3>1. PICK n \in 2..i : \E c \in [1..n -> Steps] : c[n] = i /\ IsChain(c, n) /\ Troubled(c[1])
      BY <1>2, <2>4 DEF ChainInv
    <3>2. PICK c \in [1..n -> Steps] : c[n] = i /\ IsChain(c, n) /\ Troubled(c[1])
      BY <3>1
    <3>3. n \in Nat /\ n >= 2
      BY <3>1 DEF Steps
    <3>4. c[1] < i
      BY <2>4, <3>2, <3>3 DEF ChainInv
    <3>5. c[1] \in Steps /\ c[1] < pos
      BY <2>4, <3>2, <3>3, <3>4 DEF Steps, TypeOK
    <3> QED BY <2>1, <3>2, <3>5
  <2> QED BY <1>2, <2>2, <2>3, <2>4 DEF ChainInv
<1>3. ASSUME pos \in Steps, pos' = pos + 1, deps' = deps, phase' # "checkpointing",
             \A i \in Steps : i # pos => result'[i] = result[i],
             result'[pos] \notin {"none", "called"},
             result'[pos] = "skipped" <=> Blocking(pos) # {}
      PROVE  ChainInv'
  <2>1. \A i \in Steps : i # pos => (Troubled(i)' <=> Troubled(i))
    BY <1>3 DEF Troubled
  <2>2. \A c, n : IsChain(c, n)' <=> IsChain(c, n)
    BY <1>3 DEF IsChain
  <2>3. pos \in Nat /\ \A i \in Steps : i < pos' => i < pos \/ i = pos
    BY <1>3 DEF Steps
  <2>4. ASSUME NEW i \in Steps, i < pos', NEW n \in Nat, NEW c \in [1..n -> Steps],
               n >= 2, c[n] = i, IsChain(c, n)
        PROVE  c[1] < i /\ (Troubled(c[1])' => result'[i] = "skipped")
    <3>1. c[1] \in Steps
      BY <2>4
    <3>2. CASE i < pos
      <4>1. c[1] < i /\ (Troubled(c[1]) => result[i] = "skipped")
        BY <2>4, <3>2 DEF ChainInv
      <4>2. c[1] # pos /\ i # pos
        BY <2>3, <3>1, <3>2, <4>1 DEF Steps
      <4> QED BY <1>3, <2>1, <3>1, <4>1, <4>2
    <3>3. CASE i = pos
      <4>1. c[1] < pos /\ (Troubled(c[1]) => Blocking(pos) # {})
        BY <1>3, <2>4, <3>3, ChainToPos DEF RunInv
      <4>2. c[1] # pos
        BY <2>3, <3>1, <4>1 DEF Steps
      <4> QED BY <1>3, <2>1, <3>1, <3>3, <4>1, <4>2
    <3> QED BY <2>3, <2>4, <3>2, <3>3
  <2>5. ASSUME NEW i \in Steps, i < pos', result'[i] = "skipped"
        PROVE  \E n \in 2..i : \E c \in [1..n -> Steps] : c[n] = i /\ IsChain(c, n) /\ Troubled(c[1])'
    <3>1. \E n \in 2..i : \E c \in [1..n -> Steps] : c[n] = i /\ IsChain(c, n) /\ Troubled(c[1])
      <4>1. CASE i < pos
        BY <1>3, <2>3, <2>5, <4>1 DEF ChainInv, Steps
      <4>2. CASE i = pos
        BY <1>3, <2>5, <4>2, ChainFromBlocking DEF RunInv
      <4> QED BY <2>3, <2>5, <4>1, <4>2
    <3>2. PICK n \in 2..i : \E c \in [1..n -> Steps] : c[n] = i /\ IsChain(c, n) /\ Troubled(c[1])
      BY <3>1
    <3>3. PICK c \in [1..n -> Steps] : c[n] = i /\ IsChain(c, n) /\ Troubled(c[1])
      BY <3>2
    <3>4. n \in Nat /\ n >= 2 /\ c[1] \in Steps
      BY <3>2, <3>3 DEF Steps
    <3>5. c[1] < i
      BY <2>4, <2>5, <3>3, <3>4
    <3>6. c[1] # pos
      BY <2>3, <2>5, <3>4, <3>5 DEF Steps
    <3> QED BY <2>1, <3>3, <3>4, <3>6
  <2> QED BY <1>3, <2>2, <2>4, <2>5 DEF ChainInv
<1>4. CASE SkipStep
  <2>1. pos \in Steps /\ result' = [result EXCEPT ![pos] = "skipped"] /\ pos' = pos + 1
        /\ deps' = deps /\ phase' = "polling" /\ Blocking(pos) # {}
    BY <1>4 DEF SkipStep, TypeOK
  <2> QED BY <1>3, <2>1 DEF TypeOK
<1>5. CASE SaveCheckpoint
  <2>1. pos \in Steps /\ result' = result /\ pos' = pos + 1 /\ deps' = deps /\ phase' = "polling"
        /\ Blocking(pos) = {} /\ result[pos] \in {"completed", "failed", "deviated"}
    BY <1>5 DEF SaveCheckpoint, TypeOK, RunInv, StepInv, ChainInv
  <2> QED BY <1>3, <2>1
<1>6. CASE BeginStep
  <2>1. result' = [result EXCEPT ![pos] = "called"] /\ pos' = pos /\ deps' = deps /\ phase' = "streaming"
    BY <1>6 DEF BeginStep
  <2> QED BY <1>2, <2>1 DEF TypeOK, Steps
<1>7. CASE StreamFails
  <2>1. result' = [result EXCEPT ![pos] = "failed"] /\ pos' = pos /\ deps' = deps /\ phase' = "failing"
    BY <1>7 DEF StreamFails
  <2> QED BY <1>2, <2>1 DEF TypeOK, Steps
<1>8. CASE StreamEnds
  <2>1. result' = [result EXCEPT ![pos] = StepOutcome(deviation)] /\ pos' = pos /\ deps' = deps /\ pos \in Steps
    BY <1>8 DEF StreamEnds, TypeOK
  <2>2. StepOutcome(deviation) \in {"completed", "failed", "deviated"}
    BY DEF TypeOK, Deviations, StepOutcome
  <2> QED BY <1>2, <2>1, <2>2 DEF TypeOK, Steps
<1>9. ASSUME UNCHANGED <<deps, pos, result>>, phase' = "checkpointing" => phase = "checkpointing"
      PROVE  ChainInv'
  BY <1>2, <1>9 DEF ChainInv
<1>10. CASE MarkRunning \/ LoseExecution \/ ResolveSteps \/ Poll \/ CreateStep
  BY <1>9, <1>10 DEF MarkRunning, LoseExecution, ResolveSteps, Poll, CreateStep
<1>11. CASE LeaveLoop \/ FinishRun \/ MarkFailed \/ ReceiveDeviation \/ Cancel \/ Crash
  BY <1>9, <1>11 DEF LeaveLoop, FinishRun, MarkFailed, ReceiveDeviation, Cancel, Crash
<1>12. CASE UNCHANGED vars
  BY <1>9, <1>12 DEF vars
<1> QED
  BY <1>4, <1>5, <1>6, <1>7, <1>8, <1>10, <1>11, <1>12 DEF Next, RunStep

(* A step behind the loop was skipped exactly when a chain of dependencies *)
(* leads to it from a step that itself deviated or failed.                 *)
THEOREM SkipsHaveACause == Spec => []SkippedIffBehindATroubledStep
<1>1. ASSUME Init PROVE ChainInv
  <2>1. pos = 1 /\ phase = "launched"
    BY <1>1 DEF Init
  <2>2. \A i \in Steps : ~(i < pos)
    BY <2>1 DEF Steps
  <2> QED BY <2>1, <2>2 DEF ChainInv
<1>2. ASSUME TypeOK, ChainInv PROVE SkippedIffBehindATroubledStep
  <2> SUFFICES ASSUME NEW i \in Steps, i < pos
               PROVE  result[i] = "skipped" <=>
                        \E n \in 2..N : \E c \in [1..n -> Steps] : c[n] = i /\ IsChain(c, n) /\ Troubled(c[1])
    BY DEF SkippedIffBehindATroubledStep
  <2>1. \A n \in 2..i : n \in 2..N
    BY StepsAssumption DEF Steps
  <2>2. \A n \in 2..N : n \in Nat /\ n >= 2
    BY StepsAssumption
  <2>3. ASSUME NEW n \in 2..N, NEW c \in [1..n -> Steps], c[n] = i, IsChain(c, n), Troubled(c[1])
        PROVE  result[i] = "skipped"
    BY <1>2, <2>2, <2>3 DEF ChainInv
  <2>4. result[i] = "skipped" =>
          \E n \in 2..i : \E c \in [1..n -> Steps] : c[n] = i /\ IsChain(c, n) /\ Troubled(c[1])
    BY <1>2 DEF ChainInv
  <2> QED BY <2>1, <2>3, <2>4
<1> QED BY <1>1, <1>2, ChainInvStep, TypeCorrect, RunInvariant, PTL DEF Spec

-----------------------------------------------------------------------------
(* What RunSettles rests on besides fairness: the goroutine has finitely   *)
(* many steps to go, and where it stops the row is settled.                *)

(* The statements that are left at most, counted from the back.            *)
StepsLeft ==
  8 * (N + 1 - pos) +
    CASE phase = "launched"      -> 9
      [] phase = "resolving"     -> 8
      [] phase = "polling"       -> 7
      [] phase = "dispatching"   -> 6
      [] phase = "created"       -> 5
      [] phase = "streaming"     -> 4
      [] phase = "checkpointing" -> 3
      [] phase = "finishing"     -> 2
      [] phase \in {"failing", "validating"} -> 1
      [] phase = "ended"         -> 0

(* Every step of the goroutine, and its death, brings it nearer to its end,*)
(* whatever the user and the agent do meanwhile: no run goes on for ever.  *)
THEOREM RunsMakeProgress ==
  Spec => [][/\ StepsLeft \in Nat /\ StepsLeft' <= StepsLeft
             /\ RunStep \/ Crash => StepsLeft' < StepsLeft]_vars
<1>1. ASSUME TypeOK, TypeOK', [Next]_vars
      PROVE  /\ StepsLeft \in Nat /\ StepsLeft' <= StepsLeft
             /\ RunStep \/ Crash => StepsLeft' < StepsLeft
  <2> USE StepsAssumption DEF StepsLeft
  <2>1. pos \in 1..(N + 1) /\ phase \in Phases /\ N \in Nat
    BY <1>1 DEF TypeOK
  <2>2. StepsLeft \in Nat
    BY <2>1 DEF Phases
  <2>3. ASSUME RunStep \/ Crash PROVE StepsLeft' < StepsLeft
    <3>1. CASE MarkRunning \/ LoseExecution \/ ResolveSteps \/ Poll
      BY <2>1, <3>1 DEF MarkRunning, LoseExecution, ResolveSteps, Poll
    <3>2. CASE SkipStep \/ SaveCheckpoint
      <4>1. pos' = pos + 1 /\ phase' = "polling" /\ phase \in {"dispatching", "checkpointing"}
        BY <3>2 DEF SkipStep, SaveCheckpoint
      <4> QED BY <2>1, <4>1
    <3>3. CASE CreateStep \/ BeginStep \/ StreamFails \/ StreamEnds
      BY <2>1, <3>3 DEF CreateStep, BeginStep, StreamFails, StreamEnds
    <3>4. CASE LeaveLoop \/ FinishRun \/ MarkFailed
      BY <2>1, <3>4 DEF LeaveLoop, FinishRun, MarkFailed
    <3>5. CASE Crash
      BY <2>1, <3>5 DEF Crash, Phases
    <3> QED BY <2>3, <3>1, <3>2, <3>3, <3>4, <3>5 DEF RunStep
  <2>4. ReceiveDeviation \/ Cancel \/ UNCHANGED vars => phase' = phase /\ pos' = pos
    BY DEF ReceiveDeviation, Cancel, vars
  <2>5. StepsLeft' <= StepsLeft
    <3>1. CASE RunStep \/ Crash
      <4>1. StepsLeft' < StepsLeft
        BY <2>3, <3>1
      <4>2. StepsLeft' \in Int
        <5>1. pos' \in 1..(N + 1) /\ phase' \in Phases
          BY <1>1 DEF TypeOK
        <5> QED BY <2>1, <5>1 DEF Phases
      <4> HIDE DEF StepsLeft
      <4> QED BY <2>2, <4>1, <4>2
    <3>2. CASE ~(RunStep \/ Crash)
      <4>1. StepsLeft' = StepsLeft
        BY <1>1, <2>4, <3>2 DEF Next
      <4> HIDE DEF StepsLeft
      <4> QED BY <2>2, <4>1
    <3> QED BY <3>1, <3>2
  <2> QED BY <2>2, <2>3, <2>5
<1> QED BY <1>1, TypeCorrect, PTL DEF Spec

Settled == {"completed", "completed_with_deviations", "failed", "cancelled"}

(* A run that is through leaves a final status in its row, unless the      *)
(* process died or a statement failed.                                     *)
THEOREM EndedRunsAreSettled ==
  Spec => [](faults = 0 /\ phase \in {"validating", "ended"} => status \in Settled)
<1> DEFINE Inv == faults = 0 /\ phase \in {"validating", "ended"} => status \in Settled
<1>1. Init => Inv
  BY DEF Init
<1>2. ASSUME TypeOK, TypeOK', Inv, [Next]_vars PROVE Inv'
  <2>1. faults \in Nat /\ (Fault => faults' # 0)
    BY <1>2 DEF TypeOK, Fault
  <2>2. CASE MarkRunning \/ LoseExecution \/ ResolveSteps \/ CreateStep
    BY <2>1, <2>2 DEF MarkRunning, LoseExecution, ResolveSteps, CreateStep
  <2>3. CASE Poll
    BY <2>1, <2>3 DEF Poll, Settled
  <2>4. CASE SkipStep \/ BeginStep \/ StreamFails \/ StreamEnds \/ SaveCheckpoint \/ LeaveLoop
    BY <2>4 DEF SkipStep, BeginStep, StreamFails, StreamEnds, SaveCheckpoint, LeaveLoop
  <2>5. CASE FinishRun \/ MarkFailed
    BY <2>1, <2>5 DEF FinishRun, MarkFailed, Mark, FinalStatus, Settled
  <2>6. CASE ReceiveDeviation \/ Cancel
    BY <1>2, <2>6 DEF ReceiveDeviation, Cancel, Settled
  <2>7. CASE Crash
    BY <2>1, <2>7 DEF Crash
  <2>8. CASE UNCHANGED vars
    BY <1>2, <2>8 DEF vars
  <2> QED BY <1>2, <2>2, <2>3, <2>4, <2>5, <2>6, <2>7, <2>8 DEF Next, RunStep
<1> QED BY <1>1, <1>2, TypeCorrect, PTL DEF Spec

-----------------------------------------------------------------------------
(* The order of the steps: what Run takes for granted about deps is what   *)
(* the validator and the ordering of PlanOrder give it.                    *)

Black == {i \in Steps : colours[i] = "black"}

(* The steps that are being visited are the stack, and each is there for   *)
(* the sake of the one below it.                                           *)
StackInv ==
  /\ \A i \in Steps : colours[i] = "grey" <=> \E k \in 1..Len(stack) : stack[k] = i
  /\ \A j, k \in 1..Len(stack) : stack[j] = stack[k] => j = k
  /\ \A k \in 1..(Len(stack) - 1) : stack[k + 1] \in dependsOn[stack[k]]

(* Finished steps depend on finished steps only, and among them there is   *)
(* no cycle.                                                               *)
FinishedInv ==
  /\ \A i \in Black : dependsOn[i] \subseteq Black
  /\ \A S \in SUBSET Black : S # {} => \E i \in S : dependsOn[i] \cap S = {}
  /\ stage \in {"ordering", "ordered", "failed"} => Black = Steps

SearchInv == StackInv /\ FinishedInv /\ (stage = "rejected" => Cyclic)

(* The order holds no stable id twice, and for each dependency of a step   *)
(* an earlier step with its stable id.                                     *)
OrderedInv ==
  /\ done = {stableId[order[k]] : k \in 1..Len(order)}
  /\ \A j, k \in 1..Len(order) : stableId[order[j]] = stableId[order[k]] => j = k
  /\ \A k \in 1..Len(order) : \A d \in dependsOn[order[k]] :
       \E j \in 1..(k - 1) : stableId[order[j]] = stableId[d]
  /\ stage = "ordered" => Len(order) >= N

(* A pass that has ordered nothing so far has only met steps that are done *)
(* or wait for a dependency, and there are steps left for it.              *)
PassInv ==
  /\ stage = "submitted" => order = <<>> /\ next = 1
  /\ stage = "ordering" /\ ~progress =>
       Len(order) < N /\ \A i \in 1..(next - 1) : stableId[i] \in done \/ ~Ready(i)

(* A step keeps every variable of the plan in its type.                    *)
LEMMA PlanTypeStep == PlanTypeOK /\ [PlanNext]_planOrderVars => PlanTypeOK'
<1> SUFFICES ASSUME PlanTypeOK, [PlanNext]_planOrderVars PROVE PlanTypeOK'
  OBVIOUS
<1> USE StepsAssumption DEF PlanTypeOK, planVars, searchVars, passVars
<1>1. ASSUME NEW id \in Steps, Visit(id)
      PROVE  colours' \in [Steps -> {"white", "grey", "black"}] /\ stack' \in Seq(Steps)
  BY <1>1 DEF Visit
<1>2. CASE VisitNext
  BY <1>1, <1>2 DEF VisitNext
<1>3. ASSUME stack # <<>> PROVE Top \in Steps
  BY <1>3 DEF Top
<1>4. CASE Follow
  BY <1>1, <1>3, <1>4 DEF Follow
<1>5. CASE MeetCycle
  BY <1>5 DEF MeetCycle
<1>6. CASE Return
  <2>1. stack' \in Seq(Steps)
    BY <1>6 DEF Return
  <2>2. colours' \in [Steps -> {"white", "grey", "black"}]
    BY <1>6 DEF Return
  <2> QED BY <1>6, <2>1, <2>2 DEF Return
<1>7. CASE Accept
  BY <1>7 DEF Accept
<1>8. CASE VisitStep
  <2>1. progress' \in BOOLEAN
    BY <1>8, Zenon DEF VisitStep
  <2>2. next' \in 1..(N + 1)
    BY <1>8 DEF VisitStep, Steps
  <2>3. order' \in Seq(Steps)
    <3>1. order' = order \/ order' = Append(order, next)
      BY <1>8 DEF VisitStep
    <3>2. next \in Steps
      BY <1>8 DEF VisitStep
    <3> QED BY <3>1, <3>2
  <2> QED BY <1>8, <2>1, <2>2, <2>3 DEF VisitStep
<1>9. CASE EndPass
  <2>1. progress' \in BOOLEAN
    BY <1>9, Zenon DEF EndPass
  <2>2. next' \in 1..(N + 1)
    BY <1>9 DEF EndPass
  <2>3. stage' \in {"ordering", "ordered", "failed"}
    BY <1>9 DEF EndPass
  <2> QED BY <1>9, <2>1, <2>2, <2>3 DEF EndPass
<1>10. CASE UNCHANGED planOrderVars
  BY <1>10 DEF planOrderVars
<1> QED
  BY <1>2, <1>4, <1>5, <1>6, <1>7, <1>8, <1>9, <1>10 DEF PlanNext, Validate

(* Every variable of the plan has its type.                                *)
THEOREM PlanTypeCorrect == PlanSpec => []PlanTypeOK
<1>1. ASSUME PlanInit PROVE PlanTypeOK
  <2>1. progress \in BOOLEAN
    BY <1>1, Zenon DEF PlanInit
  <2> QED BY <1>1, <2>1, StepsAssumption DEF PlanInit, PlanTypeOK
<1> QED BY <1>1, PlanTypeStep, PTL DEF PlanSpec

(* Visiting a white step keeps the stack a path of grey steps.             *)
LEMMA VisitKeepsPath ==
  ASSUME PlanTypeOK, StackInv, NEW id \in Steps, Visit(id), UNCHANGED dependsOn,
         stack # <<>> => id \in dependsOn[Top]
  PROVE  StackInv' /\ Black' = Black
<1>1. /\ stack \in Seq(Steps) /\ stack' = Append(stack, id)
      /\ colours \in [Steps -> {"white", "grey", "black"}]
      /\ colours[id] = "white" /\ colours' = [colours EXCEPT ![id] = "grey"]
  BY DEF PlanTypeOK, Visit
<1>2. /\ Len(stack') = Len(stack) + 1 /\ stack'[Len(stack) + 1] = id
      /\ \A k \in 1..Len(stack) : stack'[k] = stack[k]
  BY <1>1
<1>3. \A k \in 1..Len(stack) : stack[k] # id
  BY <1>1 DEF StackInv
<1>4. \A i \in Steps : colours'[i] = "grey" <=> \E k \in 1..Len(stack') : stack'[k] = i
  <2> TAKE i \in Steps
  <2>1. CASE i = id
    BY <1>1, <1>2, <2>1
  <2>2. CASE i # id
    BY <1>1, <1>2, <2>2 DEF StackInv
  <2> QED BY <2>1, <2>2
<1>5. \A j, k \in 1..Len(stack') : stack'[j] = stack'[k] => j = k
  BY <1>1, <1>2, <1>3 DEF StackInv
<1>6. \A k \in 1..(Len(stack') - 1) : stack'[k + 1] \in dependsOn[stack'[k]]
  BY <1>1, <1>2 DEF StackInv, Top
<1>7. Black' = Black
  BY <1>1 DEF Black
<1> QED BY <1>4, <1>5, <1>6, <1>7 DEF StackInv

(* A finished step leaves the stack a path, and closes no cycle.           *)
LEMMA ReturnKeepsSearch ==
  ASSUME PlanTypeOK, StackInv, FinishedInv, Return
  PROVE  StackInv' /\ FinishedInv'
<1> DEFINE top == Top
<1>1. /\ stack \in Seq(Steps) /\ stack # <<>> /\ stack' = SubSeq(stack, 1, Len(stack) - 1)
      /\ colours \in [Steps -> {"white", "grey", "black"}]
      /\ colours' = [colours EXCEPT ![top] = "black"]
      /\ \A dep \in dependsOn[top] : colours[dep] = "black"
      /\ dependsOn' = dependsOn /\ stage' = stage /\ stage = "submitted"
      /\ dependsOn \in [Steps -> SUBSET Steps]
  BY DEF PlanTypeOK, Return, planVars
<1>2. /\ Len(stack) \in Nat \ {0} /\ Len(stack') = Len(stack) - 1
      /\ \A k \in 1..(Len(stack) - 1) : stack'[k] = stack[k]
      /\ top = stack[Len(stack)] /\ top \in Steps
  <2>1. Len(stack) \in Nat \ {0}
    BY <1>1
  <2>2. Len(stack') = Len(stack) - 1 /\ \A k \in 1..(Len(stack) - 1) : stack'[k] = stack[k]
    <3>1. \A i \in 1..(Len(stack) - 1) : stack[i] \in Steps
      BY <1>1
    <3>2. /\ Len(SubSeq(stack, 1, Len(stack) - 1)) = IF 1 <= Len(stack) - 1 THEN Len(stack) - 1 - 1 + 1 ELSE 0
          /\ \A i \in 1..(Len(stack) - 1 - 1 + 1) : SubSeq(stack, 1, Len(stack) - 1)[i] = stack[1 + i - 1]
      BY <2>1, <3>1, SubSeqProperties
    <3>3. Len(SubSeq(stack, 1, Len(stack) - 1)) = Len(stack) - 1
      <4> DEFINE n == Len(stack)
      <4>1. n \in Nat \ {0} /\ Len(SubSeq(stack, 1, n - 1)) = IF 1 <= n - 1 THEN n - 1 - 1 + 1 ELSE 0
        BY <2>1, <3>2
      <4> HIDE DEF n
      <4>2. n \in Nat /\ n # 0 /\ n >= 1
        BY <4>1
      <4>3. Len(SubSeq(stack, 1, n - 1)) = n - 1
        BY <4>1, <4>2
      <4> QED BY <4>3 DEF n
    <3>4. \A k \in 1..(Len(stack) - 1) : SubSeq(stack, 1, Len(stack) - 1)[k] = stack[k]
      BY <2>1, <3>2
    <3> QED BY <1>1, <3>3, <3>4
  <2>3. top = stack[Len(stack)] /\ top \in Steps
    BY <1>1, <2>1 DEF Top
  <2> QED BY <2>1, <2>2, <2>3
<1> HIDE DEF top
<1>3. \A k \in 1..(Len(stack) - 1) : stack[k] # top
  BY <1>2 DEF StackInv
<1>4. StackInv'
  <2>1. \A i \in Steps : colours'[i] = "grey" <=> \E k \in 1..Len(stack') : stack'[k] = i
    <3> TAKE i \in Steps
    <3>1. CASE i = top
      BY <1>1, <1>2, <1>3, <3>1
    <3>2. CASE i # top
      <4>1. colours'[i] = colours[i]
        BY <1>1, <3>2
      <4>2. (\E k \in 1..Len(stack) : stack[k] = i) <=> \E k \in 1..Len(stack') : stack'[k] = i
        BY <1>2, <3>2
      <4> QED BY <4>1, <4>2 DEF StackInv
    <3> QED BY <3>1, <3>2
  <2>2. \A j, k \in 1..Len(stack') : stack'[j] = stack'[k] => j = k
    BY <1>2 DEF StackInv
  <2>3. \A k \in 1..(Len(stack') - 1) : stack'[k + 1] \in dependsOn'[stack'[k]]
    BY <1>1, <1>2 DEF StackInv
  <2> QED BY <2>1, <2>2, <2>3 DEF StackInv
<1>5. Black' = Black \cup {top}
  BY <1>1, <1>2 DEF Black
<1>6. dependsOn[top] \subseteq Black
  BY <1>1, <1>2 DEF Black
<1>7. \A i \in Black' : dependsOn'[i] \subseteq Black'
  BY <1>1, <1>5, <1>6 DEF FinishedInv
<1>8. top \notin Black
  BY <1>1, <1>2 DEF StackInv, Black
<1>9. ASSUME NEW S \in SUBSET (Black \cup {top}), S # {}
      PROVE  \E i \in S : dependsOn[i] \cap S = {}
  <2>1. CASE S = {top}
    BY <1>6, <1>8, <2>1
  <2>2. CASE S # {top}
    <3>1. S \ {top} \in SUBSET Black /\ S \ {top} # {}
      BY <1>9, <2>2
    <3>2. PICK i \in S \ {top} : dependsOn[i] \cap (S \ {top}) = {}
      BY <3>1 DEF FinishedInv
    <3>3. dependsOn[i] \subseteq Black
      BY <3>1 DEF FinishedInv
    <3> QED BY <1>8, <3>2, <3>3
  <2> QED BY <2>1, <2>2
<1>10. \A S \in SUBSET Black' : S # {} => \E i \in S : dependsOn'[i] \cap S = {}
  BY <1>1, <1>5, <1>9
<1>11. stage' \notin {"ordering", "ordered", "failed"}
  BY <1>1
<1>12. FinishedInv'
  BY <1>7, <1>10, <1>11 DEF FinishedInv
<1> QED BY <1>4, <1>12

(* A grey dependency of the top closes a cycle: the part of the stack from *)
(* that dependency on.                                                     *)
LEMMA GreyDependencyIsCyclic ==
  ASSUME PlanTypeOK, StackInv, stack # <<>>,
         NEW dep \in dependsOn[Top], colours[dep] = "grey"
  PROVE  Cyclic
<1>1. stack \in Seq(Steps) /\ Len(stack) \in Nat \ {0}
  BY DEF PlanTypeOK
<1>2. \A k \in 1..Len(stack) : stack[k] \in Steps
  BY <1>1
<1>3. dep \in Steps
  BY <1>1 DEF PlanTypeOK, Top
<1>4. PICK j \in 1..Len(stack) : stack[j] = dep
  BY <1>3 DEF StackInv
<1> DEFINE S == {stack[k] : k \in j..Len(stack)}
<1>5. S \in SUBSET Steps /\ dep \in S
  BY <1>1, <1>2, <1>4
<1>6. ASSUME NEW i \in S PROVE dependsOn[i] \cap S # {}
  <2>1. PICK k \in j..Len(stack) : stack[k] = i
    BY <1>6
  <2>2. CASE k = Len(stack)
    BY <1>5, <2>1, <2>2 DEF Top
  <2>3. CASE k < Len(stack)
    <3>1. k \in 1..(Len(stack) - 1) /\ k + 1 \in j..Len(stack)
      BY <1>1, <2>1, <2>3
    <3>2. stack[k + 1] \in dependsOn[i] /\ stack[k + 1] \in S
      BY <2>1, <3>1 DEF StackInv
    <3> QED BY <3>2
  <2> QED BY <1>1, <2>1, <2>2, <2>3
<1> HIDE DEF S
<1> QED BY <1>5, <1>6 DEF Cyclic

(* A step keeps the search right.                                          *)
LEMMA SearchStep == PlanTypeOK /\ SearchInv /\ [PlanNext]_planOrderVars => SearchInv'
<1> SUFFICES ASSUME PlanTypeOK, SearchInv, [PlanNext]_planOrderVars PROVE SearchInv'
  OBVIOUS
<1> USE DEF planVars, searchVars, passVars
<1>1. dependsOn' = dependsOn
  BY DEF PlanNext, Validate, VisitNext, Follow, MeetCycle, Return,
         Accept, VisitStep, EndPass, planOrderVars
<1>2. Cyclic' = Cyclic
  BY <1>1 DEF Cyclic
<1>3. ASSUME NEW id \in Steps, Visit(id), stage' = stage, stage = "submitted",
             stack # <<>> => id \in dependsOn[Top]
      PROVE  SearchInv'
  <2>1. StackInv' /\ Black' = Black
    BY <1>1, <1>3, VisitKeepsPath DEF SearchInv
  <2>2. FinishedInv'
    BY <1>1, <1>3, <2>1 DEF SearchInv, FinishedInv
  <2> QED BY <1>3, <2>1, <2>2 DEF SearchInv
<1>4. CASE VisitNext
  BY <1>3, <1>4 DEF VisitNext
<1>5. CASE Follow
  <2>1. Top \in Steps
    BY <1>5 DEF Follow, Top, PlanTypeOK
  <2>2. dependsOn[Top] \subseteq Steps
    BY <2>1 DEF PlanTypeOK
  <2> QED BY <1>3, <1>5, <2>2 DEF Follow
<1>6. CASE MeetCycle
  <2>1. Cyclic
    BY <1>6, GreyDependencyIsCyclic DEF MeetCycle, SearchInv
  <2>2. StackInv' /\ Black' = Black /\ stage' = "rejected"
    BY <1>1, <1>6 DEF MeetCycle, SearchInv, StackInv, Black
  <2>3. FinishedInv'
    BY <1>1, <2>2 DEF SearchInv, FinishedInv
  <2> QED BY <1>2, <2>1, <2>2, <2>3 DEF SearchInv
<1>7. CASE Return
  BY <1>7, ReturnKeepsSearch DEF SearchInv, Return
<1>8. CASE Accept
  <2>1. StackInv' /\ Black' = Black /\ stage' = "ordering"
    BY <1>1, <1>8 DEF Accept, SearchInv, StackInv, Black
  <2>2. Black = Steps
    BY <1>8 DEF Accept, Black
  <2> QED BY <1>1, <2>1, <2>2 DEF SearchInv, FinishedInv
<1>9. ASSUME UNCHANGED <<colours, stack>>,
             stage' = stage \/ stage \in {"ordering", "ordered", "failed"},
             stage' = "rejected" => stage = "rejected"
      PROVE  SearchInv'
  <2>1. StackInv' /\ Black' = Black
    BY <1>1, <1>9 DEF SearchInv, StackInv, Black
  <2> QED BY <1>1, <1>2, <1>9, <2>1 DEF SearchInv, FinishedInv
<1>10. CASE VisitStep
  BY <1>9, <1>10 DEF VisitStep
<1>11. CASE EndPass
  BY <1>9, <1>11 DEF EndPass
<1>12. CASE UNCHANGED planOrderVars
  BY <1>9, <1>12 DEF planOrderVars
<1> QED
  BY <1>4, <1>5, <1>6, <1>7, <1>8, <1>10, <1>11, <1>12 DEF PlanNext, Validate

(* Initially nothing is visited.                                           *)
LEMMA SearchInvariant == PlanSpec => []SearchInv
<1>1. ASSUME PlanInit PROVE SearchInv
  <2>1. Black = {} /\ \A i \in Steps : colours[i] # "grey"
    BY <1>1 DEF PlanInit, Black
  <2>2. Len(stack) = 0 /\ stage = "submitted"
    BY <1>1 DEF PlanInit
  <2>3. StackInv
    BY <2>1, <2>2 DEF StackInv
  <2>4. FinishedInv
    BY <2>1, <2>2 DEF FinishedInv
  <2> QED BY <2>2, <2>3, <2>4 DEF SearchInv
<1> QED BY <1>1, SearchStep, PlanTypeCorrect, PTL DEF PlanSpec

(* The colour marking rejects exactly the plans that have a cycle.         *)
THEOREM ValidatorIsExact == PlanSpec => []ValidatorFindsCycles
<1>1. SearchInv => ValidatorFindsCycles
  <2> SUFFICES ASSUME SearchInv, stage \in {"ordering", "ordered", "failed"}, Cyclic PROVE FALSE
    BY DEF SearchInv, ValidatorFindsCycles
  <2>1. PICK S \in SUBSET Steps : S # {} /\ \A i \in S : dependsOn[i] \cap S # {}
    BY DEF Cyclic
  <2>2. Black = Steps
    BY DEF SearchInv, FinishedInv
  <2>3. S \in SUBSET Black /\ S # {}
    BY <2>1, <2>2
  <2>4. PICK i \in S : dependsOn[i] \cap S = {}
    BY <2>3 DEF SearchInv, FinishedInv
  <2> QED BY <2>1, <2>4
<1> QED BY <1>1, SearchInvariant, PTL

(* A step keeps the order right.                                           *)
LEMMA OrderedStep == PlanTypeOK /\ OrderedInv /\ [PlanNext]_planOrderVars => OrderedInv'
<1> SUFFICES ASSUME PlanTypeOK, OrderedInv, [PlanNext]_planOrderVars PROVE OrderedInv'
  OBVIOUS
<1> USE DEF planVars, searchVars, passVars
<1>1. ASSUME UNCHANGED <<planVars, done, order>>, stage' = "ordered" => Len(order) >= N
      PROVE  OrderedInv'
  BY <1>1 DEF OrderedInv
<1>2. CASE Validate
  BY <1>1, <1>2 DEF Validate, VisitNext, Follow, MeetCycle, Return, Accept,
                    OrderedInv
<1>3. CASE VisitStep
  <2>1. CASE stableId[next] \notin done /\ Ready(next)
    <3>1. /\ order \in Seq(Steps) /\ next \in Steps /\ order' = Append(order, next)
          /\ done' = done \cup {stableId[next]} /\ UNCHANGED <<dependsOn, stableId>>
          /\ stage' = "ordering"
      BY <1>3, <2>1 DEF VisitStep, PlanTypeOK
    <3>2. /\ Len(order) \in Nat /\ Len(order') = Len(order) + 1 /\ order'[Len(order) + 1] = next
          /\ \A k \in 1..Len(order) : order'[k] = order[k]
      BY <3>1
    <3>3. done' = {stableId[order'[k]] : k \in 1..Len(order')}
      BY <3>1, <3>2 DEF OrderedInv
    <3>4. \A k \in 1..Len(order) : stableId[order[k]] # stableId[next]
      BY <2>1 DEF OrderedInv
    <3>5. \A j, k \in 1..Len(order') : stableId[order'[j]] = stableId[order'[k]] => j = k
      BY <3>2, <3>4 DEF OrderedInv
    <3>6. ASSUME NEW k \in 1..Len(order'), NEW d \in dependsOn[order'[k]]
          PROVE  \E j \in 1..(k - 1) : stableId[order'[j]] = stableId[d]
      <4>1. CASE k <= Len(order)
        BY <3>2, <3>6, <4>1 DEF OrderedInv
      <4>2. CASE k = Len(order) + 1
        <5>1. stableId[d] \in done
          BY <2>1, <3>2, <3>6, <4>2 DEF Ready
        <5> QED BY <3>2, <4>2, <5>1 DEF OrderedInv
      <4> QED BY <3>2, <4>1, <4>2
    <3>7. dependsOn' = dependsOn /\ stableId' = stableId /\ stage' # "ordered"
      BY <3>1
    <3>8. \A k \in 1..Len(order') : \A d \in dependsOn'[order'[k]] :
            \E j \in 1..(k - 1) : stableId'[order'[j]] = stableId'[d]
      BY <3>6, <3>7
    <3> QED BY <3>3, <3>5, <3>7, <3>8 DEF OrderedInv
  <2>2. CASE ~(stableId[next] \notin done /\ Ready(next))
    BY <1>1, <1>3, <2>2 DEF VisitStep, OrderedInv
  <2> QED BY <2>1, <2>2
<1>4. CASE EndPass
  BY <1>1, <1>4 DEF EndPass
<1>5. CASE UNCHANGED planOrderVars
  BY <1>1, <1>5 DEF planOrderVars, OrderedInv
<1> QED BY <1>2, <1>3, <1>4, <1>5 DEF PlanNext

(* Initially nothing is ordered.                                           *)
LEMMA OrderedInvariant == PlanSpec => []OrderedInv
<1>1. PlanInit => OrderedInv
  BY DEF PlanInit, OrderedInv
<1> QED BY <1>1, OrderedStep, PlanTypeCorrect, PTL DEF PlanSpec

(* An order holds no step twice, so it has at most N steps, and if it has  *)
(* N then every step is in it.                                             *)
LEMMA OrderIsInjective ==
  ASSUME PlanTypeOK, OrderedInv
  PROVE  /\ order \in Injection(1..Len(order), Steps)
         /\ Len(order) <= N
         /\ Len(order) >= N => order \in Surjection(1..Len(order), Steps)
<1>1. /\ order \in [1..Len(order) -> Steps] /\ Len(order) \in Nat
      /\ N \in Nat /\ Steps = 1..N
  BY StepsAssumption DEF PlanTypeOK, Steps
<1>2. \A j, k \in 1..Len(order) : order[j] = order[k] => j = k
  BY DEF OrderedInv
<1>3. order \in Injection(1..Len(order), Steps)
  BY <1>1, <1>2 DEF Injection, IsInjective
<1>4. /\ IsFiniteSet(Steps) /\ Cardinality(Steps) = N
      /\ Cardinality(1..Len(order)) = Len(order)
  <2>1. IsFiniteSet(1..N) /\ Cardinality(1..N) = IF 1 > N THEN 0 ELSE N - 1 + 1
    BY <1>1, FS_Interval
  <2>2. \A n \in Nat : Cardinality(1..n) = IF 1 > n THEN 0 ELSE n - 1 + 1
    BY FS_Interval
  <2> QED BY <1>1, <2>1, <2>2, StepsAssumption
<1>5. /\ Cardinality(1..Len(order)) <= Cardinality(Steps)
      /\ Cardinality(1..Len(order)) = Cardinality(Steps)
           <=> order \in Surjection(1..Len(order), Steps)
  BY <1>3, <1>4, FS_Injection
<1> QED BY <1>1, <1>3, <1>4, <1>5

(* The order is one in which each step comes after what it depends on, and *)
(* it holds every step once.                                               *)
THEOREM OrdersAreTopological == PlanSpec => []OrderIsTopological
<1>1. ASSUME PlanTypeOK, OrderedInv PROVE OrderIsTopological
  <2> SUFFICES ASSUME stage = "ordered"
               PROVE  /\ Len(order) = N
                      /\ \A i \in Steps : \E k \in 1..N : order[k] = i
                      /\ \A k \in 1..N : \A d \in dependsOn[order[k]] : \E j \in 1..(k - 1) : order[j] = d
    BY DEF OrderIsTopological
  <2>1. Len(order) = N /\ order \in Surjection(1..Len(order), Steps)
    BY <1>1, OrderIsInjective, StepsAssumption DEF OrderedInv, PlanTypeOK
  <2>2. \A i \in Steps : \E k \in 1..N : order[k] = i
    BY <2>1 DEF Surjection
  <2>3. ASSUME NEW k \in 1..N, NEW d \in dependsOn[order[k]]
        PROVE  \E j \in 1..(k - 1) : order[j] = d
    <3>1. PICK j \in 1..(k - 1) : stableId[order[j]] = stableId[d]
      BY <1>1, <2>1, <2>3 DEF OrderedInv
    <3>2. order[k] \in Steps
      BY <1>1, <2>1 DEF PlanTypeOK
    <3>3. d \in Steps
      BY <1>1, <3>2 DEF PlanTypeOK
    <3>4. PICK m \in 1..N : order[m] = d
      BY <2>2, <3>3
    <3>5. j \in 1..N
      BY <3>1, StepsAssumption
    <3>6. j = m
      BY <1>1, <2>1, <3>1, <3>4, <3>5 DEF OrderedInv
    <3> QED BY <3>4, <3>6
  <2> QED BY <2>1, <2>2, <2>3
<1> QED BY <1>1, PlanTypeCorrect, OrderedInvariant, PTL

(* A step keeps what is known about a pass without progress.               *)
LEMMA PassStep == PlanTypeOK /\ PassInv /\ [PlanNext]_planOrderVars => PassInv'
<1> SUFFICES ASSUME PlanTypeOK, PassInv, [PlanNext]_planOrderVars PROVE PassInv'
  OBVIOUS
<1> USE DEF planVars, searchVars, passVars
<1>1. N \in Nat \ {0}
  BY StepsAssumption
<1>2. ASSUME UNCHANGED <<next, progress, done, order, dependsOn, stableId>>,
             stage' = stage \/ (stage = "submitted" /\ stage' \in {"rejected", "ordering"})
      PROVE  PassInv'
  <2>1. \A i : Ready(i)' <=> Ready(i)
    BY <1>2 DEF Ready
  <2>2. stage = "submitted" => Len(order) = 0 /\ next = 1
    BY DEF PassInv
  <2> QED BY <1>1, <1>2, <2>1, <2>2 DEF PassInv
<1>3. CASE Validate
  BY <1>2, <1>3 DEF Validate, VisitNext, Follow, MeetCycle, Return, Accept
<1>4. CASE VisitStep
  <2>1. stage' = "ordering" /\ stage = "ordering" /\ next' = next + 1 /\ next \in 1..N
        /\ UNCHANGED <<dependsOn, stableId>>
    BY <1>4 DEF VisitStep, Steps
  <2>2. CASE stableId[next] \notin done /\ Ready(next)
    <3>1. progress'
      BY <1>4, <2>2, Zenon DEF VisitStep
    <3> QED BY <2>1, <3>1 DEF PassInv
  <2>3. CASE ~(stableId[next] \notin done /\ Ready(next))
    <3>1. order' = order /\ done' = done
      BY <1>4, <2>3 DEF VisitStep
    <3>2. progress' <=> progress
      BY <1>4, <2>3, Zenon DEF VisitStep
    <3>3. \A i : Ready(i)' <=> Ready(i)
      BY <2>1, <3>1 DEF Ready
    <3>4. \A i \in 1..(next' - 1) : i = next \/ i \in 1..(next - 1)
      BY <2>1
    <3> QED BY <2>1, <2>3, <3>1, <3>2, <3>3, <3>4 DEF PassInv
  <2> QED BY <2>2, <2>3
<1>5. CASE EndPass
  <2>1. /\ next' = 1 /\ order' = order /\ stage' \in {"ordering", "ordered", "failed"}
        /\ stage' = "ordering" => Len(order) < N
    BY <1>5 DEF EndPass
  <2> QED BY <2>1 DEF PassInv
<1>6. CASE UNCHANGED planOrderVars
  BY <1>2, <1>6 DEF planOrderVars
<1> QED BY <1>3, <1>4, <1>5, <1>6 DEF PlanNext

(* Initially no pass has begun.                                            *)
LEMMA PassInvariant == PlanSpec => []PassInv
<1>1. PlanInit => PassInv
  BY DEF PlanInit, PassInv
<1> QED BY <1>1, PassStep, PlanTypeCorrect, PTL DEF PlanSpec

(* A pass that orders nothing and leaves steps over has met a cycle: of    *)
(* the steps that are not done each waits for another.                     *)
LEMMA StuckPassIsCyclic ==
  ASSUME PlanTypeOK, OrderedInv, PassInv, DistinctStableIds,
         stage = "ordering", ~progress, next = N + 1
  PROVE  Cyclic
<1> DEFINE S == {i \in Steps : stableId[i] \notin done}
<1>1. N \in Nat \ {0} /\ Len(order) \in Nat /\ order \in [1..Len(order) -> Steps]
  BY StepsAssumption DEF PlanTypeOK
<1>2. Len(order) < N /\ \A i \in Steps : stableId[i] \in done \/ ~Ready(i)
  BY <1>1 DEF PassInv, Steps
<1>3. ASSUME S = {} PROVE FALSE
  <2>1. ASSUME NEW i \in Steps PROVE \E k \in 1..Len(order) : order[k] = i
    <3>1. stableId[i] \in done
      BY <1>3
    <3>2. PICK k \in 1..Len(order) : stableId[order[k]] = stableId[i]
      BY <3>1 DEF OrderedInv
    <3> QED BY <1>1, <3>2 DEF DistinctStableIds
  <2>2. order \in Surjection(1..Len(order), Steps)
    BY <1>1, <2>1 DEF Surjection
  <2>3. \A n \in Nat : IsFiniteSet(1..n) /\ Cardinality(1..n) = IF 1 > n THEN 0 ELSE n - 1 + 1
    BY FS_Interval
  <2>4. Cardinality(Steps) <= Cardinality(1..Len(order))
    BY <1>1, <2>2, <2>3, FS_Surjection
  <2> QED BY <1>1, <1>2, <2>3, <2>4 DEF Steps
<1>4. ASSUME NEW i \in S PROVE dependsOn[i] \cap S # {}
  <2>1. PICK d \in dependsOn[i] : stableId[d] \notin done
    BY <1>2, <1>4 DEF Ready
  <2>2. d \in S
    BY <1>4, <2>1 DEF PlanTypeOK
  <2> QED BY <2>1, <2>2
<1>5. S \in SUBSET Steps
  OBVIOUS
<1> HIDE DEF S
<1> QED BY <1>3, <1>4, <1>5 DEF Cyclic

(* A plan with distinct stable ids that passed the validator is ordered.   *)
THEOREM DistinctPlansAreOrdered == PlanSpec => []DistinctPlansResolve
<1>1. PlanInit => DistinctPlansResolve
  BY DEF PlanInit, DistinctPlansResolve
<1>2. ASSUME PlanTypeOK, SearchInv, OrderedInv, PassInv, ValidatorFindsCycles,
             DistinctPlansResolve, [PlanNext]_planOrderVars
      PROVE  DistinctPlansResolve'
  <2> SUFFICES ASSUME DistinctStableIds', stage' = "failed" PROVE FALSE
    BY DEF DistinctPlansResolve
  <2> USE DEF planVars, searchVars, passVars
  <2>1. stableId' = stableId
    BY <1>2 DEF PlanNext, Validate, VisitNext, Follow, MeetCycle, Return,
                Accept, VisitStep, EndPass, planOrderVars
  <2>2. DistinctStableIds
    BY <2>1 DEF DistinctStableIds
  <2>3. stage # "failed"
    BY <1>2, <2>2 DEF DistinctPlansResolve
  <2>4. EndPass
    BY <1>2, <2>3 DEF PlanNext, Validate, VisitNext, Follow, MeetCycle, Return,
                      Accept, VisitStep, planOrderVars
  <2>5. stage = "ordering" /\ next = N + 1 /\ ~progress
    BY <2>4 DEF EndPass
  <2>6. Cyclic
    BY <1>2, <2>2, <2>5, StuckPassIsCyclic
  <2> QED BY <1>2, <2>5, <2>6 DEF ValidatorFindsCycles
<1> QED
  BY <1>1, <1>2, PlanTypeCorrect, SearchInvariant, OrderedInvariant, PassInvariant, ValidatorIsExact,
     PTL DEF PlanSpec

(* The dependencies of an ordered plan, by positions in the order.         *)
Reordered == [k \in Steps |-> {j \in Steps : order[j] \in dependsOn[order[k]]}]

(* What resolveOrderedSteps hands over is what Run starts from: every step *)
(* depends on steps with a smaller number only.                            *)
THEOREM OrderedPlansStartRuns ==
  PlanSpec => [](stage = "ordered" => /\ Reordered \in [Steps -> SUBSET Steps]
                                      /\ \A i \in Steps : \A d \in Reordered[i] : d < i)
<1>1. ASSUME PlanTypeOK, OrderedInv, OrderIsTopological, stage = "ordered"
      PROVE  /\ Reordered \in [Steps -> SUBSET Steps]
             /\ \A i \in Steps : \A d \in Reordered[i] : d < i
  <2>1. Reordered \in [Steps -> SUBSET Steps]
    BY DEF Reordered, Steps
  <2>2. ASSUME NEW i \in Steps, NEW d \in Reordered[i] PROVE d < i
    <3>1. d \in 1..N /\ i \in 1..N /\ order[d] \in dependsOn[order[i]] /\ Len(order) = N
      BY <1>1, <2>2 DEF Reordered, Steps, OrderIsTopological
    <3>2. PICK j \in 1..(i - 1) : order[j] = order[d]
      BY <1>1, <3>1 DEF OrderIsTopological
    <3>3. j \in 1..N
      BY <3>1, <3>2, StepsAssumption
    <3>4. j = d
      BY <1>1, <3>1, <3>2, <3>3 DEF OrderedInv
    <3> QED BY <3>1, <3>2, <3>4, StepsAssumption
  <2> QED BY <2>1, <2>2
<1> QED BY <1>1, PlanTypeCorrect, OrderedInvariant, OrdersAreTopological, PTL
=============================================================================
