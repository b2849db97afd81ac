------------------------------ MODULE PlanOrder ------------------------------
(***************************************************************************)
(* What happens to the dependencies of a plan: validatePlanBody accepts or *)
(* rejects the plan before it is stored, and at the start of an execution  *)
(* resolveOrderedSteps orders the steps.  The validator goes by step ids,  *)
(* the ordering by stable ids.  A step's id is its position in the plan.   *)
(* The recursion of the validator's depth-first search is a stack, and one *)
(* call or return is one action.                                           *)
(***************************************************************************)
EXTENDS PlanSteps, Sequences

CONSTANT StableIds  \* the stable ids in use

ASSUME StableIdsAssumption == StableIds # {}

VARIABLES
  dependsOn,  \* [Steps -> set of step ids]
  stableId,   \* [Steps -> StableIds]
  stage,      \* submitted, rejected, ordering, ordered, failed
  colours,    \* [Steps -> white, grey, black]
  stack,      \* the calls of dfs that have not returned, by their step
  next,       \* the step the current pass is at
  progress,   \* whether this pass ordered a step
  done,       \* the stable ids already ordered
  order       \* the steps ordered so far

planVars      == <<dependsOn, stableId>>
searchVars    == <<colours, stack>>
passVars      == <<next, progress, done, order>>
planOrderVars == <<planVars, stage, searchVars, passVars>>

PlanInit ==
  /\ dependsOn \in [Steps -> SUBSET Steps]
  /\ stableId \in [Steps -> StableIds]
  /\ stage = "submitted"
  /\ colours = [i \in Steps |-> "white"] /\ stack = <<>>
  /\ next = 1 /\ progress = FALSE /\ done = {} /\ order = <<>>

-----------------------------------------------------------------------------
(* The validator.                                                          *)

Top == stack[Len(stack)]

(* Faulty variant: a step that is being visited counts as finished.        *)
FaultyVisit(id) ==
  /\ colours[id] = "white"
  /\ colours' = [colours EXCEPT ![id] = "black"]
  /\ stack' = Append(stack, id)

(* dfs of a step that was not visited; of a black one it returns at once.  *)
Visit(id) ==
  /\ colours[id] = "white"
  /\ colours' = [colours EXCEPT ![id] = "grey"]
  /\ stack' = Append(stack, id)

(* The loop over all step ids, in the order a Go map happens to give.      *)
VisitNext ==
  /\ stage = "submitted" /\ stack = <<>>
  /\ \E id \in Steps : Visit(id)
  /\ UNCHANGED <<planVars, stage, passVars>>

(* The loop over the dependencies of the step that is being visited.       *)
Follow ==
  /\ stage = "submitted" /\ stack # <<>>
  /\ \E dep \in dependsOn[Top] : Visit(dep)
  /\ UNCHANGED <<planVars, stage, passVars>>

(* A dependency that is being visited itself: "a dependency cycle".        *)
MeetCycle ==
  /\ stage = "submitted" /\ stack # <<>>
  /\ \E dep \in dependsOn[Top] : colours[dep] = "grey"
  /\ stage' = "rejected"
  /\ UNCHANGED <<planVars, searchVars, passVars>>

Return ==
  /\ stage = "submitted" /\ stack # <<>>
  /\ \A dep \in dependsOn[Top] : colours[dep] = "black"
  /\ colours' = [colours EXCEPT ![Top] = "black"]
  /\ stack' = SubSeq(stack, 1, Len(stack) - 1)
  /\ UNCHANGED <<planVars, stage, passVars>>

(* No id is left: the plan is stored, and some day executed.               *)
Accept ==
  /\ stage = "submitted" /\ stack = <<>>
  /\ \A id \in Steps : colours[id] = "black"
  /\ stage' = "ordering"
  /\ UNCHANGED <<planVars, searchVars, passVars>>

-----------------------------------------------------------------------------
(* The ordering.                                                           *)

(* Faulty variant: it is enough that one dependency is ordered.            *)
FaultyReady(i) == dependsOn[i] = {} \/ \E d \in dependsOn[i] : stableId[d] \in done

(* Every dependency, named by its stable id, is ordered already.           *)
Ready(i) == \A d \in dependsOn[i] : stableId[d] \in done

(* One step of a pass.                                                     *)
VisitStep ==
  /\ stage = "ordering" /\ next \in Steps
  /\ IF stableId[next] \notin done /\ Ready(next)
     THEN /\ order' = Append(order, next)
          /\ done' = done \cup {stableId[next]}
          /\ progress' = TRUE
     ELSE UNCHANGED <<order, done, progress>>
  /\ next' = next + 1
  /\ UNCHANGED <<planVars, stage, searchVars>>

(* Faulty variant: one pass has to be enough.                              *)
FaultyEndPass ==
  /\ stage = "ordering" /\ next = N + 1
  /\ stage' = IF Len(order) >= N THEN "ordered" ELSE "failed"
  /\ next' = 1 /\ progress' = FALSE
  /\ UNCHANGED <<planVars, searchVars, done, order>>

(* The end of a pass: all ordered, another pass, or "dependency cycle".    *)
EndPass ==
  /\ stage = "ordering" /\ next = N + 1
  /\ \/ progress /\ Len(order) < N /\ stage' = "ordering"
     \/ progress /\ Len(order) >= N /\ stage' = "ordered"
     \/ ~progress /\ stage' = "failed"
  /\ next' = 1 /\ progress' = FALSE
  /\ UNCHANGED <<planVars, searchVars, done, order>>

Validate == VisitNext \/ Follow \/ MeetCycle \/ Return \/ Accept

PlanNext == Validate \/ VisitStep \/ EndPass

PlanSpec == PlanInit /\ [][PlanNext]_planOrderVars
PlanFairSpec == PlanSpec /\ WF_planOrderVars(PlanNext)

-----------------------------------------------------------------------------
(* Properties.                                                             *)

PlanTypeOK ==
  /\ dependsOn \in [Steps -> SUBSET Steps] /\ stableId \in [Steps -> StableIds]
  /\ stage \in {"submitted", "rejected", "ordering", "ordered", "failed"}
  /\ colours \in [Steps -> {"white", "grey", "black"}] /\ stack \in Seq(Steps)
  /\ next \in 1..(N + 1) /\ progress \in BOOLEAN /\ order \in Seq(Steps)

(* Reference: a cycle is a set of steps each of which waits for another.   *)
Cyclic == \E S \in (SUBSET Steps) \ {{}} : \A i \in S : dependsOn[i] \cap S # {}

(* The colour marking rejects exactly the plans that have a cycle.         *)
ValidatorFindsCycles ==
  /\ stage = "rejected" => Cyclic
  /\ stage \in {"ordering", "ordered", "failed"} => ~Cyclic

DistinctStableIds == \A i, j \in Steps : stableId[i] = stableId[j] => i = j

(* The order is one in which each step comes after what it depends on, and *)
(* it holds every step once: what ExecutionRun takes for granted.          *)
OrderIsTopological ==
  stage = "ordered" =>
    /\ Len(order) = N
    /\ \A i \in Steps : \E k \in 1..N : order[k] = i
    /\ \A k \in 1..N : \A d \in dependsOn[order[k]] : \E j \in 1..(k - 1) : order[j] = d

(* A plan with distinct stable ids that passed the validator is ordered.   *)
DistinctPlansResolve == DistinctStableIds => stage # "failed"

(* The plan validator already guarantees that ordering finds no cycle.     *)
ValidPlansResolve == stage # "failed"

=============================================================================
