------------------------------- MODULE PlanSteps -------------------------------
(***************************************************************************)
(* The steps of one plan, as the modules about plans number them: PlanOrder*)
(* by their position in the plan, ExecutionRun by their position in the    *)
(* order that it is given.                                                 *)
(***************************************************************************)
EXTENDS Naturals

CONSTANT N  \* number of steps of the plan

ASSUME StepsAssumption == N \in Nat \ {0}

Steps == 1..N
=============================================================================
