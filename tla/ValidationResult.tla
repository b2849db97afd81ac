--------------------------- MODULE ValidationResult ---------------------------
(***************************************************************************)
(* The result of a validation run, as the orchestrator computes it from    *)
(* the rows of the stages and the stored diagnostics, and as the repair    *)
(* reads it.  A result is a record: the verdict, the stages whose row is   *)
(* failed or skipped, and the repair categories of the error diagnostics   *)
(* of each stage, at most one diagnostic of each category.                 *)
(***************************************************************************)
EXTENDS Naturals, FiniteSets

Categories == {"auto_fixable", "needs_human", "unknown", "environment_limitation"}
Verdicts   == {"passed", "failed_environment", "failed_requires_human", "failed_repairable"}

Errors(found)   == Cardinality({p \in (DOMAIN found) \X Categories : p[2] \in found[p[1]]})
Failing(found)  == {s \in DOMAIN found : found[s] # {}}
Has(found, c)   == \E s \in DOMAIN found : c \in found[s]

(* Faulty variant: the rows of the stages are not looked at.               *)
FaultyVerdict(failed, found, env) ==
  CASE Failing(found) = {} -> "passed"
    [] env = "failed" -> "failed_environment"
    [] Has(found, "needs_human") -> "failed_requires_human"
    [] OTHER -> "failed_repairable"

(* computeOverallResultWithOrigin.                                         *)
Verdict(failed, found, env) ==
  CASE failed # {} /\ env = "failed" -> "failed_environment"
    [] failed = {} /\ Failing(found) = {} -> "passed"
    [] Has(found, "needs_human") -> "failed_requires_human"
    [] OTHER -> "failed_repairable"

(* What the agent parses out of the output of a stage, and what is stored  *)
(* of one that its environment keeps from running.  A diagnostic of an     *)
(* unknown category only counts as an error; beside another it would add   *)
(* nothing but to the number, and so it is alone here.                     *)
Findings    == (SUBSET {"auto_fixable", "needs_human"}) \cup {{"unknown"}}
Diagnostics == Findings \cup {{"environment_limitation"}}

Result(failed, skipped, found, env) ==
  [verdict |-> Verdict(failed, found, env),
   failed  |-> failed, skipped |-> skipped, found |-> found]

(* What every run guarantees the repair about its result.                  *)
Consistent(r) ==
  /\ r.failed \cap r.skipped = {}
  /\ \A s \in r.skipped : r.found[s] = {}
  /\ r.verdict \in {"passed", "failed_environment"} => (r.verdict = "passed" <=> r.failed = {})
  /\ r.verdict = "passed" => Failing(r.found) = {}

(* The results of the runs of a profile.                                   *)
Results(stages) ==
  {r \in {Result(failed, skipped, found, env) :
            failed, skipped \in SUBSET stages, found \in [stages -> Diagnostics], env \in {"fine", "failed"}} :
     Consistent(r)}
=============================================================================
