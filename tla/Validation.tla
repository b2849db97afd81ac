------------------------------ MODULE Validation ------------------------------
(***************************************************************************)
(* One validation run of a workspace: the stages of the profile in a       *)
(* container of its own, the row of each stage, the diagnostics the agent  *)
(* parses out of its output, and the verdict.  A run has one actor; what   *)
(* it races are the commands in the container and their timeouts.  The     *)
(* trigger and the repair start the runs and use their results.            *)
(***************************************************************************)
EXTENDS ValidationResult, Sequences

CONSTANTS
  Languages,   \* languages the detector may find in the workspace
  MaxFailures  \* bound: crashes, failures of a statement, the container or the agent

StageNames == {"install", "build", "test", "lint"}

(* The stages of a profile in their order, and those that a missing tool   *)
(* or an unreachable container skips.                                      *)
Profile(language) ==
  IF language = "python" THEN <<"install", "test", "lint">>
                         ELSE <<"install", "build", "test", "lint">>
Optional(language) == IF language = "node" THEN {"build", "lint"} ELSE {"lint"}

(* A failed build keeps all but these stages from running, a failed        *)
(* installation keeps all of them.                                         *)
RunOnBuildFail == {"install", "build", "lint"}

ASSUME LanguagesAssumption == Languages \subseteq {"go", "node", "python"} /\ Languages # {}
ASSUME FailuresAssumption  == MaxFailures \in Nat

VARIABLES
  language,  \* language of the workspace
  vpc,       \* how far the run is
  stage,     \* index of the stage that is next or under way
  rows,      \* [StageNames -> validation_stages.status]
  found,     \* [StageNames -> repair categories of its error diagnostics]
  broken,    \* gates that did not pass: buildPassed and installPassed
  env,       \* whether a stage was found to fail for its environment
  runRow,    \* validation_runs.status
  verdict,   \* the overall result the caller gets
  container, \* the container of the run
  truth,     \* history: [StageNames -> how its command really ended]
  failures   \* crashes and failures so far

stageVars      == <<rows, found, broken, env, truth>>
runVars        == <<runRow, verdict, container>>
validationVars == <<language, vpc, stage, stageVars, runVars, failures>>

VPCs == {"detecting", "provisioning", "staging", "running", "stuck", "ended", "dead"}

Failure == failures < MaxFailures /\ failures' = failures + 1

ValidationInit ==
  /\ language \in Languages /\ vpc = "detecting" /\ stage = 1
  /\ rows  = [s \in StageNames |-> "none"]
  /\ found = [s \in StageNames |-> {}]
  /\ truth = [s \in StageNames |-> "none"]
  /\ broken = {} /\ env = "fine"
  /\ runRow = "none" /\ verdict = "none" /\ container = "none" /\ failures = 0

-----------------------------------------------------------------------------
Stage == Profile(language)[stage]
Goto(to) == vpc' = to

(* The detector and the insertion of the run.                              *)
CreateRun ==
  /\ vpc = "detecting"
  /\ \/ runRow' = "running" /\ Goto("provisioning") /\ UNCHANGED <<verdict, failures>>
     \/ Failure /\ verdict' = "error" /\ Goto("ended") /\ UNCHANGED runRow
  /\ UNCHANGED <<language, stage, stageVars, container>>

(* The container, and the tool that its stages need.                       *)
ProvisionContainer ==
  /\ vpc = "provisioning"
  /\ container' = "running" /\ Goto("staging")
  /\ UNCHANGED <<language, stage, stageVars, runRow, verdict, failures>>

(* Faulty variant: the run is not marked.                                  *)
FaultyProvisionFails ==
  /\ vpc = "provisioning"
  /\ verdict' = "error" /\ Goto("ended")
  /\ UNCHANGED <<language, stage, stageVars, runRow, container, failures>>

(* No container: MarkError, whose failure leaves the run running.          *)
ProvisionFails ==
  /\ vpc = "provisioning"
  /\ (runRow' = "error" /\ UNCHANGED failures) \/ (Failure /\ UNCHANGED runRow)
  /\ verdict' = "error" /\ Goto("ended")
  /\ UNCHANGED <<language, stage, stageVars, container>>

(* The container is destroyed on the way out, whatever the way.            *)
RemoveContainer ==
  \/ container' = "none" /\ UNCHANGED failures
  \/ container' = "leaked" /\ Failure

(* A container without the tool: it is destroyed again.                    *)
ToolchainMissing ==
  /\ vpc = "provisioning"
  /\ \/ runRow' = "error" /\ RemoveContainer
     \/ Failure /\ UNCHANGED runRow /\ container' = "none"
  /\ verdict' = "error" /\ Goto("ended")
  /\ UNCHANGED <<language, stage, stageVars>>

Barred(s) == "install" \in broken \/ ("build" \in broken /\ s \notin RunOnBuildFail)

(* A stage behind a failed gate gets a skipped row, or none at all.        *)
SkipStage ==
  /\ vpc = "staging" /\ stage <= Len(Profile(language)) /\ Barred(Stage)
  /\ \/ rows' = [rows EXCEPT ![Stage] = "skipped"] /\ UNCHANGED failures
     \/ Failure /\ UNCHANGED rows
  /\ stage' = stage + 1
  /\ UNCHANGED <<language, vpc, found, broken, env, truth, runVars>>

(* CreateStage and MarkStageRunning.                                       *)
BeginStage ==
  /\ vpc = "staging" /\ stage <= Len(Profile(language)) /\ ~Barred(Stage)
  /\ rows' = [rows EXCEPT ![Stage] = "running"]
  /\ Goto("running")
  /\ UNCHANGED <<language, stage, found, broken, env, truth, runVars, failures>>

Break(s) == broken' = broken \cup ({s} \cap {"install", "build"})

(* Without its row a stage is left out, and counts as not passed.          *)
LoseStage ==
  /\ vpc = "staging" /\ stage <= Len(Profile(language)) /\ ~Barred(Stage)
  /\ Failure
  /\ truth' = [truth EXCEPT ![Stage] = "unknown"]
  /\ Break(Stage)
  /\ stage' = stage + 1
  /\ UNCHANGED <<language, vpc, rows, found, env, runVars>>

Observed(status) == IF status = "passed" THEN "ok" ELSE "failed"

(* CompleteStage and InsertDiagnostics: what cannot be written is missing. *)
Complete(s, status, categories) ==
  /\ \/ /\ rows'  = [rows EXCEPT ![s] = status]
        /\ found' = [found EXCEPT ![s] = categories]
        /\ truth' = [truth EXCEPT ![s] = Observed(status)]
        /\ UNCHANGED failures
     \/ /\ Failure
        /\ \/ rows'  = [rows EXCEPT ![s] = status] /\ UNCHANGED found
              /\ truth' = [truth EXCEPT ![s] = Observed(status)]
           \/ found' = [found EXCEPT ![s] = categories] /\ UNCHANGED rows
              /\ truth' = [truth EXCEPT ![s] = "unknown"]
  /\ stage' = stage + 1 /\ Goto("staging")

(* Exit code 0; the agent may still find errors in the output.             *)
StagePasses ==
  /\ vpc = "running"
  /\ \E categories \in Findings : Complete(Stage, "passed", categories)
  /\ UNCHANGED <<language, broken, env, runVars>>

(* Exit code 0, with an output that looks like an environment failure: the *)
(* stage has passed and counts as an environment failure all the same.     *)
StagePassesUnderSuspicion ==
  /\ vpc = "running"
  /\ Complete(Stage, "passed", {"environment_limitation"})
  /\ env' = "failed"
  /\ UNCHANGED <<language, broken, runVars>>

(* Any other exit code, for the sake of the code.                          *)
StageFails ==
  /\ vpc = "running"
  /\ \E categories \in Findings : Complete(Stage, "failed", categories)
  /\ Break(Stage)
  /\ UNCHANGED <<language, env, runVars>>

(* A known environment failure, a tool that is missing from a required     *)
(* stage, exit code 134, or a timeout that left an event.                  *)
StageFailsForEnvironment ==
  /\ vpc = "running"
  /\ Complete(Stage, "failed", {"environment_limitation"})
  /\ env' = "failed"
  /\ Break(Stage)
  /\ UNCHANGED <<language, runVars>>

(* Faulty variant: the diagnostic is stored before the stage is skipped.   *)
FaultyToolMissing ==
  /\ vpc = "running" /\ Stage \in Optional(language)
  /\ rows'  = [rows EXCEPT ![Stage] = "skipped"]
  /\ found' = [found EXCEPT ![Stage] = {"environment_limitation"}]
  /\ stage' = stage + 1 /\ Goto("staging")
  /\ truth' = [truth EXCEPT ![Stage] = "ok"]
  /\ UNCHANGED <<language, broken, env, runVars, failures>>

(* The tool of an optional stage is missing, or its command cannot be run. *)
ToolMissing ==
  /\ vpc = "running" /\ Stage \in Optional(language)
  /\ \/ rows' = [rows EXCEPT ![Stage] = "skipped"] /\ UNCHANGED failures
     \/ Failure /\ UNCHANGED rows
  /\ stage' = stage + 1 /\ Goto("staging")
  /\ truth' = [truth EXCEPT ![Stage] = "ok"]
  /\ UNCHANGED <<language, found, broken, env, runVars>>

(* The command is still running when its time is up: the driver sends      *)
(* neither an exit nor a timeout event, and the exit code keeps its zero;  *)
(* the agent sees what was printed so far.                                 *)
TimeoutUnseen ==
  /\ vpc = "running"
  /\ rows' = [rows EXCEPT ![Stage] = "passed"]
  /\ \E categories \in Findings : found' = [found EXCEPT ![Stage] = categories]
  /\ truth' = [truth EXCEPT ![Stage] = "unknown"]
  /\ stage' = stage + 1 /\ Goto("staging")
  /\ UNCHANGED <<language, broken, env, runVars, failures>>

(* The command of a required stage cannot be run: its row stays running.   *)
CannotRun ==
  /\ vpc = "running" /\ Stage \notin Optional(language) /\ Failure
  /\ truth' = [truth EXCEPT ![Stage] = "unknown"]
  /\ Break(Stage)
  /\ stage' = stage + 1 /\ Goto("staging")
  /\ UNCHANGED <<language, rows, found, env, runVars>>

(* The probes before eslint drop the error of Exec and wait for ever on a  *)
(* nil channel.                                                            *)
LintHangs ==
  /\ vpc = "running" /\ Stage = "lint" /\ language = "node" /\ Failure
  /\ Goto("stuck")
  /\ UNCHANGED <<language, stage, stageVars, runVars>>
-----------------------------------------------------------------------------
RowsWith(status) == {s \in StageNames : rows[s] = status}
ThisResult == Result(RowsWith("failed"), RowsWith("skipped"), found, env)

(* The full result is read back and the run is marked.                     *)
Assemble ==
  /\ vpc = "staging" /\ stage > Len(Profile(language))
  /\ verdict' = ThisResult.verdict
  /\ \/ runRow' = (IF verdict' = "passed" THEN "passed" ELSE "failed") /\ RemoveContainer
     \/ Failure /\ UNCHANGED runRow /\ container' = "none"
  /\ Goto("ended")
  /\ UNCHANGED <<language, stage, stageVars>>

AssembleFails ==
  /\ vpc = "staging" /\ stage > Len(Profile(language)) /\ Failure
  /\ verdict' = "error" /\ runRow' \in {runRow, "error"}
  /\ container' = "none" /\ Goto("ended")
  /\ UNCHANGED <<language, stage, stageVars>>

(* The process dies.                                                       *)
RunCrash ==
  /\ vpc \notin {"ended", "dead"} /\ Failure
  /\ vpc' = "dead"
  /\ UNCHANGED <<language, stage, stageVars, runVars>>

Step ==
  \/ CreateRun \/ ProvisionContainer \/ ProvisionFails \/ ToolchainMissing
  \/ SkipStage \/ BeginStage \/ LoseStage
  \/ StagePasses \/ StagePassesUnderSuspicion
  \/ StageFails \/ StageFailsForEnvironment \/ ToolMissing
  \/ TimeoutUnseen \/ CannotRun \/ LintHangs
  \/ Assemble \/ AssembleFails

ValidationNext == Step \/ RunCrash

ValidationSpec == ValidationInit /\ [][ValidationNext]_validationVars

(* The goroutine goes on: each command has a timeout of its own.           *)
ValidationFairSpec == ValidationSpec /\ WF_validationVars(Step)
-----------------------------------------------------------------------------
ValidationTypeOK ==
  /\ language \in Languages /\ vpc \in VPCs /\ stage \in 1..5
  /\ rows \in [StageNames -> {"none", "running", "passed", "failed", "skipped"}]
  /\ found \in [StageNames -> SUBSET Categories]
  /\ truth \in [StageNames -> {"none", "ok", "failed", "unknown"}]
  /\ broken \subseteq {"install", "build"} /\ env \in {"fine", "failed"}
  /\ runRow \in {"none", "running", "passed", "failed", "error"}
  /\ verdict \in Verdicts \cup {"none", "error"}
  /\ container \in {"none", "running", "leaked"}
  /\ failures \in 0..MaxFailures

(* A failed stage never passes: when a run has passed, every stage of its  *)
(* profile ended well, or its end was not seen or could not be stored, or  *)
(* it was skipped behind such a gate.  No skipped row, lost diagnostic or  *)
(* missing tool turns a failure into a pass.                               *)
PassIsEarned ==
  verdict = "passed" =>
    \A i \in 1..Len(Profile(language)) :
       \/ truth[Profile(language)[i]] \in {"ok", "unknown"}
       \/ truth[Profile(language)[i]] = "none" /\ \E g \in broken : truth[g] = "unknown"

(* Whatever is lost on the way, the result a caller gets is one the repair *)
(* is made for: the stages behind a gate have no diagnostics, a pass has   *)
(* none at all, and the environment is not blamed unless a stage failed.   *)
ResultIsConsistent ==
  vpc = "ended" /\ verdict # "error" => Consistent(ThisResult) /\ verdict = ThisResult.verdict

(* A run comes to an end that its row shows, and its container is removed, *)
(* unless something fails: a command that is never heard of again, or a    *)
(* tool that is missing, does not hold it up.                              *)
RunsSettle ==
  <>(failures > 0 \/ (vpc = "ended" /\ runRow \in {"passed", "failed", "error"} /\ container # "running"))

(* "Any stage failed with failure_origin=environment": the environment is  *)
(* blamed for a stage that failed because of it.                           *)
BlamedStageFailed ==
  verdict = "failed_environment" /\ failures = 0 =>
    \E s \in StageNames : rows[s] = "failed" /\ "environment_limitation" \in found[s]
=============================================================================
