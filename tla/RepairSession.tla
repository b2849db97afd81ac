----------------------------- MODULE RepairSession ----------------------------
(***************************************************************************)
(* What becomes of a work item after its execution: the validation that    *)
(* the execution triggers, the repair session that a repairable verdict    *)
(* opens, and the validation after each of its attempts.  Two actors share *)
(* the files of the workspace: the goroutine of the trigger, and the agent *)
(* that edits files by tool calls while the goroutine reads its stream.    *)
(* A validation is one step here and its result any that the module        *)
(* Validation may arrive at.  The content of a file is a number: 1 when    *)
(* the file is absent, 2 as the execution left it, a + 2 as attempt a      *)
(* wrote it.                                                               *)
(***************************************************************************)
EXTENDS ValidationResult, Sequences

CONSTANTS
  Stages,      \* stages of the profile
  Files,       \* files of the workspace
  Named,       \* files that a diagnostic that can be repaired names as the agent
               \*        does, by their path from the root of the workspace
  MaxAttempts, \* DefaultMaxAttempts
  MaxFaults    \* bound: crashes, failures of a statement, the agent or its stream

Endings == {"complete", "cannot_repair", "error"}

ASSUME StagesAssumption   == IsFiniteSet(Stages)
ASSUME FilesAssumption    == IsFiniteSet(Files) /\ Named \subseteq Files /\ Files \cap Endings = {}
ASSUME AttemptsAssumption == MaxAttempts \in Nat \ {0}
ASSUME FaultsAssumption   == MaxFaults \in Nat

VARIABLES
  item,       \* work_items.status
  session,    \* repair_sessions.status
  pc,         \* how far the goroutine is
  attempt,    \* number of the attempt under way
  result,     \* verdict and diagnostics of the last validation
  trigger,    \* failing stages and errors of the run that opened the session
  files,      \* [Files -> content]
  before,     \* [Files -> content captured in this attempt, Unknown if none]
  stream,     \* events of the agent that were not read yet
  tool,       \* the write the agent has announced and not made
  written,    \* files the agent wrote in this attempt
  ending,     \* last event of the agent's stream that was read
  checkpoint, \* [Files -> content a rollback restores, Unknown if none]
  start,      \* history: the files when the attempt began
  validated,  \* history: the files that the last validation saw
  faults      \* crashes and failures so far

Unknown  == 0
Absent   == 1
Original == 2
Contents == 1..(MaxAttempts + 2)

sessionVars == <<item, session, attempt, result, trigger, validated>>
agentVars   == <<stream, tool, written>>
fileVars    == <<files, before, ending, checkpoint, start>>
vars == <<pc, sessionVars, agentVars, fileVars, faults>>

PCs == {"validating", "deciding", "gating", "opening", "looping", "streaming", "saving",
        "judging", "restoring", "completing", "escalating", "exhausting",
        "finishing", "failing", "ended"}

NoResult  == [verdict |-> "none", found |-> [s \in Stages |-> {}]]
NoVerdict == [NoResult EXCEPT !.verdict = "error"]

(* What the comparison of two runs looks at.                               *)
Compared(found) == [failing |-> Failing(found), errors |-> Errors(found)]

Fault == faults < MaxFaults /\ faults' = faults + 1

Init ==
  /\ item = "executing" /\ session = "none" /\ pc = "validating"
  /\ attempt = 0 /\ result = NoResult
  /\ trigger = Compared(NoResult.found)
  /\ files \in [Files -> {Absent, Original}] /\ validated = files
  /\ before = [f \in Files |-> Unknown] /\ checkpoint = before /\ start = files
  /\ stream = <<>> /\ tool = {} /\ written = {} /\ ending = "none" /\ faults = 0

To(step) == pc' = step
-----------------------------------------------------------------------------
(* The trigger: its verdict decides what becomes of the item.              *)

(* What is kept of the result of a run.                                    *)
ReadResults == {[verdict |-> r.verdict, found |-> r.found] : r \in Results(Stages)}

(* Run of the validation, on the files as they are.                        *)
Validate ==
  /\ pc = "validating"
  /\ \/ /\ result' \in ReadResults
        /\ UNCHANGED faults
     \/ Fault /\ result' = NoVerdict
  /\ validated' = files
  /\ To(IF attempt = 0 THEN "deciding" ELSE "judging")
  /\ UNCHANGED <<item, session, attempt, trigger, agentVars, fileVars>>

Decide ==
  /\ pc = "deciding"
  /\ To(CASE result.verdict \in {"passed", "failed_environment"} -> "finishing"
          [] result.verdict = "failed_repairable" -> "gating"
          [] OTHER -> "failing")
  /\ UNCHANGED <<sessionVars, agentVars, fileVars, faults>>

(* Evaluate of the policy: one auto-fixable diagnostic is enough, be it a  *)
(* warning, which a result does not keep.                                  *)
MayRepair  == result.verdict = "failed_repairable"
MustRepair == MayRepair /\ Has(result.found, "auto_fixable")

(* The run is loaded and the policy evaluated; when it cannot be loaded,   *)
(* or the item cannot be moved, nothing more happens.                      *)
Gate ==
  /\ pc = "gating"
  /\ \/ MayRepair /\ trigger' = Compared(result.found) /\ item' = "repairing" /\ To("opening") /\ UNCHANGED faults
     \/ ~MustRepair /\ To("failing") /\ UNCHANGED <<item, trigger, faults>>
     \/ Fault /\ To("ended") /\ UNCHANGED <<item, trigger>>
  /\ UNCHANGED <<session, attempt, result, validated, agentVars, fileVars>>

(* When the session cannot be created, Run returns.                        *)
CreateSession ==
  /\ pc = "opening"
  /\ \/ session' = "running" /\ To("looping") /\ UNCHANGED faults
     \/ Fault /\ To("ended") /\ UNCHANGED session
  /\ UNCHANGED <<item, attempt, result, trigger, validated, agentVars, fileVars>>
-----------------------------------------------------------------------------
(* One attempt.                                                            *)

(* The budget of attempts or of time is used up.                           *)
ExhaustBudget ==
  /\ pc = "looping" /\ attempt > 0
  /\ To("exhausting")
  /\ UNCHANGED <<faults, sessionVars, agentVars, fileVars>>

(* The row of the attempt is inserted, and the files of the diagnostics    *)
(* are read, each kept under the path its tool printed.  One that is       *)
(* absolute, begins with a dot or is a directory cannot be read, or is not *)
(* the path the agent writes to: its file is left for later, as is one     *)
(* that cannot be read.                                                    *)
BeginAttempt ==
  /\ pc = "looping" /\ attempt < MaxAttempts
  /\ attempt' = attempt + 1
  /\ \/ before' = [f \in Files |-> IF f \in Named /\ files[f] # Absent THEN files[f] ELSE Unknown]
        /\ To("streaming") /\ UNCHANGED faults
     \/ Fault /\ To("streaming")
        /\ \E S \in SUBSET Named :
             before' = [f \in Files |-> IF f \in S /\ files[f] # Absent THEN files[f] ELSE Unknown]
     \/ Fault /\ To("escalating") /\ UNCHANGED before
  /\ start' = files /\ ending' = "none"
  /\ checkpoint' = [f \in Files |-> Unknown]
  /\ stream' = <<>> /\ written' = {} /\ result' = NoResult
  /\ UNCHANGED <<item, session, trigger, validated, tool, files>>

AgentRuns == pc = "streaming" /\ \A i \in DOMAIN stream : stream[i] \notin Endings

(* The agent announces a write in its stream and makes the tool call.      *)
AgentAnnounces(f) ==
  /\ AgentRuns /\ tool = {} /\ f \notin written
  /\ stream' = Append(stream, f) /\ tool' = {f}
  /\ UNCHANGED <<pc, sessionVars, faults, written, fileVars>>

(* The call may outlive the stream that announced it.                      *)
AgentWrites(f) ==
  /\ f \in tool
  /\ files' = [files EXCEPT ![f] = attempt + 2]
  /\ written' = written \cup {f} /\ tool' = {}
  /\ UNCHANGED <<pc, sessionVars, faults, stream, before, ending, checkpoint, start>>

AgentEnds ==
  /\ AgentRuns /\ tool = {}
  /\ \E e \in Endings : stream' = Append(stream, e)
  /\ UNCHANGED <<pc, sessionVars, faults, tool, written, fileVars>>

(* Faulty variant: a file is captured again, whatever was read before.     *)
FaultyReceiveToolCall ==
  /\ pc = "streaming" /\ stream # <<>> /\ Head(stream) \in Files
  /\ before' = [before EXCEPT ![Head(stream)] = files[Head(stream)]]
  /\ stream' = Tail(stream)
  /\ UNCHANGED <<pc, sessionVars, faults, tool, written, files, ending, checkpoint, start>>

(* A file that was not captured yet is read when its write is announced;   *)
(* one that cannot be read is taken for absent.                            *)
ReceiveToolCall ==
  /\ pc = "streaming" /\ stream # <<>> /\ Head(stream) \in Files
  /\ \/ before' = [before EXCEPT ![Head(stream)] = IF @ = Unknown THEN files[Head(stream)] ELSE @]
        /\ UNCHANGED faults
     \/ Fault /\ before' = [before EXCEPT ![Head(stream)] = IF @ = Unknown THEN Absent ELSE @]
  /\ stream' = Tail(stream)
  /\ UNCHANGED <<pc, sessionVars, tool, written, files, ending, checkpoint, start>>

ReceiveEnd ==
  /\ pc = "streaming" /\ stream # <<>> /\ Head(stream) \in Endings
  /\ ending' = Head(stream)
  /\ stream' = Tail(stream)
  /\ To("saving")
  /\ UNCHANGED <<faults, sessionVars, tool, written, files, before, checkpoint, start>>

(* The stream breaks: with an error the attempt escalates, without one it  *)
(* goes on as if the agent had changed nothing.                            *)
LoseStream ==
  /\ pc = "streaming" /\ Fault
  /\ \/ To("escalating") /\ UNCHANGED ending
     \/ To("saving") /\ ending' = "error"
  /\ stream' = <<>>
  /\ UNCHANGED <<sessionVars, tool, written, files, before, checkpoint, start>>

(* The files the agent reports are in the checkpoint, with what was        *)
(* captured of them; only a completed repair reports any.                  *)
SaveCheckpoint ==
  /\ pc = "saving"
  /\ \/ /\ checkpoint' = [f \in Files |->
             IF ending # "complete" \/ f \notin written THEN Unknown
             ELSE IF before[f] = Unknown THEN Absent ELSE before[f]]
        /\ UNCHANGED faults
     \/ Fault /\ UNCHANGED checkpoint
  /\ To(IF ending = "cannot_repair" THEN "escalating" ELSE "validating")
  /\ before' = [f \in Files |-> Unknown] /\ written' = {}
  /\ UNCHANGED <<sessionVars, stream, tool, files, ending, start>>
-----------------------------------------------------------------------------
(* The outcome of an attempt.                                              *)

(* compareValidationOutcomes.                                              *)
Outcome ==
  CASE result.verdict = "passed" -> "passed"
    [] result.verdict \in {"failed_environment", "failed_requires_human"} -> "no_change"
    [] ~(Failing(result.found) \subseteq trigger.failing) -> "regressed"
    [] Errors(result.found) < trigger.errors -> "improved"
    [] Errors(result.found) > trigger.errors -> "regressed"
    [] OTHER -> "no_change"

(* Faulty variant: a failure of the environment ends the repair well, as   *)
(* it ends an execution.                                                   *)
FaultyJudge ==
  /\ pc = "judging"
  /\ To(CASE result.verdict \in {"passed", "failed_environment"} -> "completing"
          [] result.verdict = "error" -> "escalating"
          [] Outcome = "improved" -> "looping"
          [] Outcome = "regressed" -> "restoring"
          [] OTHER -> "escalating")
  /\ UNCHANGED <<faults, sessionVars, agentVars, fileVars>>

Judge ==
  /\ pc = "judging"
  /\ To(CASE result.verdict = "error" -> "escalating"
          [] Outcome = "passed" -> "completing"
          [] Outcome = "improved" -> "looping"
          [] Outcome = "regressed" -> "restoring"
          [] OTHER -> "escalating")
  /\ UNCHANGED <<faults, sessionVars, agentVars, fileVars>>

Restored == [f \in Files |-> IF checkpoint[f] = Unknown THEN files[f] ELSE checkpoint[f]]

(* The files of the checkpoint are deleted or written; what fails is left. *)
Rollback ==
  /\ pc = "restoring"
  /\ \/ files' = Restored /\ UNCHANGED faults
     \/ Fault /\ \E S \in SUBSET Files : files' = [f \in Files |-> IF f \in S THEN Restored[f] ELSE files[f]]
  /\ To("escalating")
  /\ UNCHANGED <<sessionVars, agentVars, before, ending, checkpoint, start>>

(* The session gets its final status and then the item: both errors are    *)
(* ignored.                                                                *)
MarkSession(step, status, next) ==
  /\ pc = step
  /\ (session' = status /\ UNCHANGED faults) \/ (Fault /\ UNCHANGED session)
  /\ To(next)
  /\ UNCHANGED <<item, attempt, result, trigger, validated, agentVars, fileVars>>

(* Faulty variant: the item is left to the caller.                         *)
FaultyMarkEscalated == MarkSession("escalating", "escalated", "ended")

MarkCompleted == MarkSession("completing", "completed", "finishing")
MarkEscalated == MarkSession("escalating", "escalated", "failing")
MarkExhausted == MarkSession("exhausting", "exhausted", "failing")

MoveItem(step, status) ==
  /\ pc = step
  /\ (item' = status /\ UNCHANGED faults) \/ (Fault /\ UNCHANGED item)
  /\ To("ended")
  /\ UNCHANGED <<session, attempt, result, trigger, validated, agentVars, fileVars>>

(* Faulty variant: only an item that is executing is moved.                *)
FaultyTransitionToFailed ==
  /\ pc = "failing"
  /\ item' = (IF item = "executing" THEN "failed" ELSE item)
  /\ To("ended")
  /\ UNCHANGED <<faults, session, attempt, result, trigger, validated, agentVars, fileVars>>

TransitionToDone   == MoveItem("finishing", "done")
TransitionToFailed == MoveItem("failing", "failed")

(* The process dies; the agent's calls are no longer answered.             *)
Crash ==
  /\ pc # "ended" /\ Fault
  /\ To("ended")
  /\ stream' = <<>> /\ tool' = {}
  /\ UNCHANGED <<sessionVars, written, fileVars>>
-----------------------------------------------------------------------------
Goroutine ==
  \/ Validate \/ Decide \/ Gate \/ CreateSession \/ ExhaustBudget \/ BeginAttempt
  \/ ReceiveToolCall \/ ReceiveEnd \/ LoseStream \/ SaveCheckpoint \/ Judge \/ Rollback
  \/ MarkCompleted \/ MarkEscalated \/ MarkExhausted \/ TransitionToDone \/ TransitionToFailed

Agent == AgentEnds \/ \E f \in Files : AgentAnnounces(f) \/ AgentWrites(f)

Next == Goroutine \/ Agent \/ Crash

Spec == Init /\ [][Next]_vars

(* The goroutine goes on; nothing bounds the time the agent takes.         *)
FairSpec == Spec /\ WF_vars(Goroutine)
-----------------------------------------------------------------------------
TypeOK ==
  /\ item \in {"executing", "repairing", "done", "failed"}
  /\ session \in {"none", "running", "completed", "escalated", "exhausted"}
  /\ pc \in PCs /\ attempt \in 0..MaxAttempts
  /\ files \in [Files -> Contents] /\ start \in [Files -> Contents]
  /\ before \in [Files -> 0..(MaxAttempts + 2)]
  /\ checkpoint \in [Files -> 0..(MaxAttempts + 2)]
  /\ stream \in Seq(Files \cup Endings)
  /\ tool \subseteq Files /\ written \subseteq Files /\ ending \in Endings \cup {"none"}
  /\ validated \in [Files -> Contents] /\ faults \in 0..MaxFaults
  /\ trigger.failing \subseteq Stages /\ trigger.errors \in Nat
  /\ result.verdict \in Verdicts \cup {"none", "error"}
  /\ result.found \in [Stages -> SUBSET Categories]

(* An item is done on a run that passed, and after a repair on nothing     *)
(* less; and unless the agent was cut off, or something else failed, that  *)
(* run saw the files as they are: nobody edits them after their validation.*)
DoneIsValidated ==
  item = "done" =>
    /\ result.verdict = "passed" \/ (result.verdict = "failed_environment" /\ attempt = 0)
    /\ faults = 0 => validated = files

(* A rollback brings the files that a diagnostic names as the agent does   *)
(* back to where the attempt found them, when the agent completed it,      *)
(* whatever the order of its writes and of the reads of the goroutine.     *)
RollbackRestoresNamed ==
  [][pc = "restoring" /\ ending = "complete" /\ faults' = 0 =>
       \A f \in Named : start[f] # Absent => files'[f] = start[f]]_vars

(* The same of every file, as the comments of executeRepairAttempt have it *)
(* does not hold of the code: a file that no diagnostic names that way is  *)
(* read while the agent may have written it already, and a rollback then   *)
(* keeps what the agent wrote.                                             *)
RollbackRestoresAll ==
  [][pc = "restoring" /\ ending = "complete" /\ faults' = 0 =>
       \A f \in Files : start[f] # Absent => files'[f] = start[f]]_vars

(* Without a fault the session and the item end together and agree.        *)
OutcomesAgree ==
  pc = "ended" /\ faults = 0 =>
    <<session, item>> \in {<<"none", "done">>, <<"none", "failed">>, <<"completed", "done">>,
                           <<"escalated", "failed">>, <<"exhausted", "failed">>}

(* The item leaves repairing, unless a fault intervenes or the stream of   *)
(* the agent stalls: nothing else can hold a session up.                   *)
RepairEnds ==
  []<>(pc # "streaming") => (item = "repairing" ~> item # "repairing" \/ faults > 0)
=============================================================================
