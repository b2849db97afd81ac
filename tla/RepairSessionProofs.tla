-------------------------- MODULE RepairSessionProofs --------------------------
(***************************************************************************)
(* What holds of a repair for any stages, files, number of attempts and    *)
(* number of faults, and of the validation runs it starts, for any         *)
(* languages and number of faults.                                         *)
(***************************************************************************)
EXTENDS RepairSession, Validation, FiniteSetTheorems, TLAPS

-----------------------------------------------------------------------------
(* The inductive invariants.                                               *)

Clean == faults = 0

(* The verdict behind the end of an item.                                  *)
VerdictInv ==
  /\ item = "done" => pc = "ended"
  /\ pc = "deciding" => attempt = 0
  /\ pc = "completing" => result.verdict = "passed"
  /\ pc = "finishing" \/ item = "done"
       => result.verdict = "passed" \/ (result.verdict = "failed_environment" /\ attempt = 0)

(* Without a fault a call of the agent is over before its stream ends, so  *)
(* the files stay as the validation saw them.                              *)
QuietInv ==
  Clean =>
    /\ tool # {} => pc = "streaming" /\ \A i \in DOMAIN stream : stream[i] \notin Endings
    /\ pc \in {"deciding", "judging", "completing", "finishing"} \/ item = "done" => validated = files

(* Where the session and the item are at each point of the goroutine.      *)
OutcomeInv ==
  Clean =>
    CASE pc = "validating" ->
           <<session, item>> = IF attempt = 0 THEN <<"none", "executing">> ELSE <<"running", "repairing">>
      [] pc \in {"deciding", "gating"} -> <<session, item>> = <<"none", "executing">>
      [] pc = "opening" -> <<session, item>> = <<"none", "repairing">>
      [] pc = "finishing" -> <<session, item>> \in {<<"none", "executing">>, <<"completed", "repairing">>}
      [] pc = "failing" -> <<session, item>> \in {<<"none", "executing">>, <<"escalated", "repairing">>,
                                                  <<"exhausted", "repairing">>}
      [] pc = "ended" ->
           <<session, item>> \in {<<"none", "done">>, <<"none", "failed">>, <<"completed", "done">>,
                                 <<"escalated", "failed">>, <<"exhausted", "failed">>}
      [] OTHER -> <<session, item>> = <<"running", "repairing">> /\ (pc # "looping" => attempt > 0)

(* Files that can be put back.                                             *)
Present == {f \in Named : start[f] # Absent}

(* A file named so is captured as the attempt found it, before it can be   *)
(* written, and is in the checkpoint once it was.                          *)
RollbackInv ==
  Clean =>
    /\ pc \in {"streaming", "saving"} =>
         \A f \in Present : before[f] = start[f] /\ (f \notin written => files[f] = start[f])
    /\ pc \in {"validating", "judging", "restoring"} /\ ending = "complete" =>
         \A f \in Present : checkpoint[f] = start[f] \/ (checkpoint[f] = Unknown /\ files[f] = start[f])
-----------------------------------------------------------------------------
(* Proofs.                                                                 *)

(* The number of errors of a result is a number.                           *)
LEMMA ErrorsType ==
  ASSUME NEW byStage \in [Stages -> SUBSET Categories]
  PROVE  Errors(byStage) \in Nat
<1> DEFINE S == {p \in (DOMAIN byStage) \X Categories : p[2] \in byStage[p[1]]}
<1>1. IsFiniteSet({"auto_fixable", "needs_human", "unknown", "environment_limitation"})
  <2>1. IsFiniteSet({"auto_fixable"}) /\ IsFiniteSet({"needs_human"})
            /\ IsFiniteSet({"unknown"}) /\ IsFiniteSet({"environment_limitation"})
    BY FS_Singleton
  <2>2. IsFiniteSet({"auto_fixable"} \cup {"needs_human"})
    BY <2>1, FS_Union
  <2>3. IsFiniteSet({"unknown"} \cup {"environment_limitation"})
    BY <2>1, FS_Union
  <2>4. IsFiniteSet(({"auto_fixable"} \cup {"needs_human"}) \cup ({"unknown"} \cup {"environment_limitation"}))
    BY <2>2, <2>3, FS_Union
  <2> QED BY <2>4
<1>2. IsFiniteSet((DOMAIN byStage) \X Categories)
  BY <1>1, FS_Product, StagesAssumption DEF Categories
<1>3. S \subseteq (DOMAIN byStage) \X Categories
  OBVIOUS
<1>4. IsFiniteSet(S)
  BY <1>2, <1>3, FS_Subset
<1> QED BY <1>4, FS_CardinalityType DEF Errors

(* What is stored of a stage is a set of categories.                       *)
LEMMA DiagnosticsType == Diagnostics \subseteq SUBSET Categories
<1> SUFFICES ASSUME NEW categories \in Diagnostics, NEW c \in categories PROVE c \in Categories
  OBVIOUS
<1>1. CASE categories \in SUBSET {"auto_fixable", "needs_human"}
  BY <1>1 DEF Categories
<1>2. CASE categories = {"unknown"}
  BY <1>2 DEF Categories
<1>3. CASE categories = {"environment_limitation"}
  BY <1>3 DEF Categories
<1>4. categories \in Findings \/ categories = {"environment_limitation"}
  BY DEF Diagnostics
<1>5. categories \in Findings =>
        categories \in SUBSET {"auto_fixable", "needs_human"} \/ categories = {"unknown"}
  BY DEF Findings
<1> QED BY <1>1, <1>2, <1>3, <1>4, <1>5

(* A result of a run has a verdict, and categories for every stage.        *)
LEMMA ReadResultsType ==
  ASSUME NEW read \in ReadResults
  PROVE  read.verdict \in Verdicts /\ read.found \in [Stages -> SUBSET Categories]
<1>1. PICK r \in Results(Stages) : read = [verdict |-> r.verdict, found |-> r.found]
  BY DEF ReadResults
<1>2. PICK failed \in SUBSET Stages, skipped \in SUBSET Stages, byStage \in [Stages -> Diagnostics],
           cause \in {"fine", "failed"} : r = Result(failed, skipped, byStage, cause)
  BY DEF Results
<1>3. Verdict(failed, byStage, cause) \in Verdicts
  BY DEF Verdict, Verdicts
<1>4. byStage \in [Stages -> SUBSET Categories]
  BY DiagnosticsType
<1> QED BY <1>1, <1>2, <1>3, <1>4 DEF Result

(* A step keeps every variable in its type.                                *)
LEMMA TypeStep == TypeOK /\ [Next]_vars => TypeOK'
<1> SUFFICES ASSUME TypeOK, [Next]_vars PROVE TypeOK'
  OBVIOUS
<1> USE FilesAssumption, AttemptsAssumption, FaultsAssumption
    DEF TypeOK, PCs, Endings, Contents, Unknown, Absent, To, Fault, sessionVars, agentVars, fileVars
<1>1. CASE Validate
  <2>1. result'.verdict \in Verdicts \cup {"none", "error"} /\ result'.found \in [Stages -> SUBSET Categories]
    <3>1. result' \in ReadResults => result'.verdict \in Verdicts
              /\ result'.found \in [Stages -> SUBSET Categories]
      BY ReadResultsType
    <3>2. ASSUME result' = NoVerdict
          PROVE  result'.verdict = "error" /\ result'.found \in [Stages -> SUBSET Categories]
      BY <3>2 DEF NoVerdict, NoResult
    <3>3. result' \in ReadResults \/ result' = NoVerdict
      BY <1>1 DEF Validate
    <3> QED BY <3>1, <3>2, <3>3
  <2>2. validated' = files /\ pc' \in PCs /\ faults' \in 0..MaxFaults
    BY <1>1 DEF Validate
  <2>3. UNCHANGED <<item, session, attempt, trigger, agentVars, fileVars>>
    BY <1>1 DEF Validate
  <2> QED BY <2>1, <2>2, <2>3
<1>2. CASE Decide
  BY <1>2 DEF Decide
<1>3. CASE Gate
  <2>1. trigger'.failing \subseteq Stages /\ trigger'.errors \in Nat
    BY <1>3, ErrorsType DEF Gate, Compared, Failing
  <2>2. item' \in {item, "repairing"} /\ pc' \in PCs /\ faults' \in 0..MaxFaults
    BY <1>3 DEF Gate
  <2>3. UNCHANGED <<session, attempt, result, validated, agentVars, fileVars>>
    BY <1>3 DEF Gate
  <2> QED BY <2>1, <2>2, <2>3
<1>4. CASE CreateSession
  BY <1>4 DEF CreateSession
<1>5. CASE ExhaustBudget
  BY <1>5 DEF ExhaustBudget
<1>6. CASE BeginAttempt
  <2>1. before' \in [Files -> 0..(MaxAttempts + 2)]
    <3>1. \A f \in Files : files[f] \in 0..(MaxAttempts + 2)
      OBVIOUS
    <3>2. ASSUME NEW S, before' = [f \in Files |-> IF f \in S /\ files[f] # Absent THEN files[f] ELSE Unknown]
          PROVE  before' \in [Files -> 0..(MaxAttempts + 2)]
      BY <3>1, <3>2
    <3>3. before' = before \/ \E S \in SUBSET Named :
             before' = [f \in Files |-> IF f \in S /\ files[f] # Absent THEN files[f] ELSE Unknown]
      BY <1>6 DEF BeginAttempt
    <3>4. CASE before' = before
      BY <3>4
    <3> QED BY <3>2, <3>3, <3>4, Zenon
  <2>2. attempt' \in 0..MaxAttempts /\ pc' \in PCs /\ faults' \in 0..MaxFaults
    BY <1>6 DEF BeginAttempt
  <2>3. result'.verdict = "none" /\ result'.found \in [Stages -> SUBSET Categories]
    BY <1>6 DEF BeginAttempt, NoResult
  <2>4. start' = files /\ ending' = "none" /\ checkpoint' \in [Files -> 0..(MaxAttempts + 2)]
    BY <1>6 DEF BeginAttempt
  <2>5. stream' = <<>> /\ written' = {} /\ UNCHANGED <<item, session, trigger, validated, tool, files>>
    BY <1>6 DEF BeginAttempt
  <2> QED BY <2>1, <2>2, <2>3, <2>4, <2>5
<1>7. CASE ReceiveToolCall
  <2>1. files[Head(stream)] \in 0..(MaxAttempts + 2) /\ 1 \in 0..(MaxAttempts + 2)
    BY <1>7 DEF ReceiveToolCall
  <2>2. before' \in [Files -> 0..(MaxAttempts + 2)]
    BY <1>7, <2>1 DEF ReceiveToolCall
  <2>3. stream' \in Seq(Files \cup Endings) /\ faults' \in 0..MaxFaults
    BY <1>7 DEF ReceiveToolCall
  <2>4. UNCHANGED <<pc, sessionVars, tool, written, files, ending, checkpoint, start>>
    BY <1>7 DEF ReceiveToolCall
  <2> QED BY <2>2, <2>3, <2>4
<1>8. CASE ReceiveEnd
  BY <1>8 DEF ReceiveEnd
<1>9. CASE LoseStream
  <2>1. pc' \in PCs /\ ending' \in Endings \cup {"none"} /\ faults' \in 0..MaxFaults
    BY <1>9 DEF LoseStream
  <2>2. stream' = <<>> /\ UNCHANGED <<sessionVars, tool, written, files, before, checkpoint, start>>
    BY <1>9 DEF LoseStream
  <2>3. <<>> \in Seq(Files \cup Endings)
    OBVIOUS
  <2>4. stream' \in Seq(Files \cup Endings)
    BY <2>2, <2>3
  <2> QED BY <2>1, <2>2, <2>4
<1>10. CASE SaveCheckpoint
  <2>1. \A f \in Files : before[f] \in 0..(MaxAttempts + 2)
    OBVIOUS
  <2>2. checkpoint' \in [Files -> 0..(MaxAttempts + 2)]
    <3>1. CASE checkpoint' = checkpoint
      BY <3>1
    <3>2. CASE checkpoint' = [f \in Files |->
                  IF ending # "complete" \/ f \notin written THEN Unknown
                  ELSE IF before[f] = Unknown THEN Absent ELSE before[f]]
      BY <2>1, <3>2
    <3> QED BY <1>10, <3>1, <3>2 DEF SaveCheckpoint
  <2>3. pc' \in PCs /\ faults' \in 0..MaxFaults /\ before' \in [Files -> 0..(MaxAttempts + 2)]
            /\ written' = {}
    BY <1>10 DEF SaveCheckpoint
  <2>4. UNCHANGED <<sessionVars, stream, tool, files, ending, start>>
    BY <1>10 DEF SaveCheckpoint
  <2> QED BY <2>2, <2>3, <2>4
<1>11. CASE Judge
  BY <1>11 DEF Judge
<1>12. CASE Rollback
  <2>1. \A f \in Files : files[f] \in 1..(MaxAttempts + 2) /\ checkpoint[f] \in 0..(MaxAttempts + 2)
    OBVIOUS
  <2>2. Restored \in [Files -> 1..(MaxAttempts + 2)]
    BY <2>1 DEF Restored
  <2>3. files' \in [Files -> 1..(MaxAttempts + 2)]
    BY <1>12, <2>2 DEF Rollback
  <2>4. pc' \in PCs /\ faults' \in 0..MaxFaults
    BY <1>12 DEF Rollback
  <2>5. UNCHANGED <<sessionVars, agentVars, before, ending, checkpoint, start>>
    BY <1>12 DEF Rollback
  <2> QED BY <2>3, <2>4, <2>5
<1>13. CASE MarkCompleted
  BY <1>13 DEF MarkCompleted, MarkSession
<1>14. CASE MarkEscalated
  BY <1>14 DEF MarkEscalated, MarkSession
<1>15. CASE MarkExhausted
  BY <1>15 DEF MarkExhausted, MarkSession
<1>16. CASE TransitionToDone
  BY <1>16 DEF TransitionToDone, MoveItem
<1>17. CASE TransitionToFailed
  BY <1>17 DEF TransitionToFailed, MoveItem
<1>18. CASE AgentEnds
  BY <1>18 DEF AgentEnds, AgentRuns
<1>19. ASSUME NEW f \in Files, AgentAnnounces(f) PROVE TypeOK'
  BY <1>19 DEF AgentAnnounces, AgentRuns
<1>20. ASSUME NEW f \in Files, AgentWrites(f) PROVE TypeOK'
  BY <1>20 DEF AgentWrites
<1>21. CASE Crash
  BY <1>21 DEF Crash
<1>22. CASE UNCHANGED vars
  BY <1>22 DEF vars
<1> QED BY <1>1, <1>2, <1>3, <1>4, <1>5, <1>6, <1>7, <1>8, <1>9, <1>10, <1>11, <1>12, <1>13, <1>14,
           <1>15, <1>16, <1>17, <1>18, <1>19, <1>20, <1>21, <1>22 DEF Next, Goroutine, Agent

(* The initial states have the types.                                      *)
LEMMA InitType == Init => TypeOK
  BY FilesAssumption, AttemptsAssumption, FaultsAssumption, ErrorsType
  DEF Init, TypeOK, PCs, Endings, Contents, Unknown, Absent, Original, NoResult, Compared, Failing

(* Every variable keeps its type.                                          *)
THEOREM TypeCorrect == Spec => []TypeOK
  BY InitType, TypeStep, PTL DEF Spec

(* A step keeps what is known of the verdict.                              *)
LEMMA VerdictStep == TypeOK /\ VerdictInv /\ [Next]_vars => VerdictInv'
<1> SUFFICES ASSUME TypeOK, VerdictInv, [Next]_vars PROVE VerdictInv'
  OBVIOUS
<1> USE DEF VerdictInv, To, Fault, sessionVars, agentVars, fileVars
<1>1. CASE Validate
  BY <1>1 DEF Validate
<1>2. CASE Decide
  BY <1>2 DEF Decide
<1>3. CASE Gate
  BY <1>3 DEF Gate
<1>4. CASE CreateSession
  BY <1>4 DEF CreateSession
<1>5. CASE ExhaustBudget
  BY <1>5 DEF ExhaustBudget
<1>6. CASE BeginAttempt
  BY <1>6 DEF BeginAttempt
<1>7. CASE ReceiveToolCall
  BY <1>7 DEF ReceiveToolCall
<1>8. CASE ReceiveEnd
  BY <1>8 DEF ReceiveEnd
<1>9. CASE LoseStream
  BY <1>9 DEF LoseStream
<1>10. CASE SaveCheckpoint
  BY <1>10 DEF SaveCheckpoint
<1>11. CASE Judge
  BY <1>11 DEF Judge, Outcome
<1>12. CASE Rollback
  BY <1>12 DEF Rollback
<1>13. CASE MarkCompleted
  BY <1>13 DEF MarkCompleted, MarkSession
<1>14. CASE MarkEscalated
  BY <1>14 DEF MarkEscalated, MarkSession
<1>15. CASE MarkExhausted
  BY <1>15 DEF MarkExhausted, MarkSession
<1>16. CASE TransitionToDone
  BY <1>16 DEF TransitionToDone, MoveItem
<1>17. CASE TransitionToFailed
  BY <1>17 DEF TransitionToFailed, MoveItem
<1>18. CASE AgentEnds
  BY <1>18 DEF AgentEnds, AgentRuns
<1>19. ASSUME NEW f \in Files, AgentAnnounces(f) PROVE VerdictInv'
  BY <1>19 DEF AgentAnnounces, AgentRuns
<1>20. ASSUME NEW f \in Files, AgentWrites(f) PROVE VerdictInv'
  BY <1>20 DEF AgentWrites
<1>21. CASE Crash
  BY <1>21 DEF Crash
<1>22. CASE UNCHANGED vars
  BY <1>22 DEF vars
<1> QED BY <1>1, <1>2, <1>3, <1>4, <1>5, <1>6, <1>7, <1>8, <1>9, <1>10, <1>11, <1>12, <1>13, <1>14,
           <1>15, <1>16, <1>17, <1>18, <1>19, <1>20, <1>21, <1>22 DEF Next, Goroutine, Agent

(* A step keeps the agent quiet outside its stream.                        *)
LEMMA QuietStep == TypeOK /\ VerdictInv /\ QuietInv /\ [Next]_vars => QuietInv'
<1> SUFFICES ASSUME TypeOK, VerdictInv, QuietInv, [Next]_vars PROVE QuietInv'
  OBVIOUS
<1> USE FaultsAssumption, FilesAssumption DEF TypeOK, VerdictInv, QuietInv, Clean, To, Fault,
        sessionVars, agentVars, fileVars
<1>1. CASE Validate
  BY <1>1 DEF Validate
<1>2. CASE Decide
  BY <1>2 DEF Decide
<1>3. CASE Gate
  BY <1>3 DEF Gate
<1>4. CASE CreateSession
  BY <1>4 DEF CreateSession
<1>5. CASE ExhaustBudget
  BY <1>5 DEF ExhaustBudget
<1>6. CASE BeginAttempt
  BY <1>6 DEF BeginAttempt
<1>7. CASE ReceiveToolCall
  BY <1>7 DEF ReceiveToolCall
<1>8. CASE ReceiveEnd
  BY <1>8 DEF ReceiveEnd
<1>9. CASE LoseStream
  BY <1>9 DEF LoseStream
<1>10. CASE SaveCheckpoint
  BY <1>10 DEF SaveCheckpoint
<1>11. CASE Judge
  BY <1>11 DEF Judge
<1>12. CASE Rollback
  BY <1>12 DEF Rollback
<1>13. CASE MarkCompleted
  BY <1>13 DEF MarkCompleted, MarkSession
<1>14. CASE MarkEscalated
  BY <1>14 DEF MarkEscalated, MarkSession
<1>15. CASE MarkExhausted
  BY <1>15 DEF MarkExhausted, MarkSession
<1>16. CASE TransitionToDone
  BY <1>16 DEF TransitionToDone, MoveItem
<1>17. CASE TransitionToFailed
  BY <1>17 DEF TransitionToFailed, MoveItem
<1>18. CASE AgentEnds
  BY <1>18 DEF AgentEnds, AgentRuns
<1>19. ASSUME NEW f \in Files, AgentAnnounces(f) PROVE QuietInv'
  BY <1>19 DEF AgentAnnounces, AgentRuns
<1>20. ASSUME NEW f \in Files, AgentWrites(f) PROVE QuietInv'
  BY <1>20 DEF AgentWrites
<1>21. CASE Crash
  BY <1>21 DEF Crash
<1>22. CASE UNCHANGED vars
  BY <1>22 DEF vars
<1> QED BY <1>1, <1>2, <1>3, <1>4, <1>5, <1>6, <1>7, <1>8, <1>9, <1>10, <1>11, <1>12, <1>13, <1>14,
           <1>15, <1>16, <1>17, <1>18, <1>19, <1>20, <1>21, <1>22 DEF Next, Goroutine, Agent

(* A step keeps the session and the item together.                         *)
LEMMA OutcomeStep == TypeOK /\ OutcomeInv /\ [Next]_vars => OutcomeInv'
<1> SUFFICES ASSUME TypeOK, OutcomeInv, [Next]_vars PROVE OutcomeInv'
  OBVIOUS
<1> USE AttemptsAssumption, FaultsAssumption DEF TypeOK, OutcomeInv, Clean, To, Fault, sessionVars,
        agentVars, fileVars
<1>1. CASE Validate
  BY <1>1 DEF Validate
<1>2. CASE Decide
  BY <1>2 DEF Decide
<1>3. CASE Gate
  BY <1>3 DEF Gate
<1>4. CASE CreateSession
  BY <1>4 DEF CreateSession
<1>5. CASE ExhaustBudget
  BY <1>5 DEF ExhaustBudget
<1>6. CASE BeginAttempt
  BY <1>6 DEF BeginAttempt
<1>7. CASE ReceiveToolCall
  BY <1>7 DEF ReceiveToolCall
<1>8. CASE ReceiveEnd
  BY <1>8 DEF ReceiveEnd
<1>9. CASE LoseStream
  BY <1>9 DEF LoseStream
<1>10. CASE SaveCheckpoint
  BY <1>10 DEF SaveCheckpoint
<1>11. CASE Judge
  BY <1>11 DEF Judge
<1>12. CASE Rollback
  BY <1>12 DEF Rollback
<1>13. CASE MarkCompleted
  BY <1>13 DEF MarkCompleted, MarkSession
<1>14. CASE MarkEscalated
  BY <1>14 DEF MarkEscalated, MarkSession
<1>15. CASE MarkExhausted
  BY <1>15 DEF MarkExhausted, MarkSession
<1>16. CASE TransitionToDone
  BY <1>16 DEF TransitionToDone, MoveItem
<1>17. CASE TransitionToFailed
  BY <1>17 DEF TransitionToFailed, MoveItem
<1>18. CASE AgentEnds
  BY <1>18 DEF AgentEnds, AgentRuns
<1>19. ASSUME NEW f \in Files, AgentAnnounces(f) PROVE OutcomeInv'
  BY <1>19 DEF AgentAnnounces, AgentRuns
<1>20. ASSUME NEW f \in Files, AgentWrites(f) PROVE OutcomeInv'
  BY <1>20 DEF AgentWrites
<1>21. CASE Crash
  BY <1>21 DEF Crash
<1>22. CASE UNCHANGED vars
  BY <1>22 DEF vars
<1> QED BY <1>1, <1>2, <1>3, <1>4, <1>5, <1>6, <1>7, <1>8, <1>9, <1>10, <1>11, <1>12, <1>13, <1>14,
           <1>15, <1>16, <1>17, <1>18, <1>19, <1>20, <1>21, <1>22 DEF Next, Goroutine, Agent

(* A step keeps what a rollback needs.                                    *)
LEMMA RollbackStep == TypeOK /\ QuietInv /\ RollbackInv /\ [Next]_vars => RollbackInv'
<1> SUFFICES ASSUME TypeOK, QuietInv, RollbackInv, [Next]_vars PROVE RollbackInv'
  OBVIOUS
<1> USE FilesAssumption, FaultsAssumption DEF TypeOK, QuietInv, RollbackInv, Clean, Present, Contents,
        Unknown, Absent, To, Fault, sessionVars, agentVars, fileVars
<1>1. CASE Validate
  BY <1>1 DEF Validate
<1>2. CASE Decide
  BY <1>2 DEF Decide
<1>3. CASE Gate
  BY <1>3 DEF Gate
<1>4. CASE CreateSession
  BY <1>4 DEF CreateSession
<1>5. CASE ExhaustBudget
  BY <1>5 DEF ExhaustBudget
<1>6. CASE BeginAttempt
  BY <1>6 DEF BeginAttempt
<1>7. CASE ReceiveToolCall
  BY <1>7 DEF ReceiveToolCall
<1>8. CASE ReceiveEnd
  BY <1>8 DEF ReceiveEnd
<1>9. CASE LoseStream
  BY <1>9 DEF LoseStream
<1>10. CASE SaveCheckpoint
  BY <1>10 DEF SaveCheckpoint
<1>11. CASE Judge
  BY <1>11 DEF Judge
<1>12. CASE Rollback
  BY <1>12 DEF Rollback
<1>13. CASE MarkCompleted
  BY <1>13 DEF MarkCompleted, MarkSession
<1>14. CASE MarkEscalated
  BY <1>14 DEF MarkEscalated, MarkSession
<1>15. CASE MarkExhausted
  BY <1>15 DEF MarkExhausted, MarkSession
<1>16. CASE TransitionToDone
  BY <1>16 DEF TransitionToDone, MoveItem
<1>17. CASE TransitionToFailed
  BY <1>17 DEF TransitionToFailed, MoveItem
<1>18. CASE AgentEnds
  BY <1>18 DEF AgentEnds, AgentRuns
<1>19. ASSUME NEW f \in Files, AgentAnnounces(f) PROVE RollbackInv'
  BY <1>19 DEF AgentAnnounces, AgentRuns
<1>20. ASSUME NEW f \in Files, AgentWrites(f) PROVE RollbackInv'
  BY <1>20 DEF AgentWrites
<1>21. CASE Crash
  BY <1>21 DEF Crash
<1>22. CASE UNCHANGED vars
  BY <1>22 DEF vars
<1> QED BY <1>1, <1>2, <1>3, <1>4, <1>5, <1>6, <1>7, <1>8, <1>9, <1>10, <1>11, <1>12, <1>13, <1>14,
           <1>15, <1>16, <1>17, <1>18, <1>19, <1>20, <1>21, <1>22 DEF Next, Goroutine, Agent
-----------------------------------------------------------------------------
(* The theorems.                                                           *)

RepairInv == TypeOK /\ VerdictInv /\ QuietInv /\ OutcomeInv /\ RollbackInv

(* The inductive invariant, at every step.                                 *)
LEMMA Invariance == Spec => []RepairInv
<1>1. Init => RepairInv
  <2> SUFFICES ASSUME Init PROVE RepairInv
    OBVIOUS
  <2>1. VerdictInv /\ QuietInv /\ OutcomeInv /\ RollbackInv
    BY DEF Init, VerdictInv, QuietInv, OutcomeInv, RollbackInv, Clean, NoResult
  <2> QED BY <2>1, InitType DEF RepairInv
<1>2. RepairInv /\ [Next]_vars => RepairInv'
  BY TypeStep, VerdictStep, QuietStep, OutcomeStep, RollbackStep DEF RepairInv
<1> QED BY <1>1, <1>2, PTL DEF Spec

(* An item is done on a run that passed, which saw the files as they are.  *)
THEOREM DoneItemsAreValidated == Spec => []DoneIsValidated
<1>1. RepairInv => DoneIsValidated
  BY DEF RepairInv, VerdictInv, QuietInv, Clean, DoneIsValidated
<1> QED BY <1>1, Invariance, PTL

(* The session and the item end together and agree.                        *)
THEOREM OutcomesAlwaysAgree == Spec => []OutcomesAgree
<1>1. RepairInv => OutcomesAgree
  BY DEF RepairInv, OutcomeInv, Clean, OutcomesAgree
<1> QED BY <1>1, Invariance, PTL

(* A rollback brings the named files back,     whatever the order in which *)
(* the agent wrote and the goroutine read.                                 *)
THEOREM RollbacksRestore == Spec => RollbackRestoresNamed
<1> DEFINE Restores == pc = "restoring" /\ ending = "complete" /\ faults' = 0
                         => \A f \in Named : start[f] # Absent => files'[f] = start[f]
<1>1. RepairInv /\ [Next]_vars => [Restores]_vars
  <2> SUFFICES ASSUME RepairInv, Next, pc = "restoring", ending = "complete", faults' = 0
               PROVE  \A f \in Named : start[f] # Absent => files'[f] = start[f]
    BY DEF RepairInv
  <2>1. Rollback \/ Crash \/ \E f \in Files : AgentWrites(f)
    BY DEF Next, Goroutine, Agent, AgentRuns, Validate, Decide, Gate, CreateSession, ExhaustBudget,
           BeginAttempt, ReceiveToolCall, ReceiveEnd, LoseStream, SaveCheckpoint, Judge,
           MarkCompleted, MarkEscalated, MarkExhausted, MarkSession,
           TransitionToDone, TransitionToFailed, MoveItem, AgentEnds, AgentAnnounces
  <2>2. faults \in Nat /\ files \in [Files -> Contents]
    BY FaultsAssumption DEF RepairInv, TypeOK
  <2>3. CASE Rollback
    <3>1. Clean /\ files' = Restored
      BY <2>2, <2>3, FaultsAssumption DEF Rollback, Fault, Clean
    <3>2. \A f \in Present : checkpoint[f] = start[f] \/ (checkpoint[f] = Unknown /\ files[f] = start[f])
      BY <3>1 DEF RepairInv, RollbackInv
    <3>3. \A f \in Present : Restored[f] = start[f]
      <4>1. \A f \in Present : f \in Files /\ start[f] \in Contents
        BY FilesAssumption DEF RepairInv, TypeOK, Present
      <4> QED BY <3>2, <4>1 DEF Restored, Contents, Unknown
    <3> QED BY <3>1, <3>3 DEF Present
  <2>4. CASE Crash
    BY <2>2, <2>4, FaultsAssumption DEF Crash, Fault
  <2>5. ASSUME NEW f \in Files, AgentWrites(f) PROVE FALSE
    BY <2>2, <2>5 DEF AgentWrites, RepairInv, QuietInv, Clean
  <2> QED BY <2>1, <2>3, <2>4, <2>5
<1> QED BY <1>1, Invariance, PTL DEF Spec, RollbackRestoresNamed

-----------------------------------------------------------------------------
(* The life of the item.                                                   *)

ItemLife == INSTANCE WorkItemLifecycle WITH status <- item, approval <- "approved"

(* Where the item is at each point of the goroutine, whatever fails.       *)
PlaceInv ==
  /\ pc \in {"deciding", "gating"} \/ (pc = "validating" /\ attempt = 0) => item = "executing"
  /\ pc \in {"opening", "looping", "streaming", "saving", "judging", "restoring", "completing",
            "escalating", "exhausting"} \/ (pc = "validating" /\ attempt > 0) => item = "repairing"
  /\ pc \in {"finishing", "failing"} => item \in {"executing", "repairing"}
  /\ pc \in {"streaming", "saving"} => attempt > 0

LEMMA PlaceStep == TypeOK /\ PlaceInv /\ [Next]_vars => PlaceInv'
<1> SUFFICES ASSUME TypeOK, PlaceInv, [Next]_vars PROVE PlaceInv'
  OBVIOUS
<1> USE DEF PlaceInv, To, sessionVars, agentVars, fileVars
<1>1. attempt \in Nat
  BY AttemptsAssumption DEF TypeOK
<1>2. CASE Validate
  BY <1>1, <1>2 DEF Validate
<1>3. CASE Decide
  BY <1>3 DEF Decide
<1>4. CASE Gate
  BY <1>4 DEF Gate
<1>5. CASE CreateSession
  BY <1>5 DEF CreateSession
<1>6. CASE ExhaustBudget
  BY <1>6 DEF ExhaustBudget
<1>7. CASE BeginAttempt
  BY <1>1, <1>7 DEF BeginAttempt
<1>8. CASE ReceiveToolCall \/ ReceiveEnd \/ LoseStream
  BY <1>8 DEF ReceiveToolCall, ReceiveEnd, LoseStream
<1>9. CASE SaveCheckpoint
  BY <1>1, <1>9 DEF SaveCheckpoint
<1>10. CASE Judge
  BY <1>10 DEF Judge
<1>11. CASE Rollback
  BY <1>11 DEF Rollback
<1>12. CASE MarkCompleted \/ MarkEscalated \/ MarkExhausted
  BY <1>12 DEF MarkCompleted, MarkEscalated, MarkExhausted, MarkSession
<1>13. CASE TransitionToDone \/ TransitionToFailed
  BY <1>13 DEF TransitionToDone, TransitionToFailed, MoveItem
<1>14. CASE Agent
  BY <1>14 DEF Agent, AgentEnds, AgentAnnounces, AgentWrites
<1>15. CASE Crash
  BY <1>15 DEF Crash
<1>16. CASE UNCHANGED vars
  BY <1>16 DEF vars
<1> QED BY <1>2, <1>3, <1>4, <1>5, <1>6, <1>7, <1>8, <1>9, <1>10, <1>11, <1>12, <1>13, <1>14, <1>15, <1>16
        DEF Next, Goroutine

(* The trigger and the repair move the item only as its life cycle has it. *)
THEOREM ItemMovesAreDocumented == Spec => [][ItemLife!Next]_(ItemLife!workItemVars)
<1>1. Init => PlaceInv
  BY DEF Init, PlaceInv
<1>2. PlaceInv /\ [Next]_vars => [ItemLife!Next]_(ItemLife!workItemVars)
  <2> SUFFICES ASSUME PlaceInv, [Next]_vars, item' # item
               PROVE  ItemLife!Repair \/ ItemLife!End
    BY DEF ItemLife!Next, ItemLife!workItemVars
  <2>1. \/ Gate /\ item' = "repairing" /\ pc = "gating"
        \/ item' \in {"done", "failed"} /\ pc \in {"finishing", "failing"}
    BY DEF Next, Goroutine, Agent, Validate, Decide, Gate, CreateSession, ExhaustBudget,
           BeginAttempt, ReceiveToolCall, ReceiveEnd, LoseStream, SaveCheckpoint, Judge, Rollback, Crash,
           MarkCompleted, MarkEscalated, MarkExhausted, MarkSession, TransitionToDone, TransitionToFailed,
           MoveItem, AgentEnds, AgentAnnounces, AgentWrites, vars, sessionVars
  <2> QED BY <2>1 DEF PlaceInv, ItemLife!Repair, ItemLife!End, ItemLife!Become
<1> QED BY <1>1, <1>2, PlaceStep, TypeCorrect, PTL DEF Spec

-----------------------------------------------------------------------------
(* What RepairEnds rests on besides fairness and OutcomesAgree: a repair   *)
(* has finitely many steps to go, but for the events of the agent.         *)

(* The steps that are left at most, apart from those that read the stream. *)
StepsLeft ==
  11 * (MaxAttempts - attempt) +
    CASE pc = "streaming"                   -> 10
      [] pc = "saving"                      -> 9
      [] pc = "validating"                  -> 8
      [] pc \in {"deciding", "judging"}     -> 7
      [] pc \in {"gating", "restoring"}     -> 6
      [] pc = "opening"                     -> 5
      [] pc = "looping"                     -> 4
      [] pc \in {"escalating", "exhausting"} -> 3
      [] pc = "completing"                  -> 2
      [] pc \in {"finishing", "failing"}    -> 1
      [] pc = "ended"                       -> 0

(* Every step of the goroutine that does not read a tool call of the agent *)
(* brings it nearer to its end; the agent, late calls included, never puts *)
(* it back: only a stream that does not end keeps a session open.          *)
THEOREM RepairsMakeProgress ==
  Spec => [][/\ StepsLeft \in Nat
             /\ (Goroutine /\ ~ReceiveToolCall) \/ Crash => StepsLeft' < StepsLeft
             /\ ReceiveToolCall \/ Agent => StepsLeft' = StepsLeft]_vars
<1>1. ASSUME TypeOK, [Next]_vars
      PROVE  /\ StepsLeft \in Nat
             /\ (Goroutine /\ ~ReceiveToolCall) \/ Crash => StepsLeft' < StepsLeft
             /\ ReceiveToolCall \/ Agent => StepsLeft' = StepsLeft
  <2> USE DEF StepsLeft, To, sessionVars, agentVars, fileVars
  <2>1. attempt \in 0..MaxAttempts /\ MaxAttempts \in Nat /\ pc \in PCs
    BY <1>1, AttemptsAssumption DEF TypeOK
  <2>2. StepsLeft \in Nat
    BY <2>1 DEF PCs
  <2>3. ASSUME (Goroutine /\ ~ReceiveToolCall) \/ Crash PROVE StepsLeft' < StepsLeft
    <3>1. CASE Validate
      BY <2>1, <3>1 DEF Validate
    <3>2. CASE Decide
      <4>1. pc = "deciding" /\ attempt' = attempt /\ pc' \in {"finishing", "gating", "failing"}
        BY <3>2 DEF Decide
      <4> QED BY <2>1, <4>1
    <3>3. CASE Gate \/ CreateSession
      BY <2>1, <3>3 DEF Gate, CreateSession
    <3>4. CASE ExhaustBudget
      BY <2>1, <3>4 DEF ExhaustBudget
    <3>5. CASE BeginAttempt
      <4>1. pc = "looping" /\ attempt < MaxAttempts /\ attempt' = attempt + 1 /\ pc' \in {"streaming", "escalating"}
        BY <3>5 DEF BeginAttempt
      <4> QED BY <2>1, <4>1
    <3>6. CASE ReceiveEnd \/ LoseStream \/ SaveCheckpoint
      <4>1. attempt' = attempt
        BY <3>6 DEF ReceiveEnd, LoseStream, SaveCheckpoint
      <4>2. \/ pc = "streaming" /\ pc' \in {"saving", "escalating"}
            \/ pc = "saving" /\ pc' \in {"validating", "escalating"}
        BY <3>6 DEF ReceiveEnd, LoseStream, SaveCheckpoint
      <4> QED BY <2>1, <4>1, <4>2
    <3>7. CASE Judge \/ Rollback
      <4>1. attempt' = attempt
        BY <3>7 DEF Judge, Rollback
      <4>2. \/ pc = "judging" /\ pc' \in {"escalating", "completing", "looping", "restoring"}
            \/ pc = "restoring" /\ pc' = "escalating"
        BY <3>7 DEF Judge, Rollback
      <4> QED BY <2>1, <4>1, <4>2
    <3>8. CASE MarkCompleted \/ MarkEscalated \/ MarkExhausted
      BY <2>1, <3>8 DEF MarkCompleted, MarkEscalated, MarkExhausted, MarkSession
    <3>9. CASE TransitionToDone \/ TransitionToFailed
      BY <2>1, <3>9 DEF TransitionToDone, TransitionToFailed, MoveItem
    <3>10. CASE Crash
      BY <2>1, <3>10 DEF Crash, PCs
    <3> QED BY <2>3, <3>1, <3>2, <3>3, <3>4, <3>5, <3>6, <3>7, <3>8, <3>9, <3>10 DEF Goroutine
  <2>4. ReceiveToolCall \/ Agent => pc' = pc /\ attempt' = attempt
    BY DEF ReceiveToolCall, Agent, AgentEnds, AgentAnnounces, AgentWrites
  <2>5. ReceiveToolCall \/ Agent => StepsLeft' = StepsLeft
    BY <2>4
  <2> QED BY <2>2, <2>3, <2>5
<1> QED BY <1>1, TypeCorrect, PTL DEF Spec

-----------------------------------------------------------------------------
(* The runs that a repair starts: the stages of Validation, which is one   *)
(* step of RepairSession.                                                  *)

(* The stages that the run has left behind.                                *)
Reached == {Profile(language)[i] : i \in 1..(stage - 1)}

(* A stage that was not come to has no end, no diagnostics and at most a   *)
(* row that runs; one that failed has a failed row, a skipped one has no   *)
(* diagnostics.                                                            *)
StagesInv ==
  /\ language \in {"go", "node", "python"}
  /\ stage <= Len(Profile(language)) + 1
  /\ vpc = "running" => stage <= Len(Profile(language))
  /\ \A s \in StageNames \ Reached :
       truth[s] = "none" /\ found[s] = {} /\ rows[s] \in {"none", "running"}
  /\ \A s \in StageNames :
       /\ rows[s] = "skipped" => found[s] = {}
       /\ truth[s] = "failed" => rows[s] = "failed"
       /\ found[s] \in Diagnostics

(* A gate that is down failed or was lost, and a stage that never ran is   *)
(* behind one.                                                             *)
GatesInv ==
  /\ \A g \in broken : truth[g] \in {"failed", "unknown"}
  /\ \A s \in Reached : truth[s] = "none" => broken # {}

(* The verdict is the one of the rows and diagnostics, after the last stage*)
EndInv ==
  /\ vpc # "ended" => verdict = "none"
  /\ vpc = "ended" /\ verdict # "error" =>
       verdict = ThisResult.verdict /\ stage = Len(Profile(language)) + 1

(* The stages of a profile are different ones.                             *)
LEMMA ProfileStages ==
  ASSUME NEW lang \in {"go", "node", "python"}
  PROVE  /\ Len(Profile(lang)) \in 3..4
         /\ \A i \in 1..Len(Profile(lang)) : Profile(lang)[i] \in StageNames
         /\ \A i, j \in 1..Len(Profile(lang)) : Profile(lang)[i] = Profile(lang)[j] => i = j
<1>1. CASE lang = "python"
  BY <1>1 DEF Profile, StageNames
<1>2. CASE lang # "python"
  BY <1>2 DEF Profile, StageNames
<1> QED BY <1>1, <1>2

(* The stage that is next is a new one.                                    *)
LEMMA StageUnderWay ==
  ASSUME ValidationTypeOK, StagesInv, stage <= Len(Profile(language))
  PROVE  /\ Stage \in StageNames \ Reached
         /\ stage + 1 \in 1..5
         /\ \A n \in {stage + 1} : {Profile(language)[i] : i \in 1..(n - 1)} = Reached \cup {Stage}
<1>1. language \in {"go", "node", "python"} /\ stage \in 1..5
  BY DEF ValidationTypeOK, StagesInv
<1>2. /\ Len(Profile(language)) \in 3..4
      /\ \A i \in 1..Len(Profile(language)) : Profile(language)[i] \in StageNames
      /\ \A i, j \in 1..Len(Profile(language)) : Profile(language)[i] = Profile(language)[j] => i = j
  BY <1>1, ProfileStages
<1>3. stage \in 1..Len(Profile(language)) /\ stage + 1 \in 1..5
  BY <1>1, <1>2
<1>4. Stage \in StageNames
  BY <1>2, <1>3 DEF Stage
<1>5. Stage \notin Reached
  <2>1. \A i \in 1..(stage - 1) : i \in 1..Len(Profile(language)) /\ i # stage
    BY <1>1, <1>2
  <2> QED BY <1>2, <1>3, <2>1 DEF Stage, Reached
<1>6. {Profile(language)[i] : i \in 1..((stage + 1) - 1)} = Reached \cup {Stage}
  <2>1. 1..((stage + 1) - 1) = (1..(stage - 1)) \cup {stage}
    BY <1>1
  <2> QED BY <2>1 DEF Reached, Stage
<1> QED BY <1>3, <1>4, <1>5, <1>6

(* What may be stored of a stage keeps the invariants.                     *)
LEMMA StageEnds ==
  ASSUME ValidationTypeOK, StagesInv, GatesInv, stage <= Len(Profile(language)),
         language' = language, stage' = stage + 1, vpc' = "staging",
         NEW row, NEW categories \in Diagnostics, NEW end,
         rows' = [rows EXCEPT ![Stage] = row], found' = [found EXCEPT ![Stage] = categories],
         truth' = [truth EXCEPT ![Stage] = end],
         row = "skipped" => categories = {}, end = "failed" => row = "failed",
         broken' = broken \/ (broken' = broken \cup ({Stage} \cap {"install", "build"})
                                 /\ end \in {"failed", "unknown"}),
         end = "none" => broken # {}
  PROVE  StagesInv' /\ GatesInv'
<1>1. Stage \in StageNames \ Reached /\ Reached' = Reached \cup {Stage}
  BY StageUnderWay DEF Reached
<1>2. truth[Stage] = "none" /\ Stage \notin broken
  BY <1>1 DEF StagesInv, GatesInv
<1>3. \A s \in StageNames : s # Stage => rows'[s] = rows[s] /\ found'[s] = found[s]
          /\ truth'[s] = truth[s]
  BY DEF ValidationTypeOK
<1>4. rows'[Stage] = row /\ found'[Stage] = categories /\ truth'[Stage] = end
  BY <1>1 DEF ValidationTypeOK
<1>5. stage' <= Len(Profile(language')) + 1 /\ vpc' # "running"
  <2>1. language \in {"go", "node", "python"} /\ stage \in Nat
    BY DEF ValidationTypeOK, StagesInv
  <2>2. Len(Profile(language)) \in Nat
    BY <2>1, ProfileStages
  <2> QED BY <2>1, <2>2
<1>6. \A s \in StageNames \ Reached' : truth'[s] = "none" /\ found'[s] = {}
          /\ rows'[s] \in {"none", "running"}
  BY <1>1, <1>3 DEF StagesInv
<1>7. \A s \in StageNames :
        /\ rows'[s] = "skipped" => found'[s] = {}
        /\ truth'[s] = "failed" => rows'[s] = "failed"
        /\ found'[s] \in Diagnostics
  BY <1>3, <1>4 DEF StagesInv
<1>8. \A g \in broken' : truth'[g] \in {"failed", "unknown"}
  <2>1. broken \subseteq StageNames
    BY DEF ValidationTypeOK, StageNames
  <2> QED BY <1>2, <1>3, <1>4, <2>1 DEF GatesInv
<1>9. broken \subseteq broken'
  OBVIOUS
<1>10. \A s \in Reached' : truth'[s] = "none" => broken' # {}
  <2>1. Reached \subseteq StageNames
    <3>1. language \in {"go", "node", "python"} /\ stage \in 1..5
      BY DEF ValidationTypeOK, StagesInv
    <3>2. \A i \in 1..(stage - 1) : i \in 1..Len(Profile(language))
      BY <3>1, ProfileStages
    <3> QED BY <3>1, <3>2, ProfileStages DEF Reached
  <2> QED BY <1>1, <1>3, <1>4, <1>9, <2>1 DEF GatesInv
<1>11. language' \in {"go", "node", "python"}
  BY DEF StagesInv
<1>12. StagesInv'
  BY <1>5, <1>6, <1>7, <1>11 DEF StagesInv
<1> QED BY <1>8, <1>10, <1>12 DEF GatesInv

(* What completing a stage may store.                                      *)
LEMMA CompletedStage ==
  ASSUME ValidationTypeOK, StagesInv, GatesInv, vpc = "running", NEW status \in {"passed", "failed"},
         NEW categories \in Diagnostics, Complete(Stage, status, categories)
  PROVE  \E row \in {"running", "none", status}, kept \in Diagnostics,
        end \in {Observed(status), "unknown"} :
           /\ rows' = [rows EXCEPT ![Stage] = row] /\ found' = [found EXCEPT ![Stage] = kept]
           /\ truth' = [truth EXCEPT ![Stage] = end]
           /\ end = "failed" => row = "failed"
<1>1. Stage \in StageNames \ Reached
  BY StageUnderWay DEF StagesInv
<1>2. rows[Stage] \in {"running", "none"} /\ found[Stage] = {}
  BY <1>1 DEF StagesInv
<1>3. rows = [rows EXCEPT ![Stage] = rows[Stage]] /\ found = [found EXCEPT ![Stage] = {}]
  BY <1>1, <1>2 DEF ValidationTypeOK
<1>4. {} \in Diagnostics
  BY DEF Diagnostics, Findings
<1>5. Observed(status) = "failed" => status = "failed"
  BY DEF Observed
<1>6. \/ rows' = [rows EXCEPT ![Stage] = status] /\ found' = [found EXCEPT ![Stage] = categories]
           /\ truth' = [truth EXCEPT ![Stage] = Observed(status)]
      \/ rows' = [rows EXCEPT ![Stage] = status] /\ found' = found
           /\ truth' = [truth EXCEPT ![Stage] = Observed(status)]
      \/ found' = [found EXCEPT ![Stage] = categories] /\ rows' = rows
           /\ truth' = [truth EXCEPT ![Stage] = "unknown"]
  BY DEF Complete
<1>7. CASE rows' = [rows EXCEPT ![Stage] = status] /\ found' = [found EXCEPT ![Stage] = categories]
             /\ truth' = [truth EXCEPT ![Stage] = Observed(status)]
  BY <1>5, <1>7
<1>8. CASE rows' = [rows EXCEPT ![Stage] = status] /\ found' = found
             /\ truth' = [truth EXCEPT ![Stage] = Observed(status)]
  BY <1>3, <1>4, <1>5, <1>8
<1>9. CASE found' = [found EXCEPT ![Stage] = categories] /\ rows' = rows
             /\ truth' = [truth EXCEPT ![Stage] = "unknown"]
  BY <1>2, <1>3, <1>9
<1> QED BY <1>6, <1>7, <1>8, <1>9

(* A step that ends a stage: what it leaves of it.                         *)
StageStep ==
  /\ stage <= Len(Profile(language)) /\ language' = language /\ stage' = stage + 1 /\ vpc' = "staging"
  /\ \E row \in {"none", "running", "passed", "failed", "skipped"}, categories \in Diagnostics,
        end \in {"none", "ok", "failed", "unknown"} :
       /\ rows' = [rows EXCEPT ![Stage] = row] /\ found' = [found EXCEPT ![Stage] = categories]
       /\ truth' = [truth EXCEPT ![Stage] = end]
       /\ row = "skipped" => categories = {}
       /\ end = "failed" => row = "failed"
       /\ end = "none" => broken # {}
       /\ broken' = broken \/ (broken' = broken \cup ({Stage} \cap {"install", "build"})
                                  /\ end \in {"failed", "unknown"})

(* The steps that end a stage.                                             *)
EndsStage ==
  \/ SkipStage \/ LoseStage \/ StagePasses \/ StagePassesUnderSuspicion
  \/ StageFails \/ StageFailsForEnvironment \/ ToolMissing
  \/ TimeoutUnseen \/ CannotRun

(* Each step that ends a stage is one of those.                            *)
LEMMA StageSteps ==
  ASSUME ValidationTypeOK, StagesInv, GatesInv, EndsStage PROVE StageStep
<1> USE DEF Goto, runVars, stageVars
<1>1. stage <= Len(Profile(language)) /\ language' = language /\ stage' = stage + 1 /\ vpc' = "staging"
  <2>1. vpc = "running" => stage <= Len(Profile(language))
    BY DEF StagesInv
  <2> QED BY <2>1 DEF EndsStage, SkipStage, LoseStage, StagePasses, StagePassesUnderSuspicion,
            StageFails,
                      StageFailsForEnvironment, ToolMissing, TimeoutUnseen, CannotRun, Complete
<1>2. Stage \in StageNames \ Reached
  BY <1>1, StageUnderWay
<1>3. rows[Stage] \in {"running", "none"} /\ found[Stage] = {} /\ truth[Stage] = "none"
  BY <1>2 DEF StagesInv
<1>4. /\ rows = [rows EXCEPT ![Stage] = rows[Stage]] /\ found = [found EXCEPT ![Stage] = {}]
      /\ truth = [truth EXCEPT ![Stage] = "none"]
  BY <1>2, <1>3 DEF ValidationTypeOK
<1>5. {} \in Diagnostics /\ {"environment_limitation"} \in Diagnostics
          /\ Findings \subseteq Diagnostics
  BY DEF Diagnostics, Findings
<1>6. CASE SkipStage
  <2>1. broken # {} /\ broken' = broken /\ found' = found /\ truth' = truth
    BY <1>6 DEF SkipStage, Barred
  <2>2. rows' = [rows EXCEPT ![Stage] = "skipped"] \/ rows' = rows
    BY <1>6 DEF SkipStage
  <2> QED BY <1>1, <1>3, <1>4, <1>5, <2>1, <2>2 DEF StageStep
<1>7. CASE LoseStage
  <2>1. rows' = rows /\ found' = found /\ truth' = [truth EXCEPT ![Stage] = "unknown"]
          /\ broken' = broken \cup ({Stage} \cap {"install", "build"})
    BY <1>7 DEF LoseStage, Break
  <2> QED BY <1>1, <1>3, <1>4, <1>5, <2>1 DEF StageStep
<1>8. CASE StagePasses \/ StagePassesUnderSuspicion
  <2>1. PICK categories \in Diagnostics : Complete(Stage, "passed", categories)
    <3>1. CASE StagePasses
      BY <1>5, <3>1 DEF StagePasses
    <3>2. CASE StagePassesUnderSuspicion
      BY <1>5, <3>2 DEF StagePassesUnderSuspicion
    <3> QED BY <1>8, <3>1, <3>2
  <2>2. vpc = "running" /\ broken' = broken
    BY <1>8 DEF StagePasses, StagePassesUnderSuspicion
  <2>3. PICK row \in {"running", "none", "passed"}, kept \in Diagnostics,
            end \in {Observed("passed"), "unknown"} :
           /\ rows' = [rows EXCEPT ![Stage] = row] /\ found' = [found EXCEPT ![Stage] = kept]
           /\ truth' = [truth EXCEPT ![Stage] = end]
    BY <2>1, <2>2, CompletedStage
  <2>4. end \in {"ok", "unknown"}
    BY DEF Observed
  <2> QED BY <1>1, <2>2, <2>3, <2>4 DEF StageStep
<1>9. CASE StageFails \/ StageFailsForEnvironment
  <2>1. PICK categories \in Diagnostics : Complete(Stage, "failed", categories)
    <3>1. CASE StageFails
      BY <1>5, <3>1 DEF StageFails
    <3>2. CASE StageFailsForEnvironment
      BY <1>5, <3>2 DEF StageFailsForEnvironment
    <3> QED BY <1>9, <3>1, <3>2
  <2>2. vpc = "running" /\ broken' = broken \cup ({Stage} \cap {"install", "build"})
    BY <1>9 DEF StageFails, StageFailsForEnvironment, Break
  <2>3. PICK row \in {"running", "none", "failed"}, kept \in Diagnostics,
            end \in {Observed("failed"), "unknown"} :
           /\ rows' = [rows EXCEPT ![Stage] = row] /\ found' = [found EXCEPT ![Stage] = kept]
           /\ truth' = [truth EXCEPT ![Stage] = end]
           /\ end = "failed" => row = "failed"
    BY <2>1, <2>2, CompletedStage
  <2>4. end \in {"failed", "unknown"}
    BY DEF Observed
  <2> QED BY <1>1, <2>2, <2>3, <2>4 DEF StageStep
<1>10. CASE ToolMissing
  <2>1. (rows' = [rows EXCEPT ![Stage] = "skipped"] \/ rows' = rows) /\ found' = found /\ broken' = broken
          /\ truth' = [truth EXCEPT ![Stage] = "ok"]
    BY <1>10 DEF ToolMissing
  <2> QED BY <1>1, <1>3, <1>4, <1>5, <2>1 DEF StageStep
<1>11. CASE TimeoutUnseen
  <2>1. PICK categories \in Findings : found' = [found EXCEPT ![Stage] = categories]
    BY <1>11 DEF TimeoutUnseen
  <2>2. rows' = [rows EXCEPT ![Stage] = "passed"] /\ broken' = broken
            /\ truth' = [truth EXCEPT ![Stage] = "unknown"]
    BY <1>11 DEF TimeoutUnseen
  <2>3. categories \in Diagnostics
    BY <1>5
  <2> QED BY <1>1, <2>1, <2>2, <2>3 DEF StageStep
<1>12. CASE CannotRun
  <2>1. rows' = rows /\ found' = found /\ truth' = [truth EXCEPT ![Stage] = "unknown"]
          /\ broken' = broken \cup ({Stage} \cap {"install", "build"})
    BY <1>12 DEF CannotRun, Break
  <2> QED BY <1>1, <1>3, <1>4, <1>5, <2>1 DEF StageStep
<1> QED BY <1>6, <1>7, <1>8, <1>9, <1>10, <1>11, <1>12 DEF EndsStage

(* The other steps leave the stages alone, but for one that begins.        *)
Elsewhere ==
  \/ CreateRun \/ ProvisionContainer \/ ProvisionFails \/ ToolchainMissing
  \/ LintHangs \/ Assemble \/ AssembleFails \/ RunCrash \/ UNCHANGED validationVars

(* Nor do they start one.                                                  *)
LEMMA ElsewhereKeeps ==
  Elsewhere => (UNCHANGED <<language, stage, stageVars>> /\ vpc' # "running") \/ UNCHANGED validationVars
  BY DEF Elsewhere, CreateRun, ProvisionContainer, ProvisionFails, ToolchainMissing,
         LintHangs, Assemble, AssembleFails, RunCrash, Goto, validationVars

(* There are no other steps.                                               *)
LEMMA RunSteps == [ValidationNext]_validationVars => EndsStage \/ BeginStage \/ Elsewhere
  BY DEF ValidationNext, Step, EndsStage, Elsewhere

(* A step keeps every variable in its type.                                *)
LEMMA RunTypeStep ==
  ValidationTypeOK /\ StagesInv /\ GatesInv /\ [ValidationNext]_validationVars => ValidationTypeOK'
<1> SUFFICES ASSUME ValidationTypeOK, StagesInv, GatesInv, [ValidationNext]_validationVars
             PROVE  ValidationTypeOK'
  OBVIOUS
<1> USE DEF Goto, Failure
<1>1. failures' \in 0..MaxFailures
  <2>1. failures' = failures \/ (failures < MaxFailures /\ failures' = failures + 1)
    BY DEF ValidationNext, Step, validationVars, CreateRun, ProvisionContainer, ProvisionFails, ToolchainMissing,
          RemoveContainer,
           SkipStage, BeginStage, LoseStage, StagePasses, StagePassesUnderSuspicion, StageFails,
           StageFailsForEnvironment, ToolMissing, TimeoutUnseen, CannotRun, LintHangs, Complete,
           Assemble, AssembleFails, RunCrash
  <2> QED BY <2>1, FailuresAssumption DEF ValidationTypeOK
<1>2. CASE EndsStage
  <2>1. StageStep
    BY <1>2, StageSteps
  <2>2. PICK row \in {"none", "running", "passed", "failed", "skipped"}, categories \in Diagnostics,
             end \in {"none", "ok", "failed", "unknown"} :
           /\ rows' = [rows EXCEPT ![Stage] = row] /\ found' = [found EXCEPT ![Stage] = categories]
           /\ truth' = [truth EXCEPT ![Stage] = end]
    BY <2>1 DEF StageStep
  <2>3. Stage \in StageNames /\ stage' \in 1..5
    BY <2>1, StageUnderWay DEF StageStep
  <2>4. broken' \subseteq {"install", "build"} /\ vpc' \in VPCs /\ language' \in Languages
    BY <2>1 DEF StageStep, ValidationTypeOK, VPCs
  <2>5. UNCHANGED runVars /\ env' \in {"fine", "failed"}
    BY <1>2 DEF EndsStage, SkipStage, LoseStage, StagePasses, StagePassesUnderSuspicion, StageFails,
                StageFailsForEnvironment, ToolMissing, TimeoutUnseen, CannotRun, runVars, ValidationTypeOK
  <2>6. categories \in SUBSET Categories
    BY DiagnosticsType
  <2>7. found' \in [StageNames -> SUBSET Categories]
    BY <2>2, <2>3, <2>6 DEF ValidationTypeOK
  <2>8. rows' \in [StageNames -> {"none", "running", "passed", "failed", "skipped"}]
    BY <2>2, <2>3 DEF ValidationTypeOK
  <2>9. truth' \in [StageNames -> {"none", "ok", "failed", "unknown"}]
    BY <2>2, <2>3 DEF ValidationTypeOK
  <2> QED BY <1>1, <2>3, <2>4, <2>5, <2>7, <2>8, <2>9 DEF ValidationTypeOK, runVars
<1>3. CASE BeginStage
  <2>1. rows' = [rows EXCEPT ![Stage] = "running"] /\ vpc' = "running"
    BY <1>3 DEF BeginStage
  <2>2. UNCHANGED <<language, stage, found, broken, env, truth, runVars>>
    BY <1>3 DEF BeginStage
  <2>3. rows' \in [StageNames -> {"none", "running", "passed", "failed", "skipped"}]
    BY <2>1 DEF ValidationTypeOK
  <2> QED BY <1>1, <2>1, <2>2, <2>3 DEF ValidationTypeOK, runVars, VPCs
<1>4. CASE Elsewhere
  <2>1. UNCHANGED <<language, stage, stageVars>>
    BY <1>4, ElsewhereKeeps DEF validationVars
  <2>2. vpc' \in VPCs
    BY <1>4 DEF Elsewhere, CreateRun, ProvisionContainer, ProvisionFails, ToolchainMissing,
          LintHangs, Assemble,
                AssembleFails, RunCrash, validationVars, VPCs, ValidationTypeOK
  <2>3. runRow' \in {"none", "running", "passed", "failed", "error"}
    BY <1>4 DEF Elsewhere, CreateRun, ProvisionContainer, ProvisionFails, ToolchainMissing,
          LintHangs, Assemble,
                AssembleFails, RunCrash, validationVars, runVars, ValidationTypeOK
  <2>4. container' \in {"none", "running", "leaked"}
    BY <1>4 DEF Elsewhere, CreateRun, ProvisionContainer, ProvisionFails, ToolchainMissing,
          RemoveContainer,
                LintHangs, Assemble, AssembleFails, RunCrash, validationVars, runVars, ValidationTypeOK
  <2>5. ThisResult.verdict \in Verdicts
    BY DEF ThisResult, Result, Verdict, Verdicts
  <2>6. verdict' \in {verdict, "error", ThisResult.verdict}
    BY <1>4 DEF Elsewhere, CreateRun, ProvisionContainer, ProvisionFails, ToolchainMissing,
          LintHangs, Assemble,
                AssembleFails, RunCrash, validationVars, runVars
  <2>7. verdict' \in Verdicts \cup {"none", "error"}
    BY <2>5, <2>6 DEF ValidationTypeOK
  <2> QED BY <1>1, <2>1, <2>2, <2>3, <2>4, <2>7 DEF ValidationTypeOK, stageVars
<1> QED BY <1>2, <1>3, <1>4, RunSteps

(* A step keeps what the stages that ended left.                           *)
LEMMA StagesStep ==
  ValidationTypeOK /\ StagesInv /\ GatesInv /\ [ValidationNext]_validationVars => StagesInv' /\ GatesInv'
<1> SUFFICES ASSUME ValidationTypeOK, StagesInv, GatesInv, [ValidationNext]_validationVars
             PROVE  StagesInv' /\ GatesInv'
  OBVIOUS
<1>1. CASE EndsStage
  <2>1. StageStep
    BY <1>1, StageSteps
  <2> QED BY <2>1, StageEnds DEF StageStep
<1>2. CASE BeginStage
  <2>1. stage <= Len(Profile(language)) /\ rows' = [rows EXCEPT ![Stage] = "running"]
    BY <1>2 DEF BeginStage
  <2>2. UNCHANGED <<language, stage, found, broken, truth>>
    BY <1>2 DEF BeginStage
  <2>3. Stage \in StageNames \ Reached /\ Reached' = Reached
    BY <2>1, <2>2, StageUnderWay DEF Reached
  <2>4. rows'[Stage] = "running" /\ \A s \in StageNames : s # Stage => rows'[s] = rows[s]
    BY <2>1, <2>3 DEF ValidationTypeOK
  <2>5. truth[Stage] = "none"
    BY <2>3 DEF StagesInv
  <2>6. StagesInv'
    BY <2>1, <2>2, <2>3, <2>4, <2>5 DEF StagesInv
  <2>7. GatesInv'
    BY <2>2, <2>3 DEF GatesInv
  <2> QED BY <2>6, <2>7
<1>3. CASE Elsewhere
  <2>1. UNCHANGED <<language, stage, stageVars>> /\ (vpc' = "running" => vpc = "running")
    BY <1>3, ElsewhereKeeps DEF validationVars
  <2>2. Reached' = Reached
    BY <2>1 DEF Reached
  <2> QED BY <2>1, <2>2 DEF StagesInv, GatesInv, stageVars
<1> QED BY <1>1, <1>2, <1>3, RunSteps

(* A step keeps the verdict with the rows and the diagnostics.             *)
LEMMA EndStep == ValidationTypeOK /\ StagesInv /\ EndInv /\ [ValidationNext]_validationVars => EndInv'
<1> SUFFICES ASSUME ValidationTypeOK, StagesInv, EndInv, [ValidationNext]_validationVars PROVE EndInv'
  OBVIOUS
<1>1. CASE EndsStage \/ BeginStage
  <2>1. vpc \in {"staging", "running"} /\ vpc' \in {"staging", "running"} /\ verdict' = verdict
    BY <1>1 DEF EndsStage, SkipStage, LoseStage, StagePasses, StagePassesUnderSuspicion, StageFails,
                StageFailsForEnvironment, ToolMissing, TimeoutUnseen, CannotRun, Complete,
                      BeginStage,
                Goto, runVars
  <2> QED BY <2>1 DEF EndInv
<1>2. CASE Elsewhere
  <2>1. ThisResult' = ThisResult /\ UNCHANGED <<language, stage>>
    <3>1. UNCHANGED <<language, stage, rows, found, env>>
      BY <1>2, ElsewhereKeeps DEF validationVars, stageVars
    <3> QED BY <3>1 DEF ThisResult, RowsWith
  <2>2. CASE Assemble
    <3>1. vpc' = "ended" /\ verdict' = ThisResult.verdict /\ stage > Len(Profile(language))
      BY <2>2 DEF Assemble, Goto
    <3>2. stage = Len(Profile(language)) + 1
      <4>1. language \in {"go", "node", "python"} /\ stage \in 1..5
        BY DEF ValidationTypeOK, StagesInv
      <4>2. Len(Profile(language)) \in 3..4
        BY <4>1, ProfileStages
      <4> QED BY <3>1, <4>1, <4>2 DEF StagesInv
    <3> QED BY <2>1, <3>1, <3>2 DEF EndInv
  <2>3. CASE ~Assemble
    <3>1. \/ vpc' = "ended" /\ verdict' = "error"
          \/ vpc' # "ended" /\ vpc # "ended" /\ verdict' = verdict
          \/ vpc' = vpc /\ verdict' = verdict
      BY <1>2, <2>3 DEF Elsewhere, CreateRun, ProvisionContainer, ProvisionFails, ToolchainMissing,
            LintHangs,
                        AssembleFails, RunCrash, Goto, validationVars, runVars
    <3> QED BY <2>1, <3>1 DEF EndInv
  <2> QED BY <2>2, <2>3
<1> QED BY <1>1, <1>2, RunSteps

(* The inductive invariant, at every step.                                 *)
LEMMA RunInvariance ==
  ValidationSpec => [](ValidationTypeOK /\ StagesInv /\ GatesInv /\ EndInv)
<1>1. ValidationInit => ValidationTypeOK /\ StagesInv /\ GatesInv /\ EndInv
  <2> SUFFICES ASSUME ValidationInit PROVE ValidationTypeOK /\ StagesInv /\ GatesInv /\ EndInv
    OBVIOUS
  <2>1. ValidationTypeOK
    BY FailuresAssumption DEF ValidationInit, ValidationTypeOK, VPCs, Verdicts
  <2>2. language \in {"go", "node", "python"}
    BY LanguagesAssumption DEF ValidationInit
  <2>3. Len(Profile(language)) \in 3..4
    BY <2>2, ProfileStages
  <2>4. {} \in Diagnostics
    BY DEF Diagnostics, Findings
  <2>5. Reached = {}
    BY DEF ValidationInit, Reached
  <2>6. StagesInv
    BY <2>2, <2>3, <2>4, <2>5 DEF ValidationInit, StagesInv
  <2>7. GatesInv /\ EndInv
    BY <2>5 DEF ValidationInit, GatesInv, EndInv
  <2> QED BY <2>1, <2>6, <2>7
<1>2. ValidationTypeOK /\ StagesInv /\ GatesInv /\ EndInv /\ [ValidationNext]_validationVars
          => (ValidationTypeOK /\ StagesInv /\ GatesInv /\ EndInv)'
  BY RunTypeStep, StagesStep, EndStep
<1> QED BY <1>1, <1>2, PTL DEF ValidationSpec

(* A run that has passed earned it.                                        *)
LEMMA EarnedPass == ValidationTypeOK /\ StagesInv /\ GatesInv /\ EndInv => PassIsEarned
<1> SUFFICES ASSUME ValidationTypeOK, StagesInv, GatesInv, EndInv, verdict = "passed",
                    NEW i \in 1..Len(Profile(language))
             PROVE  \/ truth[Profile(language)[i]] \in {"ok", "unknown"}
                    \/ truth[Profile(language)[i]] = "none" /\ \E g \in broken : truth[g] = "unknown"
  BY DEF PassIsEarned
<1>1. ThisResult.verdict = "passed" /\ stage = Len(Profile(language)) + 1
  BY DEF EndInv
<1>2. RowsWith("failed") = {}
  BY <1>1 DEF ThisResult, Result, Verdict
<1>3. \A s \in StageNames : truth[s] \in {"none", "ok", "unknown"}
  BY <1>2 DEF RowsWith, StagesInv, ValidationTypeOK
<1>4. Profile(language)[i] \in StageNames /\ Profile(language)[i] \in Reached
  <2>1. language \in {"go", "node", "python"}
    BY DEF ValidationTypeOK, StagesInv
  <2>2. Len(Profile(language)) \in 3..4
    BY <2>1, ProfileStages
  <2>3. stage - 1 = Len(Profile(language))
    BY <1>1, <2>2
  <2> QED BY <2>1, <2>3, ProfileStages DEF Reached
<1>5. broken \subseteq StageNames
  BY DEF ValidationTypeOK, StageNames
<1> QED BY <1>3, <1>4, <1>5 DEF GatesInv

(* The result of a run is consistent.                                      *)
LEMMA ConsistentResult ==
  ASSUME ValidationTypeOK, StagesInv PROVE ThisResult \in Results(StageNames)
<1>1. RowsWith("failed") \in SUBSET StageNames /\ RowsWith("skipped") \in SUBSET StageNames
  BY DEF RowsWith
<1>2. found \in [StageNames -> Diagnostics] /\ env \in {"fine", "failed"}
  BY DEF ValidationTypeOK, StagesInv
<1>3. Consistent(ThisResult)
  <2> DEFINE v == Verdict(RowsWith("failed"), found, env)
  <2>1. RowsWith("failed") \cap RowsWith("skipped") = {}
    BY DEF RowsWith
  <2>2. \A s \in RowsWith("skipped") : found[s] = {}
    BY DEF RowsWith, StagesInv
  <2>3. v \in {"passed", "failed_environment"} => (v = "passed" <=> RowsWith("failed") = {})
    BY DEF Verdict
  <2>4. v = "passed" => Failing(found) = {}
    BY DEF Verdict
  <2> HIDE DEF v
  <2>5. ThisResult = [verdict |-> v, failed |-> RowsWith("failed"), skipped |-> RowsWith("skipped"),
            found |-> found]
    BY DEF ThisResult, Result, v
  <2> QED BY <2>1, <2>2, <2>3, <2>4, <2>5 DEF Consistent
<1>4. ThisResult = Result(RowsWith("failed"), RowsWith("skipped"), found, env)
  BY DEF ThisResult
<1> QED BY <1>1, <1>2, <1>3, <1>4 DEF Results

(* Every variable of a validation run keeps its type.                      *)
THEOREM RunTypeCorrect == ValidationSpec => []ValidationTypeOK
BY RunInvariance, PTL

(* A run that passed has no failed stage, whatever was lost on the way:    *)
(* for any languages and any number of failures.                           *)
THEOREM PassesAreEarned == ValidationSpec => []PassIsEarned
BY RunInvariance, EarnedPass, PTL

(* The result a caller gets is that of the rows and the diagnostics, and   *)
(* consistent.                                                             *)
THEOREM ResultsAreConsistent == ValidationSpec => []ResultIsConsistent
<1>1. ValidationTypeOK /\ StagesInv /\ EndInv => ResultIsConsistent
  BY ConsistentResult DEF Results, EndInv, ResultIsConsistent
<1> QED BY <1>1, RunInvariance, PTL

(* Every result a run may give its caller is among those the repair is     *)
(* modelled with: Validate of RepairSession leaves out no run.             *)
THEOREM RepairsReadEveryResult ==
  ASSUME Stages = StageNames
  PROVE  ValidationSpec => [](vpc = "ended" /\ verdict # "error"
                               => [verdict |-> verdict, found |-> found] \in ReadResults)
<1>1. ASSUME ValidationTypeOK, StagesInv, EndInv, vpc = "ended", verdict # "error"
      PROVE  [verdict |-> verdict, found |-> found] \in ReadResults
  <2>1. ThisResult \in Results(StageNames)
    BY <1>1, ConsistentResult
  <2>2. ThisResult.verdict = verdict /\ ThisResult.found = found
    BY <1>1 DEF EndInv, ThisResult, Result
  <2> QED BY <2>1, <2>2 DEF ReadResults
<1> QED BY <1>1, RunInvariance, PTL

(* What RunsSettle rests on besides fairness: a run has finitely many      *)
(* steps to go, and where it stops its row and its container are settled.  *)
StagesLeft ==
  CASE vpc = "detecting"    -> 14
    [] vpc = "provisioning" -> 13
    [] vpc = "staging"      -> 12 - 2 * stage
    [] vpc = "running"      -> 11 - 2 * stage
    [] vpc = "stuck"        -> 1
    [] vpc \in {"ended", "dead"} -> 0

(* Every step brings a run nearer to its end, whatever fails on the way,   *)
(* for every profile.                                                      *)
THEOREM ValidationsMakeProgress ==
  ValidationSpec => [][StagesLeft' < StagesLeft /\ StagesLeft \in Nat]_validationVars
<1>1. ASSUME ValidationTypeOK, StagesInv, ValidationNext
      PROVE  StagesLeft' < StagesLeft /\ StagesLeft \in Nat
  <2>1. stage \in 1..5 /\ vpc \in VPCs /\ (vpc = "running" => stage <= 4)
    <3> DEFINE last == Len(Profile(language))
    <3>1. last \in 3..4
      BY <1>1, ProfileStages DEF StagesInv
    <3>2. stage \in 1..5 /\ vpc \in VPCs /\ (vpc = "running" => stage <= last)
      BY <1>1 DEF ValidationTypeOK, StagesInv
    <3> HIDE DEF last
    <3>3. vpc = "running" => stage <= 4
      BY <3>1, <3>2
    <3> QED BY <3>2, <3>3
  <2>2. StagesLeft \in Nat
    BY <2>1 DEF StagesLeft, VPCs
  <2>3. CASE EndsStage
    <3>1. stage' = stage + 1 /\ vpc' = "staging" /\ vpc \in {"staging", "running"}
      BY <2>3 DEF EndsStage, SkipStage, LoseStage, StagePasses, StagePassesUnderSuspicion, StageFails,
                  StageFailsForEnvironment, ToolMissing, TimeoutUnseen, CannotRun, Complete, Goto
    <3> QED BY <2>1, <2>2, <3>1 DEF StagesLeft
  <2>4. CASE BeginStage
    BY <2>1, <2>2, <2>4 DEF BeginStage, Goto, StagesLeft
  <2>5. CASE CreateRun \/ ProvisionContainer \/ ProvisionFails \/ ToolchainMissing
    BY <2>1, <2>2, <2>5 DEF CreateRun, ProvisionContainer, ProvisionFails, ToolchainMissing, Goto,
                           stageVars, StagesLeft
  <2>6. CASE LintHangs \/ Assemble \/ AssembleFails
    BY <2>1, <2>2, <2>6 DEF LintHangs, Assemble, AssembleFails, Goto, StagesLeft
  <2>7. CASE RunCrash
    BY <2>1, <2>2, <2>7 DEF RunCrash, VPCs, StagesLeft
  <2> QED BY <1>1, <2>3, <2>4, <2>5, <2>6, <2>7 DEF ValidationNext, Step, EndsStage
<1>2. ValidationTypeOK /\ StagesInv /\ [ValidationNext]_validationVars
        => [StagesLeft' < StagesLeft /\ StagesLeft \in Nat]_validationVars
  BY <1>1
<1> QED BY <1>2, RunInvariance, PTL DEF ValidationSpec

(* Without a failure a run neither hangs nor dies, and one that is through *)
(* has a final status in its row and no container.                         *)
THEOREM EndedValidationsAreSettled ==
  ValidationSpec => [](failures = 0 => /\ vpc \notin {"stuck", "dead"}
                                       /\ vpc = "ended" => /\ runRow \in {"passed", "failed", "error"}
                                                           /\ container # "running")
<1> DEFINE Inv ==
      /\ vpc \in {"detecting", "provisioning"} => container = "none"
      /\ failures = 0 => /\ vpc \notin {"stuck", "dead"}
                         /\ vpc = "ended" => /\ runRow \in {"passed", "failed", "error"}
                                             /\ container # "running"
<1>1. ValidationInit => Inv
  BY DEF ValidationInit
<1>2. ASSUME ValidationTypeOK, Inv, [ValidationNext]_validationVars PROVE Inv'
  <2>1. failures \in Nat /\ (Failure => failures' # 0) /\ (failures' = 0 => failures = 0)
    BY <1>2, FailuresAssumption DEF ValidationTypeOK, Failure, ValidationNext, Step, CreateRun,
         ProvisionContainer, ProvisionFails, ToolchainMissing, RemoveContainer, SkipStage, BeginStage,
         LoseStage, StagePasses, StagePassesUnderSuspicion, StageFails, StageFailsForEnvironment,
         ToolMissing, TimeoutUnseen, CannotRun, LintHangs, Assemble, AssembleFails, RunCrash, Complete,
         validationVars
  <2>2. CASE EndsStage \/ BeginStage
    <3>1. vpc \in {"staging", "running"} /\ vpc' \in {"staging", "running"}
      BY <2>2 DEF EndsStage, BeginStage, SkipStage, LoseStage, StagePasses, StagePassesUnderSuspicion,
                  StageFails, StageFailsForEnvironment, ToolMissing, TimeoutUnseen, CannotRun, Complete, Goto
    <3> QED BY <3>1
  <2>3. CASE CreateRun \/ ProvisionContainer \/ LintHangs \/ AssembleFails \/ RunCrash
    BY <1>2, <2>1, <2>3 DEF CreateRun, ProvisionContainer, LintHangs, AssembleFails, RunCrash, Goto, runVars
  <2>4. CASE ProvisionFails
    BY <1>2, <2>1, <2>4 DEF ProvisionFails, Goto
  <2>5. CASE ToolchainMissing
    BY <1>2, <2>1, <2>5 DEF ToolchainMissing, RemoveContainer, Goto
  <2>6. CASE Assemble
    BY <1>2, <2>1, <2>6 DEF Assemble, RemoveContainer, Goto
  <2>7. CASE UNCHANGED validationVars
    BY <1>2, <2>7 DEF validationVars, runVars
  <2> QED BY <1>2, <2>2, <2>3, <2>4, <2>5, <2>6, <2>7 DEF ValidationNext, Step, EndsStage
<1> QED BY <1>1, <1>2, RunInvariance, PTL DEF ValidationSpec
=============================================================================
