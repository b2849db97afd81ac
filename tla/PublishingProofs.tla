--------------------------- MODULE PublishingProofs ---------------------------
(***************************************************************************)
(* What holds of the publishing of an item for any number of requests,     *)
(* replaced workspaces and faults.                                         *)
(***************************************************************************)
EXTENDS Publishing, SequenceTheorems, TLAPS

-----------------------------------------------------------------------------
(* The inductive invariants.                                               *)

(* The session of a goroutine that works is the open one, and there is one *)
(* open session at most.                                                   *)
SessionInv ==
  /\ \A r \in Requests : pc[r] \in StepStates => status[r] = "active"
  /\ \A r, q \in Active : r = q

(* Without a timeout the commit of a goroutine is on its way: in its       *)
(* workspace, if that still exists, and then at GitHub.                    *)
CommitInv ==
  /\ \A r \in Requests : wsOf[r] <= workspace
  /\ prRow = "open" => pr = "open"
  /\ \A r \in Requests : pc[r] \in {"storing", "syncing", "completing"} => pr = "open"
  /\ timeouts = 0 => \A r \in Requests :
       /\ pc[r] \in {"checking", "pushing"} /\ HasWorkspace(r) => r \in head
       /\ pc[r] \in {"recording", "requesting", "storing", "syncing", "completing"} => r \in remote
  /\ timeouts = 0 /\ branchRow = "pushed" => remote # {}
  /\ CompletedMeansPublished
-----------------------------------------------------------------------------
(* Proofs.                                                                 *)

(* A step keeps every variable in its type.                                *)
LEMMA TypeStep == TypeOK /\ [Next]_vars => TypeOK'
<1> SUFFICES ASSUME TypeOK, [Next]_vars PROVE TypeOK'
  OBVIOUS
<1> USE ReplacementsAssumption, FaultsAssumption
    DEF TypeOK, rows, files, github, history, ItemStatuses, SessionStatuses, Failures,
        RequestStates, StepStates, Goto, Fault, GiveUp
<1>1. ASSUME NEW r \in Requests, AcceptPublish(r) \/ Step(r)
     PROVE  TypeOK'
  <2>1. CASE AcceptPublish(r)
    BY <2>1 DEF AcceptPublish
  <2>2. CASE CheckSession(r)
    <3>1. \E to \in {"launched", "ended"} : Goto(r, to)
      BY <2>2 DEF CheckSession
    <3>2. UNCHANGED <<rows, files, github, history>> /\ faults' \in 0..MaxFaults
      BY <2>2, SMTT(30) DEF CheckSession
    <3> QED BY <3>1, <3>2
  <2>3. CASE CreateSession(r)
    <3>1. sessions' \in Seq(Requests)
      BY <2>3 DEF CreateSession
    <3> QED BY <2>3, <3>1 DEF CreateSession
  <2>4. CASE SessionRefused(r)
    BY <2>4 DEF SessionRefused
  <2>5. CASE VerifyWorkspace(r)
    BY <2>5 DEF VerifyWorkspace
  <2>6. CASE CreateBranch(r)
    BY <2>6 DEF CreateBranch, UpsertedBranch
  <2>7. CASE ReuseBranch(r)
    BY <2>7 DEF ReuseBranch
  <2>8. CASE CreateCommit(r)
    BY <2>8 DEF CreateCommit
  <2>9. CASE NothingToCommit(r)
    BY <2>9 DEF NothingToCommit
  <2>10. CASE CommitTimesOut(r)
    BY <2>10 DEF CommitTimesOut
  <2>11. CASE CheckConflicts(r)
    BY <2>11 DEF CheckConflicts
  <2>12. CASE Push(r)
    BY <2>12 DEF Push
  <2>13. CASE PushTimesOut(r)
    BY <2>13 DEF PushTimesOut
  <2>14. CASE PushFails(r)
    BY <2>14 DEF PushFails
  <2>15. CASE RecordPush(r)
    BY <2>15 DEF RecordPush
  <2>16. CASE ReusePR(r)
    BY <2>16 DEF ReusePR
  <2>17. CASE CreatePR(r)
    BY <2>17 DEF CreatePR
  <2>18. CASE CreatePRFails(r)
    BY <2>18 DEF CreatePRFails
  <2>19. CASE StorePR(r)
    <3>1. pc' \in [Requests -> RequestStates] /\ failure' \in [Requests -> Failures]
      BY <2>19 DEF StorePR
    <3>2. prRow' \in {"none", "open"} /\ faults' \in 0..MaxFaults
      BY <2>19 DEF StorePR
    <3>3. UNCHANGED <<item, sessions, status, branchRow, files, github, wsOf, timeouts>>
      BY <2>19 DEF StorePR
    <3> QED BY <3>1, <3>2, <3>3
  <2>20. CASE SyncGitHub(r)
    BY <2>20 DEF SyncGitHub
  <2>21. CASE Complete(r)
    <3>1. status' \in [Requests -> SessionStatuses]
      BY <2>21 DEF Complete
    <3>2. Goto(r, "finishing") /\ UNCHANGED <<item, sessions, branchRow, prRow, files, github, history>>
      BY <2>21 DEF Complete
    <3>3. faults' \in 0..MaxFaults
      BY <2>21 DEF Complete
    <3> QED BY <3>1, <3>2, <3>3
  <2>22. CASE MarkFailed(r)
    <3>1. status' \in [Requests -> SessionStatuses]
      BY <2>22 DEF MarkFailed
    <3>2. Goto(r, "ended") /\ UNCHANGED <<item, sessions, branchRow, prRow, files, github, history>>
      BY <2>22 DEF MarkFailed
    <3>3. faults' \in 0..MaxFaults
      BY <2>22 DEF MarkFailed
    <3> QED BY <3>1, <3>2, <3>3
  <2>23. CASE FinishItem(r)
    BY <2>23 DEF FinishItem
  <2>24. CASE StepFails(r)
    BY <2>24 DEF StepFails
  <2>25. CASE Hang(r)
    BY <2>25 DEF Hang
  <2> QED BY <1>1, <2>1, <2>2, <2>3, <2>4, <2>5, <2>6, <2>7, <2>8, <2>9, <2>10, <2>11, <2>12, <2>13,
             <2>14, <2>15, <2>16, <2>17, <2>18, <2>19, <2>20, <2>21, <2>22, <2>23, <2>24, <2>25 DEF Step
<1>2. CASE Execute \/ ReplaceWorkspace
  BY <1>2 DEF Execute, ReplaceWorkspace
<1>3. CASE Crash
  BY <1>3 DEF Crash
<1>4. CASE UNCHANGED vars
  BY <1>4 DEF vars
<1> QED BY <1>1, <1>2, <1>3, <1>4 DEF Next

(* Every reachable state is type correct.                                  *)
THEOREM TypeCorrect == Spec => []TypeOK
<1>1. Init => TypeOK
  BY ReplacementsAssumption, FaultsAssumption
     DEF Init, TypeOK, ItemStatuses, SessionStatuses, Failures, RequestStates, StepStates
<1> QED BY <1>1, TypeStep, PTL DEF Spec
-----------------------------------------------------------------------------
(* A step keeps the sessions and their goroutines together.                *)
LEMMA SessionStep == TypeOK /\ SessionInv /\ [Next]_vars => SessionInv'
<1> SUFFICES ASSUME TypeOK, SessionInv, [Next]_vars PROVE SessionInv'
  OBVIOUS
<1> USE DEF TypeOK, SessionInv, Active, StepStates, rows, Goto, GiveUp
<1>1. ASSUME NEW r \in Requests, AcceptPublish(r) \/ Step(r)
     PROVE  SessionInv'
  <2>1. CASE CreateSession(r)
    BY <2>1 DEF CreateSession
  <2>2. CASE Complete(r)
    BY <2>2 DEF Complete
  <2>3. CASE MarkFailed(r)
    BY <2>3 DEF MarkFailed
  <2>4. CASE AcceptPublish(r) \/ CheckSession(r) \/ SessionRefused(r) \/ FinishItem(r)
    BY <2>4 DEF AcceptPublish, CheckSession, SessionRefused, FinishItem
  <2>5. CASE VerifyWorkspace(r) \/ CreateBranch(r) \/ ReuseBranch(r) \/ CreateCommit(r)
    BY <2>5 DEF VerifyWorkspace, CreateBranch, ReuseBranch, CreateCommit
  <2>6. CASE NothingToCommit(r) \/ CommitTimesOut(r) \/ CheckConflicts(r) \/ Push(r)
    BY <2>6 DEF NothingToCommit, CommitTimesOut, CheckConflicts, Push
  <2>7. CASE PushTimesOut(r) \/ PushFails(r) \/ RecordPush(r) \/ Hang(r) \/ ReusePR(r)
    BY <2>7 DEF PushTimesOut, PushFails, RecordPush, Hang, ReusePR
  <2>8. CASE CreatePR(r) \/ CreatePRFails(r) \/ StorePR(r)
    BY <2>8 DEF CreatePR, CreatePRFails, StorePR
  <2>9. CASE SyncGitHub(r) \/ StepFails(r)
    BY <2>9 DEF SyncGitHub, StepFails
  <2> QED BY <1>1, <2>1, <2>2, <2>3, <2>4, <2>5, <2>6, <2>7, <2>8, <2>9 DEF Step
<1>2. CASE Execute \/ ReplaceWorkspace \/ Crash
  BY <1>2 DEF Execute, ReplaceWorkspace, Crash
<1>3. CASE UNCHANGED vars
  BY <1>3 DEF vars
<1> QED BY <1>1, <1>2, <1>3 DEF Next

(* The partial unique index keeps two goroutines from working on a branch, *)
(* whatever they saw of the earlier sessions.                              *)
THEOREM OnePublisherAtATime == Spec => []OnePublisher
<1>1. Init => SessionInv
  BY DEF Init, SessionInv, Active, StepStates
<1>2. SessionInv => OnePublisher
  BY DEF SessionInv, OnePublisher, Active
<1> QED BY <1>1, <1>2, TypeCorrect, SessionStep, PTL DEF Spec
-----------------------------------------------------------------------------
(* A push never takes commits away from the branch at GitHub.              *)
LEMMA PushStep == [Next]_vars => remote \subseteq remote'
<1> SUFFICES ASSUME [Next]_vars PROVE remote \subseteq remote'
  OBVIOUS
<1> USE DEF github, Pushable
<1>1. ASSUME NEW r \in Requests, AcceptPublish(r) \/ Step(r)
     PROVE  remote \subseteq remote'
  <2>1. CASE Push(r) \/ PushTimesOut(r) \/ PushFails(r)
    BY <2>1 DEF Push, PushTimesOut, PushFails
  <2>2. CASE ~(Push(r) \/ PushTimesOut(r) \/ PushFails(r))
    BY <1>1, <2>2
       DEF Step, AcceptPublish, CheckSession, CreateSession, SessionRefused, VerifyWorkspace,
           CreateBranch, ReuseBranch, CreateCommit, NothingToCommit, CommitTimesOut,
           CheckConflicts, RecordPush, Hang, ReusePR, CreatePR, CreatePRFails, StorePR, SyncGitHub,
           Complete, FinishItem, StepFails, MarkFailed
  <2> QED BY <2>1, <2>2
<1>2. CASE Execute \/ ReplaceWorkspace \/ Crash
  BY <1>2 DEF Execute, ReplaceWorkspace, Crash
<1>3. CASE UNCHANGED vars
  BY <1>3 DEF vars
<1> QED BY <1>1, <1>2, <1>3 DEF Next

(* A step keeps every commit on its way.                                   *)
LEMMA CommitStep == TypeOK /\ CommitInv /\ [Next]_vars => CommitInv'
<1> SUFFICES ASSUME TypeOK, CommitInv, [Next]_vars PROVE CommitInv'
  OBVIOUS
<1> USE ReplacementsAssumption
    DEF TypeOK, CommitInv, CompletedMeansPublished, HasWorkspace, rows, files, github, history,
        Goto, GiveUp
<1>0. remote \subseteq remote'
  BY PushStep
<1>1. ASSUME NEW r \in Requests, AcceptPublish(r) \/ Step(r)
     PROVE  CommitInv'
  <2>1. CASE AcceptPublish(r)
    BY <2>1 DEF AcceptPublish
  <2>2. CASE CheckSession(r) \/ SessionRefused(r) \/ VerifyWorkspace(r) \/ ReuseBranch(r)
    BY <2>2 DEF CheckSession, SessionRefused, VerifyWorkspace, ReuseBranch
  <2>3. CASE CreateSession(r)
    BY <2>3 DEF CreateSession
  <2>17. CASE CreateBranch(r)
    BY <2>17 DEF CreateBranch, UpsertedBranch
  <2>4. CASE CreateCommit(r)
    BY <2>4 DEF CreateCommit
  <2>5. CASE NothingToCommit(r) \/ CheckConflicts(r) \/ StepFails(r)
    BY <2>5 DEF NothingToCommit, CheckConflicts, StepFails
  <2>6. CASE CommitTimesOut(r)
    BY <2>6 DEF CommitTimesOut
  <2>7. CASE Push(r)
    BY <2>7, <1>0 DEF Push, Pushable
  <2>8. CASE PushTimesOut(r)
    BY <2>8 DEF PushTimesOut
  <2>9. CASE PushFails(r)
    BY <2>9, <1>0 DEF PushFails
  <2>10. CASE RecordPush(r) \/ Hang(r)
    BY <2>10 DEF RecordPush, Hang
  <2>11. CASE ReusePR(r) \/ CreatePR(r)
    BY <2>11 DEF ReusePR, CreatePR
  <2>12. CASE CreatePRFails(r)
    BY <2>12 DEF CreatePRFails
  <2>13. CASE StorePR(r)
    BY <2>13 DEF StorePR
  <2>14. CASE SyncGitHub(r) \/ FinishItem(r)
    BY <2>14 DEF SyncGitHub, FinishItem
  <2>15. CASE Complete(r)
    BY <2>15 DEF Complete
  <2>16. CASE MarkFailed(r)
    BY <2>16 DEF MarkFailed
  <2> QED BY <1>1, <2>1, <2>2, <2>3, <2>4, <2>5, <2>6, <2>7, <2>8, <2>9, <2>10, <2>11, <2>12,
             <2>13, <2>14, <2>15, <2>16, <2>17 DEF Step
<1>2. CASE Execute
  BY <1>2 DEF Execute
<1>3. CASE ReplaceWorkspace
  BY <1>3 DEF ReplaceWorkspace
<1>4. CASE Crash
  BY <1>4 DEF Crash
<1>5. CASE UNCHANGED vars
  BY <1>5 DEF vars
<1> QED BY <1>1, <1>2, <1>3, <1>4, <1>5 DEF Next

(* Unless a git command timed out, a completed session is published.       *)
THEOREM CompletedSessionsArePublished == Spec => []CompletedMeansPublished
<1>1. Init => CommitInv
  BY DEF Init, CommitInv, CompletedMeansPublished
<1>2. CommitInv => CompletedMeansPublished
  BY DEF CommitInv
<1> QED BY <1>1, <1>2, TypeCorrect, CommitStep, PTL DEF Spec

(* Unless a git command timed out, a retry may go by the rows: what they   *)
(* say was pushed and opened was.                                          *)
THEOREM RowsCanBeReliedOn == Spec => []RowsAgreeWithGitHub
<1>1. Init => CommitInv
  BY DEF Init, CommitInv, CompletedMeansPublished
<1>2. CommitInv => RowsAgreeWithGitHub
  BY DEF CommitInv, RowsAgreeWithGitHub
<1> QED BY <1>1, <1>2, TypeCorrect, CommitStep, PTL DEF Spec
=============================================================================
