------------------------------ MODULE Publishing ------------------------------
(***************************************************************************)
(* The publishing of one work item: requests POST .../publish, the         *)
(* goroutine each of them launches, the branch in the workspace and at     *)
(* GitHub, and the pull request.  A session, its goroutine and its commit  *)
(* are named by the request.  A branch is the set of the commits it adds   *)
(* to its base.  Every statement, every git command in the container and   *)
(* every call of GitHub is one atomic step.                                *)
(***************************************************************************)
EXTENDS Naturals, Sequences, FiniteSets

CONSTANTS
  Requests,         \* requests to publish the item
  MaxReplacements,  \* bound: workspaces destroyed and provisioned anew
  MaxFaults         \* bound: crashes, failures of a statement or a call

ASSUME RequestsAssumption     == IsFiniteSet(Requests)
ASSUME ReplacementsAssumption == MaxReplacements \in Nat
ASSUME FaultsAssumption       == MaxFaults \in Nat

VARIABLES
  item,       \* work_items.status
  pc,         \* [Requests -> how far the request and its goroutine are]
  wsOf,       \* [Requests -> the workspace the request read]
  sessions,   \* publishing_sessions in the order of created_at
  status,     \* [Requests -> status of the session; "active": not terminal]
  failure,    \* [Requests -> why its goroutine gave up]
  workspace,  \* the newest workspace, counted
  head,       \* commits of HEAD in that workspace
  branch,     \* whether the branch of the item exists there
  tree,       \* whether the files of the diffs have uncommitted changes
  branchRow,  \* git_branches.status
  remote,     \* commits of the branch at GitHub
  prRow,      \* pull_requests.state
  pr,         \* the pull request at GitHub
  timeouts,   \* history: git commands that timed out
  faults      \* crashes and failures so far

rows    == <<item, sessions, status, branchRow, prRow>>
files   == <<workspace, head, branch, tree>>
github  == <<remote, pr>>
history == <<wsOf, failure, timeouts>>
vars == <<pc, rows, files, github, history, faults>>

ItemStatuses    == {"plan_approved", "executing", "done", "failed"}
SessionStatuses == {"none", "active", "failed", "completed"}
Failures        == {"none", "step", "nothing_to_commit"}
StepStates == {"verifying", "branching", "committing", "checking", "pushing", "recording",
               "requesting", "storing", "syncing", "completing", "failing"}
RequestStates == StepStates \cup {"unused", "accepted", "launched", "finishing", "stuck", "ended"}

Init ==
  /\ item \in {"plan_approved", "done"}
  /\ pc      = [r \in Requests |-> "unused"]
  /\ wsOf    = [r \in Requests |-> 0]
  /\ status  = [r \in Requests |-> "none"]
  /\ failure = [r \in Requests |-> "none"]
  /\ sessions = <<>> /\ branchRow = "none" /\ prRow = "none"
  /\ workspace = 0 /\ head = {} /\ branch = "missing" /\ tree = "changed"
  /\ remote = {} /\ pr = "none"
  /\ timeouts = 0 /\ faults = 0

Fault == faults < MaxFaults /\ faults' = faults + 1
Goto(r, to) == pc' = [pc EXCEPT ![r] = to]
HasWorkspace(r) == wsOf[r] = workspace
Active == {r \in Requests : status[r] = "active"}
NewestSession == IF sessions = <<>> THEN "none" ELSE status[sessions[Len(sessions)]]
UpsertedBranch == IF branchRow = "none" THEN "created" ELSE branchRow
-----------------------------------------------------------------------------
(* The handler StartPublish.                                               *)

(* The gate on the item, and the newest workspace.                         *)
AcceptPublish(r) ==
  /\ pc[r] = "unused" /\ item \in {"done", "plan_approved"}
  /\ Goto(r, "accepted")
  /\ wsOf' = [wsOf EXCEPT ![r] = workspace]
  /\ UNCHANGED <<rows, files, github, failure, timeouts, faults>>

(* A failed newest session, or none, launches the goroutine; when the      *)
(* session cannot be read it counts as none.                               *)
CheckSession(r) ==
  /\ pc[r] = "accepted"
  /\ \/ NewestSession \in {"none", "failed"} /\ Goto(r, "launched") /\ UNCHANGED faults
     \/ NewestSession \notin {"none", "failed"} /\ Goto(r, "ended") /\ UNCHANGED faults
     \/ Goto(r, "launched") /\ Fault
  /\ UNCHANGED <<rows, files, github, history>>
-----------------------------------------------------------------------------
(* The goroutine: Run and its steps.                                       *)

(* Faulty variant: no unique index on the open sessions of an item.        *)
FaultyCreateSession(r) ==
  /\ pc[r] = "launched"
  /\ status'   = [status EXCEPT ![r] = "active"]
  /\ sessions' = Append(sessions, r)
  /\ Goto(r, "verifying")
  /\ UNCHANGED <<item, branchRow, prRow, files, github, history, faults>>

(* The partial unique index admits one session that is not terminal.       *)
CreateSession(r) ==
  /\ pc[r] = "launched" /\ Active = {}
  /\ status'   = [status EXCEPT ![r] = "active"]
  /\ sessions' = Append(sessions, r)
  /\ Goto(r, "verifying")
  /\ UNCHANGED <<item, branchRow, prRow, files, github, history, faults>>

(* The insertion hits the index, or fails.                                 *)
SessionRefused(r) ==
  /\ pc[r] = "launched"
  /\ Goto(r, "ended")
  /\ (Active # {} /\ UNCHANGED faults) \/ Fault
  /\ UNCHANGED <<rows, files, github, history>>

(* A step returns an error.                                                *)
GiveUp(r, why) ==
  /\ Goto(r, "failing")
  /\ failure' = [failure EXCEPT ![r] = why]

(* git status in the container.                                            *)
VerifyWorkspace(r) ==
  /\ pc[r] = "verifying" /\ HasWorkspace(r)
  /\ Goto(r, "branching")
  /\ UNCHANGED <<rows, files, github, history, faults>>

(* git checkout -B and the upsert of the branch row, which keeps the status*)
(* of a row that is there; a row that cannot be read counts as none, and   *)
(* the exit code of git is not looked at.                                  *)
CreateBranch(r) ==
  /\ pc[r] = "branching" /\ HasWorkspace(r)
  /\ \/ branchRow # "pushed" /\ branch' = "present" /\ UNCHANGED faults
     \/ Fault /\ branch' \in {branch, "present"}
  /\ branchRow' = UpsertedBranch
  /\ Goto(r, "committing")
  /\ UNCHANGED <<item, sessions, status, prRow, workspace, head, tree, github, history>>

(* git checkout of a branch that was pushed; whether it exists in this     *)
(* workspace is not looked at.                                             *)
ReuseBranch(r) ==
  /\ pc[r] = "branching" /\ HasWorkspace(r) /\ branchRow = "pushed"
  /\ Goto(r, "committing")
  /\ UNCHANGED <<rows, files, github, history, faults>>

(* Staging, git commit and the commit row, whose failure is ignored.       *)
CreateCommit(r) ==
  /\ pc[r] = "committing" /\ HasWorkspace(r) /\ tree = "changed"
  /\ head' = head \cup {r} /\ tree' = "clean"
  /\ Goto(r, "checking")
  /\ UNCHANGED <<rows, workspace, branch, github, history, faults>>

NothingToCommit(r) ==
  /\ pc[r] = "committing" /\ HasWorkspace(r) /\ tree = "clean"
  /\ GiveUp(r, "nothing_to_commit")
  /\ UNCHANGED <<rows, files, github, wsOf, timeouts, faults>>

(* A command that times out ends without an exit event: the exit code      *)
(* keeps its zero and the step goes on.                                    *)
CommitTimesOut(r) ==
  /\ pc[r] = "committing" /\ HasWorkspace(r) /\ Fault
  /\ timeouts' = timeouts + 1
  /\ \/ tree = "changed" /\ head' = head \cup {r} /\ tree' = "clean"
     \/ UNCHANGED <<head, tree>>
  /\ Goto(r, "checking")
  /\ UNCHANGED <<rows, workspace, branch, github, wsOf, failure>>

(* The trial merge leaves nothing behind; whatever prevents it is no error.*)
CheckConflicts(r) ==
  /\ pc[r] = "checking"
  /\ Goto(r, "pushing")
  /\ UNCHANGED <<rows, files, github, history, faults>>

(* git push without force: the branch has to exist and to extend the one   *)
(* at GitHub.                                                              *)
Pushable(r) == HasWorkspace(r) /\ branch = "present" /\ remote \subseteq head

(* One of the attempts succeeds.                                           *)
Push(r) ==
  /\ pc[r] = "pushing" /\ Pushable(r)
  /\ remote' = head
  /\ Goto(r, "recording")
  /\ UNCHANGED <<rows, files, pr, history, faults>>

(* The last attempt times out and counts as a success.                     *)
PushTimesOut(r) ==
  /\ pc[r] = "pushing" /\ HasWorkspace(r) /\ Fault
  /\ timeouts' = timeouts + 1
  /\ remote' = remote \/ (Pushable(r) /\ remote' = head)
  /\ Goto(r, "recording")
  /\ UNCHANGED <<rows, files, pr, wsOf, failure>>

(* Faulty variant: the error of the last attempt is lost after the loop.   *)
FaultyPushFails(r) ==
  /\ pc[r] = "pushing"
  /\ \/ ~Pushable(r) /\ UNCHANGED <<remote, faults>>
     \/ Pushable(r) /\ Fault /\ remote' \in {remote, head}
  /\ Goto(r, "recording")
  /\ UNCHANGED <<rows, files, pr, wsOf, failure, timeouts>>

(* Every attempt reports an error: the push is not possible, or GitHub     *)
(* took it and the answer was lost.                                        *)
PushFails(r) ==
  /\ pc[r] = "pushing"
  /\ \/ ~Pushable(r) /\ UNCHANGED <<remote, faults>>
     \/ Pushable(r) /\ Fault /\ remote' \in {remote, head}
  /\ GiveUp(r, "step")
  /\ UNCHANGED <<rows, files, pr, wsOf, timeouts>>

(* UpdateBranchHead; its failure is ignored.                               *)
RecordPush(r) ==
  /\ pc[r] = "recording"
  /\ HasWorkspace(r)
  /\ \/ branchRow # "none" /\ branchRow' = "pushed" /\ UNCHANGED faults
     \/ Fault /\ UNCHANGED branchRow
  /\ Goto(r, "requesting")
  /\ UNCHANGED <<item, sessions, status, prRow, files, github, history>>

(* Where the error of Exec is dropped, the channel it returns is nil and   *)
(* the loop over its events never ends: the goroutine hangs.               *)
Hang(r) ==
  /\ pc[r] \in {"committing", "checking", "recording"}
  /\ (~HasWorkspace(r) /\ UNCHANGED faults) \/ Fault
  /\ Goto(r, "stuck")
  /\ UNCHANGED <<rows, files, github, history>>

(* A pull request that has an open row is used again.                      *)
ReusePR(r) ==
  /\ pc[r] = "requesting" /\ prRow = "open"
  /\ Goto(r, "syncing")
  /\ UNCHANGED <<rows, files, github, history, faults>>

(* Faulty variant: the status of GitHub's answer is not looked at.         *)
FaultyCreatePR(r) ==
  /\ pc[r] = "requesting" /\ prRow = "none"
  /\ pr' \in {pr, "open"}
  /\ Goto(r, "storing")
  /\ UNCHANGED <<rows, files, remote, history, faults>>

(* GitHub opens one pull request per branch, and only for a branch with    *)
(* commits; a row that cannot be read counts as none.                      *)
CreatePR(r) ==
  /\ pc[r] = "requesting" /\ remote # {} /\ pr = "none"
  /\ (prRow = "none" /\ UNCHANGED faults) \/ Fault
  /\ pr' = "open"
  /\ Goto(r, "storing")
  /\ UNCHANGED <<rows, files, remote, history>>

(* GitHub refuses, or its answer is lost after the pull request was opened.*)
CreatePRFails(r) ==
  /\ pc[r] = "requesting"
  /\ \/ (remote = {} \/ pr = "open") /\ prRow = "none" /\ UNCHANGED <<pr, faults>>
     \/ Fault /\ pr' \in (IF remote = {} THEN {pr} ELSE {pr, "open"})
  /\ GiveUp(r, "step")
  /\ UNCHANGED <<rows, files, remote, wsOf, timeouts>>

(* The row of the pull request; its failure is ignored, but without the    *)
(* row of the branch the step fails.                                       *)
StorePR(r) ==
  /\ pc[r] = "storing"
  /\ \/ branchRow # "none" /\ prRow' = "open" /\ Goto(r, "syncing") /\ UNCHANGED <<failure, faults>>
     \/ branchRow # "none" /\ Fault /\ UNCHANGED <<prRow, failure>> /\ Goto(r, "syncing")
     \/ branchRow = "none" /\ GiveUp(r, "step") /\ UNCHANGED <<prRow, faults>>
     \/ Fault /\ GiveUp(r, "step") /\ UNCHANGED prRow
  /\ UNCHANGED <<item, sessions, status, branchRow, files, github, wsOf, timeouts>>

(* The state of an open pull request is written back; no failure counts.   *)
SyncGitHub(r) ==
  /\ pc[r] = "syncing"
  /\ Goto(r, "completing")
  /\ UNCHANGED <<rows, files, github, history, faults>>

(* MarkSessionCompleted; its error is ignored.                             *)
Complete(r) ==
  /\ pc[r] = "completing"
  /\ \/ status' = [status EXCEPT ![r] = "completed"] /\ UNCHANGED faults
     \/ Fault /\ UNCHANGED status
  /\ Goto(r, "finishing")
  /\ UNCHANGED <<item, sessions, branchRow, prRow, files, github, history>>

(* TransitionToDone: only an item that is executing is moved.              *)
FinishItem(r) ==
  /\ pc[r] = "finishing"
  /\ \/ item' = (IF item = "executing" THEN "done" ELSE item) /\ UNCHANGED faults
     \/ item = "executing" /\ Fault /\ UNCHANGED item
  /\ Goto(r, "ended")
  /\ UNCHANGED <<sessions, status, branchRow, prRow, files, github, history>>

(* Any other failure of a step: the workspace is gone, the container or a  *)
(* statement fails, the merge conflicts.                                   *)
StepFails(r) ==
  /\ \/ /\ pc[r] \in {"verifying", "branching", "committing", "checking"}
        /\ ~HasWorkspace(r) /\ UNCHANGED faults
     \/ pc[r] \in {"verifying", "branching", "committing", "checking"} /\ Fault
  /\ GiveUp(r, "step")
  /\ UNCHANGED <<rows, files, github, wsOf, timeouts>>

(* Faulty variant: Run returns the error only.                             *)
FaultyMarkFailed(r) ==
  /\ pc[r] = "failing"
  /\ Goto(r, "ended")
  /\ UNCHANGED <<rows, files, github, history, faults>>

(* MarkSessionFailed; its error is ignored.                                *)
MarkFailed(r) ==
  /\ pc[r] = "failing"
  /\ \/ status' = [status EXCEPT ![r] = "failed"] /\ UNCHANGED faults
     \/ Fault /\ UNCHANGED status
  /\ Goto(r, "ended")
  /\ UNCHANGED <<item, sessions, branchRow, prRow, files, github, history>>
-----------------------------------------------------------------------------
(* The environment.                                                        *)

(* The item is executed, and its execution edits the files.                *)
Execute ==
  /\ \/ item = "plan_approved" /\ item' = "executing" /\ UNCHANGED tree
     \/ item = "executing" /\ UNCHANGED item /\ tree' = "changed"
     \/ item = "executing" /\ item' \in {"done", "failed"} /\ UNCHANGED tree
  /\ UNCHANGED <<pc, sessions, status, branchRow, prRow, workspace, head, branch, github,
                 history, faults>>

(* The workspace is destroyed and another one is cloned, from the commit   *)
(* the repository is indexed at.                                           *)
ReplaceWorkspace ==
  /\ workspace < MaxReplacements
  /\ workspace' = workspace + 1
  /\ head' = {} /\ branch' = "missing" /\ tree' = "clean"
  /\ UNCHANGED <<pc, rows, github, history, faults>>

(* The process dies: the goroutines are gone, the rows stay.               *)
Crash ==
  /\ Fault
  /\ pc' = [r \in Requests |-> IF pc[r] = "unused" THEN "unused" ELSE "ended"]
  /\ UNCHANGED <<rows, files, github, history>>
-----------------------------------------------------------------------------
Step(r) ==
  \/ CheckSession(r) \/ CreateSession(r) \/ SessionRefused(r) \/ VerifyWorkspace(r)
  \/ CreateBranch(r) \/ ReuseBranch(r) \/ CreateCommit(r) \/ NothingToCommit(r)
  \/ CommitTimesOut(r) \/ CheckConflicts(r) \/ Push(r) \/ PushTimesOut(r) \/ PushFails(r)
  \/ RecordPush(r) \/ Hang(r) \/ ReusePR(r) \/ CreatePR(r) \/ CreatePRFails(r) \/ StorePR(r)
  \/ SyncGitHub(r) \/ Complete(r) \/ FinishItem(r) \/ StepFails(r) \/ MarkFailed(r)

Next ==
  \/ \E r \in Requests : AcceptPublish(r) \/ Step(r)
  \/ Execute \/ ReplaceWorkspace \/ Crash

Spec == Init /\ [][Next]_vars

(* A goroutine that runs goes on: every command and every call it waits    *)
(* for has a timeout.                                                      *)
FairSpec == Spec /\ \A r \in Requests : WF_vars(Step(r))
-----------------------------------------------------------------------------
(* Every variable has its type.                                            *)
TypeOK ==
  /\ item \in ItemStatuses
  /\ pc \in [Requests -> RequestStates]
  /\ wsOf \in [Requests -> 0..MaxReplacements]
  /\ sessions \in Seq(Requests)
  /\ status \in [Requests -> SessionStatuses]
  /\ failure \in [Requests -> Failures]
  /\ workspace \in 0..MaxReplacements
  /\ head \subseteq Requests /\ remote \subseteq Requests
  /\ branch \in {"missing", "present"} /\ tree \in {"clean", "changed"}
  /\ prRow \in {"none", "open"} /\ pr \in {"none", "open"} /\ timeouts \in Nat
  /\ branchRow \in {"none", "created", "pushed"}
  /\ faults \in 0..MaxFaults

(* A session that reads completed has its own commit at GitHub and a pull  *)
(* request that was opened, unless a git command timed out: whichever of   *)
(* the ignored errors, lost answers and crashes happened on the way, and   *)
(* whichever branch and pull request were found there.                     *)
CompletedMeansPublished ==
  \A r \in Requests : status[r] = "completed" /\ timeouts = 0 => r \in remote /\ pr = "open"

(* Requests that all saw the last session failed, or could not see it,     *)
(* never work on the branch at the same time.                              *)
OnePublisher ==
  \A r, q \in Requests : pc[r] \in StepStates /\ pc[q] \in StepStates => r = q

(* A later attempt asks the rows and not GitHub whether the branch has to  *)
(* be made and the pull request opened: a branch that reads pushed has     *)
(* commits at GitHub, unless a git command timed out, and a pull request   *)
(* that reads open was opened there, whichever of the earlier attempts     *)
(* failed, was cut off or lost an answer.  Nobody deletes a branch or      *)
(* closes a pull request at GitHub here.                                   *)
RowsAgreeWithGitHub ==
  /\ branchRow = "pushed" /\ timeouts = 0 => remote # {}
  /\ prRow = "open" => pr = "open"

(* A session that was opened gets its final status, so that the item can   *)
(* be published again or is published: without a fault, and as long as its *)
(* workspace is not replaced under the goroutine.                          *)
PublishingEnds ==
  \A r \in Requests :
     status[r] = "active" ~> (status[r] # "active" \/ faults > 0 \/ ~HasWorkspace(r))

(* "Enables idempotent resume after partial failures": a publishing does   *)
(* not give up because there is nothing to commit while the commit of an   *)
(* earlier attempt still waits in the workspace to be published.           *)
RetryGoesOn ==
  [][\A r \in Requests :
       failure'[r] = "nothing_to_commit" /\ failure[r] = "none" => head \subseteq remote /\ pr = "open"]_vars
=============================================================================
