# Forge Engine: a TLA+ verification project

Forge Engine takes an engineering task in plain English, lets an agent plan it, and once a
user has approved the plan executes it step by step in a sandbox, validates the result,
repairs it and opens a pull request. The Go backend owns every row, every transition and
every goroutine; the Python agent is called over HTTP and keeps nothing between calls but
the chunks of the index. Nearly all state is in PostgreSQL rows that are written with
single statements, often without a guard and never under a lock held across statements.
The hard part of the system is therefore what happens when requests, goroutines and
restarts interleave *between* statements, and that is what these modules model.

## 1. Inventory

All paths are below `src/backend/` unless they start with `src/`.

| component | state | operations | talks to |
|---|---|---|---|
| work items and approval (`internal/handlers/task_handlers.go`, `internal/repository/work_item_repository.go`) | `work_items.status`, `.approval_status`, `plans` | create, plan, replan, edit, approve, cancel | agent (plan stream), execution, trigger |
| task execution (`internal/execution`, `internal/repository/execution_repository.go`) | `task_executions`, `step_executions`, `execution_checkpoints`, `execution_events` | start, run, poll, skip, step, checkpoint, finish, cancel | agent (one stream per step), workspaces, trigger |
| plan validation and ordering (`validatePlanBody`, `resolveOrderedSteps`) | none | accept or reject a plan; order its steps | the two above |
| trigger (`cmd/server/main.go`) | none | maps the verdict of a validation to a transition | validation, repair, work items |
| ingestion (`internal/ingestion`, `internal/repository/ingestion_job_repository.go`, `internal/handlers/ingestion_handlers.go`) | `ingestion_jobs`, a Redis list | create, supersede, enqueue, pop, clone, index, publish | GitHub, agent, planning and Q&A as readers |
| workspaces (`internal/workspace`, `internal/repository/workspace_repository.go`) | `workspaces`, containers, volumes | provision, exec, destroy, reap | Docker, every later phase |
| validation (`internal/validation`) | `validation_runs`, `validation_stages`, a validation container | run the stages, classify failures | agent (log parser), trigger, repair |
| repair (`internal/repair`) | `repair_sessions`, `repair_attempts`, checkpoints of files | diagnose, patch, re-validate, roll back | agent, validation, workspaces |
| publishing (`internal/publishing`) | `publishing_sessions`, `git_branches`, `pull_requests`, the branch and the pull request | commit, push, open the pull request | GitHub, workspaces |
| tool dispatch and event log (`internal/handlers/execution_handlers.go`) | `execution_events`, `code_diffs` | run one tool call of the agent, deduplicate it | workspaces |
| GitHub integration (`internal/handlers/github_handlers.go`, `internal/github`) | installations, repositories, pending installs, deliveries, token cache | install, webhook, sync | ingestion |
| Q&A, users, organisations, rate limit | their rows | one statement per request | - |
| agent service (`src/agent/src`) | `code_chunks` | plan, execute a step, parse, repair, embed, answer | - |
| frontend (`src/frontend`) | none | - | the HTTP interface |

What is hard, and what makes each part correct:

* **Work items.** Handlers read the status in one statement and write in another; the planner
  writes minutes after its request; approval, edit, cancellation and start race. Correct means:
  nothing runs without an approval, what runs is what was approved, `done` is earned by a run
  (or by a publisher that overtook one), and no item is stuck while the code that should move it is alive.
* **Execution.** A goroutine without a lease; cancellation is a row that is polled; every
  statement may fail and most of their errors are dropped; a restart resumes nothing. Correct
  means: no step before its dependencies, no step after a cancellation but the one under way, a
  final status that agrees with the steps.
* **Plan order.** Two checks written against two different identifiers (`id` and `stable_id`).
  Correct means: what the first accepts, the second can order, and the order is topological.
* **Ingestion.** At-most-once delivery (`BLPOP`), duplicated pushes, newer jobs that supersede
  older ones at any point. Correct means: one worker per job, a superseded job is not
  published, every job settles, readers get the newest index.
* **Workspaces.** Provisioning takes minutes and destruction does not wait for it; the reaper
  works on a snapshot. Correct means: no container that nobody will remove, no live row
  without one.
* **Validation.** A pipeline of commands that may fail, be missing, time out or never be heard
  of again, with a row and parsed diagnostics for each. Correct means: a failure that was seen
  never becomes a pass, the result is one the repair can rely on, the run settles and removes
  its container.
* **Repair.** A bounded loop of attempts over files the agent writes while the goroutine reads
  them. Correct means: an item is done on a validation that passed, session and item end in the
  same way, a rollback restores what the attempt changed, only a stalled stream holds it up.
* **Publishing.** Several external effects in a row, each of which may have happened before a
  crash or a timeout. Correct means: one publisher at a time, the rows that a later attempt goes
  by agree with GitHub, a completed session is published, every session ends.
* **Tool dispatch.** The agent gives up on a call whose handler goes on, and its stream is
  stored by another goroutine in the same log, whose numbers are read in one statement and stored
  in another under a unique key. Correct means: what is lost is bounded, the log keeps the order of
  the stream, the diffs add up to the files.
* **GitHub.** The browser's callback and the webhooks come in any order, twice or not at all,
  while the account removes the App again. Correct means: an event is handled once, nothing of
  a removed installation stays, a user who comes back finds it linked.

`PROJECT.json` lists the hazards with the line where each bites and the property that covers
it, or why none does.

## 2. Modules

| module | models |
|---|---|
| `WorkItemRow` | the guarded `UPDATE`s of `work_item_repository.go`, as functions from status to status |
| `TaskLifecycle` | one work item with its planners, editors, executions, trigger, repair, publisher and crashes |
| `WorkItemLifecycle` | abstract: the documented life of a work item |
| `ExecutionLifecycle` | abstract: the life of one execution row and the goroutine that drives it |
| `PlanSteps` | the numbered steps of a plan, which the next two share |
| `ExecutionRun` | the loop of `ExecutionOrchestrator.Run` over the steps of one execution, with every statement whose error it drops |
| `PlanOrder` | the depth-first search of `validatePlanBody`, one call or return at a time with a stack for its recursion, then the passes of `resolveOrderedSteps` |
| `IngestionJobs` | the jobs of one repository, the Redis list, the requests and the worker pool |
| `Workspaces` | the workspaces of one item: provisioning, requests that destroy, the reaper, containers |
| `ValidationResult` | what a validation tells its caller, and how two results are compared |
| `Validation` | one validation run: stages, gates, rows, diagnostics, container, verdict |
| `RepairSession` | the trigger, the policy gate and the attempts of a repair against the agent that writes files |
| `Publishing` | the publishing of one item: requests, sessions, workspace, branch and pull request at GitHub |
| `ToolDispatch` | the tool calls of one execution, their handlers, the event log and the diffs |
| `GitHubInstall` | the installations of one account, the rows that link them, webhooks, callbacks, syncs |
| `MCTaskLifecycle` | what only TLC needs: a symmetry set |
| `*Proofs` | theorems about `TaskLifecycle`, `ExecutionRun`, `IngestionJobs`, `Workspaces`, `Publishing`, `RepairSession`, `ToolDispatch`, `GitHubInstall`; `ExecutionRunProofs` extends `PlanOrder` too and `RepairSessionProofs` extends `Validation`, whose definitions have names of their own for the purpose (`PlanSpec`, `ValidationSpec`) |

**How they fit together.** `TaskLifecycle` and `ExecutionRun` describe the same executions at
two grains: the first knows the item and several executions but has "one or more steps", the
second knows the steps of one execution and no item. `ExecutionLifecycle` is what they agree
on: both are shown to implement it, so the trigger of `TaskLifecycle` starts from exactly the
final states `ExecutionRun` reaches. `PlanOrder` discharges what
`ExecutionRun` takes for granted about its `deps`, that each dependency comes first: the
theorem `OrderedPlansStartRuns` says that the dependencies of an ordered plan, numbered in its
order, are such as `ExecutionRun` starts from. `Validation` is the detail behind the one step
`Validate` of `RepairSession`, and both share `ValidationResult`; the theorem
`RepairsReadEveryResult` says that whatever a validation gives is among the `ReadResults` that
step chooses from. `RepairSession` is the detail behind the repair phases of `TaskLifecycle` and
moves the item by the transitions of the same `WorkItemLifecycle` (`ItemMovesAreDocumented`);
who else may move it meanwhile, a cancellation or a publisher, is in `TaskLifecycle` only.
`ToolDispatch` is the detail behind one agent call of `ExecutionRun`, and `Publishing` is the
detail behind the publisher of `TaskLifecycle`, which has one session at a time, its gate on the
item and its transition to `done`.

### Correspondence with the code

One action is one database statement (or one external call) of the handler or goroutine,
together with the local assignments up to the next one. So every point at which another
request can interleave is a state of the model. A goroutine or request is a member of a
constant set (`Planners`, `Editors`, `Starters`, `Workers`, `Requests`, ...) or a slot that
requests use one after the other (`GitHubInstall`), and its program counter is a value like
`planner[p] = "stored"`. Rows are variables with the column's values.

* A statement with a `WHERE status = ...` is a function in `WorkItemRow` that leaves other
  statuses alone. Where the code ignores the row count, the handler goes on regardless, and so
  does the action (`LaunchRun`, `RepairAllowed`).
* An error path of the code that any caller may meet is a plain disjunct. A *fault*, that is a
  failed database statement, a lost reply of Redis or the death of the process, is counted in
  `faults` (`failures` in `Validation`) and bounded, so that a property can say "unless a fault
  intervened" and TLC terminates; the timeouts of git and of the agent's calls, and repeated deliveries, have counters of their own
  under the same bound. A statement whose error the code drops
  (`_ = repo.Mark...`) may fail without the goroutine noticing: `ExecutionRun` keeps the steps
  whose row is then wrong in `lost`, the other modules go on with the old row.
* A crash ends every goroutine and request and leaves the rows: `main` resumes nothing at
  startup.
* Plans are version numbers, steps are positions, commit ids are "empty" or "commit", the
  content of a file is the number of the call or attempt that wrote it, a branch is the set of
  commits it adds. The answers of the agent are nondeterministic choices.
* Times are abstracted: a timeout is a failure that may happen, `finished_at`, `queued_at` and
  `created_at` are an order.
* `late`, `handled`, `closed`, `sent`, `truth`, `validated`, `runs` and the like are history
  variables: no column or variable of the code holds them, and no guard reads them.

`PROJECT.json` maps every definition that models code to its lines. Definitions named
`Faulty...` are plausible bugs; they occur in no specification, and each property is checked
to fail when the definition it stands next to is replaced by one.

## 3. What each run checks

| run | instance | properties |
|---|---|---|
| `task_safety` | 2 planners, 1 edit, 2 executions, 1 publisher, 1 fault; symmetric | `ApprovalGate`, `ExecutedPlanWasApproved`, `DoneByApprovedPlan`, and the refinements `ItemKeepsItsLife`, `ExecutionsKeepTheirLife` |
| `task_liveness` | 2 planners, 1 edit, 1 execution, 1 publisher, 1 fault | `PlanningEnds`, `VerdictReachesItem` |
| `execution_run` | 3 steps with every acyclic dependency relation, 2 faults | `DepsHonoured`, `FinalStatusAccurate`, `CancelStopsTheNextStep`, `SkippedIffBehindATroubledStep`, `RunSettles` |
| `plan_order` | 3 steps, every dependency relation, every assignment of 3 stable ids, every order of the search | `ValidatorFindsCycles`, `OrderIsTopological`, `DistinctPlansResolve` |
| `ingestion` | 1 push, 1 manual trigger, 2 workers, 2 faults | `OneWorkerPerJob`, `SupersededStaysUnpublished`, `JobsSettle` |
| `workspaces` | 1 provisioning, 2 requests to destroy, the reaper, 1 fault | `ContainersAccountedFor`, `LeaksOnlyWhenBlind`, `FreshWorkspaceSpared`, `WorkspacesEnd` |
| `publishing` | 2 requests, 1 replaced workspace, 2 faults | `CompletedMeansPublished`, `OnePublisher`, `RowsAgreeWithGitHub`, `PublishingEnds` |
| `validation` | the three profiles, 2 failures | `PassIsEarned`, `ResultIsConsistent`, `RunsSettle` |
| `validation_blame` | one profile; finds a violation | `BlamedStageFailed` |
| `repair` | 2 attempts, 2 stages with any result of a validation, 2 files of which one is named by a diagnostic, 1 fault | `DoneIsValidated`, `OutcomesAgree`, `RollbackRestoresNamed`, `RepairEnds` |
| `tool_dispatch` | 2 calls on 2 files, 1 mishap | `EachRowRefusesOne`, `StreamOrderKept`, `DiffsTellTheFiles` |
| `github` | 2 organisations, 1 installation, 3 requests, 2 at a time, 1 fault | `HandledStaysHandled`, `SyncListsRepos`, `UninstalledStaysGone`, `CallbackLinks` |

The comment above each property in its module says what it means and what it excuses. The type
invariants are proved, and checked by TLC while a module is developed; no run spends time on
them.

**Bounds.** The second planner is what makes a replan race the first one, the second execution
what makes two starts pass the gate together; a third of either repeats an interleaving that
two already show, and the theorems cover every number. The publisher may fail and be asked
again, until a session of it is completed or left open. Three steps are the smallest plan with
a chain and a branch: a skipped step in the middle whose own successor has to be skipped
through it. Three steps are also the least for a cycle that is not a pair. With one fault per
behaviour each failure is met at every statement; the second fault of `execution_run` lets the
statement that marks a step and the one that finishes the run fail together, that of
`ingestion` a lost reply and a crash, which the duplicated delivery of a job needs, that of
`publishing` a timeout and the crash of its retry, and that of `validation` a lost row next to a
lost diagnostic. One push and one trigger already supersede each other in both directions. In
`workspaces` one row is enough for what can go wrong with it: the reaper's list is stale from
the moment it is read, and three destructions (two requests and the reaper) meet at every
statement; rows only touch each other through the choice of the newest one and the order of the
reaper. Two requests of `publishing` race each other, or the second retries the first, and the
replaced workspace is what a retry can lose commits by. Two attempts of `repair` give a rollback
and an attempt behind it; the second file is one that no diagnostic names by the path the agent
uses. In `tool_dispatch` there are two calls, on every pair of the five tools, and no call is
repeated, since no client of the repository repeats one. Two organisations in `github` are what the matching of events may confuse; three requests are a
callback, an event and one of a sync, a link or a removal, and more requests were explored off
the record. Its second installation only matters for `late`, which a link by hand after the
removal reaches with one. `CHECK_DEADLOCK FALSE` is set in all of them: a task, a run, a plan
and a finite set of requests come to an end, and the system then stops.

**Fairness.** Goroutines and requests that began take their next step (`WF` per process): the
Go scheduler runs them, and the calls of GitHub, of the agent for planning, steps and
indexing, the commands in a workspace, the git commands of a publication and the stages of a
validation have timeouts; the database and the Docker daemon are taken to answer. The clock of
a workspace runs and the ticker drives the reaper. The stream of the repair agent has no
timeout: in `TaskLifecycle` the repair loop is given no fairness and `VerdictReachesItem` is
content with a verdict that reached it, and in `RepairSession` only the goroutine is fair, so
that `RepairEnds` has to excuse the wait for the agent and nothing else. The users are under no
fairness: nobody has to approve, edit, cancel, start or publish. The loop over the steps of
`TaskLifecycle` has strong fairness on *leaving* the loop, since the plan is finite while
`LeaveStep` abstracts how many steps are left; `ExecutionRun` has the steps, and needs weak
fairness only. `ToolDispatch` and `GitHubInstall` have no liveness: a call the agent gave up on
and an event GitHub never delivers are promised nothing.

### Disagreements

One run records a disagreement with the repository's own words:

* `validation_blame`: the environment detector looks at the output of every stage, whatever its
  exit code, and one hit turns any failure of the run into `failed_environment`, for which the
  item is `done`; the comment at `validation/orchestrator.go:719` wants a *stage that failed*
  with that origin.

The next ones are states the same modules reach. Each has a configuration that finds it when
it is run by hand (section 6):

* `TaskEditRace.cfg` (`EditsRequireApproval`): `UpdatePlan` stores the new plan and then resets
  the approval. A start of the execution in between runs the edited plan under the old approval,
  and the reset then puts the executing item back to `plan_ready`.
* `TaskStuckExecuting.cfg` (`FailedExecutionEndsTask`): a run that fails marks its row `failed`
  and returns. No statement of the backend takes the item out of `executing` then;
  `TransitionToFailed` is documented for exactly this case and is not called. The user can only
  cancel.
* `PlanOrderDuplicates.cfg` (`ValidPlansResolve`): neither validator rejects two steps with one
  `stable_id`; the ordering then reports a dependency cycle in a plan without one.
* `IngestionStaleIndex.cfg` (`ReadersGetNewestIndex`): an older job that was past its second
  check finishes after a newer one and is what `GetLatestDoneForRepo` returns, because it orders
  by `finished_at`.
* `WorkspaceLeak.cfg` (`FailedDestroyIsReaped`): `Destroy` marks its row destroyed although the
  driver failed, "the reaper will clean up", but `ListLive` leaves destroyed rows out.
* `TaskPublishedEarly.cfg` (`DoneMeansValidated`): "task must be in done state (validated) before
  publishing" is the answer of `StartPublish` (`publishing/handlers.go:87`), but its guard accepts
  `plan_approved` too and asks only for an execution, which exists before the item is `executing`.
  Its `TransitionToDone` (`publishing/orchestrator.go:144`) then ends an executing or repairing
  item without a verdict. `DoneByApprovedPlan` excuses exactly this (`overtook`).
* `RepairRollback.cfg` (`RollbackRestoresAll`): the contents before an attempt are kept under the
  path a tool printed. An absolute path is prefixed once more by `ReadFile` and cannot be read; a
  path that begins with `./` or names a package is another key than the relative path the agent
  writes to. Such a file is read when its `tool_call` event is received, which is not always
  "BEFORE the tool executes" (`repair/orchestrator.go:558`), and a rollback then keeps the patch.
  `RollbackRestoresNamed` is about the files that are named as the agent names them.
* `GitHubReinstall.cfg` (`SyncTakesRepos`): a repository keeps the installation it was first seen
  with, and goes with it when the end of that installation is handled late, although a later one
  has been synced. `SyncListsRepos` says that it is listed, not that it is moved.
* `PublishingRetry.cfg` (`RetryGoesOn`): migration 014 speaks of resuming "after partial
  failures", but a retry after the commit finds nothing to commit and gives up
  (`publishing/orchestrator.go:412`), although the commit was never pushed.

Smaller ones met while reading, modelled as the code has them:

* *Execution.* A final status is written without a guard over a cancellation that came after the
  last poll; a poll that cannot read the row counts as not cancelled; the rows of
  `SaveCheckpoint` are read by nobody; `MarkCompletedWithStatus` may fail and the validation
  starts anyway; an item is `done` after `failed_environment`.
* *Validation.* A stage that still runs when its time is over gives no exit event and counts as
  passed; a stage whose row could not be made, or whose command could not be started, leaves no
  failed row, and the verdict goes by the rows; the probe for a linter drops the error of `Exec`
  and waits on a nil channel; the container of a validation is unknown to the reaper.
* *Repair.* An agent that breaks off is not a failed attempt: an empty checkpoint is stored and
  the validation runs; `cannot_repair` leaves the files the agent changed; a rollback undoes the
  last attempt only, and deletes a file whose content could not be read when it was announced; the
  policy takes one diagnostic that can be repaired for enough, be it a warning, which a result does
  not keep, so `Gate` leaves it open (`MayRepair`, `MustRepair`); a stage that was skipped in the first run and fails after an attempt counts
  as newly failing (`repair/orchestrator.go:919` says "passed before but fails now");
  `MarkCancelled` is never called, so the loop polls for a cancellation that cannot come.
* *Publishing.* A git command that times out counts as a success (`CompletedMeansPublished`
  excuses it); a crash leaves the session active, and every later request gets a conflict; a branch
  whose row reads `pushed` is checked out, "exists in DB but not locally", with an `Exec` that
  reports the exit code of git as no error, so that the fresh one behind it is never made; the lost
  reply of the creation of a pull request makes
  every retry fail at GitHub; the item may be finished while another execution of it runs.
* *Tool dispatch.* Two writers of the log may read one number, "monotonically incrementing" in
  migration 010. Its unique key then refuses the second event, both writers drop the error, and
  the event is lost (`lost`), without a failure of anything. `EachRowRefusesOne` bounds what is
  lost this way. The handler looks for an earlier result of the same call first ("return the cached
  result without re-executing"), but every call has an id of its own and is made once, so the
  look-up finds nothing and is no protection against anything the agent does; the agent gives up
  after two minutes while the handler goes on.
* *GitHub.* A delivery is recorded before it is handled, so an event whose handler failed is
  ignored when it is delivered again; an event is matched to the newest pending install of *any*
  organisation; a row may be created for an installation that is gone (`late`).
* *Ingestion and workspaces.* Two requests that create jobs at the same moment supersede each
  other and the repository stays unindexed until the next push; `EnqueueForRepo` leaves its row
  queued when the push onto the list fails; a destruction that read the row before its container
  id was stored leaves the container running without any fault (`LeaksOnlyWhenBlind` names this
  case); a statement or process that fails after `MarkDestroying` leaves a row the reaper never
  lists; the comment of the reaper speaks of `SELECT FOR UPDATE SKIP LOCKED`, its query has
  neither, so two replicas would destroy twice; the labels of a container, "for identification and
  cleanup by the reaper", are never read; the name of the volume that `Destroy` removes is computed
  from the name of the container, which starts with a slash and is cut off, so that the volume
  stays.

## 4. What is proved

TLC checks small instances; the proof modules show the following for *every* value of the
constants (any number of planners, editors, executions, steps, requests, workers, files,
installations and faults). Every invariant and action property that a passing run checks, and
every refinement, is stated by one of them. The assumptions are the named `ASSUME`s of the
modules: the constants are finite sets or naturals, and the null value is not a member.

| theorem | shows |
|---|---|
| `TypeCorrect` of each of the eight proof modules, `PlanTypeCorrect`, `RunTypeCorrect` | the type invariants |
| `TaskLifecycleProofs!ApprovalGateHolds` | `ApprovalGate` |
| `TaskLifecycleProofs!ApprovedPlanRuns` | `ExecutedPlanWasApproved` |
| `TaskLifecycleProofs!DoneIsEarned` | `DoneByApprovedPlan` |
| `TaskLifecycleProofs!ImplementsItemLife`, `!ImplementsExecutionLife` | the two refinements |
| `ExecutionRunProofs!DependenciesHonoured` | `DepsHonoured` |
| `ExecutionRunProofs!FinalStatusIsAccurate` | `FinalStatusAccurate` |
| `ExecutionRunProofs!CancellationStops` | `CancelStopsTheNextStep` |
| `ExecutionRunProofs!SkipsHaveACause` | `SkippedIffBehindATroubledStep` |
| `ExecutionRunProofs!ImplementsExecutionLife` | the refinement of `ExecutionLifecycle` |
| `ExecutionRunProofs!RunsMakeProgress`, `!EndedRunsAreSettled` | a run has finitely many steps, and is settled where it stops without a fault |
| `ExecutionRunProofs!ValidatorIsExact` | `ValidatorFindsCycles` of `PlanOrder` |
| `ExecutionRunProofs!OrdersAreTopological` | `OrderIsTopological` of `PlanOrder` |
| `ExecutionRunProofs!DistinctPlansAreOrdered` | `DistinctPlansResolve` of `PlanOrder` |
| `ExecutionRunProofs!OrderedPlansStartRuns` | an order of `PlanOrder` is a start of `ExecutionRun` |
| `IngestionJobsProofs!JobsHaveOneWorker` | `OneWorkerPerJob` |
| `IngestionJobsProofs!SupersededJobsStayUnpublished` | `SupersededStaysUnpublished` |
| `IngestionJobsProofs!SnapshotsHaveTheirCommit` | `SnapshotHasItsCommit` |
| `WorkspacesProofs!ContainersStayAccountedFor` | `ContainersAccountedFor` |
| `WorkspacesProofs!LeaksAreBlind` | `LeaksOnlyWhenBlind` |
| `WorkspacesProofs!ReaperSparesFresh` | `FreshWorkspaceSpared` |
| `PublishingProofs!OnePublisherAtATime` | `OnePublisher` |
| `PublishingProofs!RowsCanBeReliedOn` | `RowsAgreeWithGitHub` |
| `PublishingProofs!CompletedSessionsArePublished` | `CompletedMeansPublished` |
| `RepairSessionProofs!DoneItemsAreValidated` | `DoneIsValidated` |
| `RepairSessionProofs!OutcomesAlwaysAgree` | `OutcomesAgree` |
| `RepairSessionProofs!RollbacksRestore` | `RollbackRestoresNamed` |
| `RepairSessionProofs!ItemMovesAreDocumented` | every step moves the item as `WorkItemLifecycle` does, or not at all |
| `RepairSessionProofs!PassesAreEarned` | `PassIsEarned` of `Validation` |
| `RepairSessionProofs!ResultsAreConsistent` | `ResultIsConsistent` of `Validation` |
| `RepairSessionProofs!RepairsReadEveryResult` | a result of `Validation` is one `RepairSession` reads |
| `RepairSessionProofs!RepairsMakeProgress` | a repair has finitely many steps but for the tool calls it reads |
| `RepairSessionProofs!ValidationsMakeProgress`, `!EndedValidationsAreSettled` | a validation has finitely many steps, and is settled where it stops without a failure |
| `ToolDispatchProofs!LossesPairOff` | `EachRowRefusesOne` |
| `ToolDispatchProofs!StreamOrderIsKept` | `StreamOrderKept` |
| `ToolDispatchProofs!DiffsLeadToTheFiles` | `DiffsTellTheFiles` |
| `GitHubInstallProofs!HandledDeliveriesStay` | `HandledStaysHandled` |
| `GitHubInstallProofs!SyncsListRepos` | `SyncListsRepos` |
| `GitHubInstallProofs!UninstalledStayGone` | `UninstalledStaysGone` |
| `GitHubInstallProofs!CallbacksLink` | `CallbackLinks` |

The arguments:

* **Approval.** `ApprovalGate` is inductive as it stands. `ExecutedPlanWasApproved` is not: it
  needs to know that no planner can still store a plan once the item is approved. `PlanInv`
  says, as long as no edit was stored: at most one planner is in flight; while one is, the
  approval is pending and the item is in `planning` or cancelled; once approved, the active
  plan is an approved one and no status leads back; and a request that passed the gate does so
  under that approval, with the plan it loaded still active. The approval is given in
  `plan_ready` only, which a planner has to have left `planning` for, and that is why the
  late `CreatePlan` of a cancelled planner can never slip under an approval.
* **Done.** `VerdictInv` ties the phase of each goroutine to its execution row: a verdict
  exists only behind a run that went to its end, and its row says so unless a statement failed,
  which `faults` never forgets. `DoneHasVerdict` gives `done` its verdict or its publisher, which
  had found an execution; either is final.
* **Steps.** `OrderInv`: dependencies have smaller positions; every step behind the loop is
  either blocked or completed. `StepInv` says how far the step at hand is in each phase.
  `RowInv`: a row tells how its step ended unless the step is in `lost`, is under way, or the
  process died. `FinalInv`: a final status is only written by the phases after the loop.
  `DepsHonoured` follows because a step is created only when none of its dependencies is blocked.
* **Cancellation.** `CancelInv`: once one agent call began after the cancellation, the row
  still says `cancelled` when the loop comes back to its poll.
* **Skipped steps.** `ChainInv`: a chain of dependencies that starts at a step that went wrong
  makes every step on it skipped, and every skipped step is the end of such a chain. The step at
  hand extends a chain of the steps before it by one, so the induction is over the loop and
  needs none over the chains.
* **Plans.** `StackInv`: the grey steps are those on the stack, each a dependency of the one
  below it; a dependency that is met grey therefore closes a cycle, which is the part of the
  stack above it. `FinishedInv`: what a black step depends on is black, and no set of black
  steps is a cycle; so a plan whose steps are all black has none. `OrderedInv`: the order is of
  different steps, `done` holds their stable ids, and each came after the steps whose ids it
  names. `PassInv`: a pass that has ordered nothing so far met no step that was ready. A pass
  that orders nothing at all leaves a set of steps each of which waits for another one of it
  when ids are distinct, which is a cycle, and the validator found none.
* **Jobs.** `WorkInv`: a job that is worked on is not queued, so `MarkRunning`, which demands
  `queued`, cannot hand it to a second worker. For supersession, `Dead(r)` (superseded with
  nobody past check #2, or failed with nobody at work) is stable; `UnpushedInv` limits the one
  statement that could revive the row to a manual trigger after a fault. `ShaInv` follows the
  commit from the row to the index.
* **Containers.** `LeakInv`: until the container starts there is none, and the row names it only
  from `SetContainerID` on; a destruction either has the id, and then removes the container or
  fails, or counts as blind; and a container that is gone behind a started provisioning never
  comes back, so what held when the row was marked destroyed holds ever after.
* **Fresh workspaces.** `SpareInv`: a `container_id` in the stale list is still the row's, and
  while a workspace is fresh, everything that can make the reaper take it for an orphan (its
  container stopped or was removed) goes back to a request or to the death of the container,
  also by way of an earlier destruction by the reaper itself.
* **Publishing.** `SessionInv`: a goroutine at work has the open session, of which the unique
  index allows one. `CommitInv`: as long as no command timed out, the commit of a goroutine is in
  its workspace before the push and at GitHub after it, even when the workspace was replaced,
  because the goroutine then no longer has one to push from. It also keeps what the rows say of
  the branch and the pull request behind every step that writes them: a push that fails leaves the
  row as it was, and a row that reads `pushed` is behind a push that had a commit.
* **Repair.** `VerdictInv` keeps the verdict behind every way to `done`; `QuietInv` says that
  without a fault no tool runs outside the stream, so the files stay as the validation saw them;
  `OutcomeInv` fixes session and item at each point of the goroutine; `RollbackInv`: a file that
  is named as the agent names it is captured as the attempt found it before the agent can write it.
* **Tool calls.** `ExecutionInv`: without an overlap one handler works at a time, so there are
  two writers. `LossInv`: a number that a writer holds is above every number the log had when it
  was read, and rows of the other writer only can have reached it since; so a refused event meets
  a row of the other writer, and two refused events do not meet the same one. `StreamInv` gives
  every event of the stream a place; what is in the log precedes what the orchestrator holds, and
  that what is still to be read, and its number is larger than every number there was when it was
  read.
* **Diffs.** `DiffInv`, unless handlers overlap or a statement failed: what the stored diffs add
  up to is what the files are, and while a handler is between its write and its diff, one more
  step with that diff leads there. `Replayed` is a recursive function on the length of the log;
  `ReplayExists` and `ReplayUnique`, shown by the least number at which they would fail, say
  that it is defined for every log and depends on its rows only, and `ReplayedOneMore` that a row
  more applies one diff more.
* **Validation.** `StagesInv`: what was not reached left nothing; what failed has a failed row;
  what was skipped has no diagnostics. `GatesInv`: a gate that is down was seen to fail or was
  lost, and a stage that never ran is behind one. `EndInv`: the verdict is the one of rows and
  diagnostics after the last stage. The profiles enter through one lemma only, that their stages
  are different ones.
* **Life of the item.** `PlaceInv` says in which status the item is at each point of the
  goroutine, whatever failed before.
* **GitHub.** `SlotInv` says which requests know an installation. `DeliveryInv`: what was handled
  is recorded, and a redelivery of it is still at its look-up. `EndInv`: an installation whose end
  is told is not the live one any more and never will be, so a row that comes after it is `late`,
  and the row a removal takes is the one it found, unless a late one came between. `LinkInv`: a
  browser that came back is on its way, or its callback is at a step that leads to the row, or the
  row is there; only the removal of an ended installation takes it away. `SyncInv`: a request on
  its way to the repositories carries the id of the row its installation has, as long as that is
  the live one, so the repository it finds or inserts hangs on a row that is there; a request that failed does
  not count as one that got through.

* **Progress.** `StepsLeft` and `StagesLeft` count the steps a goroutine has left at most, and
  every step of it lessens them; the user, a tool call and the agent do not raise them.

Only model-checked are the liveness properties (`PlanningEnds`, `VerdictReachesItem`,
`RunSettles`, `JobsSettle`, `WorkspacesEnd`, `PublishingEnds`, `RunsSettle`, `RepairEnds`): they
rest on fairness and so on `ENABLED`, which the provers do not reason about. Of `RunSettles`,
`RunsSettle` and `RepairEnds` everything else is proved, that the steps are finitely many and
what holds where they end (`EndedRunsAreSettled`, `EndedValidationsAreSettled`,
`OutcomesAlwaysAgree`); that a goroutine which is not through has a step to take is what TLC adds.

## 5. Not modelled

* *Parts of modelled components.* The request that validates by hand and the detection of the
  language (`Validation` takes any); the field checks of the plan validator; commands in a
  workspace and its log; progress counters, clone directories and volumes; the hunks of a diff;
  the column that names the current step, which only the task page reads.
* *Questions and answers.* One insert per question and a relayed stream; its gate, the latest
  finished index, is `LatestDone` of `IngestionJobs`.
* *Users, organisations, sessions.* One statement per request; the rate limiter is constructed
  and never consulted.
* *Agent service.* It keeps no state between calls but the chunks of the index; its answers are
  nondeterministic choices of the modules above.
* *Wording, logging, WebSocket fan-out, frontend.* No state the backend relies on.

What would be worth adding: `GitHubInstall` together with `IngestionJobs`, since a removed
installation also ends its jobs; two accounts in `GitHubInstall`; and the theorems on progress
and on where a goroutine ends for the jobs, the workspaces and the publishing too.

## 6. Running

```
tlc -config TaskSafety.cfg MCTaskLifecycle.tla      # likewise TaskLiveness
tlc -config ExecutionRun.cfg ExecutionRun.tla
tlc -config PlanOrder.cfg PlanOrder.tla
tlc -config IngestionJobs.cfg IngestionJobs.tla
tlc -config Workspaces.cfg Workspaces.tla
tlc -config Publishing.cfg Publishing.tla
tlc -config Validation.cfg Validation.tla           # likewise ValidationBlame, which finds its violation
tlc -config RepairSession.cfg RepairSession.tla
tlc -config ToolDispatch.cfg ToolDispatch.tla
tlc -config GitHubInstall.cfg GitHubInstall.tla
tlapm TaskLifecycleProofs.tla                       # likewise the other proof modules

# the disagreements: TLC is expected to find a violation
tlc -config TaskEditRace.cfg MCTaskLifecycle.tla    # likewise TaskStuckExecuting, TaskPublishedEarly
tlc -config PlanOrderDuplicates.cfg PlanOrder.tla
tlc -config IngestionStaleIndex.cfg IngestionJobs.tla
tlc -config WorkspaceLeak.cfg Workspaces.tla
tlc -config PublishingRetry.cfg Publishing.tla
tlc -config RepairRollback.cfg RepairSession.tla
tlc -config GitHubReinstall.cfg GitHubInstall.tla
```
