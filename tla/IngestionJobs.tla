---------------------------- MODULE IngestionJobs ----------------------------
(***************************************************************************)
(* The indexing of one repository: requests that create a job, supersede   *)
(* the other live jobs of the repository and push the job onto the Redis   *)
(* queue, and worker goroutines that pop jobs and index them.  A job is    *)
(* named by the request that creates it.  Every statement on the table and *)
(* every command on the queue is one atomic step.                          *)
(***************************************************************************)
EXTENDS Naturals, Sequences, FiniteSets

CONSTANTS
  Pushes,      \* calls of EnqueueForRepo: webhook pushes, installation syncs
  Triggers,    \* requests POST .../index/trigger
  Workers,     \* goroutines of the worker pool
  MaxFaults    \* bound: crashes, lost statements, lost replies

Requests == Pushes \cup Triggers
NoJob == "no job"

ASSUME RequestsAssumption ==
  IsFiniteSet(Pushes) /\ IsFiniteSet(Triggers) /\ NoJob \notin Requests
ASSUME FaultsAssumption == MaxFaults \in Nat

VARIABLES
  request,    \* [Requests -> how far the enqueueing call is]
  status,     \* [Requests -> ingestion_jobs.status]
  sha,        \* [Requests -> ingestion_jobs.commit_sha, empty or not]
  queuedAt,   \* [Requests -> ingestion_jobs.queued_at as a counter, 0: no row]
  finishes,   \* jobs in the order of their finished_at
  queue,      \* the Redis list
  phase,      \* [Workers -> how far processJob is]
  holds,      \* [Workers -> the job of processJob]
  faults      \* crashes and failures so far

rows == <<status, sha, queuedAt, finishes>>
vars == <<request, status, sha, queuedAt, finishes, queue, phase, holds, faults>>

RequestStates == {"unused", "created", "superseded", "unpushed", "finished"}
JobStatuses   == {"none", "queued", "running", "done", "failed", "superseded"}
WorkerPhases  == {"idle", "popped", "loaded", "cloning", "cloned", "resolved", "ingesting"}
Shas          == {"empty", "commit"}

Init ==
  /\ request  = [r \in Requests |-> "unused"]
  /\ status   = [r \in Requests |-> "none"]
  /\ sha      = [r \in Requests |-> "empty"]
  /\ queuedAt = [r \in Requests |-> 0]
  /\ finishes = <<>> /\ queue = <<>>
  /\ phase = [w \in Workers |-> "idle"]
  /\ holds = [w \in Workers |-> NoJob]
  /\ faults = 0

Fault == faults < MaxFaults /\ faults' = faults + 1
Created == {r \in Requests : queuedAt[r] > 0}
Live(r) == status[r] \in {"queued", "running"}
-----------------------------------------------------------------------------
(* Enqueueing: EnqueueForRepo and TriggerIndex.                            *)

(* Create.  A manual trigger of a repository without a known commit leaves *)
(* the commit empty.                                                       *)
CreateJob(r) ==
  /\ request[r] = "unused"
  /\ request'  = [request EXCEPT ![r] = "created"]
  /\ status'   = [status EXCEPT ![r] = "queued"]
  /\ queuedAt' = [queuedAt EXCEPT ![r] = Cardinality(Created) + 1]
  /\ \E c \in Shas : (r \in Pushes => c = "commit") /\ sha' = [sha EXCEPT ![r] = c]
  /\ UNCHANGED <<finishes, queue, phase, holds, faults>>

(* SupersedeOlderJobs: every other live job of the repository, whatever its*)
(* age.  Its failure is logged and the call goes on.                       *)
SupersedeOlderJobs(r) ==
  /\ request[r] = "created"
  /\ request' = [request EXCEPT ![r] = "superseded"]
  /\ \/ /\ status' = [q \in Requests |-> IF q # r /\ Live(q) THEN "superseded" ELSE status[q]]
        /\ UNCHANGED faults
     \/ Fault /\ UNCHANGED status
  /\ UNCHANGED <<sha, queuedAt, finishes, queue, phase, holds>>

(* RPush.  The client library repeats a command whose reply was lost, so   *)
(* the job may be queued twice; an error may or may not have queued it.    *)
Enqueue(r) ==
  /\ request[r] = "superseded"
  /\ \/ /\ queue' = Append(queue, r)
        /\ request' = [request EXCEPT ![r] = "finished"]
        /\ UNCHANGED faults
     \/ /\ Fault
        /\ queue' = queue \o <<r, r>>
        /\ request' = [request EXCEPT ![r] = "finished"]
     \/ /\ Fault
        /\ queue' \in {queue, Append(queue, r)}
        /\ request' = [request EXCEPT ![r] = IF r \in Triggers THEN "unpushed" ELSE "finished"]
  /\ UNCHANGED <<rows, phase, holds>>

(* TriggerIndex marks a job it could not push failed; a push leaves it     *)
(* queued.                                                                 *)
GiveUpTrigger(r) ==
  /\ request[r] = "unpushed"
  /\ request' = [request EXCEPT ![r] = "finished"]
  /\ status'  = [status EXCEPT ![r] = "failed"]
  /\ UNCHANGED <<sha, queuedAt, finishes, queue, phase, holds, faults>>
-----------------------------------------------------------------------------
(* The worker: loop and processJob.                                        *)

Release(w) ==
  /\ phase' = [phase EXCEPT ![w] = "idle"]
  /\ holds' = [holds EXCEPT ![w] = NoJob]

Advance(w, to) == phase' = [phase EXCEPT ![w] = to] /\ UNCHANGED holds

(* BLPOP: from here on only this goroutine knows of the job.               *)
Pop(w) ==
  /\ phase[w] = "idle" /\ queue # <<>>
  /\ phase' = [phase EXCEPT ![w] = "popped"]
  /\ holds' = [holds EXCEPT ![w] = Head(queue)]
  /\ queue' = Tail(queue)
  /\ UNCHANGED <<request, rows, faults>>

(* processJob returns without a word: supersede check #1 after GetByID,    *)
(* a MarkRunning that matches no row, supersede check #2.                  *)
DropJob(w) ==
  /\ \/ phase[w] \in {"popped", "resolved"} /\ status[holds[w]] = "superseded"
     \/ phase[w] = "loaded" /\ status[holds[w]] # "queued"
  /\ Release(w)
  /\ UNCHANGED <<request, rows, queue, faults>>

(* GetByID and supersede check #1.                                         *)
LoadJob(w) ==
  /\ phase[w] = "popped" /\ status[holds[w]] # "superseded"
  /\ Advance(w, "loaded")
  /\ UNCHANGED <<request, rows, queue, faults>>

(* Faulty variant: the UPDATE without its guard on 'queued'.               *)
FaultyMarkRunning(w) ==
  /\ phase[w] = "loaded"
  /\ status' = [status EXCEPT ![holds[w]] = "running"]
  /\ Advance(w, "cloning")
  /\ UNCHANGED <<request, sha, queuedAt, finishes, queue, faults>>

(* A job superseded since the load, or popped a second time, is dropped.   *)
MarkRunning(w) ==
  /\ phase[w] = "loaded" /\ status[holds[w]] = "queued"
  /\ status' = [status EXCEPT ![holds[w]] = "running"]
  /\ Advance(w, "cloning")
  /\ UNCHANGED <<request, sha, queuedAt, finishes, queue, faults>>

Clone(w) ==
  /\ phase[w] = "cloning"
  /\ Advance(w, "cloned")
  /\ UNCHANGED <<request, rows, queue, faults>>

(* UpdateCommitSHA, when the clone resolved another commit than the row's. *)
(* Its failure is a warning.                                               *)
ResolveCommit(w) ==
  /\ phase[w] = "cloned" /\ Advance(w, "resolved")
  /\ \/ sha' = [sha EXCEPT ![holds[w]] = "commit"] /\ UNCHANGED faults
     \/ sha[holds[w]] = "empty" /\ Fault /\ UNCHANGED sha
  /\ UNCHANGED <<request, status, queuedAt, finishes, queue>>

(* Faulty variant: the indexing starts without check #2.                   *)
FaultyCheckAgain(w) ==
  /\ phase[w] = "resolved" /\ Advance(w, "ingesting")
  /\ UNCHANGED <<request, rows, queue, faults>>

(* Supersede check #2; no check follows the start of the indexing.         *)
CheckAgain(w) ==
  /\ phase[w] = "resolved" /\ status[holds[w]] # "superseded"
  /\ Advance(w, "ingesting")
  /\ UNCHANGED <<request, rows, queue, faults>>

(* Faulty variant: processJob returns without MarkFailed.                  *)
FaultyJobFails(w) ==
  /\ phase[w] \in {"cloning", "resolved", "ingesting"}
  /\ Release(w)
  /\ UNCHANGED <<request, rows, queue, faults>>

(* MarkFailed, unguarded: the repository, its installation or its token is *)
(* not there, the clone fails, check #2 cannot be read, the stream of the  *)
(* Agent fails or carries an error.                                        *)
JobFails(w) ==
  /\ phase[w] \in {"cloning", "resolved", "ingesting"}
  /\ status' = [status EXCEPT ![holds[w]] = "failed"]
  /\ Release(w)
  /\ UNCHANGED <<request, sha, queuedAt, finishes, queue, faults>>

(* MarkDone, unguarded; a stream that ends without "done" also counts.     *)
MarkDone(w) ==
  /\ phase[w] = "ingesting"
  /\ status' = [status EXCEPT ![holds[w]] = "done"]
  /\ finishes' = Append(finishes, holds[w])
  /\ Release(w)
  /\ UNCHANGED <<request, sha, queuedAt, queue, faults>>

(* A failed load, a failed MarkRunning, MarkFailed or MarkDone: processJob *)
(* returns and the row stays as it is.                                     *)
LoseRow(w) ==
  /\ phase[w] \in {"popped", "loaded", "cloning", "resolved", "ingesting"} /\ Fault
  /\ Release(w)
  /\ UNCHANGED <<request, rows, queue>>

(* The process dies: the list and the rows stay, nothing is re-queued.     *)
Crash ==
  /\ Fault
  /\ request' = [r \in Requests |-> IF request[r] = "unused" THEN "unused" ELSE "finished"]
  /\ phase' = [w \in Workers |-> "idle"]
  /\ holds' = [w \in Workers |-> NoJob]
  /\ UNCHANGED <<rows, queue>>
-----------------------------------------------------------------------------
RequestStep(r) == SupersedeOlderJobs(r) \/ Enqueue(r) \/ GiveUpTrigger(r)

WorkerStep(w) ==
  \/ Pop(w) \/ DropJob(w) \/ LoadJob(w) \/ MarkRunning(w) \/ Clone(w) \/ ResolveCommit(w)
  \/ CheckAgain(w) \/ JobFails(w) \/ MarkDone(w) \/ LoseRow(w)

Next ==
  \/ \E r \in Requests : CreateJob(r) \/ RequestStep(r)
  \/ \E w \in Workers : WorkerStep(w)
  \/ Crash

Spec == Init /\ [][Next]_vars

(* Calls that began go on, and the goroutines of the pool loop for ever;   *)
(* the clone and the Agent call have timeouts.                             *)
FairSpec ==
  /\ Spec
  /\ \A r \in Requests : WF_vars(RequestStep(r))
  /\ \A w \in Workers : WF_vars(WorkerStep(w))
-----------------------------------------------------------------------------
(* What the readers of the index see: GetLatestDoneForRepo, which planning *)
(* and question answering gate on.                                         *)
LatestDone ==
  LET done == {i \in DOMAIN finishes : status[finishes[i]] = "done"}
  IN  IF done = {} THEN NoJob
      ELSE finishes[CHOOSE i \in done : \A k \in done : k <= i]

(* Every variable has its type, and a worker holds a job unless it is idle.*)
TypeOK ==
  /\ request \in [Requests -> RequestStates]
  /\ status \in [Requests -> JobStatuses]
  /\ sha \in [Requests -> Shas]
  /\ queuedAt \in [Requests -> Nat]
  /\ finishes \in Seq(Requests) /\ queue \in Seq(Requests)
  /\ phase \in [Workers -> WorkerPhases]
  /\ holds \in [Workers -> Requests \cup {NoJob}]
  /\ \A w \in Workers : phase[w] = "idle" <=> holds[w] = NoJob
  /\ faults \in 0..MaxFaults

(* The phases in which a goroutine works on its job.                       *)
Working(w) == phase[w] \in {"cloning", "cloned", "resolved", "ingesting"}

(* A job that is in the list twice (a repeated RPush), or that a crash     *)
(* separated from its worker, is never worked on by two goroutines.        *)
OneWorkerPerJob ==
  \A v, w \in Workers : Working(v) /\ Working(w) /\ holds[v] = holds[w] => v = w

Ingesting(r) == \E w \in Workers : phase[w] = "ingesting" /\ holds[w] = r

(* A job that is superseded while nobody is past check #2 with it is never *)
(* published as an index afterwards, whatever is still in flight; only the *)
(* lost reply of a manual trigger's RPush can undo the mark (its MarkFailed*)
(* overwrites it while a worker already has the job).                      *)
StaysUnpublished(r) ==
  [](status[r] = "superseded" /\ ~Ingesting(r)
       => [](status[r] = "done" => r \in Triggers /\ faults > 0))

SupersededStaysUnpublished == \A r \in Requests : StaysUnpublished(r)

(* Every finished index names its commit, also when the job was created    *)
(* without one, unless writing the resolved commit failed.                 *)
SnapshotHasItsCommit ==
  \A r \in Requests : status[r] = "done" => sha[r] = "commit" \/ faults > 0

(* Without faults no job stays queued or running, whichever jobs supersede *)
(* each other.                                                             *)
JobsSettle == \A r \in Requests : Live(r) ~> (~Live(r) \/ faults > 0)

(* "An older completed index is harmless -- retrieval always gates on the  *)
(* latest done job": no finished job is newer than the one readers get.    *)
ReadersGetNewestIndex ==
  LatestDone # NoJob =>
    \A r \in Requests : status[r] = "done" => queuedAt[r] <= queuedAt[LatestDone]
=============================================================================
