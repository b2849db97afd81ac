------------------------- MODULE IngestionJobsProofs -------------------------
(***************************************************************************)
(* What holds of the jobs of a repository for any number of requests,      *)
(* workers and faults.                                                     *)
(***************************************************************************)
EXTENDS IngestionJobs, FiniteSetTheorems, SequenceTheorems, TLAPS

-----------------------------------------------------------------------------
(* The inductive invariants.                                               *)

(* A job somebody works on has left 'queued' for good, so MarkRunning lets *)
(* no second goroutine in.                                                 *)
WorkInv ==
  /\ \A w \in Workers : Working(w) => status[holds[w]] \notin {"none", "queued"}
  /\ OneWorkerPerJob

(* Only a manual trigger waits to mark its job failed, and only after a    *)
(* lost reply.                                                             *)
UnpushedInv ==
  \A r \in Requests :
    /\ request[r] = "unpushed" => r \in Triggers /\ faults > 0
    /\ request[r] = "unused" <=> status[r] = "none"

(* From the resolution of the commit on the row names it.                  *)
ShaInv ==
  /\ \A w \in Workers : phase[w] \in {"resolved", "ingesting"} => sha[holds[w]] = "commit" \/ faults > 0
  /\ SnapshotHasItsCommit

(* Nobody will publish job r any more.                                     *)
Dead(r) ==
  \/ r \in Triggers /\ faults > 0
  \/ status[r] = "superseded" /\ ~Ingesting(r)
  \/ status[r] = "failed" /\ \A w \in Workers : Working(w) => holds[w] # r
-----------------------------------------------------------------------------
(* Proofs.                                                                 *)

(* The repository has finitely many jobs.                                  *)
LEMMA CreatedCounted == Cardinality(Created) \in Nat
<1>1. IsFiniteSet(Requests)
  BY RequestsAssumption, FS_Union DEF Requests
<1> QED BY <1>1, FS_Subset, FS_CardinalityType DEF Created

(* A step keeps every variable in its type.                                *)
LEMMA TypeStep == TypeOK /\ [Next]_vars => TypeOK'
<1> SUFFICES ASSUME TypeOK, [Next]_vars PROVE TypeOK'
  OBVIOUS
<1> USE RequestsAssumption, FaultsAssumption
    DEF TypeOK, rows, RequestStates, JobStatuses, WorkerPhases, Shas
<1>1. ASSUME NEW r \in Requests, CreateJob(r) \/ RequestStep(r)
     PROVE  TypeOK'
  <2>1. CASE CreateJob(r)
    BY <2>1, CreatedCounted DEF CreateJob
  <2>2. CASE SupersedeOlderJobs(r)
    BY <2>2 DEF SupersedeOlderJobs, Fault
  <2>3. CASE Enqueue(r)
    <3>1. queue' \in Seq(Requests)
      <4>1. <<r, r>> \in Seq(Requests) /\ Append(queue, r) \in Seq(Requests)
        OBVIOUS
      <4>2. queue \o <<r, r>> \in Seq(Requests)
        BY <4>1, ConcatProperties
      <4> QED BY <2>3, <4>1, <4>2 DEF Enqueue
    <3>2. request' \in [Requests -> RequestStates]
      <4>1. \E to \in {"finished", "unpushed"} : request' = [request EXCEPT ![r] = to]
        BY <2>3 DEF Enqueue
      <4> QED BY <4>1
    <3>3. faults' \in 0..MaxFaults
      BY <2>3 DEF Enqueue, Fault
    <3> QED BY <2>3, <3>1, <3>2, <3>3 DEF Enqueue
  <2>4. CASE GiveUpTrigger(r)
    BY <2>4 DEF GiveUpTrigger
  <2> QED BY <1>1, <2>1, <2>2, <2>3, <2>4 DEF RequestStep
<1>2. ASSUME NEW w \in Workers, WorkerStep(w)
     PROVE  TypeOK'
  <2>0. phase[w] # "idle" => holds[w] \in Requests
    OBVIOUS
  <2>1. CASE Pop(w)
    BY <2>1 DEF Pop
  <2>2. CASE DropJob(w)
    BY <2>2, <2>0 DEF DropJob, Release
  <2>3. CASE LoadJob(w)
    BY <2>3, <2>0 DEF LoadJob, Advance
  <2>4. CASE MarkRunning(w)
    BY <2>4, <2>0 DEF MarkRunning, Advance
  <2>5. CASE Clone(w)
    BY <2>5 DEF Clone, Advance
  <2>6. CASE ResolveCommit(w)
    <3>0. holds[w] \in Requests
      BY <2>6, <2>0 DEF ResolveCommit
    <3>1. sha' \in [Requests -> Shas]
      BY <2>6, <3>0 DEF ResolveCommit
    <3>2. faults' \in 0..MaxFaults
      BY <2>6 DEF ResolveCommit, Fault
    <3> QED BY <2>6, <3>0, <3>1, <3>2 DEF ResolveCommit, Advance
  <2>7. CASE CheckAgain(w)
    BY <2>7, <2>0 DEF CheckAgain, Advance
  <2>8. CASE JobFails(w)
    BY <2>8, <2>0 DEF JobFails, Release
  <2>9. CASE MarkDone(w)
    BY <2>9, <2>0 DEF MarkDone, Release
  <2>10. CASE LoseRow(w)
    BY <2>10, <2>0 DEF LoseRow, Fault, Release
  <2> QED BY <1>2, <2>1, <2>2, <2>3, <2>4, <2>5, <2>6, <2>7, <2>8, <2>9, <2>10
     DEF WorkerStep
<1>3. CASE Crash
  BY <1>3 DEF Crash, Fault
<1>4. CASE UNCHANGED vars
  BY <1>4 DEF vars
<1> QED BY <1>1, <1>2, <1>3, <1>4 DEF Next

(* Every variable keeps its type.                                          *)
THEOREM TypeCorrect == Spec => []TypeOK
<1>1. Init => TypeOK
  BY RequestsAssumption, FaultsAssumption
  DEF Init, TypeOK, RequestStates, JobStatuses, WorkerPhases, Shas
<1> QED BY <1>1, TypeStep, PTL DEF Spec

(* The work invariant is kept: MarkRunning is the only way into the working*)
(* phases, and no statement writes 'queued' into a row that exists.        *)
LEMMA WorkInvStep == TypeOK /\ UnpushedInv /\ WorkInv /\ [Next]_vars => WorkInv'
<1> SUFFICES ASSUME TypeOK, UnpushedInv, WorkInv, [Next]_vars PROVE WorkInv'
  OBVIOUS
<1> USE RequestsAssumption
    DEF TypeOK, rows, UnpushedInv, WorkInv, OneWorkerPerJob, Working
<1>1. ASSUME NEW r \in Requests, CreateJob(r) \/ RequestStep(r)
     PROVE  WorkInv'
  <2>1. CASE CreateJob(r)
    BY <2>1 DEF CreateJob
  <2>2. CASE SupersedeOlderJobs(r)
    BY <2>2 DEF SupersedeOlderJobs, Live
  <2>3. CASE Enqueue(r)
    BY <2>3 DEF Enqueue
  <2>4. CASE GiveUpTrigger(r)
    BY <2>4 DEF GiveUpTrigger
  <2> QED BY <1>1, <2>1, <2>2, <2>3, <2>4 DEF RequestStep
<1>2. ASSUME NEW w \in Workers, WorkerStep(w)
     PROVE  WorkInv'
  <2>0. phase[w] # "idle" => holds[w] \in Requests
    OBVIOUS
  <2>1. CASE Pop(w)
    BY <2>1 DEF Pop
  <2>2. CASE DropJob(w)
    BY <2>2, <2>0 DEF DropJob, Release
  <2>3. CASE LoadJob(w)
    BY <2>3, <2>0 DEF LoadJob, Advance
  <2>4. CASE MarkRunning(w)
    BY <2>4, <2>0 DEF MarkRunning, Advance
  <2>5. CASE Clone(w)
    BY <2>5 DEF Clone, Advance
  <2>6. CASE ResolveCommit(w)
    BY <2>6, <2>0 DEF ResolveCommit, Advance
  <2>7. CASE CheckAgain(w)
    BY <2>7, <2>0 DEF CheckAgain, Advance
  <2>8. CASE JobFails(w)
    BY <2>8, <2>0 DEF JobFails, Release
  <2>9. CASE MarkDone(w)
    BY <2>9, <2>0 DEF MarkDone, Release
  <2>10. CASE LoseRow(w)
    BY <2>10, <2>0 DEF LoseRow, Release
  <2> QED BY <1>2, <2>1, <2>2, <2>3, <2>4, <2>5, <2>6, <2>7, <2>8, <2>9, <2>10
     DEF WorkerStep
<1>3. CASE Crash
  BY <1>3 DEF Crash
<1>4. CASE UNCHANGED vars
  BY <1>4 DEF vars
<1> QED BY <1>1, <1>2, <1>3, <1>4 DEF Next

(* What waits in TriggerIndex stays there for the reason that put it there.*)
LEMMA UnpushedInvStep == TypeOK /\ UnpushedInv /\ WorkInv /\ [Next]_vars => UnpushedInv'
<1> SUFFICES ASSUME TypeOK, UnpushedInv, WorkInv, [Next]_vars PROVE UnpushedInv'
  OBVIOUS
<1> USE RequestsAssumption DEF TypeOK, rows, UnpushedInv, WorkInv, Working
<1>1. ASSUME NEW r \in Requests, CreateJob(r) \/ RequestStep(r)
     PROVE  UnpushedInv'
  <2>1. CASE CreateJob(r)
    BY <2>1 DEF CreateJob
  <2>2. CASE SupersedeOlderJobs(r)
    <3>1. (faults > 0 => faults' > 0) /\ request[r] = "created"
            /\ request' = [request EXCEPT ![r] = "superseded"]
      BY <2>2, FaultsAssumption DEF SupersedeOlderJobs, Fault
    <3>2. \A q \in Requests : status'[q] = "none" <=> status[q] = "none"
      BY <2>2 DEF SupersedeOlderJobs, Live
    <3> QED BY <3>1, <3>2
  <2>3. CASE Enqueue(r)
    BY <2>3 DEF Enqueue, Fault
  <2>4. CASE GiveUpTrigger(r)
    BY <2>4 DEF GiveUpTrigger
  <2> QED BY <1>1, <2>1, <2>2, <2>3, <2>4 DEF RequestStep
<1>2. ASSUME NEW w \in Workers, WorkerStep(w)
     PROVE  UnpushedInv'
  <2>0. phase[w] # "idle" => holds[w] \in Requests
    OBVIOUS
  <2>1. CASE Pop(w)
    BY <2>1 DEF Pop
  <2>2. CASE DropJob(w)
    BY <2>2, <2>0 DEF DropJob, Release
  <2>3. CASE LoadJob(w)
    BY <2>3, <2>0 DEF LoadJob, Advance
  <2>4. CASE MarkRunning(w)
    BY <2>4, <2>0 DEF MarkRunning, Advance
  <2>5. CASE Clone(w)
    BY <2>5 DEF Clone, Advance
  <2>6. CASE ResolveCommit(w)
    BY <2>6, <2>0 DEF ResolveCommit, Fault, Advance
  <2>7. CASE CheckAgain(w)
    BY <2>7, <2>0 DEF CheckAgain, Advance
  <2>8. CASE JobFails(w)
    BY <2>8, <2>0 DEF JobFails, Release
  <2>9. CASE MarkDone(w)
    BY <2>9, <2>0 DEF MarkDone, Release
  <2>10. CASE LoseRow(w)
    BY <2>10, <2>0 DEF LoseRow, Fault, Release
  <2> QED BY <1>2, <2>1, <2>2, <2>3, <2>4, <2>5, <2>6, <2>7, <2>8, <2>9, <2>10
     DEF WorkerStep
<1>3. CASE Crash
  BY <1>3 DEF Crash, Fault
<1>4. CASE UNCHANGED vars
  BY <1>4 DEF vars
<1> QED BY <1>1, <1>2, <1>3, <1>4 DEF Next

(* The two invariants hold of every behaviour.                             *)
LEMMA JobInvariants == Spec => [](UnpushedInv /\ WorkInv)
<1>1. Init => UnpushedInv /\ WorkInv
  BY DEF Init, UnpushedInv, WorkInv, OneWorkerPerJob, Working
<1> QED BY <1>1, UnpushedInvStep, WorkInvStep, TypeCorrect, PTL DEF Spec

(* No job is worked on by two goroutines, however often it is queued.      *)
THEOREM JobsHaveOneWorker == Spec => []OneWorkerPerJob
<1>1. WorkInv => OneWorkerPerJob
  BY DEF WorkInv
<1> QED BY <1>1, JobInvariants, PTL

(* A dead job stays dead: MarkRunning and check #2 drop it, and MarkFailed *)
(* leaves nobody who works on it.                                          *)
LEMMA DeadStep ==
  ASSUME NEW j \in Requests
  PROVE  TypeOK /\ UnpushedInv /\ WorkInv /\ [Next]_vars /\ Dead(j) => Dead(j)'
<1> SUFFICES ASSUME TypeOK, UnpushedInv, WorkInv, [Next]_vars, Dead(j) PROVE Dead(j)'
  OBVIOUS
<1> USE RequestsAssumption, FaultsAssumption
    DEF TypeOK, rows, UnpushedInv, WorkInv, OneWorkerPerJob, Working, Ingesting, Dead
<1>1. ASSUME NEW r \in Requests, CreateJob(r) \/ RequestStep(r)
     PROVE  Dead(j)'
  <2>1. CASE CreateJob(r)
    BY <2>1 DEF CreateJob
  <2>2. CASE SupersedeOlderJobs(r)
    BY <2>2 DEF SupersedeOlderJobs, Live, Fault
  <2>3. CASE Enqueue(r)
    BY <2>3 DEF Enqueue, Fault
  <2>4. CASE GiveUpTrigger(r)
    BY <2>4 DEF GiveUpTrigger
  <2> QED BY <1>1, <2>1, <2>2, <2>3, <2>4 DEF RequestStep
<1>2. ASSUME NEW w \in Workers, WorkerStep(w)
     PROVE  Dead(j)'
  <2>0. phase[w] # "idle" => holds[w] \in Requests
    OBVIOUS
  <2>1. CASE Pop(w)
    BY <2>1 DEF Pop
  <2>2. CASE DropJob(w)
    BY <2>2, <2>0 DEF DropJob, Release
  <2>3. CASE LoadJob(w)
    BY <2>3, <2>0 DEF LoadJob, Advance
  <2>4. CASE MarkRunning(w)
    BY <2>4, <2>0 DEF MarkRunning, Advance
  <2>5. CASE Clone(w)
    BY <2>5 DEF Clone, Advance
  <2>6. CASE ResolveCommit(w)
    BY <2>6, <2>0 DEF ResolveCommit, Fault, Advance
  <2>7. CASE CheckAgain(w)
    BY <2>7, <2>0 DEF CheckAgain, Advance
  <2>8. CASE JobFails(w)
    BY <2>8, <2>0 DEF JobFails, Release
  <2>9. CASE MarkDone(w)
    BY <2>9, <2>0 DEF MarkDone, Release
  <2>10. CASE LoseRow(w)
    BY <2>10, <2>0 DEF LoseRow, Fault, Release
  <2> QED BY <1>2, <2>1, <2>2, <2>3, <2>4, <2>5, <2>6, <2>7, <2>8, <2>9, <2>10
     DEF WorkerStep
<1>3. CASE Crash
  BY <1>3 DEF Crash, Fault
<1>4. CASE UNCHANGED vars
  BY <1>4 DEF vars
<1> QED BY <1>1, <1>2, <1>3, <1>4 DEF Next

(* A job that is superseded before its indexing began is never published,  *)
(* unless the lost reply of a manual trigger erases the mark.              *)
THEOREM SupersededJobsStayUnpublished == Spec => SupersededStaysUnpublished
<1>1. ASSUME NEW j \in Requests PROVE Spec => StaysUnpublished(j)
  <2>1. status[j] = "superseded" /\ ~Ingesting(j) => Dead(j)
    BY DEF Dead
  <2>2. Dead(j) => (status[j] = "done" => j \in Triggers /\ faults > 0)
    BY DEF Dead
  <2>3. TypeOK /\ UnpushedInv /\ WorkInv /\ [Next]_vars /\ Dead(j) => Dead(j)'
    BY DeadStep
  <2> QED BY <2>1, <2>2, <2>3, TypeCorrect, JobInvariants, PTL
        DEF Spec, StaysUnpublished
<1> QED BY <1>1 DEF SupersededStaysUnpublished

(* The commit is kept: only the creation of a job writes another value, and*)
(* a job that is worked on was created before.                             *)
LEMMA ShaInvStep ==
  TypeOK /\ UnpushedInv /\ WorkInv /\ ShaInv /\ [Next]_vars => ShaInv'
<1> SUFFICES ASSUME TypeOK, UnpushedInv, WorkInv, ShaInv, [Next]_vars PROVE ShaInv'
  OBVIOUS
<1> USE RequestsAssumption, FaultsAssumption
    DEF TypeOK, rows, UnpushedInv, WorkInv, Working, ShaInv, SnapshotHasItsCommit
<1>1. ASSUME NEW r \in Requests, CreateJob(r) \/ RequestStep(r)
     PROVE  ShaInv'
  <2>1. CASE CreateJob(r)
    BY <2>1 DEF CreateJob
  <2>2. CASE SupersedeOlderJobs(r)
    <3>1. faults > 0 => faults' > 0
      BY <2>2 DEF SupersedeOlderJobs, Fault
    <3>2. \A q \in Requests : status'[q] = "done" => status[q] = "done"
      BY <2>2 DEF SupersedeOlderJobs
    <3> QED BY <2>2, <3>1, <3>2 DEF SupersedeOlderJobs
  <2>3. CASE Enqueue(r)
    <3>1. faults > 0 => faults' > 0
      BY <2>3 DEF Enqueue, Fault
    <3> QED BY <2>3, <3>1 DEF Enqueue
  <2>4. CASE GiveUpTrigger(r)
    BY <2>4 DEF GiveUpTrigger
  <2> QED BY <1>1, <2>1, <2>2, <2>3, <2>4 DEF RequestStep
<1>2. ASSUME NEW w \in Workers, WorkerStep(w)
     PROVE  ShaInv'
  <2>0. phase[w] # "idle" => holds[w] \in Requests
    OBVIOUS
  <2>1. CASE Pop(w)
    BY <2>1 DEF Pop
  <2>2. CASE DropJob(w)
    BY <2>2, <2>0 DEF DropJob, Release
  <2>3. CASE LoadJob(w)
    BY <2>3, <2>0 DEF LoadJob, Advance
  <2>4. CASE MarkRunning(w)
    BY <2>4, <2>0 DEF MarkRunning, Advance
  <2>5. CASE Clone(w)
    BY <2>5 DEF Clone, Advance
  <2>6. CASE ResolveCommit(w)
    BY <2>6, <2>0 DEF ResolveCommit, Fault, Advance
  <2>7. CASE CheckAgain(w)
    BY <2>7, <2>0 DEF CheckAgain, Advance
  <2>8. CASE JobFails(w)
    BY <2>8, <2>0 DEF JobFails, Release
  <2>9. CASE MarkDone(w)
    BY <2>9, <2>0 DEF MarkDone, Release
  <2>10. CASE LoseRow(w)
    BY <2>10, <2>0 DEF LoseRow, Fault, Release
  <2> QED BY <1>2, <2>1, <2>2, <2>3, <2>4, <2>5, <2>6, <2>7, <2>8, <2>9, <2>10
     DEF WorkerStep
<1>3. CASE Crash
  BY <1>3 DEF Crash, Fault
<1>4. CASE UNCHANGED vars
  BY <1>4 DEF vars
<1> QED BY <1>1, <1>2, <1>3, <1>4 DEF Next

(* Every finished index names its commit, unless a statement failed.       *)
THEOREM SnapshotsHaveTheirCommit == Spec => []SnapshotHasItsCommit
<1>1. Init => ShaInv
  BY DEF Init, ShaInv, SnapshotHasItsCommit
<1>2. ShaInv => SnapshotHasItsCommit
  BY DEF ShaInv
<1> QED BY <1>1, <1>2, ShaInvStep, TypeCorrect, JobInvariants, PTL DEF Spec
=============================================================================
