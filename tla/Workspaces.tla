------------------------------ MODULE Workspaces ------------------------------
(***************************************************************************)
(* The workspaces of one work item: the requests that provision one, the   *)
(* requests that destroy the newest one, and the reaper, which sweeps over *)
(* a list it read once.  A workspace is a row and a container; a workspace *)
(* is named by the request that provisions it.  Every database statement   *)
(* and every call of the driver is one atomic step.                        *)
(***************************************************************************)
EXTENDS Naturals, Sequences, FiniteSets

CONSTANTS
  Provisions,   \* requests POST .../workspace, each with the row it creates
  Destroys,     \* requests DELETE .../workspace
  MaxFaults     \* bound: crashes, failed statements, failures of the driver

Reaper == "reaper"
NoWorkspace == "no workspace"
Destroyers == Destroys \cup {Reaper}

ASSUME ProvisionsAssumption == NoWorkspace \notin Provisions
ASSUME DestroysAssumption   == Reaper \notin Destroys
ASSUME FaultsAssumption     == MaxFaults \in Nat

VARIABLES
  created,    \* the rows in the order of created_at
  status,     \* [Provisions -> workspaces.status]
  recorded,   \* [Provisions -> whether container_id is set]
  age,        \* [Provisions -> how old the row is]
  container,  \* [Provisions -> state of its container]
  provider,   \* [Provisions -> how far the provisioning is]
  sweep,      \* the rows of ListLive the reaper has not checked yet
  destroyer,  \* [Destroyers -> how far Destroy is]
  target,     \* [Destroyers -> the workspace to destroy]
  sees,       \* [Destroyers -> whether its copy of the row has a container_id]
  blind,      \* history: loaded for destruction without a container_id
  died,       \* history: the container stopped by itself
  lost,       \* history: a fault left the container behind
  faults      \* crashes and failures so far

rowVars     == <<created, status, recorded, age>>
destroyVars == <<sweep, destroyer, target, sees, blind>>
vars == <<rowVars, container, provider, destroyVars, died, lost, faults>>

Statuses == {"none", "provisioning", "ready", "failed", "destroying", "destroyed"}
(* Up to five minutes, more than that, more than timeout_seconds.          *)
Ages == {"fresh", "late", "expired"}
ContainerStates == {"none", "created", "running", "stopped", "removed"}
ProviderStates  == {"unused", "inserted", "started", "recorded", "cloned", "failing", "finished"}
DestroyerStates == {"idle", "targeted", "loaded", "marked", "freed", "finished"}

Held(w) == container[w] \in {"created", "running", "stopped"}

Init ==
  /\ created = <<>>
  /\ status    = [w \in Provisions |-> "none"]
  /\ recorded  = [w \in Provisions |-> FALSE]
  /\ age       = [w \in Provisions |-> "fresh"]
  /\ container = [w \in Provisions |-> "none"]
  /\ provider  = [w \in Provisions |-> "unused"]
  /\ sweep = {}
  /\ destroyer = [d \in Destroyers |-> "idle"]
  /\ target    = [d \in Destroyers |-> NoWorkspace]
  /\ sees      = [d \in Destroyers |-> FALSE]
  /\ blind = {} /\ died = {} /\ lost = {}
  /\ faults = 0

Fault == faults < MaxFaults /\ faults' = faults + 1
Advance(w, to) == provider' = [provider EXCEPT ![w] = to]
-----------------------------------------------------------------------------
(* WorkspaceManager.Provision.                                             *)

Create(w) ==
  /\ provider[w] = "unused" /\ Advance(w, "inserted")
  /\ created' = Append(created, w)
  /\ status'  = [status EXCEPT ![w] = "provisioning"]
  /\ UNCHANGED <<recorded, age, container, destroyVars, died, lost, faults>>

(* The token and driver.Provision, which removes a container it could not  *)
(* start; that the removal fails too goes unnoticed.                       *)
StartContainer(w) ==
  /\ provider[w] = "inserted"
  /\ \/ /\ container' = [container EXCEPT ![w] = "running"]
        /\ Advance(w, "started")
        /\ UNCHANGED <<lost, faults>>
     \/ Advance(w, "failing") /\ UNCHANGED <<container, lost, faults>>
     \/ /\ Fault /\ Advance(w, "failing")
        /\ container' = [container EXCEPT ![w] = "created"]
        /\ lost' = lost \cup {w}
  /\ UNCHANGED <<rowVars, destroyVars, died>>

(* Faulty variant: the container is not removed when its id is not stored. *)
FaultyRecordContainer(w) ==
  /\ provider[w] = "started"
  /\ \/ /\ recorded' = [recorded EXCEPT ![w] = TRUE]
        /\ Advance(w, "recorded")
        /\ UNCHANGED faults
     \/ Fault /\ Advance(w, "failing") /\ UNCHANGED recorded
  /\ UNCHANGED <<created, status, age, container, destroyVars, died, lost>>

(* SetContainerID; if it fails the container is removed before the return, *)
(* as far as the driver lets it.                                           *)
RecordContainer(w) ==
  /\ provider[w] = "started"
  /\ \/ /\ recorded' = [recorded EXCEPT ![w] = TRUE]
        /\ Advance(w, "recorded")
        /\ UNCHANGED <<container, lost, faults>>
     \/ /\ Fault /\ Advance(w, "failing")
        /\ \/ container' = [container EXCEPT ![w] = "removed"] /\ UNCHANGED lost
           \/ lost' = lost \cup {w} /\ UNCHANGED container
        /\ UNCHANGED recorded
  /\ UNCHANGED <<created, status, age, destroyVars, died>>

(* git clone and git checkout, which need a running container.             *)
CloneAndCheckout(w) ==
  /\ provider[w] = "recorded"
  /\ \/ container[w] = "running" /\ Advance(w, "cloned")
     \/ Advance(w, "failing")
  /\ UNCHANGED <<rowVars, container, destroyVars, died, lost, faults>>

(* MarkReady looks neither at the status nor at the container.             *)
MarkReady(w) ==
  /\ provider[w] = "cloned"
  /\ \/ /\ status' = [status EXCEPT ![w] = "ready"]
        /\ Advance(w, "finished")
        /\ UNCHANGED faults
     \/ Fault /\ Advance(w, "failing") /\ UNCHANGED status
  /\ UNCHANGED <<created, recorded, age, container, destroyVars, died, lost>>

(* MarkFailed, whose error is dropped; the container, if any, is left to   *)
(* the reaper.                                                             *)
MarkFailed(w) ==
  /\ provider[w] = "failing" /\ Advance(w, "finished")
  /\ \/ status' = [status EXCEPT ![w] = "failed"] /\ UNCHANGED faults
     \/ Fault /\ UNCHANGED status
  /\ UNCHANGED <<created, recorded, age, container, destroyVars, died, lost>>
-----------------------------------------------------------------------------
(* WorkspaceManager.Destroy, called by a request or by the reaper.         *)

(* DestroyWorkspace takes the newest workspace of the item.                *)
RequestDestroy(d) ==
  /\ destroyer[d] = "idle" /\ d # Reaper /\ created # <<>>
  /\ destroyer' = [destroyer EXCEPT ![d] = "targeted"]
  /\ target'    = [target EXCEPT ![d] = created[Len(created)]]
  /\ UNCHANGED <<rowVars, container, provider, sweep, sees, blind, died, lost, faults>>

After(d) == IF d = Reaper THEN "idle" ELSE "finished"

(* GetByID: destroyed already, a copy of the row to go by, or an error.    *)
LoadWorkspace(d) ==
  /\ destroyer[d] = "targeted"
  /\ LET w == target[d]
     IN  \/ /\ status[w] # "destroyed"
            /\ destroyer' = [destroyer EXCEPT ![d] = "loaded"]
            /\ sees'  = [sees EXCEPT ![d] = recorded[w]]
            /\ blind' = IF recorded[w] THEN blind ELSE blind \cup {w}
            /\ UNCHANGED faults
         \/ /\ destroyer' = [destroyer EXCEPT ![d] = After(d)]
            /\ (status[w] = "destroyed" /\ UNCHANGED faults) \/ Fault
            /\ UNCHANGED <<sees, blind>>
  /\ UNCHANGED <<rowVars, container, provider, sweep, target, died, lost>>

(* The error of this statement and of the last one is dropped.             *)
MarkDestroying(d) ==
  /\ destroyer[d] = "loaded"
  /\ destroyer' = [destroyer EXCEPT ![d] = "marked"]
  /\ \/ status' = [status EXCEPT ![target[d]] = "destroying"] /\ UNCHANGED faults
     \/ Fault /\ UNCHANGED status
  /\ UNCHANGED <<created, recorded, age, container, provider, sweep, target, sees, blind, died, lost>>

(* Faulty variant: an already stopped container is not removed.            *)
FaultyDriverDestroy(d) ==
  /\ destroyer[d] = "marked"
  /\ destroyer' = [destroyer EXCEPT ![d] = "freed"]
  /\ container' = IF sees[d] /\ container[target[d]] = "running"
                  THEN [container EXCEPT ![target[d]] = "removed"] ELSE container
  /\ UNCHANGED <<rowVars, provider, sweep, target, sees, blind, died, lost, faults>>

(* driver.Destroy, when the copy of the row has a container; a failure of  *)
(* it is logged, and the row is marked destroyed all the same.             *)
DriverDestroy(d) ==
  /\ destroyer[d] = "marked"
  /\ destroyer' = [destroyer EXCEPT ![d] = "freed"]
  /\ \/ sees[d] /\ container' = [container EXCEPT ![target[d]] = "removed"] /\ UNCHANGED <<lost, faults>>
     \/ sees[d] /\ Fault /\ lost' = lost \cup {target[d]} /\ UNCHANGED container
     \/ ~sees[d] /\ UNCHANGED <<container, lost, faults>>
  /\ UNCHANGED <<rowVars, provider, sweep, target, sees, blind, died>>

MarkDestroyed(d) ==
  /\ destroyer[d] = "freed"
  /\ destroyer' = [destroyer EXCEPT ![d] = After(d)]
  /\ \/ status' = [status EXCEPT ![target[d]] = "destroyed"] /\ UNCHANGED faults
     \/ Fault /\ UNCHANGED status
  /\ UNCHANGED <<created, recorded, age, container, provider, sweep, target, sees, blind, died, lost>>
-----------------------------------------------------------------------------
(* WorkspaceReaper.                                                        *)

(* Faulty variant: the filter of the abstract's terminal statuses.         *)
FaultyListed(w) == status[w] \in {"provisioning", "ready"}

(* The rows ListLive selects.                                              *)
Listed(w) == status[w] \notin {"none", "destroying", "destroyed"}

(* A tick: the rows as they are now.                                       *)
Sweep ==
  /\ destroyer[Reaper] = "idle" /\ sweep = {}
  /\ sweep' = {[ws |-> w, status |-> status[w], recorded |-> recorded[w]] :
                 w \in {w \in Provisions : Listed(w)}}
  /\ UNCHANGED <<rowVars, container, provider, destroyer, target, sees, blind, died, lost, faults>>

(* Faulty variant: a workspace that is not ready by the tick is an orphan. *)
FaultyOrphan(row) ==
  \/ row.status = "provisioning"
  \/ age[row.ws] = "expired"
  \/ row.recorded /\ container[row.ws] # "running"

(* checkWorkspace: the status and the container_id as the sweep read them, *)
(* the clock and the container as they are now.                            *)
Orphan(row) ==
  \/ row.status = "provisioning" /\ age[row.ws] # "fresh"
  \/ age[row.ws] = "expired"
  \/ row.recorded /\ container[row.ws] # "running"

Before(v, w) ==
  \E i, j \in DOMAIN created : i < j /\ created[i] = v /\ created[j] = w

(* The oldest row that is left.  Without an answer of the driver the       *)
(* workspace is left for another sweep.                                    *)
CheckWorkspace ==
  /\ destroyer[Reaper] = "idle"
  /\ \E row \in sweep :
       /\ \A other \in sweep : ~Before(other.ws, row.ws)
       /\ sweep' = sweep \ {row}
       /\ \/ /\ Orphan(row)
             /\ destroyer' = [destroyer EXCEPT ![Reaper] = "targeted"]
             /\ target'    = [target EXCEPT ![Reaper] = row.ws]
             /\ UNCHANGED faults
          \/ ~Orphan(row) /\ UNCHANGED <<destroyer, target, faults>>
          \/ row.recorded /\ age[row.ws] # "expired" /\ Fault /\ UNCHANGED <<destroyer, target>>
  /\ UNCHANGED <<rowVars, container, provider, sees, blind, died, lost>>
-----------------------------------------------------------------------------
(* The surroundings.                                                       *)

(* Time passes for a row.                                                  *)
Grow(w) ==
  /\ status[w] # "none"
  /\ \/ age[w] = "fresh" /\ age' = [age EXCEPT ![w] = "late"]
     \/ age[w] = "late" /\ age' = [age EXCEPT ![w] = "expired"]
  /\ UNCHANGED <<created, status, recorded, container, provider, destroyVars, died, lost, faults>>

(* The container stops by itself; AutoRemove is not set.                   *)
ContainerDies(w) ==
  /\ container[w] = "running"
  /\ container' = [container EXCEPT ![w] = "stopped"]
  /\ died' = died \cup {w}
  /\ UNCHANGED <<rowVars, provider, destroyVars, lost, faults>>

(* The process dies with its requests and its sweep; rows and containers   *)
(* stay, and nobody knows of a container whose id was not stored yet.      *)
Crash ==
  /\ Fault
  /\ provider' = [w \in Provisions |-> IF provider[w] = "unused" THEN "unused" ELSE "finished"]
  /\ lost' = lost \cup {w \in Provisions : provider[w] = "started"}
  /\ destroyer' = [d \in Destroyers |-> IF destroyer[d] = "idle" THEN "idle" ELSE After(d)]
  /\ sweep' = {}
  /\ UNCHANGED <<rowVars, container, target, sees, blind, died>>
-----------------------------------------------------------------------------
ProvisionStep(w) ==
  StartContainer(w) \/ RecordContainer(w) \/ CloneAndCheckout(w) \/ MarkReady(w) \/ MarkFailed(w)

DestroyStep(d) == LoadWorkspace(d) \/ MarkDestroying(d) \/ DriverDestroy(d) \/ MarkDestroyed(d)

Next ==
  \/ \E w \in Provisions : Create(w) \/ ProvisionStep(w) \/ Grow(w) \/ ContainerDies(w)
  \/ \E d \in Destroyers : RequestDestroy(d) \/ DestroyStep(d)
  \/ Sweep \/ CheckWorkspace \/ Crash

Spec == Init /\ [][Next]_vars

(* Requests that began go on (the commands in a container have timeouts),  *)
(* the clock runs, and the ticker drives the reaper.                       *)
FairSpec ==
  /\ Spec
  /\ \A w \in Provisions : WF_vars(ProvisionStep(w)) /\ WF_vars(Grow(w))
  /\ \A d \in Destroyers : WF_vars(DestroyStep(d))
  /\ WF_vars(Sweep \/ CheckWorkspace)
-----------------------------------------------------------------------------
(* Properties.                                                             *)

(* Every variable has its type, and a destroyer at work has a target that  *)
(* exists.                                                                 *)
TypeOK ==
  /\ created \in Seq(Provisions)
  /\ status \in [Provisions -> Statuses]
  /\ recorded \in [Provisions -> BOOLEAN]
  /\ age \in [Provisions -> Ages]
  /\ container \in [Provisions -> ContainerStates]
  /\ provider \in [Provisions -> ProviderStates]
  /\ sweep \subseteq [ws : Provisions, status : Statuses, recorded : BOOLEAN]
  /\ destroyer \in [Destroyers -> DestroyerStates]
  /\ target \in [Destroyers -> Provisions \cup {NoWorkspace}]
  /\ sees \in [Destroyers -> BOOLEAN]
  /\ \A d \in Destroyers :
       destroyer[d] \in {"targeted", "loaded", "marked", "freed"} => target[d] \in Provisions
  /\ blind \subseteq Provisions /\ died \subseteq Provisions /\ lost \subseteq Provisions
  /\ faults \in 0..MaxFaults

(* "Container is running -- we must destroy it before returning": wherever *)
(* the provisioning fails, a container is named by its row or is still in  *)
(* the hands of its provisioning, unless the host or the process failed.   *)
ContainersAccountedFor ==
  \A w \in Provisions : Held(w) => recorded[w] \/ provider[w] = "started" \/ w \in lost

(* Only two things leave a container behind a destroyed row, which nobody  *)
(* will look at again: a failure of the host, or a destruction that read   *)
(* the row before the provisioning stored the container's id.              *)
LeaksOnlyWhenBlind ==
  \A w \in Provisions : status[w] = "destroyed" /\ Held(w) => w \in blind \/ w \in lost

(* A workspace in its first five minutes is only ever destroyed because a  *)
(* user asked for it or because its container died, whatever stale list    *)
(* the reaper goes by.                                                     *)
FreshWorkspaceSpared ==
  \A w \in Provisions :
    status[w] \in {"destroying", "destroyed"} /\ age[w] = "fresh" =>
      w \in died \/ \E d \in Destroys : target[d] = w

(* Every workspace comes to rest as destroyed, also one that a late write  *)
(* of its provisioning brought back, unless a fault intervenes.            *)
WorkspacesEnd ==
  \A w \in Provisions :
    [](status[w] # "none" => <>[](status[w] = "destroyed" \/ faults > 0))

(* "Mark destroyed anyway; the reaper will clean up": a container that the *)
(* driver failed to remove is removed in the end.                          *)
FailedDestroyIsReaped ==
  \A w \in Provisions :
    status[w] = "destroyed" /\ Held(w) /\ recorded[w] /\ w \in lost ~> ~Held(w)
=============================================================================
