--------------------------- MODULE WorkspacesProofs ---------------------------
(***************************************************************************)
(* What holds of the workspaces of an item for any number of requests and  *)
(* faults.                                                                 *)
(***************************************************************************)
EXTENDS Workspaces, TLAPS

-----------------------------------------------------------------------------
(* Type correctness.                                                       *)

(* Every variable keeps its type, and whoever destroys a workspace has one.*)
LEMMA TypeStep == TypeOK /\ [Next]_vars => TypeOK'
<1> SUFFICES ASSUME TypeOK, [Next]_vars PROVE TypeOK'
  OBVIOUS
<1> USE FaultsAssumption, DestroysAssumption
<1>1. ASSUME NEW w \in Provisions, Create(w) PROVE TypeOK'
  BY <1>1 DEF Create, rowVars, destroyVars, TypeOK, Statuses, Ages, ContainerStates,
     ProviderStates, DestroyerStates, Advance
<1>2. ASSUME NEW w \in Provisions, StartContainer(w) PROVE TypeOK'
  BY <1>2 DEF StartContainer, rowVars, destroyVars, TypeOK, Statuses, Ages,
     ContainerStates, ProviderStates, DestroyerStates, Advance, Fault
<1>3. ASSUME NEW w \in Provisions, RecordContainer(w) PROVE TypeOK'
  <2>1. faults' \in 0..MaxFaults
    BY <1>3 DEF RecordContainer, TypeOK, Fault
  <2>2. /\ provider' \in [Provisions -> ProviderStates]
        /\ container' \in [Provisions -> ContainerStates]
        /\ recorded' \in [Provisions -> BOOLEAN] /\ lost' \subseteq Provisions
    BY <1>3 DEF RecordContainer, TypeOK, ProviderStates, ContainerStates, Advance
  <2> QED BY <1>3, <2>1, <2>2 DEF RecordContainer, TypeOK, destroyVars
<1>4. ASSUME NEW w \in Provisions, CloneAndCheckout(w) PROVE TypeOK'
  BY <1>4 DEF CloneAndCheckout, rowVars, destroyVars, TypeOK, Statuses, Ages,
     ContainerStates, ProviderStates, DestroyerStates, Advance
<1>5. ASSUME NEW w \in Provisions, MarkReady(w) PROVE TypeOK'
  <2>1. faults' \in 0..MaxFaults
    BY <1>5 DEF MarkReady, TypeOK, Fault
  <2>2. status' \in [Provisions -> Statuses] /\ provider' \in [Provisions -> ProviderStates]
    BY <1>5 DEF MarkReady, TypeOK, Statuses, ProviderStates, Advance
  <2> QED BY <1>5, <2>1, <2>2 DEF MarkReady, TypeOK, destroyVars
<1>6. ASSUME NEW w \in Provisions, MarkFailed(w) PROVE TypeOK'
  <2>1. faults' \in 0..MaxFaults
    BY <1>6 DEF MarkFailed, TypeOK, Fault
  <2>2. status' \in [Provisions -> Statuses] /\ provider' \in [Provisions -> ProviderStates]
    BY <1>6 DEF MarkFailed, TypeOK, Statuses, ProviderStates, Advance
  <2> QED BY <1>6, <2>1, <2>2 DEF MarkFailed, TypeOK, destroyVars
<1>7. ASSUME NEW w \in Provisions, Grow(w) PROVE TypeOK'
  BY <1>7 DEF Grow, rowVars, destroyVars, TypeOK, Statuses, Ages, ContainerStates,
     ProviderStates, DestroyerStates
<1>8. ASSUME NEW w \in Provisions, ContainerDies(w) PROVE TypeOK'
  BY <1>8 DEF ContainerDies, rowVars, destroyVars, TypeOK, Statuses, Ages,
     ContainerStates, ProviderStates, DestroyerStates
<1>9. ASSUME NEW d \in Destroyers, RequestDestroy(d) PROVE TypeOK'
  BY <1>9 DEF RequestDestroy, rowVars, destroyVars, TypeOK, Statuses, Ages,
     ContainerStates, ProviderStates, DestroyerStates
<1>10. ASSUME NEW d \in Destroyers, LoadWorkspace(d) PROVE TypeOK'
  BY <1>10 DEF LoadWorkspace, rowVars, destroyVars, TypeOK, Statuses, Ages,
     ContainerStates, ProviderStates, DestroyerStates, Fault, After, Destroyers
<1>11. ASSUME NEW d \in Destroyers, MarkDestroying(d) PROVE TypeOK'
  <2>1. faults' \in 0..MaxFaults
    BY <1>11 DEF MarkDestroying, TypeOK, Fault
  <2>2. status' \in [Provisions -> Statuses] /\ destroyer' \in [Destroyers -> DestroyerStates]
    BY <1>11 DEF MarkDestroying, TypeOK, Statuses, DestroyerStates, After
  <2>3. \A e \in Destroyers :
          destroyer'[e] \in {"targeted", "loaded", "marked", "freed"} => target[e] \in Provisions
    BY <1>11 DEF MarkDestroying, TypeOK, After
  <2> QED BY <1>11, <2>1, <2>2, <2>3 DEF MarkDestroying, TypeOK
<1>12. ASSUME NEW d \in Destroyers, DriverDestroy(d) PROVE TypeOK'
  BY <1>12 DEF DriverDestroy, rowVars, destroyVars, TypeOK, Statuses, Ages,
     ContainerStates, ProviderStates, DestroyerStates, Fault
<1>13. ASSUME NEW d \in Destroyers, MarkDestroyed(d) PROVE TypeOK'
  <2>1. faults' \in 0..MaxFaults
    BY <1>13 DEF MarkDestroyed, TypeOK, Fault
  <2>2. status' \in [Provisions -> Statuses] /\ destroyer' \in [Destroyers -> DestroyerStates]
    BY <1>13 DEF MarkDestroyed, TypeOK, Statuses, DestroyerStates, After
  <2>3. \A e \in Destroyers :
          destroyer'[e] \in {"targeted", "loaded", "marked", "freed"} => target[e] \in Provisions
    BY <1>13 DEF MarkDestroyed, TypeOK, After
  <2> QED BY <1>13, <2>1, <2>2, <2>3 DEF MarkDestroyed, TypeOK
<1>14. CASE Sweep
  BY <1>14 DEF Sweep, rowVars, destroyVars, TypeOK, Statuses, Ages, ContainerStates,
     ProviderStates, DestroyerStates
<1>15. CASE CheckWorkspace
  BY <1>15 DEF CheckWorkspace, rowVars, destroyVars, TypeOK, Statuses, Ages,
     ContainerStates, ProviderStates, DestroyerStates, Fault, Destroyers
<1>16. CASE Crash
  BY <1>16 DEF Crash, rowVars, destroyVars, TypeOK, Statuses, Ages, ContainerStates,
     ProviderStates, DestroyerStates, Fault, After, Destroyers
<1>17. CASE UNCHANGED vars
  BY <1>17 DEF vars, rowVars, destroyVars, TypeOK, Statuses, Ages, ContainerStates,
     ProviderStates, DestroyerStates
<1> QED BY <1>1, <1>2, <1>3, <1>4, <1>5, <1>6, <1>7, <1>8, <1>9, <1>10, <1>11, <1>12,
   <1>13, <1>14, <1>15, <1>16, <1>17 DEF Next, ProvisionStep, DestroyStep

(* Every variable keeps its type, for any number of requests, workspaces   *)
(* and faults.                                                             *)
THEOREM TypeCorrect == Spec => []TypeOK
<1>1. Init => TypeOK
  BY FaultsAssumption DEF Init, TypeOK, Statuses, Ages, ContainerStates, ProviderStates,
     DestroyerStates
<1> QED BY <1>1, TypeStep, PTL DEF Spec

-----------------------------------------------------------------------------
(* Containers that no row leads to.                                        *)

(* Before the container starts there is none; while its id is not stored   *)
(* the row does not name it; a row that names one belongs to a container   *)
(* that was started.                                                       *)
ContainerInv ==
  \A w \in Provisions :
    /\ provider[w] \in {"unused", "inserted"} => container[w] = "none" /\ ~recorded[w]
    /\ provider[w] = "started" => container[w] \in {"running", "stopped"} /\ ~recorded[w]
    /\ container[w] = "created" => provider[w] \notin {"recorded", "cloned"} /\ ~recorded[w]
    /\ recorded[w] => container[w] # "none"

(* A destruction that knows the container's id got it from the row.        *)
SeesInv ==
  \A d \in Destroyers :
    destroyer[d] \in {"loaded", "marked"} =>
      IF sees[d] THEN recorded[target[d]] ELSE target[d] \in blind

(* The container is gone and will not be started again.                    *)
Gone(w) == provider[w] \notin {"unused", "inserted"} /\ ~Held(w)
Excused(w) == w \in blind \/ w \in lost

(* What a destruction promises when it lets go of the row.                 *)
ReleaseInv ==
  /\ \A d \in Destroyers : destroyer[d] = "freed" => Gone(target[d]) \/ Excused(target[d])
  /\ \A w \in Provisions : status[w] = "destroyed" => Gone(w) \/ Excused(w)

LeakInv == ContainerInv /\ ContainersAccountedFor /\ SeesInv /\ ReleaseInv

LEMMA LeakInvStep == TypeOK /\ LeakInv /\ [Next]_vars => LeakInv'
<1> SUFFICES ASSUME TypeOK, LeakInv, [Next]_vars PROVE LeakInv'
  OBVIOUS
<1> USE DestroysAssumption
<1>1. ASSUME NEW w \in Provisions, Create(w) PROVE LeakInv'
  BY <1>1 DEF Create, rowVars, destroyVars, TypeOK, LeakInv, ContainerInv,
     ContainersAccountedFor, SeesInv, ReleaseInv, Gone, Excused, Held, Advance
<1>2. ASSUME NEW w \in Provisions, StartContainer(w) PROVE LeakInv'
  BY <1>2 DEF StartContainer, rowVars, destroyVars, TypeOK, LeakInv, ContainerInv,
     ContainersAccountedFor, SeesInv, ReleaseInv, Gone, Excused, Held, Advance, Fault
<1>3. ASSUME NEW w \in Provisions, RecordContainer(w) PROVE LeakInv'
  BY <1>3 DEF RecordContainer, rowVars, destroyVars, TypeOK, LeakInv, ContainerInv,
     ContainersAccountedFor, SeesInv, ReleaseInv, Gone, Excused, Held, Advance, Fault
<1>4. ASSUME NEW w \in Provisions, CloneAndCheckout(w) PROVE LeakInv'
  BY <1>4 DEF CloneAndCheckout, rowVars, destroyVars, TypeOK, LeakInv, ContainerInv,
     ContainersAccountedFor, SeesInv, ReleaseInv, Gone, Excused, Held, Advance
<1>5. ASSUME NEW w \in Provisions, MarkReady(w) PROVE LeakInv'
  BY <1>5 DEF MarkReady, rowVars, destroyVars, TypeOK, LeakInv, ContainerInv,
     ContainersAccountedFor, SeesInv, ReleaseInv, Gone, Excused, Held, Advance, Fault
<1>6. ASSUME NEW w \in Provisions, MarkFailed(w) PROVE LeakInv'
  BY <1>6 DEF MarkFailed, rowVars, destroyVars, TypeOK, LeakInv, ContainerInv,
     ContainersAccountedFor, SeesInv, ReleaseInv, Gone, Excused, Held, Advance, Fault
<1>7. ASSUME NEW w \in Provisions, Grow(w) PROVE LeakInv'
  BY <1>7 DEF Grow, rowVars, destroyVars, TypeOK, LeakInv, ContainerInv,
     ContainersAccountedFor, SeesInv, ReleaseInv, Gone, Excused, Held
<1>8. ASSUME NEW w \in Provisions, ContainerDies(w) PROVE LeakInv'
  BY <1>8 DEF ContainerDies, rowVars, destroyVars, TypeOK, LeakInv, ContainerInv,
     ContainersAccountedFor, SeesInv, ReleaseInv, Gone, Excused, Held
<1>9. ASSUME NEW d \in Destroyers, RequestDestroy(d) PROVE LeakInv'
  BY <1>9 DEF RequestDestroy, rowVars, destroyVars, TypeOK, LeakInv, ContainerInv,
     ContainersAccountedFor, SeesInv, ReleaseInv, Gone, Excused, Held
<1>10. ASSUME NEW d \in Destroyers, LoadWorkspace(d) PROVE LeakInv'
  BY <1>10 DEF LoadWorkspace, rowVars, destroyVars, TypeOK, LeakInv, ContainerInv,
     ContainersAccountedFor, SeesInv, ReleaseInv, Gone, Excused, Held, Fault, After,
     Destroyers
<1>11. ASSUME NEW d \in Destroyers, MarkDestroying(d) PROVE LeakInv'
  BY <1>11 DEF MarkDestroying, rowVars, destroyVars, TypeOK, LeakInv, ContainerInv,
     ContainersAccountedFor, SeesInv, ReleaseInv, Gone, Excused, Held, Fault
<1>12. ASSUME NEW d \in Destroyers, DriverDestroy(d) PROVE LeakInv'
  BY <1>12 DEF DriverDestroy, rowVars, destroyVars, TypeOK, LeakInv, ContainerInv,
     ContainersAccountedFor, SeesInv, ReleaseInv, Gone, Excused, Held, Fault
<1>13. ASSUME NEW d \in Destroyers, MarkDestroyed(d) PROVE LeakInv'
  BY <1>13 DEF MarkDestroyed, rowVars, destroyVars, TypeOK, LeakInv, ContainerInv,
     ContainersAccountedFor, SeesInv, ReleaseInv, Gone, Excused, Held, Fault, After,
     Destroyers
<1>14. CASE Sweep
  BY <1>14 DEF Sweep, rowVars, destroyVars, TypeOK, LeakInv, ContainerInv,
     ContainersAccountedFor, SeesInv, ReleaseInv, Gone, Excused, Held
<1>15. CASE CheckWorkspace
  BY <1>15 DEF CheckWorkspace, rowVars, destroyVars, TypeOK, LeakInv, ContainerInv,
     ContainersAccountedFor, SeesInv, ReleaseInv, Gone, Excused, Held, Fault, Destroyers
<1>16. CASE Crash
  BY <1>16 DEF Crash, rowVars, destroyVars, TypeOK, LeakInv, ContainerInv,
     ContainersAccountedFor, SeesInv, ReleaseInv, Gone, Excused, Held, Fault, After,
     Destroyers
<1>17. CASE UNCHANGED vars
  BY <1>17 DEF vars, rowVars, destroyVars, TypeOK, LeakInv, ContainerInv,
     ContainersAccountedFor, SeesInv, ReleaseInv, Gone, Excused, Held
<1> QED BY <1>1, <1>2, <1>3, <1>4, <1>5, <1>6, <1>7, <1>8, <1>9, <1>10, <1>11, <1>12,
   <1>13, <1>14, <1>15, <1>16, <1>17 DEF Next, ProvisionStep, DestroyStep

LEMMA LeakInvHolds == Spec => []LeakInv
<1>1. Init => LeakInv
  BY DEF Init, LeakInv, ContainerInv, ContainersAccountedFor, SeesInv, ReleaseInv, Held
<1> QED BY <1>1, TypeCorrect, LeakInvStep, PTL DEF Spec

(* Wherever a provisioning fails, its container is named by the row or     *)
(* still in its hands, unless the process or the host failed.              *)
THEOREM ContainersStayAccountedFor == Spec => []ContainersAccountedFor
<1>1. LeakInv => ContainersAccountedFor
  BY DEF LeakInv
<1> QED BY <1>1, LeakInvHolds, PTL

(* A container outlives its destroyed row only after a failure of the host *)
(* or a destruction that read the row before it had the container's id.    *)
THEOREM LeaksAreBlind == Spec => []LeaksOnlyWhenBlind
<1>1. LeakInv => LeaksOnlyWhenBlind
  BY DEF LeakInv, ReleaseInv, Gone, Excused, LeaksOnlyWhenBlind
<1> QED BY <1>1, LeakInvHolds, PTL

-----------------------------------------------------------------------------
(* The reaper spares a fresh workspace.                                    *)

Requested(w) == \E d \in Destroys : target[d] = w
Spent(w) == w \in died \/ Requested(w)
AtWork(d) == destroyer[d] \in {"targeted", "loaded", "marked", "freed"}

(* A request that has not begun has no target, so that a target stays.     *)
IdleInv == \A d \in Destroys : destroyer[d] = "idle" => target[d] = NoWorkspace

(* The list of the reaper may be stale, but a container_id, once stored,   *)
(* stays.                                                                  *)
SweepInv == \A row \in sweep : row.recorded => recorded[row.ws]

(* While a workspace is fresh, whatever removed or stopped its container,  *)
(* changed its row or sent the reaper after it goes back to a request or   *)
(* to the death of the container.                                          *)
FreshInv ==
  \A w \in Provisions :
    /\ container[w] = "stopped" => w \in died
    /\ age[w] = "fresh" =>
         /\ recorded[w] /\ container[w] = "removed" => Spent(w)
         /\ AtWork(Reaper) /\ target[Reaper] = w => Spent(w)
         /\ status[w] \in {"destroying", "destroyed"} => Spent(w)

SpareInv == IdleInv /\ SweepInv /\ FreshInv

LEMMA SpareInvStep == TypeOK /\ LeakInv /\ SpareInv /\ [Next]_vars => SpareInv'
<1> SUFFICES ASSUME TypeOK, LeakInv, SpareInv, [Next]_vars PROVE SpareInv'
  OBVIOUS
<1> USE DestroysAssumption, ProvisionsAssumption
<1>1. ASSUME NEW w \in Provisions, Create(w) PROVE SpareInv'
  BY <1>1 DEF Create, rowVars, destroyVars, TypeOK, SpareInv, IdleInv, SweepInv,
     FreshInv, Spent, Requested, AtWork, LeakInv, ContainerInv, SeesInv, Held,
     Destroyers, Advance
<1>2. ASSUME NEW w \in Provisions, StartContainer(w) PROVE SpareInv'
  BY <1>2 DEF StartContainer, rowVars, destroyVars, TypeOK, SpareInv, IdleInv,
     SweepInv, FreshInv, Spent, Requested, AtWork, LeakInv, ContainerInv, SeesInv,
     Held, Destroyers, Advance, Fault
<1>3. ASSUME NEW w \in Provisions, RecordContainer(w) PROVE SpareInv'
  <2>1. UNCHANGED <<status, age, sweep, destroyer, target, died>>
    BY <1>3 DEF RecordContainer, destroyVars
  <2>2. IdleInv' /\ \A v \in Provisions : Spent(v)' = Spent(v)
    BY <2>1 DEF SpareInv, IdleInv, Spent, Requested
  <2>3. /\ container[w] \in {"running", "stopped"} /\ ~recorded[w]
        /\ \/ recorded' = [recorded EXCEPT ![w] = TRUE] /\ container' = container
           \/ /\ recorded' = recorded
              /\ container' = [container EXCEPT ![w] = "removed"] \/ container' = container
    BY <1>3 DEF RecordContainer, LeakInv, ContainerInv
  <2>4. SweepInv'
    BY <2>1, <2>3 DEF SpareInv, SweepInv, TypeOK
  <2>5. \A v \in Provisions : container'[v] = "stopped" => v \in died
    BY <2>3 DEF SpareInv, FreshInv, TypeOK
  <2>6. \A v \in Provisions :
          recorded'[v] /\ container'[v] = "removed" => recorded[v] /\ container[v] = "removed"
    BY <2>3 DEF TypeOK
  <2> QED BY <2>1, <2>2, <2>4, <2>5, <2>6 DEF SpareInv, FreshInv, AtWork
<1>4. ASSUME NEW w \in Provisions, CloneAndCheckout(w) PROVE SpareInv'
  BY <1>4 DEF CloneAndCheckout, rowVars, destroyVars, TypeOK, SpareInv, IdleInv,
     SweepInv, FreshInv, Spent, Requested, AtWork, LeakInv, ContainerInv, SeesInv,
     Held, Destroyers, Advance
<1>5. ASSUME NEW w \in Provisions, MarkReady(w) PROVE SpareInv'
  BY <1>5 DEF MarkReady, rowVars, destroyVars, TypeOK, SpareInv, IdleInv, SweepInv,
     FreshInv, Spent, Requested, AtWork, LeakInv, ContainerInv, SeesInv, Held,
     Destroyers, Advance, Fault
<1>6. ASSUME NEW w \in Provisions, MarkFailed(w) PROVE SpareInv'
  BY <1>6 DEF MarkFailed, rowVars, destroyVars, TypeOK, SpareInv, IdleInv, SweepInv,
     FreshInv, Spent, Requested, AtWork, LeakInv, ContainerInv, SeesInv, Held,
     Destroyers, Advance, Fault
<1>7. ASSUME NEW w \in Provisions, Grow(w) PROVE SpareInv'
  BY <1>7 DEF Grow, rowVars, destroyVars, TypeOK, SpareInv, IdleInv, SweepInv,
     FreshInv, Spent, Requested, AtWork, LeakInv, ContainerInv, SeesInv, Held,
     Destroyers
<1>8. ASSUME NEW w \in Provisions, ContainerDies(w) PROVE SpareInv'
  BY <1>8 DEF ContainerDies, rowVars, destroyVars, TypeOK, SpareInv, IdleInv,
     SweepInv, FreshInv, Spent, Requested, AtWork, LeakInv, ContainerInv, SeesInv,
     Held, Destroyers
<1>9. ASSUME NEW d \in Destroyers, RequestDestroy(d) PROVE SpareInv'
  BY <1>9 DEF RequestDestroy, rowVars, destroyVars, TypeOK, SpareInv, IdleInv,
     SweepInv, FreshInv, Spent, Requested, AtWork, LeakInv, ContainerInv, SeesInv,
     Held, Destroyers
<1>10. ASSUME NEW d \in Destroyers, LoadWorkspace(d) PROVE SpareInv'
  BY <1>10 DEF LoadWorkspace, rowVars, destroyVars, TypeOK, SpareInv, IdleInv,
     SweepInv, FreshInv, Spent, Requested, AtWork, LeakInv, ContainerInv, SeesInv,
     Held, Destroyers, Fault, After
<1>11. ASSUME NEW d \in Destroyers, MarkDestroying(d) PROVE SpareInv'
  BY <1>11 DEF MarkDestroying, rowVars, destroyVars, TypeOK, SpareInv, IdleInv,
     SweepInv, FreshInv, Spent, Requested, AtWork, LeakInv, ContainerInv, SeesInv,
     Held, Destroyers, Fault
<1>12. ASSUME NEW d \in Destroyers, DriverDestroy(d) PROVE SpareInv'
  BY <1>12 DEF DriverDestroy, rowVars, destroyVars, TypeOK, SpareInv, IdleInv,
     SweepInv, FreshInv, Spent, Requested, AtWork, LeakInv, ContainerInv, SeesInv,
     Held, Destroyers, Fault
<1>13. ASSUME NEW d \in Destroyers, MarkDestroyed(d) PROVE SpareInv'
  BY <1>13 DEF MarkDestroyed, rowVars, destroyVars, TypeOK, SpareInv, IdleInv,
     SweepInv, FreshInv, Spent, Requested, AtWork, LeakInv, ContainerInv, SeesInv,
     Held, Destroyers, Fault, After
<1>14. CASE Sweep
  BY <1>14 DEF Sweep, rowVars, destroyVars, TypeOK, SpareInv, IdleInv, SweepInv,
     FreshInv, Spent, Requested, AtWork, LeakInv, ContainerInv, SeesInv, Held,
     Destroyers
<1>15. CASE CheckWorkspace
  <2>1. PICK row \in sweep :
          /\ sweep' = sweep \ {row}
          /\ \/ /\ Orphan(row)
                /\ destroyer' = [destroyer EXCEPT ![Reaper] = "targeted"]
                /\ target'    = [target EXCEPT ![Reaper] = row.ws]
             \/ UNCHANGED <<destroyer, target>>
    BY <1>15 DEF CheckWorkspace
  <2>2. row.ws \in Provisions /\ (row.recorded => recorded[row.ws])
    BY <2>1 DEF TypeOK, SpareInv, SweepInv
  <2>3. Reaper \in Destroyers /\ destroyer[Reaper] = "idle"
    BY <1>15 DEF CheckWorkspace, Destroyers
  <2>4. \A d \in Destroys : target'[d] = target[d] /\ destroyer'[d] = destroyer[d]
    BY <2>1 DEF TypeOK, Destroyers
  <2>5. UNCHANGED <<recorded, age, container, status, died>>
    BY <1>15 DEF CheckWorkspace, rowVars
  <2>6. IdleInv' /\ SweepInv'
    BY <2>1, <2>4, <2>5 DEF SpareInv, IdleInv, SweepInv
  <2>7. \A w \in Provisions : Spent(w) => Spent(w)'
    BY <2>4, <2>5 DEF Spent, Requested
  <2>8. CASE Orphan(row) /\ target' = [target EXCEPT ![Reaper] = row.ws]
    <3>1. target'[Reaper] = row.ws
      BY <2>3, <2>8 DEF TypeOK
    <3>2. age[row.ws] = "fresh" => recorded[row.ws] /\ container[row.ws] # "running"
      BY <2>2, <2>8 DEF Orphan
    <3>3. age[row.ws] = "fresh" => Spent(row.ws)
      BY <2>2, <3>2 DEF TypeOK, ContainerStates, LeakInv, ContainerInv, SpareInv,
         FreshInv, Spent
    <3> QED BY <2>2, <2>5, <2>6, <2>7, <3>1, <3>3 DEF SpareInv, FreshInv
  <2>9. CASE UNCHANGED <<destroyer, target>>
    BY <2>5, <2>6, <2>7, <2>9 DEF SpareInv, FreshInv, AtWork
  <2> QED BY <2>1, <2>8, <2>9
<1>16. CASE Crash
  BY <1>16 DEF Crash, rowVars, destroyVars, TypeOK, SpareInv, IdleInv, SweepInv,
     FreshInv, Spent, Requested, AtWork, LeakInv, ContainerInv, SeesInv, Held,
     Destroyers, Fault, After
<1>17. CASE UNCHANGED vars
  BY <1>17 DEF vars, rowVars, destroyVars, TypeOK, SpareInv, IdleInv, SweepInv,
     FreshInv, Spent, Requested, AtWork, LeakInv, ContainerInv, SeesInv, Held,
     Destroyers
<1> QED BY <1>1, <1>2, <1>3, <1>4, <1>5, <1>6, <1>7, <1>8, <1>9, <1>10, <1>11, <1>12,
   <1>13, <1>14, <1>15, <1>16, <1>17 DEF Next, ProvisionStep, DestroyStep

LEMMA SpareInvHolds == Spec => []SpareInv
<1>1. Init => SpareInv
  BY DEF Init, SpareInv, IdleInv, SweepInv, FreshInv, AtWork, Destroyers
<1> QED BY <1>1, TypeCorrect, LeakInvHolds, SpareInvStep, PTL DEF Spec

(* In its first five minutes a workspace is destroyed only for a request   *)
(* or because its container died, however stale the list of the reaper.    *)
THEOREM ReaperSparesFresh == Spec => []FreshWorkspaceSpared
<1>1. SpareInv => FreshWorkspaceSpared
  BY DEF SpareInv, FreshInv, Spent, Requested, FreshWorkspaceSpared
<1> QED BY <1>1, SpareInvHolds, PTL
=============================================================================
