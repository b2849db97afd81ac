-------------------------- MODULE GitHubInstallProofs --------------------------
(***************************************************************************)
(* What holds of the installations of an account for any number of         *)
(* organisations, installations, requests at one time and faults.          *)
(***************************************************************************)
EXTENDS GitHubInstall, FiniteSetTheorems, TLAPS

-----------------------------------------------------------------------------
(* The inductive invariants.                                               *)

(* A request that looks at a row or at GitHub names its installation; the *)
(* one that looks for its delivery is of an event, the one that looks for  *)
(* an installation is of the button.                                       *)
SlotInv ==
  \A r \in Slots :
    /\ reqs[r].pc \notin {"org", "list", "done"} => Inst(r) \in Installations
    /\ reqs[r].pc \in {"check", "record"} => Kind(r) \in EventKinds
    /\ reqs[r].pc \in {"org", "list"} => Kind(r) = "button"

(* What was handled is recorded, and a delivery that comes again is one of *)
(* those.                                                                  *)
DeliveryInv ==
  /\ handled \subseteq deliveries
  /\ \A r \in Slots : At(r, "check") /\ reqs[r].again = "yes" => <<Kind(r), Inst(r)>> \in handled
  /\ HandledStaysHandled

(* An installation that ended does not come back.                          *)
Ended(i) == i \in Installations /\ i <= installed /\ i # live

(* The end is told, handled and recorded of installations that ended, and  *)
(* the row that a request removes is theirs, unless they were linked late. *)
EndInv ==
  /\ live <= installed
  /\ \A i \in Installations : <<"deleted", i>> \in events => Ended(i)
  /\ \A i \in closed : Ended(i)
  /\ \A r \in Slots :
       /\ Kind(r) = "deleted" => Ended(Inst(r))
       /\ reqs[r].pc \in {"repos", "remove"} => Kind(r) = "deleted"
       /\ faults = 0 /\ reqs[r].pc \in {"repos", "remove"} =>
            ~Linked(Inst(r)) \/ Inst(r) \in late \/ rows[Inst(r)].id = reqs[r].row
  /\ UninstalledStaysGone

(* A browser that came back is on its way, or its callback is, or the      *)
(* installation is linked.                                                 *)
Answering(r, c) ==
  /\ Kind(r) = "callback" /\ Org(r) = c[1] /\ Inst(r) = c[2]
  /\ reqs[r].pc \in {"validate", "seen", "find", "fetch", "create"}
LinkInv ==
  \A c \in sent :
    /\ c[2] <= installed /\ pending[c[1]].status # "none"
    /\ faults = 0 /\ live = c[2] /\ Valid(c[1]) =>
         c \in callbacks \/ Linked(c[2]) \/ \E r \in Slots : Answering(r, c)

(* What is known of an installation is of one that was made, the button is *)
(* pressed for an organisation, and a request on its way to the list of    *)
(* the installation there is carries the id of its row.                    *)
Syncing == {"use", "token", "listing", "lookup", "insert"}
Carries(r) == reqs[r].pc \in Syncing /\ Inst(r) = live => Linked(live) /\ rows[live].id = reqs[r].row
SyncInv ==
  /\ live <= installed
  /\ \A e \in events : e[2] <= installed
  /\ \A c \in callbacks : c[2] <= installed
  /\ \A i \in Installations : Linked(i) => i <= installed /\ rows[i].id # Nobody
  /\ \A r \in Slots :
       /\ Inst(r) <= installed
       /\ reqs[r].pc = "org" => Org(r) # NoOrg
       /\ Carries(r)
-----------------------------------------------------------------------------
(* Proofs.                                                                 *)

(* Where a request that goes on or becomes a goroutine is afterwards.      *)
LEMMA GoesOn ==
  ASSUME TypeOK, NEW r \in Slots, NEW to, Go(r, to)
  PROVE  /\ \A q \in Slots : q # r => reqs'[q] = reqs[q]
         /\ to = "done" => reqs'[r] = Over
         /\ to # "done" => /\ reqs'[r].kind = Kind(r) /\ reqs'[r].inst = Inst(r) /\ reqs'[r].org = Org(r)
                           /\ reqs'[r].pc = to /\ reqs'[r].again = reqs[r].again /\ reqs'[r].row = reqs[r].row
  BY DEF TypeOK, Reqs, Go, Kind, Inst, Org

LEMMA Syncs ==
  ASSUME TypeOK, NEW r \in Slots, NEW id, Sync(r, id)
  PROVE  /\ \A q \in Slots : q # r => reqs'[q] = reqs[q]
         /\ reqs'[r] = [kind |-> "sync", inst |-> Inst(r), org |-> NoOrg, pc |-> "token", row |-> id,
               again |-> "no"]
  BY DEF TypeOK, Reqs, Sync, Goroutine, Request, Inst

(* How a request goes on after the steps that have several outcomes.       *)
LEMMA Outcomes ==
  ASSUME NEW r \in Slots
  PROVE  /\ Find(r) => \/ \E id : Sync(r, id)
                       \/ Kind(r) = "deleted" /\ Linked(Inst(r))
                             /\ reqs' = [reqs EXCEPT ![r].pc = "repos", ![r].row = rows[Inst(r)].id]
                       \/ Go(r, "done")
                       \/ ~Linked(Inst(r)) /\ Go(r, OnFailure(r))
         /\ GetByCallbackSeen(r) => \/ Go(r, "done")
                                    \/ \E o \in Awaiting : reqs' = [reqs EXCEPT ![r].pc = "create",
                                          ![r].org = o]
         /\ CreateInstallation(r) => \/ \E id \in Fresh : \/ Go(r, "done") \/ Sync(r, id)
                                                          \/ reqs' = [reqs EXCEPT ![r].row = id,
                                                                ![r].pc = "use"]
                                     \/ Go(r, OnFailure(r))
         /\ Fail(r) => Go(r, OnFailure(r)) \/ Sync(r, reqs[r].row)
<1>1. Find(r) => \/ \E id : Sync(r, id)
                 \/ Kind(r) = "deleted" /\ Linked(Inst(r))
                       /\ reqs' = [reqs EXCEPT ![r].pc = "repos", ![r].row = rows[Inst(r)].id]
                 \/ Go(r, "done")
                 \/ ~Linked(Inst(r)) /\ Go(r, OnFailure(r))
  BY Zenon DEF Find
<1>2. GetByCallbackSeen(r) => \/ Go(r, "done")
                              \/ \E o \in Awaiting : reqs' = [reqs EXCEPT ![r].pc = "create", ![r].org = o]
  BY Zenon DEF GetByCallbackSeen
<1>3. CreateInstallation(r) => \/ \E id \in Fresh : \/ Go(r, "done") \/ Sync(r, id)
                                                    \/ reqs' = [reqs EXCEPT ![r].row = id, ![r].pc = "use"]
                               \/ Go(r, OnFailure(r))
  <2> SUFFICES ASSUME CreateInstallation(r), ~Go(r, OnFailure(r))
               PROVE  \E id \in Fresh : \/ Go(r, "done") \/ Sync(r, id)
                                        \/ reqs' = [reqs EXCEPT ![r].row = id, ![r].pc = "use"]
    OBVIOUS
  <2> QED BY Zenon DEF CreateInstallation
<1>4. Fail(r) => Go(r, OnFailure(r)) \/ Sync(r, reqs[r].row)
  BY Zenon DEF Fail
<1> QED BY <1>1, <1>2, <1>3, <1>4

(* A request whose statement fails goes on somewhere behind its delivery.  *)
LEMMA FailureType == \A r \in Slots : OnFailure(r) \in PCs \ {"check", "record"}
  BY DEF OnFailure, PCs

LEMMA FailureFinds == \A r \in Slots : reqs[r].pc # "org" => OnFailure(r) \notin {"org", "list"}
  BY DEF OnFailure, At

(* A request that knows its installation still does when it goes on.       *)
LEMMA SlotKept ==
  ASSUME TypeOK, SlotInv, NEW r \in Slots, NEW to, NEW id,
         \/ /\ Go(r, to) /\ to \notin {"check", "record"}
            /\ Inst(r) \in Installations \/ to \in {"list", "done"}
            /\ to \in {"org", "list"} => Kind(r) = "button"
         \/ Sync(r, id) /\ Inst(r) \in Installations
  PROVE  SlotInv'
<1>1. CASE /\ Go(r, to) /\ to \notin {"check", "record"}
           /\ Inst(r) \in Installations \/ to \in {"list", "done"}
           /\ to \in {"org", "list"} => Kind(r) = "button"
  <2>1. /\ reqs'[r].pc \notin {"check", "record"}
            /\ (reqs'[r].pc \in {"list", "done"} \/ reqs'[r].inst \in Installations)
        /\ reqs'[r].pc \in {"org", "list"} => reqs'[r].kind = "button"
    BY <1>1, GoesOn DEF Over, Request
  <2> QED BY <1>1, <2>1, GoesOn DEF SlotInv, Inst, Kind
<1>2. CASE Sync(r, id) /\ Inst(r) \in Installations
  <2>1. reqs'[r] = [kind |-> "sync", inst |-> Inst(r), org |-> NoOrg, pc |-> "token", row |-> id,
            again |-> "no"]
    BY <1>2, Syncs
  <2>2. reqs'[r].inst \in Installations
    BY <1>2, <2>1
  <2> QED BY <1>2, <2>1, <2>2, Syncs DEF SlotInv, Inst, Kind
<1> QED BY <1>1, <1>2

(* A goroutine has no delivery, and a request that goes on past its record *)
(* is not asked for one.                                                   *)
LEMMA DeliveryKept ==
  ASSUME TypeOK, DeliveryInv, NEW r \in Slots, NEW to, NEW id, UNCHANGED <<handled, deliveries>>,
         (Go(r, to) /\ to \notin {"check", "record"}) \/ Sync(r, id)
  PROVE  DeliveryInv'
<1>1. reqs'[r].pc \notin {"check", "record"}
  <2>1. CASE Go(r, to) /\ to \notin {"check", "record"}
    BY <2>1, GoesOn DEF Over, Request
  <2>2. CASE Sync(r, id)
    <3>1. reqs'[r] = [kind |-> "sync", inst |-> Inst(r), org |-> NoOrg, pc |-> "token", row |-> id,
              again |-> "no"]
      BY <2>2, Syncs
    <3> QED BY <3>1
  <2> QED BY <2>1, <2>2
<1>2. \A q \in Slots : q # r => reqs'[q] = reqs[q]
  BY GoesOn, Syncs
<1> QED BY <1>1, <1>2 DEF DeliveryInv, HandledStaysHandled, At, Kind, Inst

(* A request keeps naming its installation.                               *)
LEMMA SlotStep == TypeOK /\ SlotInv /\ [Next]_vars => SlotInv'
<1> SUFFICES ASSUME TypeOK /\ SlotInv, [Next]_vars PROVE SlotInv'
  OBVIOUS
<1> USE BoundsAssumption DEF TypeOK, DataTypeOK, Reqs, SlotInv, Kind, Inst, Org, At, Go, Sync, Goroutine,
          Request, Over, Linked, githubVars, historyVars, Slots, Nobody, Installations, Events
<1>1. ASSUME NEW o \in Orgs, GetInstallURL(o) PROVE SlotInv'
  BY <1>1 DEF GetInstallURL
<1>2. ASSUME NEW o \in Orgs, Expire(o) PROVE SlotInv'
  BY <1>2 DEF Expire
<1>3. ASSUME NEW o \in Orgs, Install(o) PROVE SlotInv'
  BY <1>3 DEF Install
<1>4. ASSUME NEW o \in Orgs, SyncRepos(o) PROVE SlotInv'
  BY <1>4 DEF SyncRepos, Start, Free
<1>5. CASE Uninstall
  BY <1>5 DEF Uninstall
<1>6. CASE ChangeRepositories
  BY <1>6 DEF ChangeRepositories
<1>7. ASSUME NEW e \in Events, Deliver(e) PROVE SlotInv'
  BY <1>7 DEF Deliver, Start, Free
<1>8. ASSUME NEW c \in callbacks, InstallCallback(c) PROVE SlotInv'
  BY <1>8 DEF InstallCallback, Start, Free
<1>9. ASSUME NEW o \in Orgs, NEW i \in Installations, LinkInstallation(o, i) PROVE SlotInv'
  BY <1>9 DEF LinkInstallation, Start, Free
<1>10. ASSUME NEW r \in Slots, IsDeliveryProcessed(r) PROVE SlotInv'
  BY <1>10 DEF IsDeliveryProcessed
<1>11. ASSUME NEW r \in Slots, RecordDelivery(r) PROVE SlotInv'
  <2>1. reqs' = [reqs EXCEPT ![r].pc = "find", ![r].again = "no"] /\ reqs[r].pc = "record"
    BY <1>11 DEF RecordDelivery
  <2>2. reqs'[r].pc = "find" /\ reqs'[r].inst = reqs[r].inst /\ \A q \in Slots : q # r => reqs'[q] = reqs[q]
    BY <2>1
  <2> QED BY <2>1, <2>2
<1>12. ASSUME NEW r \in Slots, Find(r) PROVE SlotInv'
  <2> HIDE DEF Go, Sync, OnFailure
  <2>1. Inst(r) \in Installations
    BY <1>12 DEF Find
  <2>2. ASSUME NEW id, Sync(r, id) PROVE SlotInv'
    BY <2>1, <2>2, SlotKept
  <2>3. ASSUME NEW to, to \notin {"check", "record", "org", "list"}, Go(r, to) PROVE SlotInv'
    BY <2>1, <2>3, SlotKept
  <2>4. CASE reqs' = [reqs EXCEPT ![r].pc = "repos", ![r].row = rows[Inst(r)].id]
    BY <2>1, <2>4
  <2>5. reqs[r].pc # "org"
    BY <1>12 DEF Find
  <2>6. OnFailure(r) \notin {"check", "record", "org", "list"}
            /\ "done" \notin {"check", "record", "org", "list"}
    BY <2>5, FailureType, FailureFinds
  <2> QED BY <1>12, Outcomes, <2>6, Zenon, <2>2, <2>3, <2>4
<1>13. ASSUME NEW r \in Slots, GetByCallbackSeen(r) PROVE SlotInv'
  <2> HIDE DEF Go, Sync, OnFailure
  <2>1. Inst(r) \in Installations
    BY <1>13 DEF GetByCallbackSeen
  <2>2. ASSUME NEW id, Sync(r, id) PROVE SlotInv'
    BY <2>1, <2>2, SlotKept
  <2>3. ASSUME NEW to, to \notin {"check", "record", "org", "list"}, Go(r, to) PROVE SlotInv'
    BY <2>1, <2>3, SlotKept
  <2>4. ASSUME NEW o, reqs' = [reqs EXCEPT ![r].pc = "create", ![r].org = o] PROVE SlotInv'
    BY <2>1, <2>4
  <2>5. reqs[r].pc # "org"
    BY <1>13 DEF GetByCallbackSeen
  <2>6. OnFailure(r) \notin {"check", "record", "org", "list"}
            /\ "done" \notin {"check", "record", "org", "list"}
    BY <2>5, FailureType, FailureFinds
  <2> QED BY <1>13, Outcomes, <2>6, Zenon, <2>2, <2>3, <2>4
<1>14. ASSUME NEW r \in Slots, ValidatePendingInstall(r) PROVE SlotInv'
  BY <1>14 DEF ValidatePendingInstall
<1>15. ASSUME NEW r \in Slots, MarkCallbackSeen(r) PROVE SlotInv'
  BY <1>15 DEF MarkCallbackSeen
<1>16. ASSUME NEW r \in Slots, GetInstallationByID(r) PROVE SlotInv'
  BY <1>16 DEF GetInstallationByID
<1>17. ASSUME NEW r \in Slots, CreateInstallation(r) PROVE SlotInv'
  <2> HIDE DEF Go, Sync, OnFailure
  <2>1. Inst(r) \in Installations
    BY <1>17 DEF CreateInstallation
  <2>2. ASSUME NEW id, Sync(r, id) PROVE SlotInv'
    BY <2>1, <2>2, SlotKept
  <2>3. ASSUME NEW to, to \notin {"check", "record", "org", "list"}, Go(r, to) PROVE SlotInv'
    BY <2>1, <2>3, SlotKept
  <2>4. ASSUME NEW id, reqs' = [reqs EXCEPT ![r].row = id, ![r].pc = "use"] PROVE SlotInv'
    BY <2>1, <2>4
  <2>5. reqs[r].pc # "org"
    BY <1>17 DEF CreateInstallation
  <2>6. OnFailure(r) \notin {"check", "record", "org", "list"}
            /\ "done" \notin {"check", "record", "org", "list"}
    BY <2>5, FailureType, FailureFinds
  <2> QED BY <1>17, Outcomes, <2>6, Zenon, <2>2, <2>3, <2>4
<1>18. ASSUME NEW r \in Slots, TakeExisting(r) PROVE SlotInv'
  <2> HIDE DEF Go, Sync
  <2>1. Inst(r) \in Installations
    BY <1>18 DEF TakeExisting
  <2>2. ASSUME NEW id, Sync(r, id) PROVE SlotInv'
    BY <2>1, <2>2, SlotKept
  <2>3. CASE Go(r, "done")
    BY <2>1, <2>3, SlotKept
  <2> QED BY <1>18, <2>2, <2>3 DEF TakeExisting
<1>19. ASSUME NEW r \in Slots, MarkUsed(r) PROVE SlotInv'
  BY <1>19 DEF MarkUsed
<1>20. ASSUME NEW r \in Slots, DeleteByInstallationID(r) PROVE SlotInv'
  BY <1>20 DEF DeleteByInstallationID
<1>21. ASSUME NEW r \in Slots, DeleteInstallation(r) PROVE SlotInv'
  BY <1>21 DEF DeleteInstallation
<1>22. ASSUME NEW r \in Slots, GetByOrgID(r) PROVE SlotInv'
  <2> HIDE DEF Go, Goroutine
  <2>1. ASSUME NEW i \in Installations, NEW id, reqs' = [reqs EXCEPT ![r] = Goroutine(i, id)] PROVE SlotInv'
    BY <2>1 DEF Goroutine
  <2>2. CASE Go(r, "list")
    <3>1. Kind(r) = "button"
      BY <1>22 DEF GetByOrgID
    <3> QED BY <2>2, <3>1, SlotKept
  <2> QED BY <1>22, <2>1, <2>2 DEF GetByOrgID
<1>23. ASSUME NEW r \in Slots, ListAppInstallations(r) PROVE SlotInv'
  <2> HIDE DEF Go
  <2>1. CASE Go(r, "done")
    BY <2>1, SlotKept
  <2>2. CASE live # Nobody /\ reqs' = [reqs EXCEPT ![r].inst = live, ![r].pc = "find"]
    <3>1. live \in Installations
      BY <2>2
    <3> QED BY <2>2, <3>1
  <2> QED BY <1>23, <2>1, <2>2 DEF ListAppInstallations
<1>24. ASSUME NEW r \in Slots, GetInstallationToken(r) PROVE SlotInv'
  BY <1>24 DEF GetInstallationToken
<1>25. ASSUME NEW r \in Slots, ListInstallationRepos(r) PROVE SlotInv'
  BY <1>25 DEF ListInstallationRepos
<1>26. ASSUME NEW r \in Slots, GetByGitHubRepoID(r) PROVE SlotInv'
  BY <1>26 DEF GetByGitHubRepoID
<1>27. ASSUME NEW r \in Slots, CreateRepo(r) PROVE SlotInv'
  BY <1>27 DEF CreateRepo
<1>28. ASSUME NEW r \in Slots, Fail(r) PROVE SlotInv'
  <2> HIDE DEF Go, Sync
  <2>1. reqs[r].pc # "done" /\ (reqs[r].pc \in {"org", "list"} => OnFailure(r) \in {"list", "done"})
    BY <1>28 DEF Fail, OnFailure
  <2>2. CASE Go(r, OnFailure(r))
    BY <2>1, <2>2, SlotKept, FailureType, FailureFinds
  <2>3. CASE At(r, "use") /\ Sync(r, reqs[r].row)
    BY <2>3, SlotKept
  <2> QED BY <1>28, <2>2, <2>3 DEF Fail
<1>29. CASE UNCHANGED vars
  BY <1>29 DEF vars
<1> QED BY <1>1, <1>2, <1>3, <1>4, <1>5, <1>6, <1>7, <1>8, <1>9, <1>10, <1>11, <1>12,
           <1>13, <1>14, <1>15, <1>16, <1>17, <1>18, <1>19, <1>20, <1>21, <1>22, <1>23,
           <1>24, <1>25, <1>26, <1>27, <1>28, <1>29 DEF Next, Proceed

(* A step keeps what is recorded of the deliveries.                       *)
LEMMA DeliveryStep == TypeOK /\ DeliveryInv /\ [Next]_vars => DeliveryInv'
<1> SUFFICES ASSUME TypeOK /\ DeliveryInv, [Next]_vars PROVE DeliveryInv'
  OBVIOUS
<1> USE DEF TypeOK, Reqs, DeliveryInv, HandledStaysHandled, Kind, Inst, Org, At, Go, Sync, Goroutine,
          Request, Over, Linked, githubVars, historyVars
<1>1. ASSUME NEW o \in Orgs, GetInstallURL(o) PROVE DeliveryInv'
  BY <1>1 DEF GetInstallURL
<1>2. ASSUME NEW o \in Orgs, Expire(o) PROVE DeliveryInv'
  BY <1>2 DEF Expire
<1>3. ASSUME NEW o \in Orgs, Install(o) PROVE DeliveryInv'
  BY <1>3 DEF Install
<1>4. ASSUME NEW o \in Orgs, SyncRepos(o) PROVE DeliveryInv'
  BY <1>4 DEF SyncRepos, Start, Free
<1>5. CASE Uninstall
  BY <1>5 DEF Uninstall
<1>6. CASE ChangeRepositories
  BY <1>6 DEF ChangeRepositories
<1>7. ASSUME NEW e \in Events, Deliver(e) PROVE DeliveryInv'
  <2>1. e = <<e[1], e[2]>>
    BY DEF Events
  <2>2. PICK s \in Slots : reqs' = [reqs EXCEPT ![s] = [Request(e[1], e[2], NoOrg,
            "check") EXCEPT !.again = IF e \in handled THEN "yes" ELSE "no"]]
    BY <1>7 DEF Deliver, Start, Free
  <2>3. reqs'[s].pc = "check" /\ reqs'[s].kind = e[1] /\ reqs'[s].inst = e[2]
            /\ (reqs'[s].again = "yes" => e \in handled)
    BY <2>2
  <2>4. UNCHANGED <<handled, deliveries>> /\ \A q \in Slots : q # s => reqs'[q] = reqs[q]
    BY <1>7, <2>2 DEF Deliver
  <2> QED BY <2>1, <2>3, <2>4
<1>8. ASSUME NEW c \in callbacks, InstallCallback(c) PROVE DeliveryInv'
  BY <1>8 DEF InstallCallback, Start, Free
<1>9. ASSUME NEW o \in Orgs, NEW i \in Installations, LinkInstallation(o, i) PROVE DeliveryInv'
  BY <1>9 DEF LinkInstallation, Start, Free
<1>10. ASSUME NEW r \in Slots, IsDeliveryProcessed(r) PROVE DeliveryInv'
  BY <1>10 DEF IsDeliveryProcessed
<1>11. ASSUME NEW r \in Slots, RecordDelivery(r) PROVE DeliveryInv'
  BY <1>11 DEF RecordDelivery
<1>12. ASSUME NEW r \in Slots, Find(r) PROVE DeliveryInv'
  BY <1>12 DEF Find, OnFailure
<1>13. ASSUME NEW r \in Slots, GetByCallbackSeen(r) PROVE DeliveryInv'
  <2> HIDE DEF Go, Sync
  <2>1. UNCHANGED <<handled, deliveries>>
    BY <1>13 DEF GetByCallbackSeen
  <2>2. CASE Go(r, "done")
    BY <2>1, <2>2, DeliveryKept
  <2>3. ASSUME NEW o, reqs' = [reqs EXCEPT ![r].pc = "create", ![r].org = o] PROVE DeliveryInv'
    BY <2>1, <2>3
  <2> QED BY <1>13, <2>2, <2>3, Outcomes
<1>14. ASSUME NEW r \in Slots, ValidatePendingInstall(r) PROVE DeliveryInv'
  BY <1>14 DEF ValidatePendingInstall
<1>15. ASSUME NEW r \in Slots, MarkCallbackSeen(r) PROVE DeliveryInv'
  BY <1>15 DEF MarkCallbackSeen
<1>16. ASSUME NEW r \in Slots, GetInstallationByID(r) PROVE DeliveryInv'
  BY <1>16 DEF GetInstallationByID
<1>17. ASSUME NEW r \in Slots, CreateInstallation(r) PROVE DeliveryInv'
  <2> HIDE DEF Go, Sync, OnFailure
  <2>1. UNCHANGED <<handled, deliveries>> /\ OnFailure(r) \in {"done", "race"}
    BY <1>17 DEF CreateInstallation, OnFailure
  <2>2. ASSUME NEW to \in {"done", "race"}, Go(r, to) PROVE DeliveryInv'
    BY <2>1, <2>2, DeliveryKept
  <2>3. ASSUME NEW id, Sync(r, id) PROVE DeliveryInv'
    BY <2>1, <2>3, DeliveryKept
  <2>4. ASSUME NEW id, reqs' = [reqs EXCEPT ![r].row = id, ![r].pc = "use"] PROVE DeliveryInv'
    BY <2>1, <2>4
  <2> QED BY <1>17, <2>1, <2>2, <2>3, <2>4, Outcomes
<1>18. ASSUME NEW r \in Slots, TakeExisting(r) PROVE DeliveryInv'
  BY <1>18 DEF TakeExisting
<1>19. ASSUME NEW r \in Slots, MarkUsed(r) PROVE DeliveryInv'
  BY <1>19 DEF MarkUsed
<1>20. ASSUME NEW r \in Slots, DeleteByInstallationID(r) PROVE DeliveryInv'
  BY <1>20 DEF DeleteByInstallationID
<1>21. ASSUME NEW r \in Slots, DeleteInstallation(r) PROVE DeliveryInv'
  BY <1>21 DEF DeleteInstallation
<1>22. ASSUME NEW r \in Slots, GetByOrgID(r) PROVE DeliveryInv'
  BY <1>22 DEF GetByOrgID
<1>23. ASSUME NEW r \in Slots, ListAppInstallations(r) PROVE DeliveryInv'
  BY <1>23 DEF ListAppInstallations
<1>24. ASSUME NEW r \in Slots, GetInstallationToken(r) PROVE DeliveryInv'
  BY <1>24 DEF GetInstallationToken
<1>25. ASSUME NEW r \in Slots, ListInstallationRepos(r) PROVE DeliveryInv'
  BY <1>25 DEF ListInstallationRepos
<1>26. ASSUME NEW r \in Slots, GetByGitHubRepoID(r) PROVE DeliveryInv'
  BY <1>26 DEF GetByGitHubRepoID
<1>27. ASSUME NEW r \in Slots, CreateRepo(r) PROVE DeliveryInv'
  BY <1>27 DEF CreateRepo
<1>28. ASSUME NEW r \in Slots, Fail(r) PROVE DeliveryInv'
  BY <1>28 DEF Fail, OnFailure
<1>29. CASE UNCHANGED vars
  BY <1>29 DEF vars
<1> QED BY <1>1, <1>2, <1>3, <1>4, <1>5, <1>6, <1>7, <1>8, <1>9, <1>10, <1>11, <1>12,
           <1>13, <1>14, <1>15, <1>16, <1>17, <1>18, <1>19, <1>20, <1>21, <1>22, <1>23,
           <1>24, <1>25, <1>26, <1>27, <1>28, <1>29 DEF Next, Proceed

(* A request that starts, goes on or becomes a goroutine is one.           *)
LEMMA StartType ==
  ASSUME TypeOK, NEW request \in Reqs, Start(request)
  PROVE  reqs' \in [Slots -> Reqs]
  BY DEF TypeOK, Start

LEMMA GoType ==
  ASSUME TypeOK, NEW r \in Slots, NEW to \in PCs, Go(r, to)
  PROVE  reqs' \in [Slots -> Reqs]
<1>1. reqs \in [Slots -> Reqs] /\ reqs[r] \in Reqs
  BY DEF TypeOK
<1>2. Over \in Reqs
  BY DEF Over, Request, Reqs, Kinds, PCs
<1>3. [reqs[r] EXCEPT !.pc = to] \in Reqs
  BY <1>1 DEF Reqs
<1> QED BY <1>1, <1>2, <1>3 DEF Go

LEMMA SyncType ==
  ASSUME TypeOK, NEW r \in Slots, NEW i \in Installations, NEW id \in Ids \cup {Nobody},
         reqs' = [reqs EXCEPT ![r] = Goroutine(i, id)]
  PROVE  reqs' \in [Slots -> Reqs]
<1>1. Goroutine(i, id) \in Reqs
  BY DEF Goroutine, Request, Reqs, Kinds, PCs
<1> QED BY <1>1 DEF TypeOK

(* A request at a row knows its installation.                              *)
LEMMA RowIdType ==
  ASSUME TypeOK, SlotInv, NEW r \in Slots, reqs[r].pc \notin {"org", "list", "done"}
  PROVE  Inst(r) \in Installations /\ rows[Inst(r)].id \in Ids \cup {Nobody}
        /\ reqs[r].row \in Ids \cup {Nobody}
  BY DEF TypeOK, DataTypeOK, Reqs, SlotInv, Inst

(* A step keeps the rows and the histories in their types.                 *)
LEMMA DataTypeStep == TypeOK /\ SlotInv /\ [Next]_vars => DataTypeOK'
<1> SUFFICES ASSUME TypeOK /\ SlotInv, [Next]_vars PROVE DataTypeOK'
  OBVIOUS
<1> USE BoundsAssumption DEF TypeOK, DataTypeOK, SlotInv, Reqs, Kind, Inst, Org, At, Linked, Pending,
          githubVars, historyVars, NoRow, Nobody, Installations, Events, EventKinds
<1>1. ASSUME NEW o \in Orgs, GetInstallURL(o) PROVE DataTypeOK'
  <2>1. Cardinality({p \in Orgs : pending[p].nr > 0}) \in Nat
    BY OrgsAssumption, FS_Subset, FS_CardinalityType
  <2>2. pending' \in [Orgs -> Pendings]
    BY <1>1, <2>1 DEF GetInstallURL, Pendings
  <2> QED BY <1>1, <2>2 DEF GetInstallURL
<1>2. ASSUME NEW o \in Orgs, Expire(o) PROVE DataTypeOK'
  <2>1. Pending(0, "expired") \in Pendings
    BY DEF Pendings
  <2>2. pending' \in [Orgs -> Pendings]
    BY <1>2, <2>1 DEF Expire
  <2> QED BY <1>2, <2>2 DEF Expire
<1>3. ASSUME NEW o \in Orgs, Install(o) PROVE DataTypeOK'
  BY <1>3 DEF Install
<1>4. ASSUME NEW o \in Orgs, SyncRepos(o) PROVE DataTypeOK'
  BY <1>4 DEF SyncRepos, Start, Free
<1>5. CASE Uninstall
  BY <1>5 DEF Uninstall
<1>6. CASE ChangeRepositories
  BY <1>6 DEF ChangeRepositories
<1>7. ASSUME NEW e \in Events, Deliver(e) PROVE DataTypeOK'
  BY <1>7 DEF Deliver, Start, Free
<1>8. ASSUME NEW c \in callbacks, InstallCallback(c) PROVE DataTypeOK'
  BY <1>8 DEF InstallCallback, Start, Free
<1>9. ASSUME NEW o \in Orgs, NEW i \in Installations, LinkInstallation(o, i) PROVE DataTypeOK'
  BY <1>9 DEF LinkInstallation, Start, Free
<1>10. ASSUME NEW r \in Slots, IsDeliveryProcessed(r) PROVE DataTypeOK'
  BY <1>10 DEF IsDeliveryProcessed
<1>11. ASSUME NEW r \in Slots, RecordDelivery(r) PROVE DataTypeOK'
  <2>1. Inst(r) \in Installations
    BY <1>11 DEF RecordDelivery
  <2>2. Kind(r) \in EventKinds
    BY <1>11 DEF RecordDelivery
  <2> QED BY <1>11, <2>1, <2>2 DEF RecordDelivery
<1>12. ASSUME NEW r \in Slots, Find(r) PROVE DataTypeOK'
  BY <1>12 DEF Find, OnFailure
<1>13. ASSUME NEW r \in Slots, GetByCallbackSeen(r) PROVE DataTypeOK'
  BY <1>13 DEF GetByCallbackSeen
<1>14. ASSUME NEW r \in Slots, ValidatePendingInstall(r) PROVE DataTypeOK'
  BY <1>14 DEF ValidatePendingInstall
<1>15. ASSUME NEW r \in Slots, MarkCallbackSeen(r) PROVE DataTypeOK'
  <2>1. pending' \in [Orgs -> Pendings]
    <3>1. \A o \in Orgs : [pending[o] EXCEPT !.status = IF @ = "issued" THEN "seen" ELSE @] \in Pendings
      BY DEF Pendings
    <3>2. pending' = [pending EXCEPT ![Org(r)].status = IF @ = "issued" THEN "seen" ELSE @]
      BY <1>15 DEF MarkCallbackSeen
    <3> QED BY <3>1, <3>2
  <2> QED BY <1>15, <2>1 DEF MarkCallbackSeen
<1>16. ASSUME NEW r \in Slots, GetInstallationByID(r) PROVE DataTypeOK'
  BY <1>16 DEF GetInstallationByID
<1>17. ASSUME NEW r \in Slots, CreateInstallation(r) PROVE DataTypeOK'
  <2>1. rows' = rows \/ \E id \in Fresh : rows' = [rows EXCEPT ![Inst(r)] = [id |-> id, org |-> Org(r)]]
    BY <1>17, Zenon DEF CreateInstallation
  <2>2. \A id \in Fresh : [id |-> id, org |-> Org(r)] \in [id : Ids \cup {Nobody}, org : Orgs \cup {NoOrg}]
    BY DEF Fresh
  <2>3. rows' \in [Installations -> [id : Ids \cup {Nobody}, org : Orgs \cup {NoOrg}]]
    <3>1. ASSUME NEW id \in Fresh, rows' = [rows EXCEPT ![Inst(r)] = [id |-> id, org |-> Org(r)]]
          PROVE  rows' \in [Installations -> [id : Ids \cup {Nobody}, org : Orgs \cup {NoOrg}]]
      <4> DEFINE R == [id : Ids \cup {Nobody}, org : Orgs \cup {NoOrg}]
                 row == [id |-> id, org |-> Org(r)]
      <4>1. row \in R /\ rows \in [Installations -> R]
        BY <2>2
      <4> HIDE DEF R, row
      <4>2. rows' = [rows EXCEPT ![Inst(r)] = row]
        BY <3>1 DEF row
      <4>3. rows' \in [Installations -> R]
        BY <4>1, <4>2, Zenon
      <4> QED BY <4>3 DEF R
    <3> QED BY <2>1, <3>1
  <2>4. late' \subseteq Installations
    BY <1>17 DEF CreateInstallation
  <2> QED BY <1>17, <2>3, <2>4 DEF CreateInstallation
<1>18. ASSUME NEW r \in Slots, TakeExisting(r) PROVE DataTypeOK'
  BY <1>18 DEF TakeExisting
<1>19. ASSUME NEW r \in Slots, MarkUsed(r) PROVE DataTypeOK'
  <2>1. pending' \in [Orgs -> Pendings]
    BY <1>19 DEF MarkUsed, Pendings
  <2> QED BY <1>19, <2>1 DEF MarkUsed
<1>20. ASSUME NEW r \in Slots, DeleteByInstallationID(r) PROVE DataTypeOK'
  BY <1>20 DEF DeleteByInstallationID
<1>21. ASSUME NEW r \in Slots, DeleteInstallation(r) PROVE DataTypeOK'
  BY <1>21 DEF DeleteInstallation
<1>22. ASSUME NEW r \in Slots, GetByOrgID(r) PROVE DataTypeOK'
  BY <1>22 DEF GetByOrgID
<1>23. ASSUME NEW r \in Slots, ListAppInstallations(r) PROVE DataTypeOK'
  BY <1>23 DEF ListAppInstallations
<1>24. ASSUME NEW r \in Slots, GetInstallationToken(r) PROVE DataTypeOK'
  BY <1>24 DEF GetInstallationToken
<1>25. ASSUME NEW r \in Slots, ListInstallationRepos(r) PROVE DataTypeOK'
  BY <1>25 DEF ListInstallationRepos
<1>26. ASSUME NEW r \in Slots, GetByGitHubRepoID(r) PROVE DataTypeOK'
  BY <1>26 DEF GetByGitHubRepoID
<1>27. ASSUME NEW r \in Slots, CreateRepo(r) PROVE DataTypeOK'
  BY <1>27 DEF CreateRepo
<1>28. ASSUME NEW r \in Slots, Fail(r) PROVE DataTypeOK'
  BY <1>28 DEF Fail, OnFailure
<1>29. CASE UNCHANGED vars
  BY <1>29 DEF vars
<1> QED BY <1>1, <1>2, <1>3, <1>4, <1>5, <1>6, <1>7, <1>8, <1>9, <1>10, <1>11, <1>12,
           <1>13, <1>14, <1>15, <1>16, <1>17, <1>18, <1>19, <1>20, <1>21, <1>22, <1>23,
           <1>24, <1>25, <1>26, <1>27, <1>28, <1>29 DEF Next, Proceed

(* A step keeps the requests.                                              *)
LEMMA RequestTypeStep == TypeOK /\ SlotInv /\ [Next]_vars => reqs' \in [Slots -> Reqs]
<1> SUFFICES ASSUME TypeOK /\ SlotInv, [Next]_vars PROVE reqs' \in [Slots -> Reqs]
  OBVIOUS
<1> USE DEF TypeOK, Over, githubVars, historyVars
<1>1. ASSUME NEW o \in Orgs, GetInstallURL(o) PROVE reqs' \in [Slots -> Reqs]
  BY <1>1 DEF GetInstallURL
<1>2. ASSUME NEW o \in Orgs, Expire(o) PROVE reqs' \in [Slots -> Reqs]
  BY <1>2 DEF Expire
<1>3. ASSUME NEW o \in Orgs, Install(o) PROVE reqs' \in [Slots -> Reqs]
  BY <1>3 DEF Install
<1>4. ASSUME NEW o \in Orgs, SyncRepos(o) PROVE reqs' \in [Slots -> Reqs]
  <2>1. Request("button", Nobody, o, "org") \in Reqs
    BY BoundsAssumption DEF Request, Reqs, Kinds, PCs, EventKinds, Events, Nobody, DataTypeOK
  <2> QED BY <1>4, <2>1, StartType DEF SyncRepos
<1>5. CASE Uninstall
  BY <1>5 DEF Uninstall
<1>6. CASE ChangeRepositories
  BY <1>6 DEF ChangeRepositories
<1>7. ASSUME NEW e \in Events, Deliver(e) PROVE reqs' \in [Slots -> Reqs]
  <2>1. [Request(e[1], e[2], NoOrg, "check") EXCEPT !.again = IF e \in handled THEN "yes" ELSE "no"] \in Reqs
    BY BoundsAssumption DEF Request, Reqs, Kinds, PCs, EventKinds, Events, Nobody, DataTypeOK
  <2> QED BY <1>7, <2>1, StartType DEF Deliver
<1>8. ASSUME NEW c \in callbacks, InstallCallback(c) PROVE reqs' \in [Slots -> Reqs]
  <2>1. Request("callback", c[2], c[1], "validate") \in Reqs
    BY BoundsAssumption DEF Request, Reqs, Kinds, PCs, EventKinds, Events, Nobody, DataTypeOK
  <2> QED BY <1>8, <2>1, StartType DEF InstallCallback
<1>9. ASSUME NEW o \in Orgs, NEW i \in Installations, LinkInstallation(o, i) PROVE reqs' \in [Slots -> Reqs]
  <2>1. Request("link", i, o, "find") \in Reqs
    BY BoundsAssumption DEF Request, Reqs, Kinds, PCs, EventKinds, Events, Nobody, DataTypeOK
  <2> QED BY <1>9, <2>1, StartType DEF LinkInstallation
<1>10. ASSUME NEW r \in Slots, IsDeliveryProcessed(r) PROVE reqs' \in [Slots -> Reqs]
  <2>1. \E to \in PCs : Go(r, to)
    BY <1>10 DEF IsDeliveryProcessed, PCs
  <2> QED BY <2>1, GoType
<1>11. ASSUME NEW r \in Slots, RecordDelivery(r) PROVE reqs' \in [Slots -> Reqs]
  <2>1. reqs' = [reqs EXCEPT ![r].pc = "find", ![r].again = "no"]
    BY <1>11 DEF RecordDelivery
  <2>2. [reqs[r] EXCEPT !.pc = "find", !.again = "no"] \in Reqs
    BY DEF Reqs, PCs
  <2> QED BY <2>1, <2>2
<1>12. ASSUME NEW r \in Slots, Find(r) PROVE reqs' \in [Slots -> Reqs]
  <2>1. Inst(r) \in Installations /\ rows[Inst(r)].id \in Ids \cup {Nobody}
    BY <1>12, RowIdType DEF Find, At
  <2>2. CASE Sync(r, rows[Inst(r)].id)
    BY <2>1, <2>2, SyncType DEF Sync
  <2>3. CASE reqs' = [reqs EXCEPT ![r].pc = "repos", ![r].row = rows[Inst(r)].id]
    <3>1. [reqs[r] EXCEPT !.pc = "repos", !.row = rows[Inst(r)].id] \in Reqs
      BY <2>1 DEF Reqs, PCs
    <3> QED BY <2>3, <3>1
  <2>4. ASSUME NEW to \in PCs, Go(r, to) PROVE reqs' \in [Slots -> Reqs]
    BY <2>4, GoType
  <2>5. "done" \in PCs /\ OnFailure(r) \in PCs
    BY FailureType DEF PCs
  <2> QED BY <1>12, <2>2, <2>3, <2>4, <2>5, Zenon DEF Find
<1>13. ASSUME NEW r \in Slots, GetByCallbackSeen(r) PROVE reqs' \in [Slots -> Reqs]
  <2>1. CASE Go(r, "done")
    BY <2>1, GoType DEF PCs
  <2>2. ASSUME NEW o \in Orgs, reqs' = [reqs EXCEPT ![r].pc = "create", ![r].org = o]
            PROVE reqs' \in [Slots -> Reqs]
    <3>1. [reqs[r] EXCEPT !.pc = "create", !.org = o] \in Reqs
      BY DEF Reqs, PCs
    <3> QED BY <2>2, <3>1
  <2> QED BY <1>13, <2>1, <2>2, Outcomes DEF Awaiting
<1>14. ASSUME NEW r \in Slots, ValidatePendingInstall(r) PROVE reqs' \in [Slots -> Reqs]
  <2>1. \E to \in PCs : Go(r, to)
    BY <1>14 DEF ValidatePendingInstall, PCs
  <2> QED BY <2>1, GoType
<1>15. ASSUME NEW r \in Slots, MarkCallbackSeen(r) PROVE reqs' \in [Slots -> Reqs]
  <2>1. \E to \in PCs : Go(r, to)
    BY <1>15 DEF MarkCallbackSeen, PCs
  <2> QED BY <2>1, GoType
<1>16. ASSUME NEW r \in Slots, GetInstallationByID(r) PROVE reqs' \in [Slots -> Reqs]
  <2>1. \E to \in PCs : Go(r, to)
    BY <1>16 DEF GetInstallationByID, PCs
  <2> QED BY <2>1, GoType
<1>17. ASSUME NEW r \in Slots, CreateInstallation(r) PROVE reqs' \in [Slots -> Reqs]
  <2>1. Inst(r) \in Installations
    BY <1>17, RowIdType DEF CreateInstallation, At
  <2>2. ASSUME NEW id \in Fresh, Sync(r, id) PROVE reqs' \in [Slots -> Reqs]
    BY <2>1, <2>2, SyncType DEF Sync, Fresh
  <2>3. ASSUME NEW id \in Fresh, reqs' = [reqs EXCEPT ![r].row = id, ![r].pc = "use"]
            PROVE reqs' \in [Slots -> Reqs]
    <3>1. [reqs[r] EXCEPT !.row = id, !.pc = "use"] \in Reqs
      BY DEF Reqs, PCs, Fresh
    <3> QED BY <2>3, <3>1
  <2>4. ASSUME NEW to \in PCs, Go(r, to) PROVE reqs' \in [Slots -> Reqs]
    BY <2>4, GoType
  <2>5. "done" \in PCs /\ OnFailure(r) \in PCs
    BY FailureType DEF PCs
  <2> QED BY <1>17, <2>2, <2>3, <2>4, <2>5, Outcomes
<1>18. ASSUME NEW r \in Slots, TakeExisting(r) PROVE reqs' \in [Slots -> Reqs]
  <2>1. Inst(r) \in Installations /\ rows[Inst(r)].id \in Ids \cup {Nobody}
    BY <1>18, RowIdType DEF TakeExisting, At
  <2>2. CASE Sync(r, rows[Inst(r)].id)
    BY <2>1, <2>2, SyncType DEF Sync
  <2>3. CASE Go(r, "done")
    BY <2>3, GoType DEF PCs
  <2> QED BY <1>18, <2>2, <2>3 DEF TakeExisting
<1>19. ASSUME NEW r \in Slots, MarkUsed(r) PROVE reqs' \in [Slots -> Reqs]
  <2>1. Inst(r) \in Installations /\ reqs[r].row \in Ids \cup {Nobody}
    BY <1>19, RowIdType DEF MarkUsed, At
  <2> QED BY <1>19, <2>1, SyncType DEF MarkUsed, Sync
<1>20. ASSUME NEW r \in Slots, DeleteByInstallationID(r) PROVE reqs' \in [Slots -> Reqs]
  <2>1. \E to \in PCs : Go(r, to)
    BY <1>20 DEF DeleteByInstallationID, PCs
  <2> QED BY <2>1, GoType
<1>21. ASSUME NEW r \in Slots, DeleteInstallation(r) PROVE reqs' \in [Slots -> Reqs]
  <2>1. \E to \in PCs : Go(r, to)
    BY <1>21 DEF DeleteInstallation, PCs
  <2> QED BY <2>1, GoType
<1>22. ASSUME NEW r \in Slots, GetByOrgID(r) PROVE reqs' \in [Slots -> Reqs]
  <2>1. ASSUME NEW i \in Installations, reqs' = [reqs EXCEPT ![r] = Goroutine(i, rows[i].id)]
            PROVE reqs' \in [Slots -> Reqs]
    <3>1. rows[i].id \in Ids \cup {Nobody}
      BY DEF DataTypeOK
    <3> QED BY <2>1, <3>1, SyncType
  <2>2. CASE Go(r, "list")
    BY <2>2, GoType DEF PCs
  <2> QED BY <1>22, <2>1, <2>2 DEF GetByOrgID
<1>23. ASSUME NEW r \in Slots, ListAppInstallations(r) PROVE reqs' \in [Slots -> Reqs]
  <2>1. CASE Go(r, "done")
    BY <2>1, GoType DEF PCs
  <2>2. CASE live # Nobody /\ reqs' = [reqs EXCEPT ![r].inst = live, ![r].pc = "find"]
    <3>1. live \in Installations
      BY <2>2, BoundsAssumption DEF DataTypeOK, Installations, Nobody
    <3>2. [reqs[r] EXCEPT !.inst = live, !.pc = "find"] \in Reqs
      BY <3>1 DEF Reqs, PCs
    <3> QED BY <2>2, <3>2
  <2> QED BY <1>23, <2>1, <2>2 DEF ListAppInstallations
<1>24. ASSUME NEW r \in Slots, GetInstallationToken(r) PROVE reqs' \in [Slots -> Reqs]
  <2>1. \E to \in PCs : Go(r, to)
    BY <1>24 DEF GetInstallationToken, PCs
  <2> QED BY <2>1, GoType
<1>25. ASSUME NEW r \in Slots, ListInstallationRepos(r) PROVE reqs' \in [Slots -> Reqs]
  <2>1. \E to \in PCs : Go(r, to)
    BY <1>25 DEF ListInstallationRepos, PCs
  <2> QED BY <2>1, GoType
<1>26. ASSUME NEW r \in Slots, GetByGitHubRepoID(r) PROVE reqs' \in [Slots -> Reqs]
  <2>1. \E to \in PCs : Go(r, to)
    BY <1>26 DEF GetByGitHubRepoID, PCs
  <2> QED BY <2>1, GoType
<1>27. ASSUME NEW r \in Slots, CreateRepo(r) PROVE reqs' \in [Slots -> Reqs]
  <2>1. \E to \in PCs : Go(r, to)
    BY <1>27 DEF CreateRepo, PCs
  <2> QED BY <2>1, GoType
<1>28. ASSUME NEW r \in Slots, Fail(r) PROVE reqs' \in [Slots -> Reqs]
  <2>1. CASE At(r, "use") /\ Sync(r, reqs[r].row)
    <3>1. Inst(r) \in Installations /\ reqs[r].row \in Ids \cup {Nobody}
      BY <2>1, RowIdType DEF At
    <3> QED BY <2>1, <3>1, SyncType DEF Sync
  <2>2. CASE Go(r, OnFailure(r))
    BY <2>2, GoType, FailureType
  <2> QED BY <1>28, <2>1, <2>2 DEF Fail
<1>29. CASE UNCHANGED vars
  BY <1>29 DEF vars
<1> QED BY <1>1, <1>2, <1>3, <1>4, <1>5, <1>6, <1>7, <1>8, <1>9, <1>10, <1>11, <1>12,
           <1>13, <1>14, <1>15, <1>16, <1>17, <1>18, <1>19, <1>20, <1>21, <1>22, <1>23,
           <1>24, <1>25, <1>26, <1>27, <1>28, <1>29 DEF Next, Proceed

(* What a request that goes on leaves of the ends, when rows are at most   *)
(* added late.                                                             *)
LEMMA EndKept ==
  ASSUME TypeOK, EndInv, NEW r \in Slots, NEW to, NEW id,
         UNCHANGED <<live, installed, events, faults>>, late \subseteq late',
         \A i \in Installations : Ended(i) => rows'[i] = rows[i] \/ i \in late',
         \A i \in closed' : Ended(i), \A i \in closed' \ late' : faults = 0 => ~Linked(i),
         \/ Go(r, to) /\ to \notin {"repos", "remove"}
         \/ Sync(r, id)
         \/ reqs' = [reqs EXCEPT ![r].row = id, ![r].pc = "use"]
  PROVE  EndInv'
<1>1. /\ \A q \in Slots : q # r => reqs'[q] = reqs[q]
      /\ reqs'[r].pc \notin {"repos", "remove"}
      /\ reqs'[r].kind = "deleted" => reqs[r].kind = "deleted" /\ reqs'[r].inst = reqs[r].inst
  <2>1. CASE Go(r, to) /\ to \notin {"repos", "remove"}
    BY <2>1, GoesOn DEF Over, Request, Kind, Inst
  <2>2. CASE Sync(r, id)
    <3>1. reqs'[r] = [kind |-> "sync", inst |-> Inst(r), org |-> NoOrg, pc |-> "token", row |-> id,
              again |-> "no"]
      BY <2>2, Syncs
    <3> QED BY <2>2, <3>1, Syncs
  <2>3. CASE reqs' = [reqs EXCEPT ![r].row = id, ![r].pc = "use"]
    BY <2>3 DEF TypeOK, Reqs
  <2> QED BY <2>1, <2>2, <2>3
<1>2. \A i : Ended(i)' = Ended(i)
  BY DEF Ended
<1>3. \A i : Ended(i) => i \in Installations
  BY DEF Ended
<1> QED BY <1>1, <1>2, <1>3 DEF EndInv, Kind, Inst, Linked, UninstalledStaysGone

(* A step keeps what is known of the end of an installation.              *)
LEMMA EndStep == TypeOK /\ SlotInv /\ EndInv /\ [Next]_vars => EndInv'
<1> SUFFICES ASSUME TypeOK /\ SlotInv /\ EndInv, [Next]_vars PROVE EndInv'
  OBVIOUS
<1> USE DEF TypeOK, DataTypeOK, Reqs, SlotInv, EndInv, Ended, UninstalledStaysGone, Kind, Inst, Org, At,
          Go, Sync, Goroutine, Request, Over, Linked, githubVars, historyVars, Nobody, NoRow
<1>1. ASSUME NEW o \in Orgs, GetInstallURL(o) PROVE EndInv'
  BY <1>1 DEF GetInstallURL
<1>2. ASSUME NEW o \in Orgs, Expire(o) PROVE EndInv'
  BY <1>2 DEF Expire
<1>3. ASSUME NEW o \in Orgs, Install(o) PROVE EndInv'
  <2>1. live' = installed + 1 /\ installed' = installed + 1 /\ installed \in Nat
    BY <1>3, BoundsAssumption DEF Install
  <2>2. UNCHANGED <<rows, reqs, closed, late, faults>> /\ events' = events \cup {<<"created", installed + 1>>}
    BY <1>3 DEF Install
  <2>3. \A i \in Installations : i \in Nat /\ (i <= installed => i <= installed' /\ i # live')
    BY <2>1, BoundsAssumption DEF Installations
  <2>4. \A i : Ended(i) => Ended(i)'
    BY <2>3 DEF Ended
  <2>5. \A i \in Installations : <<"deleted", i>> \in events' => <<"deleted", i>> \in events
    BY <2>2
  <2> HIDE DEF Ended
  <2> QED BY <2>1, <2>2, <2>4, <2>5
<1>4. ASSUME NEW o \in Orgs, SyncRepos(o) PROVE EndInv'
  BY <1>4 DEF SyncRepos, Start, Free
<1>5. CASE Uninstall
  <2>1. live' = Nobody /\ installed' = installed /\ events' = events \cup {<<"deleted", live>>}
            /\ live # Nobody
    BY <1>5 DEF Uninstall
  <2>2. UNCHANGED <<rows, reqs, closed, late, faults>>
    BY <1>5 DEF Uninstall
  <2>3. \A i \in Installations : i # 0
    BY BoundsAssumption DEF Installations
  <2>4. \A i : (Ended(i) => Ended(i)') /\ (i \in Installations /\ i = live => Ended(i)')
    BY <2>1, <2>3 DEF Ended
  <2>5. \A i \in Installations : <<"deleted", i>> \in events' => <<"deleted", i>> \in events \/ i = live
    BY <2>1
  <2>6. live' <= installed'
    BY <2>1, BoundsAssumption
  <2> HIDE DEF Ended
  <2> QED BY <2>1, <2>2, <2>4, <2>5, <2>6
<1>6. CASE ChangeRepositories
  BY <1>6 DEF ChangeRepositories
<1>7. ASSUME NEW e \in Events, Deliver(e) PROVE EndInv'
  <2>1. UNCHANGED <<live, installed, events, rows, closed, late, faults>> /\ e = <<e[1], e[2]>>
            /\ e \in events /\ e[2] \in Installations
    BY <1>7 DEF Deliver, Events
  <2>2. PICK s \in Slots : reqs' = [reqs EXCEPT ![s] = [Request(e[1], e[2], NoOrg,
            "check") EXCEPT !.again = IF e \in handled THEN "yes" ELSE "no"]]
    BY <1>7 DEF Deliver, Start, Free
  <2>3. reqs'[s].pc = "check" /\ reqs'[s].kind = e[1] /\ reqs'[s].inst = e[2] /\ \A q \in Slots : q # s
            => reqs'[q] = reqs[q]
    BY <2>2
  <2>4. e[1] = "deleted" => Ended(e[2])
    BY <2>1
  <2> QED BY <2>1, <2>3, <2>4
<1>8. ASSUME NEW c \in callbacks, InstallCallback(c) PROVE EndInv'
  BY <1>8 DEF InstallCallback, Start, Free
<1>9. ASSUME NEW o \in Orgs, NEW i \in Installations, LinkInstallation(o, i) PROVE EndInv'
  BY <1>9 DEF LinkInstallation, Start, Free
<1>10. ASSUME NEW r \in Slots, IsDeliveryProcessed(r) PROVE EndInv'
  BY <1>10 DEF IsDeliveryProcessed
<1>11. ASSUME NEW r \in Slots, RecordDelivery(r) PROVE EndInv'
  BY <1>11 DEF RecordDelivery
<1>12. ASSUME NEW r \in Slots, Find(r) PROVE EndInv'
  <2>1. UNCHANGED <<live, installed, events, rows, late, faults>> /\ Inst(r) \in Installations
            /\ reqs[r].pc = "find"
    BY <1>12 DEF Find
  <2>2. closed' = IF Kind(r) = "deleted" /\ ~Linked(Inst(r)) THEN closed \cup {Inst(r)} ELSE closed
    BY <1>12 DEF Find
  <2>3. (\A i \in closed' : Ended(i)) /\ \A i \in closed' \ late : faults = 0 => ~Linked(i)
    BY <2>2
  <2>4. \A i : Ended(i)' = Ended(i) /\ (rows'[i] # NoRow) = (rows[i] # NoRow)
    BY <2>1
  <2> HIDE DEF Ended, Go, Sync
  <2>5. ASSUME NEW id, Sync(r, id) PROVE EndInv'
    BY <2>1, <2>3, <2>4, <2>5, EndKept
  <2>6. ASSUME NEW to, to \notin {"repos", "remove"}, Go(r, to) PROVE EndInv'
    BY <2>1, <2>3, <2>4, <2>6, EndKept
  <2>7. CASE Kind(r) = "deleted" /\ Linked(Inst(r))
            /\ reqs' = [reqs EXCEPT ![r].pc = "repos", ![r].row = rows[Inst(r)].id]
    BY <2>1, <2>3, <2>4, <2>7
  <2>8. OnFailure(r) \notin {"repos", "remove"}
    BY <2>1 DEF OnFailure
  <2> HIDE DEF OnFailure, EndInv, Linked
  <2>9. "done" \notin {"repos", "remove"}
    OBVIOUS
  <2> QED BY <1>12, <2>9, <2>5, <2>6, <2>7, <2>8, Outcomes, Zenon
<1>13. ASSUME NEW r \in Slots, GetByCallbackSeen(r) PROVE EndInv'
  <2>1. UNCHANGED <<live, installed, events, rows, closed, late, faults>>
    BY <1>13 DEF GetByCallbackSeen
  <2>2. \A i : Ended(i)' = Ended(i)
    BY <2>1
  <2> HIDE DEF Ended, Go, Sync
  <2>3. ASSUME NEW id, Sync(r, id) PROVE EndInv'
    BY <2>1, <2>2, <2>3, EndKept
  <2>4. ASSUME NEW to, to \notin {"repos", "remove"}, Go(r, to) PROVE EndInv'
    BY <2>1, <2>2, <2>4, EndKept
  <2>5. ASSUME NEW o, reqs' = [reqs EXCEPT ![r].pc = "create", ![r].org = o] PROVE EndInv'
    <3>1. reqs'[r].kind = reqs[r].kind /\ reqs'[r].inst = reqs[r].inst /\ reqs'[r].pc = "create"
              /\ \A q \in Slots : q # r => reqs'[q] = reqs[q]
      BY <2>5
    <3> QED BY <2>1, <2>2, <3>1
  <2> QED BY <1>13, <2>3, <2>4, <2>5, Outcomes
<1>14. ASSUME NEW r \in Slots, ValidatePendingInstall(r) PROVE EndInv'
  BY <1>14 DEF ValidatePendingInstall
<1>15. ASSUME NEW r \in Slots, MarkCallbackSeen(r) PROVE EndInv'
  BY <1>15 DEF MarkCallbackSeen
<1>16. ASSUME NEW r \in Slots, GetInstallationByID(r) PROVE EndInv'
  BY <1>16 DEF GetInstallationByID
<1>17. ASSUME NEW r \in Slots, CreateInstallation(r) PROVE EndInv'
  <2>1. UNCHANGED <<live, installed, events, closed, faults>> /\ Inst(r) \in Installations
            /\ reqs[r].pc = "create"
    BY <1>17 DEF CreateInstallation
  <2>2. \/ rows' = rows /\ late' = late
        \/ /\ ~Linked(Inst(r)) /\ late' = IF live = Inst(r) THEN late ELSE late \cup {Inst(r)}
           /\ \E id \in Fresh : rows' = [rows EXCEPT ![Inst(r)] = [id |-> id, org |-> Org(r)]]
    BY <1>17, Zenon DEF CreateInstallation
  <2>3. \A i : Ended(i)' = Ended(i)
    BY <2>1
  <2>4. late \subseteq late' /\ \A i \in Installations : Ended(i) => rows'[i] = rows[i] \/ i \in late'
    BY <2>2
  <2> HIDE DEF Ended, Go, Sync
  <2>5. ASSUME NEW id, Sync(r, id) PROVE EndInv'
    BY <2>1, <2>3, <2>4, <2>5, EndKept
  <2>6. ASSUME NEW to, to \notin {"repos", "remove"}, Go(r, to) PROVE EndInv'
    BY <2>1, <2>3, <2>4, <2>6, EndKept
  <2>7. ASSUME NEW id, reqs' = [reqs EXCEPT ![r].row = id, ![r].pc = "use"] PROVE EndInv'
    BY <2>1, <2>3, <2>4, <2>7, EndKept
  <2>8. OnFailure(r) \notin {"repos", "remove"}
    BY <2>1 DEF OnFailure
  <2> HIDE DEF OnFailure, EndInv, Linked
  <2>9. "done" \notin {"repos", "remove"}
    OBVIOUS
  <2> QED BY <1>17, <2>5, <2>6, <2>7, <2>8, <2>9, Outcomes, Zenon
<1>18. ASSUME NEW r \in Slots, TakeExisting(r) PROVE EndInv'
  <2>1. UNCHANGED <<live, installed, events, rows, closed, late, faults>>
    BY <1>18 DEF TakeExisting
  <2>2. \A i : Ended(i)' = Ended(i)
    BY <2>1
  <2> HIDE DEF Ended, Go, Sync
  <2>3. ASSUME NEW id, Sync(r, id) PROVE EndInv'
    BY <2>1, <2>2, <2>3, EndKept
  <2>4. ASSUME NEW to, to \notin {"repos", "remove"}, Go(r, to) PROVE EndInv'
    BY <2>1, <2>2, <2>4, EndKept
  <2> QED BY <1>18, <2>3, <2>4 DEF TakeExisting
<1>19. ASSUME NEW r \in Slots, MarkUsed(r) PROVE EndInv'
  BY <1>19 DEF MarkUsed
<1>20. ASSUME NEW r \in Slots, DeleteByInstallationID(r) PROVE EndInv'
  BY <1>20 DEF DeleteByInstallationID
<1>21. ASSUME NEW r \in Slots, DeleteInstallation(r) PROVE EndInv'
  BY <1>21 DEF DeleteInstallation
<1>22. ASSUME NEW r \in Slots, GetByOrgID(r) PROVE EndInv'
  <2>1. UNCHANGED <<live, installed, events, rows, closed, late, faults>>
    BY <1>22 DEF GetByOrgID
  <2>2. \A i : Ended(i)' = Ended(i)
    BY <2>1
  <2> HIDE DEF Ended
  <2>3. reqs'[r].kind # "deleted" /\ reqs'[r].pc \notin {"repos", "remove"} /\ \A q \in Slots : q # r
            => reqs'[q] = reqs[q]
    <3> HIDE DEF Go, Goroutine
    <3>1. reqs[r].kind = "button"
      BY <1>22 DEF GetByOrgID
    <3>2. ASSUME NEW i, NEW id, reqs' = [reqs EXCEPT ![r] = Goroutine(i, id)]
          PROVE  reqs'[r].kind = "sync" /\ reqs'[r].pc = "token" /\ \A q \in Slots : q # r
                => reqs'[q] = reqs[q]
      BY <3>2 DEF Goroutine
    <3>3. CASE Go(r, "list")
      BY <3>1, <3>3, GoesOn
    <3> QED BY <1>22, <3>2, <3>3 DEF GetByOrgID
  <2> QED BY <2>1, <2>2, <2>3
<1>23. ASSUME NEW r \in Slots, ListAppInstallations(r) PROVE EndInv'
  <2>1. UNCHANGED <<live, installed, events, rows, closed, late, faults>> /\ reqs[r].kind = "button"
    BY <1>23 DEF ListAppInstallations
  <2>2. \A i : Ended(i)' = Ended(i)
    BY <2>1
  <2> HIDE DEF Ended
  <2>3. reqs'[r].kind # "deleted" /\ reqs'[r].pc \notin {"repos", "remove"} /\ \A q \in Slots : q # r
            => reqs'[q] = reqs[q]
    BY <1>23, <2>1 DEF ListAppInstallations
  <2> QED BY <2>1, <2>2, <2>3
<1>24. ASSUME NEW r \in Slots, GetInstallationToken(r) PROVE EndInv'
  BY <1>24 DEF GetInstallationToken
<1>25. ASSUME NEW r \in Slots, ListInstallationRepos(r) PROVE EndInv'
  BY <1>25 DEF ListInstallationRepos
<1>26. ASSUME NEW r \in Slots, GetByGitHubRepoID(r) PROVE EndInv'
  BY <1>26 DEF GetByGitHubRepoID
<1>27. ASSUME NEW r \in Slots, CreateRepo(r) PROVE EndInv'
  BY <1>27 DEF CreateRepo
<1>28. ASSUME NEW r \in Slots, Fail(r) PROVE EndInv'
  <2>1. UNCHANGED <<live, installed, events, rows, closed, late>> /\ faults' # 0 /\ ~At(r, "done")
    BY <1>28 DEF Fail, DataTypeOK
  <2>2. \A i : Ended(i)' = Ended(i)
    BY <2>1
  <2> HIDE DEF Ended
  <2>3. (\A q \in Slots : q # r => reqs'[q] = reqs[q])
            /\ (reqs'[r].kind = "deleted" => reqs[r].kind = "deleted" /\ reqs'[r].inst = reqs[r].inst)
        /\ (reqs'[r].pc \in {"repos", "remove"} => reqs'[r].kind = "deleted")
    <3>1. CASE At(r, "use") /\ Sync(r, reqs[r].row)
      <4> HIDE DEF Go, Sync
      <4>1. reqs'[r] = [kind |-> "sync", inst |-> Inst(r), org |-> NoOrg, pc |-> "token",
                row |-> reqs[r].row, again |-> "no"]
        BY <3>1, Syncs
      <4>2. \A q \in Slots : q # r => reqs'[q] = reqs[q]
        BY <3>1, Syncs
      <4> QED BY <4>1, <4>2
    <3>2. CASE Go(r, OnFailure(r))
      <4>1. OnFailure(r) \in {"repos", "remove"} => reqs[r].kind = "deleted"
        BY DEF OnFailure
      <4> HIDE DEF Go, Sync, OnFailure
      <4> DEFINE to == OnFailure(r)
      <4> HIDE DEF to
      <4>2. Go(r, to) /\ (to \in {"repos", "remove"} => reqs[r].kind = "deleted")
        BY <3>2, <4>1 DEF to
      <4>3. /\ \A q \in Slots : q # r => reqs'[q] = reqs[q]
            /\ to = "done" => reqs'[r] = Over
            /\ to # "done" => reqs'[r].kind = Kind(r) /\ reqs'[r].inst = Inst(r) /\ reqs'[r].pc = to
        BY <4>2, GoesOn
      <4>4. Over.kind = "none" /\ Over.pc = "done"
        OBVIOUS
      <4> QED BY <4>2, <4>3, <4>4
    <3> HIDE DEF Go, Sync, OnFailure
    <3> QED BY <1>28, <3>1, <3>2 DEF Fail
  <2> QED BY <2>1, <2>2, <2>3
<1>29. CASE UNCHANGED vars
  BY <1>29 DEF vars
<1> QED BY <1>1, <1>2, <1>3, <1>4, <1>5, <1>6, <1>7, <1>8, <1>9, <1>10, <1>11, <1>12,
           <1>13, <1>14, <1>15, <1>16, <1>17, <1>18, <1>19, <1>20, <1>21, <1>22, <1>23,
           <1>24, <1>25, <1>26, <1>27, <1>28, <1>29 DEF Next, Proceed

(* What a request keeps of the answers to the browsers that came back.     *)
LEMMA LinkKept ==
  ASSUME TypeOK, LinkInv, NEW r \in Slots, UNCHANGED <<sent, callbacks, live, installed, faults>>,
         \A o \in Orgs : (Valid(o)' => Valid(o))
               /\ (pending[o].status # "none" => pending'[o].status # "none"),
         \A i \in Installations : i = live /\ Linked(i) => Linked(i)',
         \A q \in Slots : q # r => reqs'[q] = reqs[q],
         \A c \in sent : Answering(r, c) /\ faults = 0 /\ live = c[2] /\ Valid(c[1]) => Answering(r, c)'
               \/ Linked(c[2])'
  PROVE  LinkInv'
<1> SUFFICES ASSUME NEW c \in sent
             PROVE  /\ c[2] <= installed /\ pending'[c[1]].status # "none"
                    /\ faults = 0 /\ live = c[2] /\ Valid(c[1])' =>
                         c \in callbacks \/ Linked(c[2])' \/ \E q \in Slots : Answering(q, c)'
  BY DEF LinkInv
<1>1. c[1] \in Orgs /\ c[2] \in Installations
  BY DEF TypeOK, DataTypeOK
<1>2. c[2] <= installed /\ pending'[c[1]].status # "none"
  BY <1>1 DEF LinkInv
<1>3. ASSUME faults = 0, live = c[2], Valid(c[1])', c \notin callbacks, ~Linked(c[2])'
      PROVE  \E q \in Slots : Answering(q, c)'
  <2>1. Valid(c[1]) /\ ~Linked(c[2])
    BY <1>1, <1>3
  <2>2. PICK q \in Slots : Answering(q, c)
    BY <1>3, <2>1 DEF LinkInv
  <2>3. CASE q = r
    BY <1>3, <2>1, <2>2, <2>3
  <2>4. CASE q # r
    <3>1. reqs'[q] = reqs[q]
      BY <2>4
    <3> QED BY <2>2, <3>1 DEF Answering, Kind, Org, Inst
  <2> QED BY <2>3, <2>4
<1> QED BY <1>2, <1>3

(* So do the requests of others, and the callbacks that are through.       *)
Answers(r) == Kind(r) = "callback" /\ reqs[r].pc \in {"validate", "seen", "find", "fetch", "create"}

LEMMA OtherKept ==
  ASSUME TypeOK, LinkInv, NEW r \in Slots, ~Answers(r),
         UNCHANGED <<sent, callbacks, live, installed, faults>>,
         \A o \in Orgs : (Valid(o)' => Valid(o))
               /\ (pending[o].status # "none" => pending'[o].status # "none"),
         \A i \in Installations : i = live /\ Linked(i) => Linked(i)',
         \A q \in Slots : q # r => reqs'[q] = reqs[q]
  PROVE  LinkInv'
<1>1. \A c \in sent : ~Answering(r, c)
  BY DEF Answers, Answering, Kind
<1> QED BY <1>1, LinkKept

(* A request that starts takes a place that was free.                      *)
LEMMA StartKept ==
  ASSUME TypeOK, NEW request, Start(request)
  PROVE  \E s \in Slots : /\ ~Answers(s) /\ reqs'[s] = request
                          /\ \A q \in Slots : q # s => reqs'[q] = reqs[q]
<1>1. PICK s \in Free : reqs' = [reqs EXCEPT ![s] = request]
  BY DEF Start
<1>2. s \in Slots /\ reqs[s].kind = "none"
  BY DEF Free, Over, Request
<1> QED BY <1>1, <1>2 DEF TypeOK, Answers, Kind

(* A step keeps what becomes of the browsers that came back.               *)
LEMMA LinkStep == TypeOK /\ SlotInv /\ EndInv /\ LinkInv /\ [Next]_vars => LinkInv'
<1> SUFFICES ASSUME TypeOK /\ SlotInv /\ EndInv /\ LinkInv, [Next]_vars PROVE LinkInv'
  OBVIOUS
<1> USE DEF githubVars, historyVars, At, Kind
<1>1. ASSUME NEW o \in Orgs, GetInstallURL(o) PROVE LinkInv'
  <2>1. UNCHANGED <<sent, callbacks, live, installed, faults, rows, reqs>> /\ pending[o].status = "none"
    BY <1>1 DEF GetInstallURL
  <2>2. \A p \in Orgs : p # o => pending'[p] = pending[p]
    BY <1>1 DEF GetInstallURL, TypeOK, DataTypeOK
  <2>3. \A c \in sent : c[1] \in Orgs /\ c[1] # o
    BY <2>1 DEF LinkInv, TypeOK, DataTypeOK
  <2>4. \A q \in Slots : \A c : Answering(q, c)' = Answering(q, c)
    BY <2>1 DEF Answering, Org, Inst
  <2>5. \A c \in sent : Valid(c[1])' = Valid(c[1]) /\ pending'[c[1]].status = pending[c[1]].status
    BY <2>2, <2>3 DEF Valid
  <2> QED BY <2>1, <2>4, <2>5 DEF LinkInv, Linked
<1>2. ASSUME NEW o \in Orgs, Expire(o) PROVE LinkInv'
  <2>1. UNCHANGED <<sent, callbacks, live, installed, faults, rows, reqs>>
            /\ pending' = [pending EXCEPT ![o] = Pending(0, "expired")]
    BY <1>2 DEF Expire
  <2>2. \A p \in Orgs : pending'[p] = IF p = o THEN Pending(0, "expired") ELSE pending[p]
    BY <2>1 DEF TypeOK, DataTypeOK
  <2>3. \A c \in sent : c[1] \in Orgs
    BY DEF TypeOK, DataTypeOK
  <2>4. \A p \in Orgs : (Valid(p)' => Valid(p)) /\ (pending[p].status # "none" => pending'[p].status # "none")
    BY <2>2 DEF Valid, Pending
  <2>5. \A q \in Slots : \A c : Answering(q, c)' = Answering(q, c)
    BY <2>1 DEF Answering, Org, Inst
  <2> QED BY <2>1, <2>3, <2>4, <2>5 DEF LinkInv, Linked
<1>3. ASSUME NEW o \in Orgs, Install(o) PROVE LinkInv'
  <2>1. UNCHANGED <<pending, faults>> /\ installed' = installed + 1 /\ live' = installed + 1
            /\ pending[o].status # "none"
    BY <1>3 DEF Install, Valid
  <2>2. callbacks' = callbacks \cup {<<o, installed + 1>>} /\ sent' = sent \cup {<<o, installed + 1>>}
    BY <1>3 DEF Install
  <2>3. installed \in Nat
    BY BoundsAssumption DEF TypeOK, DataTypeOK
  <2>4. \A c \in sent : c[2] \in Nat /\ c[2] <= installed /\ pending[c[1]].status # "none"
    BY BoundsAssumption DEF LinkInv, TypeOK, DataTypeOK, Installations
  <2>5. ASSUME NEW c \in sent' PROVE c \in callbacks' \/ (c \in sent /\ c[2] # live')
    <3>1. CASE c \in sent
      BY <2>1, <2>3, <2>4, <3>1
    <3>2. CASE c = <<o, installed + 1>>
      <4>1. <<o, installed + 1>> \in callbacks'
        BY <2>2
      <4> QED BY <3>2, <4>1
    <3> QED BY <2>2, <2>5, <3>1, <3>2
  <2>6. ASSUME NEW c \in sent' PROVE c[2] <= installed' /\ pending'[c[1]].status # "none"
    <3>1. CASE c \in sent
      BY <2>1, <2>3, <2>4, <3>1
    <3>2. CASE c = <<o, installed + 1>>
      BY <2>1, <2>3, <3>2
    <3> QED BY <2>2, <2>6, <3>1, <3>2
  <2> QED BY <2>5, <2>6 DEF LinkInv
<1>4. ASSUME NEW o \in Orgs, SyncRepos(o) PROVE LinkInv'
  <2>1. PICK s \in Slots : ~Answers(s) /\ \A q \in Slots : q # s => reqs'[q] = reqs[q]
    BY <1>4, StartKept DEF SyncRepos
  <2>2. UNCHANGED <<sent, callbacks, live, installed, faults, pending, rows>>
    BY <1>4 DEF SyncRepos, githubVars, historyVars
  <2> QED BY <2>1, <2>2, OtherKept DEF Valid, Linked
<1>5. CASE Uninstall
  <2>1. UNCHANGED <<sent, installed, pending>> /\ live' = Nobody
    BY <1>5 DEF Uninstall
  <2>2. \A c \in sent : c[2] # Nobody
    BY BoundsAssumption DEF TypeOK, DataTypeOK, Installations, Nobody
  <2> QED BY <2>1, <2>2 DEF LinkInv
<1>6. CASE ChangeRepositories
  <2>1. UNCHANGED <<sent, callbacks, live, installed, faults, rows, reqs, pending>>
    BY <1>6 DEF ChangeRepositories
  <2> QED BY <2>1 DEF LinkInv, Valid, Linked, Answering, Kind, Inst, Org
<1>7. ASSUME NEW e \in Events, Deliver(e) PROVE LinkInv'
  <2>1. PICK s \in Slots : ~Answers(s) /\ \A q \in Slots : q # s => reqs'[q] = reqs[q]
    BY <1>7, StartKept DEF Deliver
  <2>2. UNCHANGED <<sent, callbacks, live, installed, faults, pending, rows>>
    BY <1>7 DEF Deliver, githubVars, historyVars
  <2> QED BY <2>1, <2>2, OtherKept DEF Valid, Linked
<1>8. ASSUME NEW c \in callbacks, InstallCallback(c) PROVE LinkInv'
  <2>1. UNCHANGED <<sent, live, installed, faults, pending, rows>> /\ callbacks' = callbacks \ {c}
    BY <1>8 DEF InstallCallback
  <2>2. PICK s \in Slots : ~Answers(s) /\ reqs'[s] = Request("callback", c[2], c[1], "validate")
            /\ \A q \in Slots : q # s => reqs'[q] = reqs[q]
    BY <1>8, StartKept DEF InstallCallback
  <2>3. Answering(s, c)'
    BY <2>2 DEF Answering, Request, Kind, Inst, Org
  <2>4. \A q \in Slots : \A d : Answering(q, d) => Answering(q, d)'
    BY <2>2 DEF Answers, Answering, Kind, Inst, Org
  <2> QED BY <2>1, <2>3, <2>4 DEF LinkInv, Valid, Linked
<1>9. ASSUME NEW o \in Orgs, NEW i \in Installations, LinkInstallation(o, i) PROVE LinkInv'
  <2>1. PICK s \in Slots : ~Answers(s) /\ \A q \in Slots : q # s => reqs'[q] = reqs[q]
    BY <1>9, StartKept DEF LinkInstallation
  <2>2. UNCHANGED <<sent, callbacks, live, installed, faults, pending, rows>>
    BY <1>9 DEF LinkInstallation, githubVars, historyVars
  <2> QED BY <2>1, <2>2, OtherKept DEF Valid, Linked
<1>10. ASSUME NEW r \in Slots, IsDeliveryProcessed(r) PROVE LinkInv'
  <2>1. ~Answers(r)
    BY <1>10 DEF IsDeliveryProcessed, Answers
  <2>2. UNCHANGED <<sent, callbacks, live, installed, faults, pending, rows>>
    BY <1>10 DEF IsDeliveryProcessed
  <2>3. \A q \in Slots : q # r => reqs'[q] = reqs[q]
    <3>1. \E to : Go(r, to)
      BY <1>10, Zenon DEF IsDeliveryProcessed
    <3> QED BY <3>1, GoesOn
  <2> QED BY <2>1, <2>2, <2>3, OtherKept DEF Valid, Linked
<1>11. ASSUME NEW r \in Slots, RecordDelivery(r) PROVE LinkInv'
  <2>1. ~Answers(r)
    BY <1>11 DEF RecordDelivery, Answers
  <2>2. UNCHANGED <<sent, callbacks, live, installed, faults, pending, rows>>
    BY <1>11 DEF RecordDelivery
  <2>3. \A q \in Slots : q # r => reqs'[q] = reqs[q]
    BY <1>11 DEF RecordDelivery, TypeOK
  <2> QED BY <2>1, <2>2, <2>3, OtherKept DEF Valid, Linked
<1>12. ASSUME NEW r \in Slots, Find(r) PROVE LinkInv'
  <2>1. UNCHANGED <<sent, callbacks, live, installed, faults, pending, rows>> /\ At(r, "find")
    BY <1>12 DEF Find
  <2>2. \A q \in Slots : q # r => reqs'[q] = reqs[q]
    <3>1. CASE reqs' = [reqs EXCEPT ![r].pc = "repos", ![r].row = rows[Inst(r)].id]
      BY <3>1 DEF TypeOK
    <3> QED BY <1>12, <3>1, Outcomes, GoesOn, Syncs
  <2>3. Kind(r) = "callback" => Linked(Inst(r)) \/ Go(r, "fetch")
    BY <1>12 DEF Find, OnFailure, At
  <2>4. Go(r, "fetch") => reqs'[r].pc = "fetch" /\ reqs'[r].kind = Kind(r) /\ reqs'[r].inst = Inst(r)
            /\ reqs'[r].org = Org(r)
    BY GoesOn
  <2>5. \A c \in sent : Answering(r, c) => Answering(r, c)' \/ Linked(c[2])
    BY <2>3, <2>4 DEF Answering, Kind, Inst, Org
  <2> QED BY <2>1, <2>2, <2>5, LinkKept DEF Valid, Linked
<1>13. ASSUME NEW r \in Slots, GetByCallbackSeen(r) PROVE LinkInv'
  <2>1. ~Answers(r)
    BY <1>13 DEF GetByCallbackSeen, Answers
  <2>2. UNCHANGED <<sent, callbacks, live, installed, faults, pending, rows>>
    BY <1>13 DEF GetByCallbackSeen
  <2>3. \A q \in Slots : q # r => reqs'[q] = reqs[q]
    <3>1. CASE Go(r, "done")
      BY <3>1, GoesOn
    <3>2. ASSUME NEW o, reqs' = [reqs EXCEPT ![r].pc = "create", ![r].org = o]
          PROVE  \A q \in Slots : q # r => reqs'[q] = reqs[q]
      BY <3>2 DEF TypeOK
    <3> QED BY <1>13, <3>1, <3>2, Outcomes
  <2> QED BY <2>1, <2>2, <2>3, OtherKept DEF Valid, Linked
<1>14. ASSUME NEW r \in Slots, ValidatePendingInstall(r) PROVE LinkInv'
  <2>1. UNCHANGED <<sent, callbacks, live, installed, faults, pending, rows>>
    BY <1>14 DEF ValidatePendingInstall
  <2>2. (Valid(Org(r)) => Go(r, "seen")) /\ \E to : Go(r, to)
    BY <1>14 DEF ValidatePendingInstall
  <2>3. \A q \in Slots : q # r => reqs'[q] = reqs[q]
    BY <2>2, GoesOn
  <2>4. Go(r, "seen") => reqs'[r].pc = "seen" /\ reqs'[r].kind = Kind(r) /\ reqs'[r].inst = Inst(r)
            /\ reqs'[r].org = Org(r)
    BY GoesOn
  <2>5. \A c \in sent : Answering(r, c) /\ Valid(c[1]) => Answering(r, c)'
    BY <2>2, <2>4 DEF Answering, Kind, Inst, Org
  <2> QED BY <2>1, <2>3, <2>5, LinkKept DEF Valid, Linked
<1>15. ASSUME NEW r \in Slots, MarkCallbackSeen(r) PROVE LinkInv'
  <2>1. Go(r, "find") /\ UNCHANGED <<sent, callbacks, live, installed, faults, rows>>
    BY <1>15 DEF MarkCallbackSeen
  <2>2. pending' = [pending EXCEPT ![Org(r)].status = IF @ = "issued" THEN "seen" ELSE @]
    BY <1>15 DEF MarkCallbackSeen
  <2>3. \A o \in Orgs : (Valid(o)' => Valid(o)) /\ (pending[o].status # "none" => pending'[o].status # "none")
    <3>1. pending \in [Orgs -> Pendings]
      BY DEF TypeOK, DataTypeOK
    <3>2. ASSUME NEW o \in Orgs
          PROVE pending'[o].status = IF o = Org(r)
                /\ pending[o].status = "issued" THEN "seen" ELSE pending[o].status
      BY <2>2, <3>1 DEF Pendings
    <3> QED BY <3>2 DEF Valid
  <2>4. reqs'[r].pc = "find" /\ reqs'[r].kind = Kind(r) /\ reqs'[r].inst = Inst(r) /\ reqs'[r].org = Org(r)
    BY <2>1, GoesOn
  <2>5. \A c \in sent : Answering(r, c) => Answering(r, c)'
    BY <2>4 DEF Answering, Kind, Inst, Org
  <2>6. \A q \in Slots : q # r => reqs'[q] = reqs[q]
    BY <2>1, GoesOn
  <2> QED BY <2>1, <2>3, <2>5, <2>6, LinkKept DEF Linked
<1>16. ASSUME NEW r \in Slots, GetInstallationByID(r) PROVE LinkInv'
  <2>1. UNCHANGED <<sent, callbacks, live, installed, faults, pending, rows>>
    BY <1>16 DEF GetInstallationByID
  <2>2. (live = Inst(r) => Go(r, "create")) /\ \E to : Go(r, to)
    BY <1>16 DEF GetInstallationByID
  <2>3. \A q \in Slots : q # r => reqs'[q] = reqs[q]
    BY <2>2, GoesOn
  <2>4. Go(r, "create") => reqs'[r].pc = "create" /\ reqs'[r].kind = Kind(r) /\ reqs'[r].inst = Inst(r)
            /\ reqs'[r].org = Org(r)
    BY GoesOn
  <2>5. \A c \in sent : Answering(r, c) /\ live = c[2] => Answering(r, c)'
    BY <2>2, <2>4 DEF Answering, Kind, Inst, Org
  <2> QED BY <2>1, <2>3, <2>5, LinkKept DEF Valid, Linked
<1>17. ASSUME NEW r \in Slots, CreateInstallation(r) PROVE LinkInv'
  <2>1. UNCHANGED <<sent, callbacks, live, installed, faults, pending>> /\ At(r, "create")
    BY <1>17 DEF CreateInstallation
  <2>2. Inst(r) \in Installations
    BY <2>1, RowIdType DEF At
  <2>3. \/ rows' = rows /\ Linked(Inst(r))
        \/ \E id \in Fresh : rows' = [rows EXCEPT ![Inst(r)] = [id |-> id, org |-> Org(r)]]
    BY <1>17, Zenon DEF CreateInstallation
  <2>4. rows'[Inst(r)] # NoRow /\ \A i \in Installations : Linked(i) => Linked(i)'
    <3>1. CASE rows' = rows /\ Linked(Inst(r))
      BY <3>1 DEF Linked
    <3>2. ASSUME NEW id \in Fresh, rows' = [rows EXCEPT ![Inst(r)] = [id |-> id, org |-> Org(r)]]
          PROVE  rows'[Inst(r)] # NoRow /\ \A i \in Installations : Linked(i) => Linked(i)'
      BY <2>2, <3>2 DEF Linked, Fresh, Ids, NoRow, Nobody, TypeOK, DataTypeOK
    <3> QED BY <2>3, <3>1, <3>2
  <2>5. \A q \in Slots : q # r => reqs'[q] = reqs[q]
    <3>1. ASSUME NEW id, reqs' = [reqs EXCEPT ![r].row = id, ![r].pc = "use"]
          PROVE  \A q \in Slots : q # r => reqs'[q] = reqs[q]
      BY <3>1 DEF TypeOK
    <3>2. ASSUME NEW to, Go(r, to) PROVE \A q \in Slots : q # r => reqs'[q] = reqs[q]
      BY <3>2, GoesOn
    <3>3. ASSUME NEW id, Sync(r, id) PROVE \A q \in Slots : q # r => reqs'[q] = reqs[q]
      BY <3>3, Syncs
    <3> QED BY <1>17, <3>1, <3>2, <3>3, Outcomes
  <2>6. \A c \in sent : Answering(r, c) => Linked(c[2])'
    BY <2>4 DEF Answering, Linked
  <2> QED BY <2>1, <2>4, <2>5, <2>6, LinkKept DEF Valid
<1>18. ASSUME NEW r \in Slots, TakeExisting(r) PROVE LinkInv'
  <2>1. ~Answers(r)
    BY <1>18 DEF TakeExisting, Answers
  <2>2. UNCHANGED <<sent, callbacks, live, installed, faults, pending, rows>>
    BY <1>18 DEF TakeExisting
  <2>3. \A q \in Slots : q # r => reqs'[q] = reqs[q]
    BY <1>18, GoesOn, Syncs, Zenon DEF TakeExisting
  <2> QED BY <2>1, <2>2, <2>3, OtherKept DEF Valid, Linked
<1>19. ASSUME NEW r \in Slots, MarkUsed(r) PROVE LinkInv'
  <2>1. ~Answers(r) /\ Sync(r, reqs[r].row) /\ UNCHANGED <<sent, callbacks, live, installed, faults, rows>>
    BY <1>19 DEF MarkUsed, Answers
  <2>2. pending' = [pending EXCEPT ![Org(r)] = IF Valid(Org(r)) THEN Pending(0, "used") ELSE @]
    BY <1>19 DEF MarkUsed
  <2>3. \A o \in Orgs : (Valid(o)' => Valid(o)) /\ (pending[o].status # "none" => pending'[o].status # "none")
    <3>1. pending \in [Orgs -> Pendings]
      BY DEF TypeOK, DataTypeOK
    <3> QED BY <2>2, <3>1 DEF Valid, Pending
  <2>4. \A q \in Slots : q # r => reqs'[q] = reqs[q]
    BY <2>1, Syncs
  <2> QED BY <2>1, <2>3, <2>4, OtherKept DEF Linked
<1>20. ASSUME NEW r \in Slots, DeleteByInstallationID(r) PROVE LinkInv'
  <2>1. ~Answers(r)
    BY <1>20 DEF DeleteByInstallationID, Answers
  <2>2. UNCHANGED <<sent, callbacks, live, installed, faults, pending, rows>>
    BY <1>20 DEF DeleteByInstallationID
  <2>3. \A q \in Slots : q # r => reqs'[q] = reqs[q]
    <3>1. \E to : Go(r, to)
      BY <1>20, Zenon DEF DeleteByInstallationID
    <3> QED BY <3>1, GoesOn
  <2> QED BY <2>1, <2>2, <2>3, OtherKept DEF Valid, Linked
<1>21. ASSUME NEW r \in Slots, DeleteInstallation(r) PROVE LinkInv'
  <2>1. ~Answers(r) /\ Go(r, "done") /\ UNCHANGED <<sent, callbacks, live, installed, faults, pending>>
    BY <1>21 DEF DeleteInstallation, Answers
  <2>2. Inst(r) # live
    BY <1>21 DEF DeleteInstallation, EndInv, Ended
  <2>3. rows' = [rows EXCEPT ![Inst(r)] = IF @.id = reqs[r].row THEN NoRow ELSE @]
    BY <1>21 DEF DeleteInstallation
  <2>4. \A i \in Installations : i = live => rows'[i] = rows[i]
    BY <2>2, <2>3 DEF TypeOK, DataTypeOK
  <2>5. \A q \in Slots : q # r => reqs'[q] = reqs[q]
    BY <2>1, GoesOn
  <2> QED BY <2>1, <2>4, <2>5, OtherKept DEF Linked, Valid
<1>22. ASSUME NEW r \in Slots, GetByOrgID(r) PROVE LinkInv'
  <2>1. ~Answers(r)
    BY <1>22 DEF GetByOrgID, Answers
  <2>2. UNCHANGED <<sent, callbacks, live, installed, faults, pending, rows>>
    BY <1>22 DEF GetByOrgID
  <2>3. \A q \in Slots : q # r => reqs'[q] = reqs[q]
    <3>1. ASSUME NEW g, reqs' = [reqs EXCEPT ![r] = g]
          PROVE  \A q \in Slots : q # r => reqs'[q] = reqs[q]
      BY <3>1 DEF TypeOK
    <3> QED BY <1>22, <3>1, GoesOn, Zenon DEF GetByOrgID
  <2> QED BY <2>1, <2>2, <2>3, OtherKept DEF Valid, Linked
<1>23. ASSUME NEW r \in Slots, ListAppInstallations(r) PROVE LinkInv'
  <2>1. ~Answers(r)
    BY <1>23 DEF ListAppInstallations, Answers
  <2>2. UNCHANGED <<sent, callbacks, live, installed, faults, pending, rows>>
    BY <1>23 DEF ListAppInstallations
  <2>3. \A q \in Slots : q # r => reqs'[q] = reqs[q]
    <3>1. CASE Go(r, "done")
      BY <3>1, GoesOn
    <3>2. CASE reqs' = [reqs EXCEPT ![r].inst = live, ![r].pc = "find"]
      BY <3>2 DEF TypeOK
    <3> QED BY <1>23, <3>1, <3>2 DEF ListAppInstallations
  <2> QED BY <2>1, <2>2, <2>3, OtherKept DEF Valid, Linked
<1>24. ASSUME NEW r \in Slots, GetInstallationToken(r) PROVE LinkInv'
  <2>1. ~Answers(r)
    BY <1>24 DEF GetInstallationToken, Answers
  <2>2. UNCHANGED <<sent, callbacks, live, installed, faults, pending, rows>>
    BY <1>24 DEF GetInstallationToken
  <2>3. \A q \in Slots : q # r => reqs'[q] = reqs[q]
    <3>1. \E to : Go(r, to)
      BY <1>24, Zenon DEF GetInstallationToken
    <3> QED BY <3>1, GoesOn
  <2> QED BY <2>1, <2>2, <2>3, OtherKept DEF Valid, Linked
<1>25. ASSUME NEW r \in Slots, ListInstallationRepos(r) PROVE LinkInv'
  <2>1. ~Answers(r)
    BY <1>25 DEF ListInstallationRepos, Answers
  <2>2. UNCHANGED <<sent, callbacks, live, installed, faults, pending, rows>>
    BY <1>25 DEF ListInstallationRepos
  <2>3. \A q \in Slots : q # r => reqs'[q] = reqs[q]
    <3>1. \E to : Go(r, to)
      BY <1>25, Zenon DEF ListInstallationRepos
    <3> QED BY <3>1, GoesOn
  <2> QED BY <2>1, <2>2, <2>3, OtherKept DEF Valid, Linked
<1>26. ASSUME NEW r \in Slots, GetByGitHubRepoID(r) PROVE LinkInv'
  <2>1. ~Answers(r)
    BY <1>26 DEF GetByGitHubRepoID, Answers
  <2>2. UNCHANGED <<sent, callbacks, live, installed, faults, pending, rows>>
    BY <1>26 DEF GetByGitHubRepoID
  <2>3. \A q \in Slots : q # r => reqs'[q] = reqs[q]
    <3>1. \E to : Go(r, to)
      BY <1>26, Zenon DEF GetByGitHubRepoID
    <3> QED BY <3>1, GoesOn
  <2> QED BY <2>1, <2>2, <2>3, OtherKept DEF Valid, Linked
<1>27. ASSUME NEW r \in Slots, CreateRepo(r) PROVE LinkInv'
  <2>1. ~Answers(r)
    BY <1>27 DEF CreateRepo, Answers
  <2>2. UNCHANGED <<sent, callbacks, live, installed, faults, pending, rows>>
    BY <1>27 DEF CreateRepo
  <2>3. \A q \in Slots : q # r => reqs'[q] = reqs[q]
    <3>1. \E to : Go(r, to)
      BY <1>27, Zenon DEF CreateRepo
    <3> QED BY <3>1, GoesOn
  <2> QED BY <2>1, <2>2, <2>3, OtherKept DEF Valid, Linked
<1>28. ASSUME NEW r \in Slots, Fail(r) PROVE LinkInv'
  <2>1. UNCHANGED <<sent, installed, pending>> /\ faults' = faults + 1 /\ faults \in Nat
    BY <1>28, BoundsAssumption DEF Fail, TypeOK, DataTypeOK
  <2> QED BY <2>1 DEF LinkInv
<1>29. CASE UNCHANGED vars
  BY <1>29 DEF vars, LinkInv, Valid, Linked, Answering, Kind, Inst, Org
<1> QED BY <1>1, <1>2, <1>3, <1>4, <1>5, <1>6, <1>7, <1>8, <1>9, <1>10, <1>11, <1>12,
           <1>13, <1>14, <1>15, <1>16, <1>17, <1>18, <1>19, <1>20, <1>21, <1>22, <1>23,
           <1>24, <1>25, <1>26, <1>27, <1>28, <1>29 DEF Next, Proceed

(* What a step of one request needs to keep of the lists under way.        *)
LEMMA SyncKept ==
  ASSUME TypeOK, SlotInv, SyncInv, NEW r \in Slots,
         UNCHANGED <<live, installed, events>>, callbacks' \subseteq callbacks,
         \A i \in Installations : rows'[i] # NoRow => i <= installed /\ rows'[i].id # Nobody,
         \A i \in Installations : i = live /\ rows[i] # NoRow => rows'[i] = rows[i],
         \A q \in Slots : q # r => reqs'[q] = reqs[q],
         reqs'[r].inst <= installed, reqs'[r].pc = "org" => reqs'[r].org # NoOrg,
         reqs'[r].pc \in Syncing /\ reqs'[r].inst = live =>
           rows'[live] # NoRow /\ rows'[live].id = reqs'[r].row
  PROVE  SyncInv'
<1>1. ASSUME NEW q \in Slots, q # r 
     PROVE  Inst(q)' <= installed /\ (reqs'[q].pc = "org" => Org(q)' # NoOrg) /\ Carries(q)'
  <2>1. Inst(q) <= installed /\ (reqs[q].pc = "org" => Org(q) # NoOrg) /\ Carries(q) /\ reqs'[q] = reqs[q]
    BY <1>1 DEF SyncInv
  <2>2. reqs[q].pc \in Syncing => Inst(q) \in Installations
    BY DEF SlotInv, Syncing
  <2> QED BY <2>1, <2>2 DEF Carries, Linked, Inst, Org
<1>2. Inst(r)' <= installed /\ (reqs'[r].pc = "org" => Org(r)' # NoOrg) /\ Carries(r)'
  BY DEF Carries, Linked, Inst, Org
<1>3. \A i \in Installations : Linked(i)' => i <= installed /\ rows'[i].id # Nobody
  BY DEF Linked
<1>4. live' <= installed' /\ (\A e \in events' : e[2] <= installed') /\ \A c \in callbacks' : c[2] <= installed'
  BY DEF SyncInv
<1> QED BY <1>1, <1>2, <1>3, <1>4 DEF SyncInv

(* A request that goes on as it is, or as the goroutine of a row.          *)
LEMMA GoKeepsSync ==
  ASSUME TypeOK, SlotInv, SyncInv, NEW r \in Slots, NEW to, Go(r, to),
         to # "org", to \in Syncing => reqs[r].pc \in Syncing,
         UNCHANGED <<live, installed, events, rows>>, callbacks' \subseteq callbacks
  PROVE  SyncInv'
<1>1. Over.inst = 0 /\ Over.pc = "done" /\ 0 <= installed
  BY BoundsAssumption DEF Over, Request, Nobody, TypeOK, DataTypeOK
<1>2. reqs'[r].inst <= installed /\ reqs'[r].pc # "org"
  BY <1>1, GoesOn DEF SyncInv, Inst
<1>3. reqs'[r].pc \in Syncing =>
        reqs[r].pc \in Syncing /\ reqs'[r].inst = reqs[r].inst /\ reqs'[r].row = reqs[r].row
  BY <1>1, GoesOn DEF Syncing, Inst
<1>4. reqs'[r].pc \in Syncing /\ reqs'[r].inst = live =>
        rows'[live] # NoRow /\ rows'[live].id = reqs'[r].row
  BY <1>3 DEF SyncInv, Carries, Linked, Inst
<1>5. \A i \in Installations : rows'[i] # NoRow => i <= installed /\ rows'[i].id # Nobody
  BY DEF SyncInv, Linked
<1>6. \A q \in Slots : q # r => reqs'[q] = reqs[q]
  BY GoesOn
<1> QED BY <1>2, <1>4, <1>5, <1>6, SyncKept

LEMMA SyncKeepsSync ==
  ASSUME TypeOK, SlotInv, SyncInv, NEW r \in Slots, NEW id, Sync(r, id),
         Inst(r) = live => Linked(live) /\ rows[live].id = id,
         UNCHANGED <<live, installed, events, rows, callbacks>>
  PROVE  SyncInv'
<1>1. reqs'[r].inst = Inst(r) /\ reqs'[r].row = id /\ reqs'[r].pc = "token"
  <2>1. reqs'[r] = [kind |-> "sync", inst |-> Inst(r), org |-> NoOrg, pc |-> "token", row |-> id,
            again |-> "no"]
    BY Syncs
  <2> QED BY <2>1
<1>5. \A q \in Slots : q # r => reqs'[q] = reqs[q]
  BY Syncs
<1>2. reqs'[r].inst <= installed
  BY <1>1 DEF SyncInv
<1>3. reqs'[r].inst = live => rows'[live] # NoRow /\ rows'[live].id = reqs'[r].row
  BY <1>1 DEF Linked
<1>4. \A i \in Installations : rows'[i] # NoRow => i <= installed /\ rows'[i].id # Nobody
  BY DEF SyncInv, Linked
<1> QED BY <1>1, <1>2, <1>3, <1>4, <1>5, SyncKept

(* A request that starts has no row yet.                                   *)
LEMMA StartKeepsSync ==
  ASSUME TypeOK, SlotInv, SyncInv, NEW request, Start(request),
         request.inst <= installed, request.pc \notin Syncing, request.pc = "org" => request.org # NoOrg,
         UNCHANGED <<live, installed, events, rows>>, callbacks' \subseteq callbacks
  PROVE  SyncInv'
<1>1. PICK s \in Slots : reqs' = [reqs EXCEPT ![s] = request]
  BY DEF Start, Free
<1>2. reqs'[s] = request /\ \A q \in Slots : q # s => reqs'[q] = reqs[q]
  BY <1>1 DEF TypeOK
<1>3. \A i \in Installations : rows'[i] # NoRow => i <= installed /\ rows'[i].id # Nobody
  BY DEF SyncInv, Linked
<1> QED BY <1>2, <1>3, SyncKept

(* A statement that fails leads to no list but from the look-up.           *)
LEMMA FailureLists ==
  \A r \in Slots : OnFailure(r) # "org" /\ (OnFailure(r) \in Syncing => reqs[r].pc \in Syncing)
  BY DEF OnFailure, Syncing, At

(* A step keeps the ids that the lists under way carry.                    *)
LEMMA SyncStep == TypeOK /\ SlotInv /\ EndInv /\ SyncInv /\ [Next]_vars => SyncInv'
<1> SUFFICES ASSUME TypeOK /\ SlotInv /\ EndInv /\ SyncInv, [Next]_vars PROVE SyncInv'
  OBVIOUS
<1> USE DEF githubVars, historyVars
<1>0. /\ "done" \notin Syncing /\ installed \in Nat /\ 0 <= installed
      /\ \A r \in Slots : reqs[r].pc \in Syncing => Inst(r) \in Installations
      /\ \A i \in Installations : i \in Nat /\ i # 0
  BY BoundsAssumption DEF Syncing, TypeOK, DataTypeOK, SlotInv, Installations
<1>1. ASSUME NEW o \in Orgs, GetInstallURL(o) \/ Expire(o) PROVE SyncInv'
  BY <1>1 DEF GetInstallURL, Expire, SyncInv, Carries, Linked, Inst, Org
<1>3. ASSUME NEW o \in Orgs, Install(o) PROVE SyncInv'
  <2>1. /\ live' = installed + 1 /\ installed' = installed + 1 /\ UNCHANGED <<rows, reqs>>
        /\ events' = events \cup {<<"created", installed + 1>>}
        /\ callbacks' = callbacks \cup {<<o, installed + 1>>}
    BY <1>3 DEF Install
  <2>2. \A r \in Slots : Inst(r) <= installed /\ Inst(r) \in Nat
    BY <1>0, BoundsAssumption DEF SyncInv, TypeOK, Reqs, Inst, Installations, Nobody
  <2>3. \A r \in Slots : Inst(r)' = Inst(r)
    BY <2>1 DEF Inst
  <2>4. \A r \in Slots : Inst(r)' <= installed' /\ Carries(r)'
    BY <1>0, <2>1, <2>2, <2>3 DEF Carries
  <2>11. \A r \in Slots : reqs'[r].pc = "org" => Org(r)' # NoOrg
    BY <2>1 DEF SyncInv, Org
  <2>5. \A e \in events : e[2] <= installed /\ e[2] \in Nat
    BY <1>0 DEF SyncInv, TypeOK, DataTypeOK, Events
  <2>6. \A e \in events' : e[2] <= installed'
    BY <1>0, <2>1, <2>5
  <2>7. \A c \in callbacks : c[2] <= installed /\ c[2] \in Nat
    BY <1>0 DEF SyncInv, TypeOK, DataTypeOK
  <2>8. \A c \in callbacks' : c[2] <= installed'
    BY <1>0, <2>1, <2>7
  <2>9. \A i \in Installations : Linked(i)' => i <= installed' /\ rows'[i].id # Nobody
    BY <1>0, <2>1 DEF SyncInv, Linked
  <2>10. live' <= installed'
    BY <1>0, <2>1
  <2> QED BY <2>4, <2>6, <2>8, <2>9, <2>10, <2>11 DEF SyncInv
<1>4. ASSUME NEW o \in Orgs, SyncRepos(o) PROVE SyncInv'
  <2> DEFINE request == Request("button", Nobody, o, "org")
  <2>1. request.inst = 0 /\ request.pc = "org" /\ request.org # NoOrg
    BY OrgsAssumption DEF Request, Nobody
  <2>2. Start(request) /\ UNCHANGED <<live, installed, events, rows, callbacks>>
    BY <1>4 DEF SyncRepos
  <2> HIDE DEF request
  <2>3. "org" \notin Syncing
    BY DEF Syncing
  <2> QED BY <1>0, <2>1, <2>2, <2>3, StartKeepsSync
<1>5. CASE Uninstall
  <2>1. /\ live' = 0 /\ installed' = installed /\ UNCHANGED <<rows, reqs, callbacks>>
        /\ events' = events \cup {<<"deleted", live>>}
    BY <1>5 DEF Uninstall, Nobody
  <2>2. \A r \in Slots : Inst(r)' <= installed' /\ Carries(r)'
    BY <1>0, <2>1 DEF SyncInv, Carries, Inst
  <2>3. \A i \in Installations : Linked(i)' => i <= installed' /\ rows'[i].id # Nobody
    BY <2>1 DEF SyncInv, Linked
  <2>4. \A r \in Slots : reqs'[r].pc = "org" => Org(r)' # NoOrg
    BY <2>1 DEF SyncInv, Org
  <2>5. \A e \in events' : e[2] <= installed'
    BY <2>1 DEF SyncInv
  <2>6. live' <= installed' /\ \A c \in callbacks' : c[2] <= installed'
    BY <1>0, <2>1 DEF SyncInv
  <2> QED BY <2>2, <2>3, <2>4, <2>5, <2>6 DEF SyncInv
<1>6. CASE ChangeRepositories
  BY <1>6 DEF ChangeRepositories, SyncInv, Carries, Linked, Inst, Org
<1>7. ASSUME NEW e \in Events, Deliver(e) PROVE SyncInv'
  <2> DEFINE request == [Request(e[1], e[2], NoOrg, "check") EXCEPT !.again = IF e \in handled THEN "yes" ELSE "no"]
  <2>1. request.inst = e[2] /\ request.pc = "check" /\ e[2] <= installed
    BY <1>7 DEF Deliver, Request, SyncInv
  <2>2. Start(request) /\ UNCHANGED <<live, installed, events, rows, callbacks>>
    BY <1>7 DEF Deliver
  <2> HIDE DEF request
  <2>3. "check" \notin Syncing
    BY DEF Syncing
  <2> QED BY <2>1, <2>2, <2>3, StartKeepsSync
<1>8. ASSUME NEW c \in callbacks, InstallCallback(c) PROVE SyncInv'
  <2> DEFINE request == Request("callback", c[2], c[1], "validate")
  <2>1. request.inst = c[2] /\ request.pc = "validate" /\ c[2] <= installed
    BY <1>8 DEF Request, SyncInv
  <2>2. Start(request) /\ UNCHANGED <<live, installed, events, rows>> /\ callbacks' \subseteq callbacks
    BY <1>8 DEF InstallCallback
  <2> HIDE DEF request
  <2>3. "validate" \notin Syncing
    BY DEF Syncing
  <2> QED BY <2>1, <2>2, <2>3, StartKeepsSync
<1>9. ASSUME NEW o \in Orgs, NEW i \in Installations, LinkInstallation(o, i) PROVE SyncInv'
  <2> DEFINE request == Request("link", i, o, "find")
  <2>1. request.inst = i /\ request.pc = "find" /\ i <= installed
    BY <1>9 DEF Request, LinkInstallation
  <2>2. Start(request) /\ UNCHANGED <<live, installed, events, rows, callbacks>>
    BY <1>9 DEF LinkInstallation
  <2> HIDE DEF request
  <2>3. "find" \notin Syncing
    BY DEF Syncing
  <2> QED BY <2>1, <2>2, <2>3, StartKeepsSync
<1>10. ASSUME NEW r \in Slots, IsDeliveryProcessed(r) PROVE SyncInv'
  <2>1. PICK to : Go(r, to) /\ to \notin Syncing /\ to # "org"
    <3>1. Go(r, "done") \/ Go(r, "record")
      BY <1>10 DEF IsDeliveryProcessed
    <3> QED BY <3>1 DEF Syncing
  <2>2. UNCHANGED <<live, installed, events, rows, callbacks>>
    BY <1>10 DEF IsDeliveryProcessed
  <2> QED BY <2>1, <2>2, GoKeepsSync
<1>11. ASSUME NEW r \in Slots, RecordDelivery(r) PROVE SyncInv'
  <2>1. reqs'[r].inst = reqs[r].inst /\ reqs'[r].pc = "find" /\ \A q \in Slots : q # r => reqs'[q] = reqs[q]
    BY <1>11 DEF RecordDelivery, TypeOK, Reqs
  <2>2. UNCHANGED <<live, installed, events, rows, callbacks>>
    BY <1>11 DEF RecordDelivery
  <2>3. \A i \in Installations : rows'[i] # NoRow => i <= installed /\ rows'[i].id # Nobody
    BY <2>2 DEF SyncInv, Linked
  <2>4. reqs'[r].inst <= installed /\ reqs'[r].pc \notin Syncing
    BY <2>1 DEF SyncInv, Inst, Syncing
  <2> QED BY <2>1, <2>2, <2>3, <2>4, SyncKept
<1>12. ASSUME NEW r \in Slots, Find(r) PROVE SyncInv'
  <2>1. UNCHANGED <<live, installed, events, rows, callbacks>> /\ reqs[r].pc = "find"
    BY <1>12 DEF Find, At
  <2>2. Inst(r) \in Installations /\ Inst(r) <= installed
    BY <2>1 DEF SlotInv, SyncInv
  <2>3. CASE Linked(Inst(r)) /\ Sync(r, rows[Inst(r)].id)
    BY <2>1, <2>3, SyncKeepsSync
  <2>4. CASE reqs' = [reqs EXCEPT ![r].pc = "repos", ![r].row = rows[Inst(r)].id]
    <3>1. reqs'[r].inst = Inst(r) /\ reqs'[r].pc = "repos" /\ \A q \in Slots : q # r => reqs'[q] = reqs[q]
      BY <2>4 DEF TypeOK, Reqs, Inst
    <3>2. \A i \in Installations : rows'[i] # NoRow => i <= installed /\ rows'[i].id # Nobody
      BY <2>1 DEF SyncInv, Linked
    <3>3. "repos" \notin Syncing
      BY DEF Syncing
    <3> QED BY <2>1, <2>2, <3>1, <3>2, <3>3, SyncKept
  <2>5. CASE Go(r, "done")
    BY <1>0, <2>1, <2>5, GoKeepsSync
  <2>6. CASE Go(r, OnFailure(r))
    BY <2>1, <2>6, FailureLists, GoKeepsSync
  <2> QED BY <1>12, <2>3, <2>4, <2>5, <2>6, Zenon DEF Find
<1>13. ASSUME NEW r \in Slots, GetByCallbackSeen(r) PROVE SyncInv'
  <2>1. UNCHANGED <<live, installed, events, rows, callbacks>> /\ reqs[r].pc = "correlate"
    BY <1>13 DEF GetByCallbackSeen, At
  <2>2. CASE Go(r, "done")
    BY <1>0, <2>1, <2>2, GoKeepsSync
  <2>3. ASSUME NEW o, reqs' = [reqs EXCEPT ![r].pc = "create", ![r].org = o] PROVE SyncInv'
    <3>1. reqs'[r].inst = Inst(r) /\ reqs'[r].pc = "create" /\ \A q \in Slots : q # r => reqs'[q] = reqs[q]
      BY <2>3 DEF TypeOK, Reqs, Inst
    <3>2. \A i \in Installations : rows'[i] # NoRow => i <= installed /\ rows'[i].id # Nobody
      BY <2>1 DEF SyncInv, Linked
    <3>3. "create" \notin Syncing /\ Inst(r) <= installed
      BY DEF Syncing, SyncInv
    <3> QED BY <2>1, <3>1, <3>2, <3>3, SyncKept
  <2> QED BY <1>13, <2>2, <2>3, Outcomes
<1>14. ASSUME NEW r \in Slots, ValidatePendingInstall(r) \/ GetInstallationByID(r) PROVE SyncInv'
  <2>1. PICK to : Go(r, to) /\ to \notin Syncing /\ to # "org"
    <3>1. Go(r, "done") \/ Go(r, "seen") \/ Go(r, "create")
      BY <1>14 DEF ValidatePendingInstall, GetInstallationByID
    <3> QED BY <3>1 DEF Syncing
  <2>2. UNCHANGED <<live, installed, events, rows, callbacks>>
    BY <1>14 DEF ValidatePendingInstall, GetInstallationByID
  <2> QED BY <2>1, <2>2, GoKeepsSync
<1>15. ASSUME NEW r \in Slots, MarkCallbackSeen(r) \/ DeleteByInstallationID(r) PROVE SyncInv'
  <2>1. PICK to : Go(r, to) /\ to \notin Syncing /\ to # "org"
    <3>1. Go(r, "find") \/ Go(r, "remove")
      BY <1>15 DEF MarkCallbackSeen, DeleteByInstallationID
    <3> QED BY <3>1 DEF Syncing
  <2>2. UNCHANGED <<live, installed, events, rows, callbacks>>
    BY <1>15 DEF MarkCallbackSeen, DeleteByInstallationID
  <2> QED BY <2>1, <2>2, GoKeepsSync
<1>17. ASSUME NEW r \in Slots, CreateInstallation(r) PROVE SyncInv'
  <2>1. UNCHANGED <<live, installed, events, callbacks>> /\ reqs[r].pc = "create"
    BY <1>17 DEF CreateInstallation, At
  <2>2. Inst(r) \in Installations /\ Inst(r) <= installed
    BY <2>1 DEF SlotInv, SyncInv
  <2>3. ASSUME NEW id \in Fresh, rows' = [rows EXCEPT ![Inst(r)] = [id |-> id, org |-> Org(r)]], ~Linked(Inst(r)),
               Go(r, "done") \/ Sync(r, id) \/ reqs' = [reqs EXCEPT ![r].row = id, ![r].pc = "use"]
        PROVE  SyncInv'
    <3>1. id # Nobody
      BY <2>3 DEF Fresh, Ids, Nobody
    <3>2. rows'[Inst(r)] = [id |-> id, org |-> Org(r)] /\ \A i \in Installations : i # Inst(r) => rows'[i] = rows[i]
      BY <2>2, <2>3 DEF TypeOK, DataTypeOK
    <3>3. rows'[Inst(r)].id = id /\ rows'[Inst(r)] # NoRow
      BY <3>1, <3>2 DEF NoRow
    <3>4. \A i \in Installations : rows'[i] # NoRow => i <= installed /\ rows'[i].id # Nobody
      BY <2>2, <3>1, <3>2, <3>3 DEF SyncInv, Linked
    <3>5. \A i \in Installations : i = live /\ rows[i] # NoRow => rows'[i] = rows[i]
      BY <2>3, <3>2 DEF Linked
    <3>6. /\ \A q \in Slots : q # r => reqs'[q] = reqs[q]
          /\ reqs'[r].inst <= installed
          /\ reqs'[r].pc # "org"
          /\ reqs'[r].pc \in Syncing => reqs'[r].inst = Inst(r) /\ reqs'[r].row = id
      <4>1. CASE Go(r, "done")
        <5>1. Over.inst = 0 /\ Over.pc = "done"
          BY DEF Over, Request, Nobody
        <5> QED BY <1>0, <4>1, <5>1, GoesOn
      <4>2. CASE Sync(r, id)
        <5>1. reqs'[r] = [kind |-> "sync", inst |-> Inst(r), org |-> NoOrg, pc |-> "token", row |-> id,
                  again |-> "no"]
          BY <4>2, Syncs
        <5> QED BY <2>2, <4>2, <5>1, Syncs
      <4>3. CASE reqs' = [reqs EXCEPT ![r].row = id, ![r].pc = "use"]
        BY <2>2, <4>3 DEF TypeOK, Reqs, Inst
      <4> QED BY <2>3, <4>1, <4>2, <4>3
    <3> QED BY <2>1, <3>3, <3>4, <3>5, <3>6, SyncKept
  <2>4. CASE rows' = rows /\ Go(r, OnFailure(r))
    BY <2>1, <2>4, FailureLists, GoKeepsSync
  <2> QED BY <1>17, <2>3, <2>4, Zenon DEF CreateInstallation
<1>18. ASSUME NEW r \in Slots, TakeExisting(r) PROVE SyncInv'
  <2>1. UNCHANGED <<live, installed, events, rows, callbacks>>
    BY <1>18 DEF TakeExisting
  <2>2. CASE Linked(Inst(r)) /\ Sync(r, rows[Inst(r)].id)
    BY <2>1, <2>2, SyncKeepsSync
  <2>3. CASE Go(r, "done")
    BY <1>0, <2>1, <2>3, GoKeepsSync
  <2> QED BY <1>18, <2>2, <2>3 DEF TakeExisting
<1>19. ASSUME NEW r \in Slots, MarkUsed(r) PROVE SyncInv'
  <2>1. UNCHANGED <<live, installed, events, rows, callbacks>> /\ reqs[r].pc = "use" /\ Sync(r, reqs[r].row)
    BY <1>19 DEF MarkUsed, At
  <2>2. Inst(r) = live => Linked(live) /\ rows[live].id = reqs[r].row
    BY <2>1 DEF SyncInv, Carries, Syncing
  <2> QED BY <2>1, <2>2, SyncKeepsSync
<1>21. ASSUME NEW r \in Slots, DeleteInstallation(r) PROVE SyncInv'
  <2>1. UNCHANGED <<live, installed, events, callbacks>> /\ Go(r, "done") /\ reqs[r].pc = "remove"
    BY <1>21 DEF DeleteInstallation, At
  <2>2. rows' = [rows EXCEPT ![Inst(r)] = IF @.id = reqs[r].row THEN NoRow ELSE @]
    BY <1>21 DEF DeleteInstallation
  <2>3. Inst(r) # live
    BY <2>1 DEF EndInv, Ended
  <2>4. \A i \in Installations : rows'[i] = rows[i] \/ rows'[i] = NoRow
    BY <2>2 DEF TypeOK, DataTypeOK
  <2>5. \A i \in Installations : i = live => rows'[i] = rows[i]
    BY <2>2, <2>3 DEF TypeOK, DataTypeOK
  <2>6. \A i \in Installations : rows'[i] # NoRow => i <= installed /\ rows'[i].id # Nobody
    BY <2>4 DEF SyncInv, Linked
  <2>7. reqs'[r].inst = 0 /\ reqs'[r].pc = "done" /\ \A q \in Slots : q # r => reqs'[q] = reqs[q]
    BY <2>1, GoesOn DEF Over, Request, Nobody
  <2> QED BY <1>0, <2>1, <2>5, <2>6, <2>7, SyncKept
<1>22. ASSUME NEW r \in Slots, GetByOrgID(r) PROVE SyncInv'
  <2>1. UNCHANGED <<live, installed, events, rows, callbacks>>
    BY <1>22 DEF GetByOrgID
  <2>2. ASSUME NEW i \in Installations, rows[i].org = Org(r), reqs' = [reqs EXCEPT ![r] = Goroutine(i, rows[i].id)]
        PROVE  SyncInv'
    <3>1. /\ reqs'[r].inst = i /\ reqs'[r].row = rows[i].id /\ reqs'[r].pc = "token"
          /\ \A q \in Slots : q # r => reqs'[q] = reqs[q]
      BY <2>2 DEF TypeOK, Goroutine, Request
    <3>2. Linked(i)
      <4>1. reqs[r].pc = "org"
        BY <1>22 DEF GetByOrgID, At
      <4> QED BY <2>2, <4>1 DEF SyncInv, Linked, NoRow
    <3>3. \A j \in Installations : rows'[j] # NoRow => j <= installed /\ rows'[j].id # Nobody
      BY <2>1 DEF SyncInv, Linked
    <3>4. i <= installed /\ rows[i] # NoRow
      BY <3>2 DEF SyncInv, Linked
    <3> QED BY <2>1, <3>1, <3>3, <3>4, SyncKept
  <2>3. CASE Go(r, "list")
    <3>1. "list" \notin Syncing
      BY DEF Syncing
    <3> QED BY <2>1, <2>3, <3>1, GoKeepsSync
  <2> QED BY <1>22, <2>2, <2>3, Zenon DEF GetByOrgID
<1>23. ASSUME NEW r \in Slots, ListAppInstallations(r) PROVE SyncInv'
  <2>1. UNCHANGED <<live, installed, events, rows, callbacks>>
    BY <1>23 DEF ListAppInstallations
  <2>2. CASE Go(r, "done")
    BY <1>0, <2>1, <2>2, GoKeepsSync
  <2>3. CASE reqs' = [reqs EXCEPT ![r].inst = live, ![r].pc = "find"]
    <3>1. reqs'[r].inst = live /\ reqs'[r].pc = "find" /\ \A q \in Slots : q # r => reqs'[q] = reqs[q]
      BY <2>3 DEF TypeOK, Reqs
    <3>2. \A i \in Installations : rows'[i] # NoRow => i <= installed /\ rows'[i].id # Nobody
      BY <2>1 DEF SyncInv, Linked
    <3>3. "find" \notin Syncing /\ live <= installed
      BY DEF Syncing, SyncInv
    <3> QED BY <2>1, <3>1, <3>2, <3>3, SyncKept
  <2> QED BY <1>23, <2>2, <2>3 DEF ListAppInstallations
<1>24. ASSUME NEW r \in Slots,
              GetInstallationToken(r) \/ ListInstallationRepos(r) \/ GetByGitHubRepoID(r) \/ CreateRepo(r)
       PROVE  SyncInv'
  <2>1. reqs[r].pc \in Syncing /\ UNCHANGED <<live, installed, events, rows, callbacks>>
    BY <1>24 DEF GetInstallationToken, ListInstallationRepos, GetByGitHubRepoID, CreateRepo, At, Syncing
  <2>2. PICK to : Go(r, to) /\ to # "org"
    <3>1. Go(r, "done") \/ Go(r, "listing") \/ Go(r, "lookup") \/ Go(r, "insert")
      BY <1>24 DEF GetInstallationToken, ListInstallationRepos, GetByGitHubRepoID, CreateRepo
    <3> QED BY <3>1
  <2> QED BY <2>1, <2>2, GoKeepsSync
<1>28. ASSUME NEW r \in Slots, Fail(r) PROVE SyncInv'
  <2>1. UNCHANGED <<live, installed, events, rows, callbacks>>
    BY <1>28 DEF Fail
  <2>2. CASE Go(r, OnFailure(r))
    BY <2>1, <2>2, FailureLists, GoKeepsSync
  <2>3. CASE At(r, "use") /\ Sync(r, reqs[r].row)
    <3>1. Inst(r) = live => Linked(live) /\ rows[live].id = reqs[r].row
      BY <2>3 DEF SyncInv, Carries, Syncing, At
    <3> QED BY <2>1, <2>3, <3>1, SyncKeepsSync
  <2> QED BY <1>28, <2>2, <2>3, Zenon DEF Fail
<1>29. CASE UNCHANGED vars
  BY <1>29 DEF vars, SyncInv, Carries, Linked, Inst, Org
<1> QED BY <1>1, <1>3, <1>4, <1>5, <1>6, <1>7, <1>8, <1>9, <1>10, <1>11, <1>12,
           <1>13, <1>14, <1>15, <1>17, <1>18, <1>19, <1>21, <1>22, <1>23,
           <1>24, <1>28, <1>29 DEF Next, Proceed

(* A failure is counted.                                                   *)
LEMMA FailureIsCounted == ASSUME TypeOK, NEW r \in Slots, Fail(r) PROVE faults' # faults
  BY BoundsAssumption DEF Fail, TypeOK, DataTypeOK

(* A step of a request leaves the others where they are.                   *)
LEMMA StepsOfOne ==
  ASSUME TypeOK, NEW r \in Slots, Proceed(r)
  PROVE  \A q \in Slots : q # r => reqs'[q] = reqs[q]
<1> DEFINE Others == \A q \in Slots : q # r => reqs'[q] = reqs[q]
<1> SUFFICES Others
  OBVIOUS
<1>1. ASSUME NEW to, Go(r, to) PROVE Others
  BY <1>1, GoesOn
<1>2. ASSUME NEW id, Sync(r, id) PROVE Others
  BY <1>2, Syncs
<1>3. ASSUME NEW request, reqs' = [reqs EXCEPT ![r] = request] PROVE Others
  BY <1>3 DEF TypeOK
<1>4. ASSUME NEW row, NEW pc, reqs' = [reqs EXCEPT ![r].row = row, ![r].pc = pc] PROVE Others
  BY <1>4 DEF TypeOK
<1>5. CASE IsDeliveryProcessed(r) \/ ValidatePendingInstall(r) \/ MarkCallbackSeen(r) \/ GetInstallationByID(r)
  BY <1>1, <1>5, Zenon DEF IsDeliveryProcessed, ValidatePendingInstall, MarkCallbackSeen, GetInstallationByID
<1>6. CASE DeleteByInstallationID(r) \/ DeleteInstallation(r) \/ GetInstallationToken(r)
           \/ ListInstallationRepos(r) \/ GetByGitHubRepoID(r) \/ CreateRepo(r)
  BY <1>1, <1>6, Zenon DEF DeleteByInstallationID, DeleteInstallation, GetInstallationToken,
                           ListInstallationRepos, GetByGitHubRepoID, CreateRepo
<1>7. CASE TakeExisting(r) \/ MarkUsed(r)
  BY <1>1, <1>2, <1>7, Zenon DEF TakeExisting, MarkUsed
<1>8. CASE RecordDelivery(r)
  BY <1>8 DEF RecordDelivery, TypeOK
<1>9. CASE ListAppInstallations(r)
  <2>1. CASE reqs' = [reqs EXCEPT ![r].inst = live, ![r].pc = "find"]
    BY <2>1 DEF TypeOK
  <2> HIDE DEF Others
  <2> QED BY <1>1, <1>9, <2>1 DEF ListAppInstallations
<1>10. CASE GetByOrgID(r)
  BY <1>1, <1>3, <1>10, Zenon DEF GetByOrgID
<1>11. CASE GetByCallbackSeen(r)
  <2>1. ASSUME NEW o, reqs' = [reqs EXCEPT ![r].pc = "create", ![r].org = o] PROVE Others
    BY <2>1 DEF TypeOK
  <2> HIDE DEF Others
  <2> QED BY <1>1, <1>11, <2>1, Outcomes
<1> HIDE DEF Others
<1>12. CASE Find(r)
  <2>1. CASE reqs' = [reqs EXCEPT ![r].pc = "repos", ![r].row = rows[Inst(r)].id]
    BY <2>1 DEF TypeOK, Others
  <2> HIDE DEF Go, Sync
  <2> QED BY <1>1, <1>2, <1>12, <2>1, Outcomes
<1>13. CASE CreateInstallation(r)
  BY <1>1, <1>2, <1>4, <1>13, Outcomes
<1> QED BY <1>5, <1>6, <1>7, <1>8, <1>9, <1>10, <1>11, <1>12, <1>13 DEF Proceed

(* A sync that gets through finds the repository or lists it.              *)
LEMMA ListStep ==
  ASSUME TypeOK, SlotInv, SyncInv, [Next]_vars, NEW r \in Slots, GetsThrough(r)
  PROVE  repo' # Nobody
<1>1. reqs[r].pc \in {"lookup", "insert"} /\ reqs'[r].pc = "done" /\ reqs'[r].pc # reqs[r].pc
  BY DEF GetsThrough, Over, Request
<1>2. reqs[r].pc \in Syncing /\ live = Inst(r) /\ live \in Installations
  BY <1>1 DEF GetsThrough, Syncing, SlotInv
<1>3. rows[live].id = reqs[r].row /\ rows[live].id # Nobody
  BY <1>2 DEF SyncInv, Carries
<1>4. GetByGitHubRepoID(r) \/ CreateRepo(r)
  <2>1. \A f \in Free : f # r
    BY <1>1 DEF Free, Over, Request
  <2>2. ASSUME NEW request, Start(request) PROVE FALSE
    BY <1>1, <2>1, <2>2 DEF Start, Free, TypeOK
  <2>3. reqs' # reqs
    BY <1>1
  <2>4. ASSUME NEW q \in Slots, q # r, NEW to, Go(q, to) PROVE FALSE
    BY <1>1, <2>4, GoesOn
  <2>5. ASSUME NEW q \in Slots, q # r, NEW id, Sync(q, id) PROVE FALSE
    BY <1>1, <2>5, Syncs
  <2>6. ~Fail(r)
    BY <1>1, FailureIsCounted DEF GetsThrough
  <2>7. /\ ~IsDeliveryProcessed(r) /\ ~RecordDelivery(r) /\ ~Find(r) /\ ~GetByCallbackSeen(r)
        /\ ~ValidatePendingInstall(r) /\ ~MarkCallbackSeen(r) /\ ~GetInstallationByID(r)
        /\ ~CreateInstallation(r) /\ ~TakeExisting(r) /\ ~MarkUsed(r)
    BY <1>1 DEF IsDeliveryProcessed, RecordDelivery, Find, GetByCallbackSeen, ValidatePendingInstall,
                MarkCallbackSeen, GetInstallationByID, CreateInstallation, TakeExisting, MarkUsed, At
  <2>8. /\ ~DeleteByInstallationID(r) /\ ~DeleteInstallation(r) /\ ~GetByOrgID(r)
        /\ ~ListAppInstallations(r) /\ ~GetInstallationToken(r) /\ ~ListInstallationRepos(r)
    BY <1>1 DEF DeleteByInstallationID, DeleteInstallation, GetByOrgID, ListAppInstallations,
                GetInstallationToken, ListInstallationRepos, At
  <2>9. ASSUME NEW q \in Slots, q # r, Proceed(q) PROVE FALSE
    BY <1>1, <2>9, StepsOfOne
  <2>10. ASSUME NEW q \in Slots, q # r, Fail(q) PROVE FALSE
    BY <1>1, <2>10, FailureIsCounted DEF GetsThrough
  <2>11. ~(\E o \in Orgs : GetInstallURL(o) \/ Expire(o) \/ Install(o) \/ SyncRepos(o))
    BY <2>2, <2>3 DEF GetInstallURL, Expire, Install, SyncRepos
  <2>12. ~Uninstall /\ ~ChangeRepositories /\ ~(UNCHANGED vars)
    BY <2>3 DEF Uninstall, ChangeRepositories, vars
  <2>13. ~(\E e \in Events : Deliver(e)) /\ ~(\E c \in callbacks : InstallCallback(c))
    BY <2>2 DEF Deliver, InstallCallback
  <2>14. ~(\E o \in Orgs, i \in Installations : LinkInstallation(o, i))
    BY <2>2 DEF LinkInstallation
  <2>15. \E q \in Slots : Proceed(q) \/ Fail(q)
    BY <2>11, <2>12, <2>13, <2>14 DEF Next
  <2>16. Proceed(r)
    BY <2>6, <2>9, <2>10, <2>15
  <2> QED BY <2>7, <2>8, <2>16 DEF Proceed
<1>5. CASE GetByGitHubRepoID(r)
  BY <1>1, <1>5, GoesOn DEF GetByGitHubRepoID
<1>6. CASE CreateRepo(r)
  BY <1>2, <1>3, <1>6 DEF CreateRepo
<1> QED BY <1>4, <1>5, <1>6

(* Every part of the invariant holds from the start and is kept.           *)
Inv == TypeOK /\ SlotInv /\ DeliveryInv /\ EndInv /\ LinkInv /\ SyncInv

LEMMA Invariance == Spec => []Inv
<1>1. Init => Inv
  <2> SUFFICES ASSUME Init PROVE Inv
    OBVIOUS
  <2> USE BoundsAssumption DEF Init
  <2>1. Over \in Reqs /\ Over.kind = "none" /\ Over.pc = "done"
    BY DEF Over, Request, Reqs, Kinds, PCs, Nobody
  <2>2. TypeOK
    BY <2>1 DEF TypeOK, DataTypeOK, Pendings, Pending, NoRow, Nobody
  <2>3. \A r \in Slots : reqs[r].kind = "none" /\ reqs[r].pc = "done"
    BY <2>1
  <2> QED BY <2>2, <2>3 DEF Inv, SlotInv, DeliveryInv, HandledStaysHandled, EndInv, UninstalledStaysGone,
            LinkInv,
            SyncInv, Carries, Syncing, Linked, Inst, Over, Request, NoRow, Kind, At, Nobody
<1>2. Inv /\ [Next]_vars => Inv'
  <2> SUFFICES ASSUME Inv, [Next]_vars PROVE Inv'
    OBVIOUS
  <2>1. TypeOK'
    BY DataTypeStep, RequestTypeStep DEF Inv, TypeOK
  <2> QED BY <2>1, SlotStep, DeliveryStep, EndStep, LinkStep, SyncStep DEF Inv
<1> QED BY <1>1, <1>2, PTL DEF Spec
-----------------------------------------------------------------------------
(* The theorems.                                                           *)

(* Every row, request and history has its type.                            *)
THEOREM TypeCorrect == Spec => []TypeOK
<1>1. Inv => TypeOK
  BY DEF Inv
<1> QED BY <1>1, Invariance, PTL

(* An event that was handled is not handled again, whatever is delivered   *)
(* again and whatever fails.                                               *)
THEOREM HandledDeliveriesStay == Spec => []HandledStaysHandled
<1>1. Inv => HandledStaysHandled
  BY DEF Inv, DeliveryInv
<1> QED BY <1>1, Invariance, PTL

(* A sync that gets through while its installation is there leaves the     *)
(* repository listed, whoever made the row of the installation.            *)
THEOREM SyncsListRepos == Spec => SyncListsRepos
<1>1. Inv /\ [Next]_vars => \A r \in Slots : GetsThrough(r) => repo' # Nobody
  BY ListStep DEF Inv
<1> QED BY <1>1, Invariance, PTL DEF Spec, SyncListsRepos

(* An installation whose end was handled stays unlinked unless it was      *)
(* linked after its end.                                                   *)
THEOREM UninstalledStayGone == Spec => []UninstalledStaysGone
<1>1. Inv => UninstalledStaysGone
  BY DEF Inv, EndInv
<1> QED BY <1>1, Invariance, PTL

(* A browser that came back in time finds its installation linked once its *)
(* callback is through.                                                    *)
THEOREM CallbacksLink == Spec => []CallbackLinks
<1>1. Inv => CallbackLinks
  BY DEF Inv, LinkInv, CallbackLinks, CallbackUnderWay, Answering
<1> QED BY <1>1, Invariance, PTL
=============================================================================
