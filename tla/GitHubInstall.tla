---------------------------- MODULE GitHubInstall ----------------------------
(***************************************************************************)
(* The GitHub App of one account: its installations, one after the other,  *)
(* and the rows that link them to an organisation, written by the install  *)
(* callback, by webhooks, by hand and by the recovery behind the sync      *)
(* button.  A request is a sequence of statements and calls that others    *)
(* interleave with; a handler that starts a sync goes on as its goroutine. *)
(* The repositories of the account are one.                                *)
(***************************************************************************)
EXTENDS Naturals, FiniteSets, Sequences

CONSTANTS
  Orgs,             \* organisations of the backend
  NoOrg,            \* none of them
  MaxInstallations, \* bound: installations of the account
  MaxAtOnce,        \* bound: requests at one time
  MaxRequests,      \* bound: requests
  MaxFaults         \* bound: failed statements and calls

ASSUME OrgsAssumption   == IsFiniteSet(Orgs) /\ NoOrg \notin Orgs
ASSUME BoundsAssumption ==
  /\ MaxInstallations \in Nat /\ MaxAtOnce \in Nat /\ MaxRequests \in Nat /\ MaxFaults \in Nat

Installations == 1..MaxInstallations
Nobody        == 0

VARIABLES
  live,       \* GitHub: the installation there is, or Nobody
  installed,  \* GitHub: installations so far
  events,     \* GitHub: events it delivers, once or more
  callbacks,  \* browsers on their way from GitHub to the callback
  pending,    \* [Orgs -> pending_installs row]
  rows,       \* [Installations -> github_installations row]
  repo,       \* installation row that the github_repos row refers to, or Nobody
  deliveries, \* webhook_deliveries
  reqs,       \* the requests under way and their goroutines
  started,    \* requests so far
  sent,       \* history: browsers that GitHub sent back
  handled,    \* history: events whose handling began
  closed,     \* history: installations whose end was handled
  late,       \* history: installations linked after their end
  faults      \* failures so far

githubVars  == <<live, installed, events>>
historyVars == <<sent, handled, closed, late>>
vars == <<githubVars, callbacks, pending, rows, repo, deliveries, reqs, started, historyVars, faults>>

NoRow     == [id |-> Nobody, org |-> NoOrg]
Pending(nr, status) == [nr |-> nr, status |-> status]
Slots      == 1..MaxAtOnce
EventKinds == {"created", "deleted", "repositories"}
Events     == EventKinds \X Installations

Request(kind, i, o, pc) == [kind |-> kind, inst |-> i, org |-> o, pc |-> pc, row |-> Nobody, again |-> "no"]
\* a place is kept for every browser that is on its way
Over    == Request("none", Nobody, NoOrg, "done")
Free    == {r \in Slots : reqs[r] = Over}
RoomFor ==
  /\ Cardinality(callbacks) < Cardinality(Free)
  /\ started + Cardinality(callbacks) < MaxRequests
Start(request) ==
  /\ \E r \in Free : (\A f \in Free : r <= f) /\ reqs' = [reqs EXCEPT ![r] = request]
  /\ started' = started + 1

Init ==
  /\ live = Nobody /\ installed = 0 /\ events = {} /\ callbacks = {}
  /\ pending = [o \in Orgs |-> Pending(0, "none")] /\ rows = [i \in Installations |-> NoRow]
  /\ repo = Nobody /\ deliveries = {} /\ reqs = [r \in Slots |-> Over]
  /\ started = 0 /\ sent = {} /\ handled = {} /\ closed = {} /\ late = {} /\ faults = 0
-----------------------------------------------------------------------------
(* The users and GitHub.                                                   *)

Valid(o) == pending[o].status \in {"issued", "seen", "used"}

(* GetInstallURL, once for every organisation.                             *)
GetInstallURL(o) ==
  /\ pending[o].status = "none"
  /\ pending' = [pending EXCEPT ![o] = Pending(1 + Cardinality({p \in Orgs : pending[p].nr > 0}), "issued")]
  /\ UNCHANGED <<githubVars, callbacks, rows, repo, deliveries, reqs, started, historyVars, faults>>

(* Ten minutes later it is not valid any more.                             *)
Expire(o) ==
  /\ Valid(o)
  /\ pending' = [pending EXCEPT ![o] = Pending(0, "expired")]
  /\ UNCHANGED <<githubVars, callbacks, rows, repo, deliveries, reqs, started, historyVars, faults>>

(* A user follows the URL; GitHub sends an event and the browser back.     *)
Install(o) ==
  /\ live = Nobody /\ installed < MaxInstallations /\ RoomFor /\ Valid(o)
  /\ installed' = installed + 1 /\ live' = installed + 1
  /\ events' = events \cup {<<"created", installed + 1>>}
  /\ callbacks' = callbacks \cup {<<o, installed + 1>>} /\ sent' = sent \cup {<<o, installed + 1>>}
  /\ UNCHANGED <<pending, rows, repo, deliveries, reqs, started, handled, closed, late, faults>>

Uninstall ==
  /\ live # Nobody /\ live' = Nobody
  /\ events' = events \cup {<<"deleted", live>>}
  /\ UNCHANGED <<installed, callbacks, pending, rows, repo, deliveries, reqs, started, historyVars, faults>>

ChangeRepositories ==
  /\ live # Nobody
  /\ events' = events \cup {<<"repositories", live>>}
  /\ UNCHANGED <<live, installed, callbacks, pending, rows, repo, deliveries, reqs, started, historyVars, faults>>
-----------------------------------------------------------------------------
(* Requests.                                                               *)
(* Webhook: an event arrives, maybe once more after it was handled.        *)
Deliver(e) ==
  /\ e \in events /\ RoomFor
  /\ Start([Request(e[1], e[2], NoOrg, "check") EXCEPT !.again = IF e \in handled THEN "yes" ELSE "no"])
  /\ UNCHANGED <<githubVars, callbacks, pending, rows, repo, deliveries, historyVars, faults>>

InstallCallback(c) ==
  /\ c \in callbacks /\ callbacks' = callbacks \ {c}
  /\ Start(Request("callback", c[2], c[1], "validate"))
  /\ UNCHANGED <<githubVars, pending, rows, repo, deliveries, historyVars, faults>>

LinkInstallation(o, i) ==
  /\ i <= installed /\ RoomFor
  /\ Start(Request("link", i, o, "find"))
  /\ UNCHANGED <<githubVars, callbacks, pending, rows, repo, deliveries, historyVars, faults>>

SyncRepos(o) ==
  /\ RoomFor
  /\ Start(Request("button", Nobody, o, "org"))
  /\ UNCHANGED <<githubVars, callbacks, pending, rows, repo, deliveries, historyVars, faults>>
-----------------------------------------------------------------------------
(* What the requests do.                                                   *)
Kind(r) == reqs[r].kind
Inst(r) == reqs[r].inst
Org(r)  == reqs[r].org
At(r, pc) == reqs[r].pc = pc
Go(r, pc) == reqs' = [reqs EXCEPT ![r] = IF pc = "done" THEN Over ELSE [@ EXCEPT !.pc = pc]]
Goroutine(i, id) == [Request("sync", i, NoOrg, "token") EXCEPT !.row = id]
Sync(r, id) == reqs' = [reqs EXCEPT ![r] = Goroutine(Inst(r), id)]
Linked(i) == rows[i] # NoRow

(* Where a request goes on when its statement or call fails.               *)
OnFailure(r) ==
  CASE At(r, "find") -> (CASE Kind(r) = "created" -> "correlate" [] Kind(r) = "callback" -> "fetch"
                           [] Kind(r) \in {"link", "button"} -> "create" [] OTHER -> "done")
    [] At(r, "create") -> (IF Kind(r) = "link" THEN "done" ELSE "race")
    [] At(r, "seen")   -> "find"
    [] At(r, "repos")  -> "remove"
    [] At(r, "org")    -> "list"
    [] At(r, "lookup") -> "insert"
    [] OTHER -> "done"

Fail(r) ==
  /\ ~At(r, "done") /\ faults < MaxFaults /\ faults' = faults + 1
  /\ IF At(r, "use") THEN Sync(r, reqs[r].row) ELSE Go(r, OnFailure(r))
  /\ UNCHANGED <<githubVars, callbacks, pending, rows, repo, deliveries, started, historyVars>>

(* The delivery is looked up, and recorded before the event is handled.    *)
IsDeliveryProcessed(r) ==
  /\ At(r, "check")
  /\ Go(r, IF <<Kind(r), Inst(r)>> \in deliveries THEN "done" ELSE "record")
  /\ UNCHANGED <<githubVars, callbacks, pending, rows, repo, deliveries, historyVars, started, faults>>

(* Faulty variant: the delivery is not recorded.                           *)
FaultyRecordDelivery(r) ==
  /\ At(r, "record") /\ reqs' = [reqs EXCEPT ![r].pc = "find", ![r].again = "no"]
  /\ handled' = handled \cup {<<Kind(r), Inst(r)>>}
  /\ UNCHANGED <<githubVars, callbacks, pending, rows, repo, deliveries, sent, closed, late, started, faults>>

RecordDelivery(r) ==
  /\ At(r, "record") /\ reqs' = [reqs EXCEPT ![r].pc = "find", ![r].again = "no"]
  /\ deliveries' = deliveries \cup {<<Kind(r), Inst(r)>>}
  /\ handled' = handled \cup {<<Kind(r), Inst(r)>>}
  /\ UNCHANGED <<githubVars, callbacks, pending, rows, repo, sent, closed, late, started, faults>>

(* Faulty variant: the end of an installation only has to be known.        *)
FaultyFind(r) ==
  /\ At(r, "find")
  /\ Go(r, IF Linked(Inst(r)) \/ Kind(r) = "deleted" THEN "done" ELSE OnFailure(r))
  /\ closed' = IF Kind(r) = "deleted" THEN closed \cup {Inst(r)} ELSE closed
  /\ UNCHANGED <<githubVars, callbacks, pending, rows, repo, deliveries, sent, handled, late, started, faults>>

(* GetByGitHubInstallationID, and what each request makes of the answer.   *)
Find(r) ==
  /\ At(r, "find")
  /\ \/ /\ Linked(Inst(r)) /\ Kind(r) \in {"created", "callback", "repositories"}
        /\ Sync(r, rows[Inst(r)].id)
     \/ /\ Linked(Inst(r)) /\ Kind(r) = "deleted"
        /\ reqs' = [reqs EXCEPT ![r].pc = "repos", ![r].row = rows[Inst(r)].id]
     \/ Linked(Inst(r)) /\ Kind(r) = "link" /\ Go(r, "done")
     \/ /\ Linked(Inst(r)) /\ Kind(r) = "button"
        /\ IF rows[Inst(r)].org = Org(r) THEN Sync(r, rows[Inst(r)].id) ELSE Go(r, "done")
     \/ ~Linked(Inst(r)) /\ Go(r, OnFailure(r))
  /\ closed' = IF Kind(r) = "deleted" /\ ~Linked(Inst(r)) THEN closed \cup {Inst(r)} ELSE closed
  /\ UNCHANGED <<githubVars, callbacks, pending, rows, repo, deliveries, sent, handled, late, started, faults>>

(* GetByCallbackSeen: the newest pending install that awaits its event,    *)
(* whosever it is.                                                         *)
Awaiting == {o \in Orgs : pending[o].status = "seen"}

GetByCallbackSeen(r) ==
  /\ At(r, "correlate")
  /\ \/ Awaiting = {} /\ Go(r, "done")
     \/ \E o \in Awaiting :
          /\ \A p \in Awaiting : pending[p].nr <= pending[o].nr
          /\ reqs' = [reqs EXCEPT ![r].pc = "create", ![r].org = o]
  /\ UNCHANGED <<githubVars, callbacks, pending, rows, repo, deliveries, historyVars, started, faults>>

ValidatePendingInstall(r) ==
  /\ At(r, "validate")
  /\ Go(r, IF Valid(Org(r)) THEN "seen" ELSE "done")
  /\ UNCHANGED <<githubVars, callbacks, pending, rows, repo, deliveries, historyVars, started, faults>>

MarkCallbackSeen(r) ==
  /\ At(r, "seen") /\ Go(r, "find")
  /\ pending' = [pending EXCEPT ![Org(r)].status = IF @ = "issued" THEN "seen" ELSE @]
  /\ UNCHANGED <<githubVars, callbacks, rows, repo, deliveries, historyVars, started, faults>>

(* Faulty variant: the callback leaves the row to the event.               *)
FaultyGetInstallationByID(r) ==
  /\ At(r, "fetch") /\ Go(r, "done")
  /\ UNCHANGED <<githubVars, callbacks, pending, rows, repo, deliveries, historyVars, started, faults>>

(* The callback asks GitHub for the installation.                          *)
GetInstallationByID(r) ==
  /\ At(r, "fetch")
  /\ Go(r, IF live = Inst(r) THEN "create" ELSE "done")
  /\ UNCHANGED <<githubVars, callbacks, pending, rows, repo, deliveries, historyVars, started, faults>>

(* A new id: one that nothing refers to any more.                          *)
Known == {repo} \cup {rows[i].id : i \in Installations} \cup {reqs[q].row : q \in Slots}
Ids   == 1..(MaxInstallations + MaxAtOnce + 1)
Fresh == {n \in Ids \ Known : \A m \in Ids \ Known : n <= m}

(* Faulty variant: a conflict is passed over (ON CONFLICT DO NOTHING), and *)
(* the request goes on with the id it made for the row.                    *)
FaultyCreateInstallation(r) ==
  /\ At(r, "create")
  /\ \E id \in Fresh :
       /\ rows' = [rows EXCEPT ![Inst(r)] = IF Linked(Inst(r)) THEN @ ELSE [id |-> id, org |-> Org(r)]]
       /\ CASE Kind(r) = "link" -> Go(r, "done")
            [] Kind(r) = "button" -> Sync(r, id)
            [] OTHER -> reqs' = [reqs EXCEPT ![r].row = id, ![r].pc = "use"]
  /\ late' = IF Linked(Inst(r)) \/ live = Inst(r) THEN late ELSE late \cup {Inst(r)}
  /\ UNCHANGED <<githubVars, callbacks, pending, repo, deliveries, sent, handled, closed, started, faults>>

(* The row is inserted unless the installation has one.                    *)
CreateInstallation(r) ==
  /\ At(r, "create")
  /\ \/ /\ ~Linked(Inst(r))
        /\ \E id \in Fresh :
             /\ rows' = [rows EXCEPT ![Inst(r)] = [id |-> id, org |-> Org(r)]]
             /\ CASE Kind(r) = "link" -> Go(r, "done")
                  [] Kind(r) = "button" -> Sync(r, id)
                  [] OTHER -> reqs' = [reqs EXCEPT ![r].row = id, ![r].pc = "use"]
        /\ late' = IF live = Inst(r) THEN late ELSE late \cup {Inst(r)}
     \/ Linked(Inst(r)) /\ Go(r, OnFailure(r)) /\ UNCHANGED <<rows, late>>
  /\ UNCHANGED <<githubVars, callbacks, pending, repo, deliveries, sent, handled, closed, started, faults>>

(* After a conflict the row that is there is taken.                        *)
TakeExisting(r) ==
  /\ At(r, "race")
  /\ IF Linked(Inst(r)) THEN Sync(r, rows[Inst(r)].id) ELSE Go(r, "done")
  /\ UNCHANGED <<githubVars, callbacks, pending, rows, repo, deliveries, historyVars, started, faults>>

MarkUsed(r) ==
  /\ At(r, "use") /\ Sync(r, reqs[r].row)
  /\ pending' = [pending EXCEPT ![Org(r)] = IF Valid(Org(r)) THEN Pending(0, "used") ELSE @]
  /\ UNCHANGED <<githubVars, callbacks, rows, repo, deliveries, historyVars, started, faults>>
-----------------------------------------------------------------------------
(* The end of an installation.                                             *)
DeleteByInstallationID(r) ==
  /\ At(r, "repos") /\ Go(r, "remove")
  /\ repo' = IF repo = reqs[r].row THEN Nobody ELSE repo
  /\ UNCHANGED <<githubVars, callbacks, pending, rows, deliveries, historyVars, started, faults>>

(* The row goes, and what refers to it with it.                            *)
DeleteInstallation(r) ==
  /\ At(r, "remove") /\ Go(r, "done")
  /\ rows' = [rows EXCEPT ![Inst(r)] = IF @.id = reqs[r].row THEN NoRow ELSE @]
  /\ repo' = IF repo = reqs[r].row THEN Nobody ELSE repo
  /\ closed' = closed \cup {Inst(r)}
  /\ UNCHANGED <<githubVars, callbacks, pending, deliveries, sent, handled, late, started, faults>>
-----------------------------------------------------------------------------
(* The sync button: the row of the organisation, or else the installation  *)
(* there is.                                                               *)
GetByOrgID(r) ==
  /\ At(r, "org")
  /\ \/ \E i \in Installations :
          /\ rows[i].org = Org(r)
          /\ reqs' = [reqs EXCEPT ![r] = Goroutine(i, rows[i].id)]
     \/ (\A i \in Installations : rows[i].org # Org(r)) /\ Go(r, "list")
  /\ UNCHANGED <<githubVars, callbacks, pending, rows, repo, deliveries, historyVars, started, faults>>

ListAppInstallations(r) ==
  /\ At(r, "list")
  /\ IF live = Nobody THEN Go(r, "done") ELSE reqs' = [reqs EXCEPT ![r].inst = live, ![r].pc = "find"]
  /\ UNCHANGED <<githubVars, callbacks, pending, rows, repo, deliveries, historyVars, started, faults>>

(* The goroutine: GetInstallationToken reads the row for its token.        *)
GetInstallationToken(r) ==
  /\ At(r, "token")
  /\ Go(r, IF Linked(Inst(r)) THEN "listing" ELSE "done")
  /\ UNCHANGED <<githubVars, callbacks, pending, rows, repo, deliveries, historyVars, started, faults>>

(* GitHub gives a new token if the cached one ends within five minutes, and*)
(* lists the repositories, both while the installation is there.           *)
ListInstallationRepos(r) ==
  /\ At(r, "listing")
  /\ Go(r, IF live = Inst(r) THEN "lookup" ELSE "done")
  /\ UNCHANGED <<githubVars, callbacks, pending, rows, repo, deliveries, historyVars, started, faults>>

(* A repository that has a row keeps it, with the installation it names.   *)
GetByGitHubRepoID(r) ==
  /\ At(r, "lookup")
  /\ Go(r, IF repo # Nobody THEN "done" ELSE "insert")
  /\ UNCHANGED <<githubVars, callbacks, pending, rows, repo, deliveries, historyVars, started, faults>>

(* The insertion fails without the row it names, or on the name.           *)
CreateRepo(r) ==
  /\ At(r, "insert") /\ Go(r, "done")
  /\ repo' = IF repo = Nobody /\ \E i \in Installations : rows[i].id = reqs[r].row THEN reqs[r].row ELSE repo
  /\ UNCHANGED <<githubVars, callbacks, pending, rows, deliveries, historyVars, started, faults>>
-----------------------------------------------------------------------------
Proceed(r) ==
  \/ IsDeliveryProcessed(r) \/ RecordDelivery(r) \/ Find(r) \/ GetByCallbackSeen(r)
  \/ ValidatePendingInstall(r) \/ MarkCallbackSeen(r) \/ GetInstallationByID(r)
  \/ CreateInstallation(r) \/ TakeExisting(r) \/ MarkUsed(r)
  \/ DeleteByInstallationID(r) \/ DeleteInstallation(r)
  \/ GetByOrgID(r) \/ ListAppInstallations(r) \/ GetInstallationToken(r)
  \/ ListInstallationRepos(r) \/ GetByGitHubRepoID(r) \/ CreateRepo(r)

Next ==
  \/ \E o \in Orgs : GetInstallURL(o) \/ Expire(o) \/ Install(o) \/ SyncRepos(o)
  \/ Uninstall \/ ChangeRepositories
  \/ \E e \in Events : Deliver(e)
  \/ \E c \in callbacks : InstallCallback(c)
  \/ \E o \in Orgs, i \in Installations : LinkInstallation(o, i)
  \/ \E r \in Slots : Proceed(r) \/ Fail(r)

Spec == Init /\ [][Next]_vars
-----------------------------------------------------------------------------
Kinds == EventKinds \cup {"callback", "link", "button", "sync", "none"}
PCs   == {"check", "record", "find", "correlate", "create", "race", "use", "validate", "seen", "fetch",
          "repos", "remove", "org", "list", "token", "listing", "lookup", "insert", "done"}
Pendings == [nr : Nat, status : {"none", "issued", "seen", "used", "expired"}]

Reqs == [kind : Kinds, inst : Installations \cup {Nobody}, org : Orgs \cup {NoOrg}, pc : PCs,
         row : Ids \cup {Nobody}, again : {"yes", "no"}]

DataTypeOK ==
  /\ live \in 0..MaxInstallations /\ installed \in 0..MaxInstallations
  /\ events \subseteq Events /\ deliveries \subseteq Events /\ handled \subseteq Events
  /\ callbacks \subseteq Orgs \X Installations /\ sent \subseteq Orgs \X Installations
  /\ pending \in [Orgs -> Pendings]
  /\ rows \in [Installations -> [id : Ids \cup {Nobody}, org : Orgs \cup {NoOrg}]]
  /\ repo \in Ids \cup {Nobody} /\ started \in Nat /\ faults \in 0..MaxFaults
  /\ closed \subseteq Installations /\ late \subseteq Installations

TypeOK == DataTypeOK /\ reqs \in [Slots -> Reqs]

(* An event that was handled is not handled again, however often and with  *)
(* whatever failures GitHub delivers it: only deliveries that were there   *)
(* before may pass the look-up with the first.                             *)
HandledStaysHandled == \A r \in Slots : At(r, "record") => reqs[r].again = "no"

(* A sync that gets through while its installation is there leaves the     *)
(* repository listed: the id it carries through its token, the list of     *)
(* GitHub and the look-up is that of the row the installation still has,   *)
(* whichever of two requests made the row and whoever removed another one. *)
GetsThrough(r) ==
  /\ reqs[r].pc \in {"lookup", "insert"} /\ reqs'[r] = Over
  /\ live = Inst(r) /\ faults' = faults
SyncListsRepos == [][\A r \in Slots : GetsThrough(r) => repo' # Nobody]_vars

(* It does not leave the repository with its installation: a row that an   *)
(* earlier installation of the account has left is kept, and goes with     *)
(* that installation when its end is handled late.                         *)
SyncTakesRepos == [][\A r \in Slots : GetsThrough(r) => repo' = rows[live].id]_vars

(* Once its end is handled an installation stays unlinked, unless it was   *)
(* linked after its end, by a request that had asked GitHub before, an     *)
(* event that comes late or by hand.                                       *)
UninstalledStaysGone == \A i \in closed \ late : faults = 0 => ~Linked(i)

(* A user who comes back from GitHub in time finds the installation linked *)
(* once the callback is through, whether the event comes before, meanwhile,*)
(* after it or not at all, as long as no statement or call fails.          *)
CallbackUnderWay(i) == \E r \in Slots : Kind(r) = "callback" /\ Inst(r) = i
CallbackLinks ==
  \A c \in sent \ callbacks :
    faults = 0 /\ live = c[2] /\ Valid(c[1]) /\ ~CallbackUnderWay(c[2]) => Linked(c[2])
=============================================================================
