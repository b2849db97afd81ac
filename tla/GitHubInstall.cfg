SPECIFICATION Spec
CONSTANTS
  Orgs = {o1, o2}
  NoOrg = NoOrg
  MaxInstallations = 1
  MaxAtOnce = 2
  MaxRequests = 3
  MaxFaults = 1
CHECK_DEADLOCK FALSE
INVARIANTS
  HandledStaysHandled
  UninstalledStaysGone
  CallbackLinks
PROPERTIES
  SyncListsRepos
