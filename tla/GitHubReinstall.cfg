SPECIFICATION Spec
CONSTANTS
  Orgs = {o1}
  NoOrg = NoOrg
  MaxInstallations = 2
  MaxAtOnce = 1
  MaxRequests = 4
  MaxFaults = 0
CHECK_DEADLOCK FALSE
PROPERTIES
  SyncTakesRepos
