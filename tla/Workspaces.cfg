SPECIFICATION FairSpec
CONSTANTS
  Provisions = {ws1}
  Destroys = {d1, d2}
  MaxFaults = 1
CHECK_DEADLOCK FALSE
INVARIANTS
  ContainersAccountedFor
  LeaksOnlyWhenBlind
  FreshWorkspaceSpared
PROPERTIES
  WorkspacesEnd
