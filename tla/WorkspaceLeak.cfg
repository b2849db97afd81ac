SPECIFICATION FairSpec
CONSTANTS
  Provisions = {ws1}
  Destroys = {d1}
  MaxFaults = 1
CHECK_DEADLOCK FALSE
PROPERTY
  FailedDestroyIsReaped
