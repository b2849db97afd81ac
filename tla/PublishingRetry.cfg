SPECIFICATION FairSpec
CONSTANTS
  Requests = {r1, r2}
  MaxReplacements = 0
  MaxFaults = 1
CHECK_DEADLOCK FALSE
PROPERTIES
  RetryGoesOn
