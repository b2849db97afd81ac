SPECIFICATION FairSpec
CONSTANTS
  N = 3
  MaxFaults = 2
CHECK_DEADLOCK FALSE
INVARIANTS
  DepsHonoured
  FinalStatusAccurate
  CancelStopsTheNextStep
  SkippedIffBehindATroubledStep
PROPERTIES
  RunSettles
