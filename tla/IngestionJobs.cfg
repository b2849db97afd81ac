SPECIFICATION FairSpec
CONSTANTS
  Pushes = {push1}
  Triggers = {trigger1}
  Workers = {w1, w2}
  MaxFaults = 2
CHECK_DEADLOCK FALSE
INVARIANTS
  OneWorkerPerJob
PROPERTIES
  SupersededStaysUnpublished
  JobsSettle
