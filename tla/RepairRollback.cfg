SPECIFICATION Spec
CONSTANTS
  Stages = {"build", "test"}
  Files = {f1, f2}
  Named = {f1}
  MaxAttempts = 2
  MaxFaults = 1
CHECK_DEADLOCK FALSE
PROPERTY
  RollbackRestoresAll
