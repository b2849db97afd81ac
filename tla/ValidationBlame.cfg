SPECIFICATION ValidationSpec
CONSTANTS
  Languages = {"python"}
  MaxFailures = 0
CHECK_DEADLOCK FALSE
INVARIANTS
  BlamedStageFailed
