SPECIFICATION ValidationFairSpec
CONSTANTS
  Languages = {"go", "node", "python"}
  MaxFailures = 2
CHECK_DEADLOCK FALSE
INVARIANTS
  PassIsEarned
  ResultIsConsistent
PROPERTIES
  RunsSettle
