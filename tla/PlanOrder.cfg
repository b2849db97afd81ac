SPECIFICATION PlanFairSpec
CONSTANTS
  N = 3
  StableIds = {x, y, z}
CHECK_DEADLOCK FALSE
INVARIANTS
  ValidatorFindsCycles
  OrderIsTopological
  DistinctPlansResolve
