SPECIFICATION PlanSpec
CONSTANTS
  N = 3
  StableIds = {x, y}
CHECK_DEADLOCK FALSE
INVARIANT
  ValidPlansResolve
