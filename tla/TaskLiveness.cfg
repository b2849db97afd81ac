SPECIFICATION FairSpec
CONSTANTS
  Planners = {p1, p2}
  Editors = {e1}
  Starters = {s1}
  MaxFaults = 1
CHECK_DEADLOCK FALSE
PROPERTIES
  PlanningEnds
  VerdictReachesItem
