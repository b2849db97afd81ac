SPECIFICATION Spec
CONSTANTS
  Planners = {p1}
  Editors = {}
  Starters = {s1}
  MaxFaults = 0
CHECK_DEADLOCK FALSE
INVARIANT
  DoneMeansValidated
