SPECIFICATION Spec
CONSTANTS
  Planners = {p1}
  Editors = {e1}
  Starters = {s1}
  MaxFaults = 0
CHECK_DEADLOCK FALSE
INVARIANT
  EditsRequireApproval
