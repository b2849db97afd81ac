SPECIFICATION Spec
CONSTANTS
  Planners = {p1, p2}
  Editors = {e1}
  Starters = {s1, s2}
  MaxFaults = 1
CHECK_DEADLOCK FALSE
SYMMETRY RequestSymmetry
INVARIANTS
  ApprovalGate
  ExecutedPlanWasApproved
  DoneByApprovedPlan
PROPERTIES
  ItemKeepsItsLife
  ExecutionsKeepTheirLife
