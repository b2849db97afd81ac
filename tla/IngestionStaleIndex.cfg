SPECIFICATION Spec
CONSTANTS
  Pushes = {push1, push2}
  Triggers = {}
  Workers = {w1, w2}
  MaxFaults = 0
CHECK_DEADLOCK FALSE
INVARIANT
  ReadersGetNewestIndex
