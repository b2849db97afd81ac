SPECIFICATION Spec
CONSTANTS
  Files = {f1, f2}
  Present = {f1}
  MaxCalls = 2
  MaxMishaps = 1
CHECK_DEADLOCK FALSE
INVARIANTS
  EachRowRefusesOne
  StreamOrderKept
  DiffsTellTheFiles
