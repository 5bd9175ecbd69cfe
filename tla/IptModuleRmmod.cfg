CONSTANTS
  p1 = p1
  Packets = {p1}
  MaxRuns = 2
SPECIFICATION Spec
CHECK_DEADLOCK FALSE
INVARIANT ModuleRemoved
