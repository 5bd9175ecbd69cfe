CONSTANTS
  p1 = p1
  Packets = {p1}
  MaxRuns = 3
SPECIFICATION Spec
CHECK_DEADLOCK FALSE
INVARIANTS
  ProbeHasProgram
  AllOrNothing
  LiveNeverLogs
  PinsRemoved
