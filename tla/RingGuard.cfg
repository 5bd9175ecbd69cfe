CONSTANTS
  c1 = c1
  c2 = c2
  c3 = c3
  Cpus = {c1, c2, c3}
  Slots = 2
  MaxRecords = 4
SPECIFICATION Spec
CHECK_DEADLOCK FALSE
INVARIANTS
  BusyIsHeld
  OnlyWholeSubmitted
  ScratchUsesUp
PROPERTY AllRead
