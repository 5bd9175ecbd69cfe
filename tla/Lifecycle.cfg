CONSTANT MaxBoots = 3
SPECIFICATION Spec
CHECK_DEADLOCK FALSE
INVARIANTS
  OneTraceRule
  RolesAreShared
PROPERTIES
  EventuallyTracing
  SignalEnds
