CONSTANTS
  c1 = c1
  c2 = c2
  a = a
  b = b
  d = d
  e = e
  None = None
  Junk = Junk
  Cpus = {c1, c2}
  Builds <- MCBuilds
  Kernels = {516, 604, 605}
  Bounds = {519, 604}
  Evaluations <- MCEvaluations
  Slots = 2
  MaxRecords = 3
SPECIFICATION Spec
CHECK_DEADLOCK FALSE
INVARIANT LinesAreTrue
PROPERTIES
  RulesPrinted
  ImplementsGuard
