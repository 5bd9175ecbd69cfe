CONSTANTS
  s1 = s1
  s2 = s2
  t1 = t1
  r1 = r1
  NULL = NULL
  Absent = Absent
  Tasks = {t1}
  Frame <- MCFrame1
  Socks = {s1}
  Others = {}
  ListenPorts = {1}
  EphPorts = {2}
  BoundPorts = {}
  Remotes = {r1}
  Fams = {4, 6}
  Residues = {0}
  MaxTracing = 3
  MaxCtx = 0
  RingSlots = 0
SPECIFICATION AttachSpec
INVARIANTS
  LearnedRoleKept
  
