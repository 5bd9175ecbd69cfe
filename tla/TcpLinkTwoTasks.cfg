CONSTANTS
  s1 = s1
  s2 = s2
  t1 = t1
  t2 = t2
  u1 = u1
  r1 = r1
  r2 = r2
  NULL = NULL
  Absent = Absent
  Tasks = {t1, t2}
  Frame <- MCFrame
  Socks = {s1}
  Others = {u1}
  ListenPorts = {1}
  EphPorts = {2}
  BoundPorts = {2}
  Remotes = {r1}
  Fams = {6}
  Residues = {0}
  MaxTracing = 1
  MaxCtx = 0
  RingSlots = 1
SPECIFICATION Spec
INVARIANTS
  TypeOK
  NonClientEntriesLive
  
  LearnedRoleKept
