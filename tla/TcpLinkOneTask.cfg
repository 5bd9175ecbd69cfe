CONSTANTS
  s1 = s1
  s2 = s2
  t1 = t1
  t2 = t2
  u1 = u1
  r1 = r1
  r2 = r2
  NULL = NULL
  Absent = Absent
  Tasks = {t1}
  Frame <- MCFrame1
  Socks = {s1, s2}
  Others = {}
  ListenPorts = {1}
  EphPorts = {2}
  BoundPorts = {}
  Remotes = {r1}
  Fams = {4}
  Residues = {0}
  MaxTracing = 3
  MaxCtx = 9
  RingSlots = 0
SPECIFICATION Spec
INVARIANTS
  
  CtxOfEstablishedKept
  
  NoTracingLeak

  
SYMMETRY SockSymmetry
