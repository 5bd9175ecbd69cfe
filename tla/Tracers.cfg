CONSTANTS
  t1 = t1
  i1 = i1
  i2 = i2
  Tasks = {t1, i1, i2}
  PidTgid <- MCPidTgid
  MaxCalls = 4
  MaxDepth = 3
  Room = 3
  e1 = e1
  e2 = e2
  Requesters = {e1, e2}
  Cpus = {c1, c2}
  Cmds = {g1, g2}
  Devs = {d1, d2}
  Freed = Freed
  u1 = u1
  u2 = u2
  Senders = {u1, u2}
  Messages <- MCMessages
  SockPaths <- MCSockPaths
  WORD = 2
  PathMax = 5
  SegsPerMsg = 2
  NULL = NULL
SPECIFICATION TracersSpec
CHECK_DEADLOCK FALSE
INVARIANTS
  EventIsOwn
  
  NoEntryLeft
  PacketsTrue
  WatchedReported
PROPERTIES
  DeviceIsOwn
  CommandIsOwn
SYMMETRY MCSymmetry
