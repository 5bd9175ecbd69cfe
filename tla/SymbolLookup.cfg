CONSTANTS
  f = f
  g = g
  Addrs <- MCAddrs
  Names = {f, g}
  Ips <- MCIps
  MaxLines = 4
SPECIFICATION Spec
CHECK_DEADLOCK FALSE
INVARIANTS
  NearestBelow
  PanicsOnlyBelow
PROPERTY Terminates
