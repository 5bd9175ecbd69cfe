---------------------------- MODULE MCTcpReport ----------------------------
(* Small instances of TcpReport for TLC.                                   *)
EXTENDS TcpReport

CONSTANTS a, b

Conn(fam, laddr, lport, raddr, rport, role) ==
  [fam |-> fam, laddr |-> laddr, lport |-> lport, raddr |-> raddr, rport |-> rport, role |-> role]

(* Both roles of both families, a role not known, loopback at one end and  *)
(* at both, and a listener.                                                *)
MCConns ==
  {Conn(4, a, 35538, b, 22, "CLIENT"), Conn(4, b, 22, a, 35538, "SERVER"),
   Conn(6, a, 35538, b, 22, "CLIENT"), Conn(6, b, 22, a, 35538, "SERVER"),
   Conn(4, a, 35538, b, 22, "UNKNOWN"), Conn(4, Lo, 35538, a, 22, "CLIENT"),
   Conn(4, Lo, 22, Lo, 35538, "SERVER"), Conn(4, Zero, 22, Zero, 0, "SERVER")}
=============================================================================
