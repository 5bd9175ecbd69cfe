----------------------------- MODULE MCTcpLink -----------------------------
(* Small instances of TcpLink for TLC.                                     *)
EXTENDS TcpLink, TLC

CONSTANTS s1, s2, t1, t2, u1, r1, r2

MCFrame == (t1 :> 100) @@ (t2 :> 200)
MCFrame1 == t1 :> 100

SockSymmetry == Permutations(Socks)
=============================================================================
