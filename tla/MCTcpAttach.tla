---------------------------- MODULE MCTcpAttach ----------------------------
(* A small instance of TcpAttach for TLC.                                  *)
EXTENDS TcpAttach, TLC

CONSTANTS s1, s2, t1, r1

MCFrame1 == t1 :> 100

SockSymmetry == Permutations(Socks)
=============================================================================
