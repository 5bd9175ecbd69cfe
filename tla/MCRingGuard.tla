---------------------------- MODULE MCRingGuard ----------------------------
(* Small instances of RingGuard for TLC.                                   *)
EXTENDS RingGuard

CONSTANTS c1, c2, c3
=============================================================================
