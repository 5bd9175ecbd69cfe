---------------------------- MODULE MCIptModule ----------------------------
(* A small instance of IptModule for TLC.                                  *)
EXTENDS IptModule

CONSTANT p1
=============================================================================
