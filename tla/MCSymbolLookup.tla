--------------------------- MODULE MCSymbolLookup ---------------------------
(* A small instance of SymbolLookup for TLC.                               *)
EXTENDS SymbolLookup

CONSTANTS f, g

MCAddrs == {0, 2, 3}
MCIps   == 0..4
=============================================================================
