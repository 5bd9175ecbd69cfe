----------------------------- MODULE MCTracers -----------------------------
(* A small instance of Tracers for TLC.                                    *)
EXTENDS Tracers, TLC

CONSTANTS t1, i1, i2, e1, e2, u1, u2

(* The task t1 has an id of its own, i1 and i2 are idle CPUs.              *)
MCPidTgid == [t \in Tasks |-> IF t = t1 THEN 1 ELSE 0]

(* Watched and unwatched paths that differ in the first word, in a later   *)
(* one, and in the half word at the end.                                   *)
MCSockPaths == {<<1, 2>>, <<1, 2, 1>>, <<1, 2, 1, 1, 2>>}

Message(own, peer, segs, flat) == [own |-> own, peer |-> peer, segs |-> segs, flat |-> flat]

MCMessages ==
  {Message(<<1, 2, 1>>, NULL, 3, TRUE), Message(<<1, 1>>, <<1, 2, 1, 1, 2, 2>>, 1, TRUE),
   Message(<<1, 2>>, NULL, 1, FALSE), Message(<<2>>, <<1, 1, 1, 2, 1>>, 1, TRUE),
   Message(NULL, <<1, 2, 1, 1>>, 0, TRUE), Message(NULL, NULL, 1, TRUE)}

MCSymmetry == Permutations({i1, i2}) \cup Permutations({e1, e2}) \cup Permutations({u1, u2})
=============================================================================
