----------------------------- MODULE ConnRoles -----------------------------
(***************************************************************************)
(* What the connection tracer promises of one socket address: it tells     *)
(* which side of its connection this host is, never the wrong side, and    *)
(* neither forgets nor changes it before the connection is over.  No map,  *)
(* no key, no hand-over between hooks appears here: TcpLink has those.     *)
(***************************************************************************)
CONSTANT None

Sides == {"CLIENT", "SERVER"}

VARIABLES
  side,     \* the side the socket is on, None when there is no socket
  up,       \* its state is not CLOSE
  known     \* the side the tracer has learned, or None

promise == <<side, up, known>>

Init ==
  /\ side \in Sides \cup {None}
  /\ up \in BOOLEAN /\ (up => side # None)
  /\ known = None

(* A socket is made, by socket() or, already up, by a handshake.           *)
Open ==
  /\ side = None
  /\ side' \in Sides /\ up' \in BOOLEAN
  /\ UNCHANGED known

Rise ==
  /\ side # None /\ ~up
  /\ up' = TRUE
  /\ UNCHANGED <<side, known>>

Learn ==
  /\ side # None /\ known = None
  /\ known' = side
  /\ UNCHANGED <<side, up>>

(* The connection is over, and what was learned of it goes with it ...     *)
Fall ==
  /\ up
  /\ up' = FALSE /\ known' = None
  /\ UNCHANGED side

(* ... or, if learned since then, with a later hook, with the socket at    *)
(* the latest.                                                             *)
Forget ==
  /\ ~up
  /\ known' = None
  /\ side' \in {side, None}
  /\ UNCHANGED up

Next == Open \/ Rise \/ Learn \/ Fall \/ Forget

Spec == Init /\ [][Next]_promise
=============================================================================
