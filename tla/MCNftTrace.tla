----------------------------- MODULE MCNftTrace -----------------------------
(* A small instance of NftTrace for TLC.  Versions are kernels' without    *)
(* their dots; no build is below 5.16, and 6.4 is exactly a build's.       *)
EXTENDS NftTrace

CONSTANTS c1, c2, a, b, d, e

MCBuilds == <<516, 519, 604>>

MCPacket(id, eth, pf, mac, addrs, fits, l4) ==
  [id |-> id, eth |-> eth, pf |-> pf, mac |-> mac, addrs |-> addrs, fits |-> fits, l4 |-> l4]

(* A rule meets a TCP segment, an IPv6 packet, an ARP frame at a bridge's  *)
(* hook, and an IPv4 packet that is forwarded and has no socket; and the   *)
(* policy of a chain meets the segment.                                    *)
MCSegment == MCPacket(a, "ip", "ipv4", TRUE, TRUE, TRUE, "tcp")

MCEvaluations ==
  {[pkt |-> MCSegment, rule |-> 7],
   [pkt |-> MCSegment, rule |-> 0],
   [pkt |-> MCPacket(b, "ip6", "ipv6", TRUE, TRUE, TRUE, "udp"), rule |-> 7],
   [pkt |-> MCPacket(d, "other", "other", TRUE, FALSE, TRUE, "other"), rule |-> 7],
   [pkt |-> MCPacket(e, "ip", "ipv4", TRUE, FALSE, TRUE, "udp"), rule |-> 7]}
=============================================================================
