----------------------------- MODULE TcpReport -----------------------------
(***************************************************************************)
(* From a socket to a line of the log: set_conn_info of                    *)
(* ebpf/headers/common.h fills an event in, the ring buffer carries it,    *)
(* and handlePerfEvent of pkg/tcp/tcp-trace.go reads, orients and prints   *)
(* it, until the context is done.  Addresses and ports stand for           *)
(* themselves; the other columns of the line are left out.                 *)
(***************************************************************************)
EXTENDS Naturals, Sequences

CONSTANTS
  Conns,        \* sockets whose changes are traced: see ConnType
  MaxEvents,    \* bound on the events of a behaviour
  MaxErrors,    \* bound on the reads that fail
  Zero, Lo      \* the addresses 0.0.0.0 and 127.0.0.1

ConnType(s) ==
  /\ DOMAIN s = {"fam", "laddr", "lport", "raddr", "rport", "role"}
  /\ s.fam \in {4, 6}
  /\ s.role \in {"UNKNOWN", "CLIENT", "SERVER"}

ASSUME ConnAssumption == \A s \in Conns : ConnType(s)
ASSUME BoundAssumption == MaxEvents \in Nat /\ MaxErrors \in Nat

VARIABLES
  sent,     \* the sockets of the events submitted so far (auxiliary)
  taken,    \* how many of them the reader has taken out of the ring
  done,     \* the context is done
  open,     \* the ring buffer reader is open
  pc,       \* handlePerfEvent: "read", "check", "returned"
  lines,    \* what it printed
  errors    \* failed reads so far

vars == <<sent, taken, done, open, pc, lines, errors>>

-----------------------------------------------------------------------------
(* set_conn_info: an IPv4 socket with an unset end is rejected.  The       *)
(* addresses of the two families go to opposite fields, the ports do not.  *)
Rejected(s) == s.fam = 4 /\ Zero \in {s.laddr, s.raddr}

set_conn_info(s) ==
  [role |-> s.role,
   src_ip    |-> IF s.fam = 4 THEN s.raddr ELSE s.laddr,
   dest_ip   |-> IF s.fam = 4 THEN s.laddr ELSE s.raddr,
   src_port  |-> s.rport,
   dest_port |-> s.lport]

Submit ==
  /\ Len(sent) < MaxEvents
  /\ \E s \in Conns : ~Rejected(s) /\ sent' = Append(sent, s)
  /\ UNCHANGED <<taken, done, open, pc, lines, errors>>

-----------------------------------------------------------------------------
Src(ev)  == <<ev.src_ip, ev.src_port>>
Dest(ev) == <<ev.dest_ip, ev.dest_port>>

(* Mutant: only the addresses change places.                               *)
OrientAddresses(ev) ==
  IF ev.role = "SERVER"
  THEN [left |-> <<ev.dest_ip, ev.src_port>>, right |-> <<ev.src_ip, ev.dest_port>>]
  ELSE [left |-> Src(ev), right |-> Dest(ev)]

(* The two ends of the line; the swap for a client changes nothing.        *)
Orient(ev) ==
  IF ev.role = "SERVER" THEN [left |-> Dest(ev), right |-> Src(ev)]
                        ELSE [left |-> Src(ev), right |-> Dest(ev)]

(* Mutant: one local end is enough.                                        *)
SkipEither(ev) == Lo \in {ev.src_ip, ev.dest_ip}

Skip(ev) == ev.src_ip = Lo /\ ev.dest_ip = Lo

(* Printing names the event by its place among those sent, 0 for none.     *)
LogLine(n, ev) == lines' = Append(lines, [of |-> n, ends |-> Orient(ev)])

(* Read returns the next record.  A line to skip goes on with the loop,    *)
(* and past the look at the context.                                       *)
Read ==
  LET n == taken + 1 IN
  /\ pc = "read" /\ open /\ taken < Len(sent)
  /\ taken' = n
  /\ LET ev == set_conn_info(sent[n]) IN
       IF Skip(ev)
       THEN UNCHANGED <<pc, lines>>
       ELSE pc' = "check" /\ LogLine(n, ev)
  /\ UNCHANGED <<sent, done, open, errors>>

(* Read fails, the reader open: it is logged, and an empty sample decoded. *)
ReadFails ==
  /\ pc = "read" /\ open /\ errors < MaxErrors
  /\ errors' = errors + 1
  /\ pc' = "check"
  /\ LogLine(0, [role |-> "UNKNOWN", src_ip |-> Zero, dest_ip |-> Zero, src_port |-> 0, dest_port |-> 0])
  /\ UNCHANGED <<sent, taken, done, open>>

(* ErrClosed.                                                              *)
ReadClosed ==
  /\ pc = "read" /\ ~open
  /\ pc' = "returned"
  /\ UNCHANGED <<sent, taken, done, open, lines, errors>>

Check ==
  /\ pc = "check"
  /\ pc' = IF done THEN "returned" ELSE "read"
  /\ UNCHANGED <<sent, taken, done, open, lines, errors>>

Signal ==
  /\ ~done
  /\ done' = TRUE
  /\ UNCHANGED <<sent, taken, open, pc, lines, errors>>

(* Mutant: closed by a defer of handlePerfEvent.                           *)
CloseReaderDeferred ==
  /\ pc = "returned" /\ open
  /\ open' = FALSE
  /\ UNCHANGED <<sent, taken, done, pc, lines, errors>>

(* The goroutine that waits for the context.                               *)
CloseReader ==
  /\ done /\ open
  /\ open' = FALSE
  /\ UNCHANGED <<sent, taken, done, pc, lines, errors>>

Init ==
  /\ sent = <<>> /\ taken = 0
  /\ done = FALSE /\ open = TRUE
  /\ pc = "read" /\ lines = <<>> /\ errors = 0

Next == Submit \/ Read \/ ReadFails \/ ReadClosed \/ Check \/ Signal \/ CloseReader

(* Goroutines that can run do; nobody promises events, errors or signals.  *)
Spec == Init /\ [][Next]_vars /\ WF_vars(Read \/ ReadClosed \/ Check) /\ WF_vars(CloseReader)

-----------------------------------------------------------------------------
Printed == {lines[i].of : i \in DOMAIN lines} \ {0}

(* Every event taken out of the ring is printed once and in its place,     *)
(* whatever reads failed in between, except those between two loopback     *)
(* addresses.                                                              *)
PrintedInOrder ==
  /\ \A i, j \in DOMAIN lines : i < j /\ lines[j].of # 0 => lines[i].of < lines[j].of
  /\ \A n \in 1..taken : n \in Printed \/ (sent[n].laddr = Lo /\ sent[n].raddr = Lo)

(* Each side of an IPv4 line is one end of the socket, address and port.   *)
EndsOf(s) == {<<s.laddr, s.lport>>, <<s.raddr, s.rport>>}

LinesPairEnds ==
  \A i \in DOMAIN lines :
    LET l == lines[i] IN
    l.of # 0 /\ sent[l.of].fam = 4 => {l.ends.left, l.ends.right} = EndsOf(sent[l.of])

(* A done context ends the reader, however few events come.                *)
ReaderEnds == done ~> pc = "returned"
=============================================================================
