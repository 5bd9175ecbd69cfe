------------------------------ MODULE NftTrace ------------------------------
(***************************************************************************)
(* The nftables tracer: main.go picks the build for the running kernel,    *)
(* ebpf/nftrace-trace.c copies one evaluation of a rule into a record of   *)
(* its ring, and pkg/nftables/nft-trace.go prints the records.             *)
(*                                                                         *)
(* The ring's memory is Slots records that are used again and again with   *)
(* what they held before; a header per slot says busy, submitted or        *)
(* discarded.  Of a trace_info it keeps the fields a reader relates to a   *)
(* packet: the rule, the MAC addresses, the IPv4 and IPv6 ends, the ports. *)
(* A field's value is the packet it was copied from.  The name tables of   *)
(* the printed line, the process, devices and sizes are left out.  So is   *)
(* the role that fill_trace_pkt_info looks up: it is printed to the        *)
(* kernel's log and not put into the record; and what a record held when a *)
(* check failed, for it is discarded and zeroed before its next use.       *)
(***************************************************************************)
EXTENDS Naturals, Sequences, FiniteSets, FiniteSetsExt

CONSTANTS
  Cpus,
  Builds,       \* versions of the embedded builds, in the order of their names
  Kernels,      \* versions of the kernel it may be started on
  Bounds,       \* versions from which nf_tables passes its arguments differently
  Evaluations,  \* of a rule, for a packet: [pkt, rule], see below
  None, Junk,   \* nothing (zero bytes); what a pointer of the wrong type gives
  Slots, MaxRecords

ASSUME NftSizeAssumption == Slots \in Nat \ {0} /\ MaxRecords \in Nat

(* The rule is a handle, 0 for the return and the policy of a chain.  The  *)
(* packet has an id; an Ethernet type (eth); the family of the hook it is  *)
(* at (pf); its MAC header is set or not (mac), its headers lie inside of  *)
(* the buffer or not (fits); it has a socket with both IPv4 addresses set  *)
(* or not (addrs); and a transport (l4).                                   *)
PacketType ==
  [eth: {"ip", "ip6", "other"}, pf: {"ipv4", "ipv6", "other"},
   mac: BOOLEAN, addrs: BOOLEAN, fits: BOOLEAN, l4: {"tcp", "udp", "icmp", "other"}]
ASSUME EvaluationAssumption ==
  \A e \in Evaluations :
    e.rule \in Nat /\ [f \in DOMAIN e.pkt \ {"id"} |-> e.pkt[f]] \in PacketType

Records == 1..MaxRecords

Zeroed == [rule |-> 0, mac |-> None, ends4 |-> None, ends6 |-> None, ports |-> None]

VARIABLES
  kernel, build,   \* build = 0: no build for this kernel, nothing is started
  pc, data, err,   \* each CPU's program and its guard
  mem, hdr,        \* the ring's memory
  prod, cons,
  shown,           \* the lines printed, by record
  of,              \* of each record the evaluation it was reserved for
  fate, whole      \* auxiliary: what the reader found in a record's header, and
                   \* the records for which no check failed

launched == <<kernel, build>>
ring     == <<mem, hdr, prod, cons>>
history  == <<of, fate, whole>>
vars     == <<launched, pc, data, err, ring, shown, history>>

-----------------------------------------------------------------------------
(* Mutant: the first build of all.                                         *)
findFirst(nums, target) == nums[1]

(* The newest build strictly below the kernel's version; 0 if none.        *)
findFirstSmaller(nums, target) == Max({0} \cup {nums[i] : i \in {k \in DOMAIN nums : nums[k] < target}})

(* The arguments a build expects, and a kernel passes, by version.         *)
Layout(version) == Cardinality({b \in Bounds : b <= version})

-----------------------------------------------------------------------------
(* fill_trace.                                                             *)

(* Mutant: the record is used as it was reserved.                          *)
MemsetNot(old) == old

Memset(old) == Zeroed

Transports == {"tcp", "udp", "icmp"}

(* Mutant: the case of TCP lacks its break.                                *)
FailsThrough(p) ==
  \/ ~p.mac
  \/ p.eth # "other" /\ ~p.addrs
  \/ p.eth # "other" /\ p.pf # "other" /\ ~(p.fits /\ p.l4 \in Transports \ {"tcp"})

(* The checks that end with CLEAN_ERR_FAILED.  A frame that is neither     *)
(* IPv4 nor IPv6 returns before the others, one at a hook of another       *)
(* family before the last, and both without a failure.                     *)
Fails(p) ==
  \/ ~p.mac
  \/ p.eth # "other" /\ ~p.addrs
  \/ p.eth # "other" /\ p.pf # "other" /\ ~(p.fits /\ p.l4 \in Transports)

(* What was copied when no check failed.                                   *)
Filled(t, p, handle) ==
  [t EXCEPT !.rule = handle,
            !.mac = IF p.eth # "other" THEN p.id ELSE @,
            !.ends4 = IF p.eth # "other" /\ p.pf = "ipv4" THEN p.id ELSE @,
            !.ends6 = IF p.eth # "other" /\ p.pf = "ipv6" THEN p.id ELSE @,
            !.ports = IF p.eth # "other" /\ p.pf # "other" /\ p.l4 \in {"tcp", "udp"} THEN p.id ELSE @]

(* With arguments of another version all is read through wrong pointers.   *)
Misread(t) ==
  {[f \in DOMAIN t |-> IF f = "rule" THEN e.rule ELSE Junk] : e \in Evaluations}

Slot(r) == (r - 1) % Slots

-----------------------------------------------------------------------------
(* kprobe_nft_trace_packet.                                                *)
Reserve(c) ==
  /\ build # 0 /\ pc[c] = "idle" /\ prod < MaxRecords
  /\ err' = [err EXCEPT ![c] = "INIT"]
  /\ IF prod - cons < Slots
     THEN /\ prod' = prod + 1
          /\ data' = [data EXCEPT ![c] = prod + 1]
          /\ hdr' = [hdr EXCEPT ![Slot(prod + 1)] = "busy"]
          /\ \E e \in Evaluations : of' = [of EXCEPT ![prod + 1] = e]
          /\ pc' = [pc EXCEPT ![c] = "fill"]
     ELSE /\ data' = [data EXCEPT ![c] = 0]
          /\ pc' = [pc EXCEPT ![c] = "destroy"]
          /\ UNCHANGED <<prod, hdr, of>>
  /\ UNCHANGED <<launched, mem, cons, shown, fate, whole>>

Fill(c) ==
  LET slot == Slot(data[c])
      p    == of[data[c]].pkt
      t    == Memset(mem[slot])
      misread == Layout(kernel) # Layout(build) IN
  /\ pc[c] = "fill"
  /\ pc' = [pc EXCEPT ![c] = "settle"]
  /\ \/ /\ misread \/ Fails(p)
        /\ err' = [err EXCEPT ![c] = "FAILED"]
        /\ mem' = [mem EXCEPT ![slot] = t]
        /\ UNCHANGED whole
     \/ /\ misread \/ ~Fails(p)
        /\ \E filled \in IF misread THEN Misread(t) ELSE {Filled(t, p, of[data[c]].rule)} :
             mem' = [mem EXCEPT ![slot] = filled]
        /\ whole' = whole \cup {data[c]}
        /\ UNCHANGED err
  /\ UNCHANGED <<launched, data, hdr, prod, cons, shown, of, fate>>

(* Mutant: success whatever happened.                                      *)
SettleAlways(c) ==
  /\ pc[c] = "settle"
  /\ pc' = [pc EXCEPT ![c] = "destroy"]
  /\ err' = [err EXCEPT ![c] = "SUCCESS"]
  /\ UNCHANGED <<launched, data, ring, shown, history>>

Settle(c) ==
  /\ pc[c] = "settle"
  /\ pc' = [pc EXCEPT ![c] = "destroy"]
  /\ err' = IF err[c] = "INIT" THEN [err EXCEPT ![c] = "SUCCESS"] ELSE err
  /\ UNCHANGED <<launched, data, ring, shown, history>>

guard_ring_buf_destructor(c) ==
  /\ pc[c] = "destroy"
  /\ pc' = [pc EXCEPT ![c] = "idle"]
  /\ hdr' = IF data[c] = 0 THEN hdr
            ELSE [hdr EXCEPT ![Slot(data[c])] = IF err[c] = "SUCCESS" THEN "submitted" ELSE "discarded"]
  /\ UNCHANGED <<launched, data, err, mem, prod, cons, shown, history>>

-----------------------------------------------------------------------------
(* The goroutine of nftables.Run.  Records of returns and policies have    *)
(* the rule 0 and are skipped.  Nothing sets conn_info.family, so the      *)
(* IPv4 ends are printed whatever the packet.                              *)
LineOf(t) == [rule |-> t.rule, mac |-> t.mac, ends |-> t.ends4, ports |-> t.ports]

Read ==
  LET slot == Slot(cons + 1) IN
  /\ cons < prod /\ hdr[slot] # "busy"
  /\ cons' = cons + 1
  /\ fate' = [fate EXCEPT ![cons + 1] = hdr[slot]]
  /\ shown' = IF hdr[slot] = "submitted" /\ mem[slot].rule # 0
              THEN [shown EXCEPT ![cons + 1] = LineOf(mem[slot])]
              ELSE shown
  /\ UNCHANGED <<launched, pc, data, err, mem, hdr, prod, of, whole>>

Init ==
  /\ kernel \in Kernels
  /\ build = findFirstSmaller(Builds, kernel)
  /\ pc = [c \in Cpus |-> "idle"]
  /\ data = [c \in Cpus |-> 0]
  /\ err = [c \in Cpus |-> "INIT"]
  /\ mem = [s \in 0..Slots - 1 |-> Zeroed]
  /\ hdr = [s \in 0..Slots - 1 |-> "discarded"]
  /\ prod = 0 /\ cons = 0
  /\ shown = [r \in Records |-> None]
  /\ of = [r \in Records |-> None]
  /\ fate = [r \in Records |-> "free"]
  /\ whole = {}

Program(c) == Reserve(c) \/ Fill(c) \/ Settle(c) \/ guard_ring_buf_destructor(c)

Next == Read \/ \E c \in Cpus : Program(c)

(* As in RingGuard: programs end, the reader's loop reads on.              *)
Fairness ==
  /\ WF_vars(Read)
  /\ \A c \in Cpus : WF_vars(Fill(c) \/ Settle(c) \/ guard_ring_buf_destructor(c))

Spec == Init /\ [][Next]_vars /\ Fairness

-----------------------------------------------------------------------------
(* A line says of its evaluation nothing that is another packet's, however *)
(* often the slot was used before, and of an IPv4 packet at an IPv4 hook   *)
(* it has the ends, and the ports if there are any.  On a kernel of        *)
(* exactly a build's version main.go picks the build before, whose idea of *)
(* the arguments may be another.                                           *)
LinesAreTrue ==
  \A r \in Records : shown[r] # None /\ (\A i \in DOMAIN Builds : kernel # Builds[i]) =>
    LET line == shown[r]
        p == of[r].pkt IN
    /\ line.rule = of[r].rule
    /\ {line.mac, line.ends, line.ports} \subseteq {p.id, None}
    /\ p.eth = "ip" /\ p.pf = "ipv4" =>
         line.ends = p.id /\ (p.l4 \in {"tcp", "udp"} => line.ports = p.id)

(* The evaluation of a rule for a well-formed IPv4 packet of a local       *)
(* socket, once it has a record, is printed.                               *)
Reported(r) ==
  /\ of[r] # None /\ of[r].rule # 0
  /\ LET p == of[r].pkt IN
     p.eth = "ip" /\ p.pf = "ipv4" /\ p.mac /\ p.addrs /\ p.fits /\ p.l4 \in Transports
  /\ \A i \in DOMAIN Builds : kernel # Builds[i]

RulesPrinted == \A r \in Records : Reported(r) ~> (shown[r] # None)

(* A ring of slots that are used again, with this program and this reader, *)
(* implements the guard's ring, in which every record is a new one.        *)
Rec == [r \in Records |-> IF r > prod THEN "free"
                         ELSE IF r > cons THEN hdr[Slot(r)] ELSE fate[r]]

Guard == INSTANCE RingGuard WITH use <- "report", rec <- Rec

ImplementsGuard == Guard!Spec
=============================================================================
