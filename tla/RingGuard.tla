----------------------------- MODULE RingGuard -----------------------------
(***************************************************************************)
(* The guard of ebpf/headers/bpf/bpf_cleanup.h: a program reserves a       *)
(* record of a BPF ring buffer, fills it in, and a destructor that runs on *)
(* every way out submits it or discards it by the code in *err.  Programs  *)
(* run on several CPUs at once; the reader takes records in the order they *)
(* were reserved and waits at the first that is neither submitted nor      *)
(* discarded.  A discarded record takes room until the reader passes it.   *)
(*                                                                         *)
(* Every object file has a ring of its own, and two kinds of use exist: in *)
(* tcp-link-trace.c and nftrace-trace.c a program ends with SUCCESS when   *)
(* nothing failed, and user space reads the ring; iptables-trace.c never   *)
(* sets SUCCESS, its records being scratch for a perf event, and           *)
(* pkg/iptables has no reader of the ring.                                 *)
(***************************************************************************)
EXTENDS Naturals

CONSTANTS
  Cpus, Slots,      \* records the ring has room for
  MaxRecords        \* bound on the records reserved in a behaviour

ASSUME SizeAssumption == Slots \in Nat /\ MaxRecords \in Nat

Codes == {"SUCCESS", "INIT", "FAILED"}        \* CLEAN_ERR_*; > 0 but for SUCCESS

VARIABLES
  use,      \* of this ring: "report" or "scratch"
  pc,       \* each CPU's program
  data,     \* its guard's data: a record, 0 for NULL
  err,      \* its *err
  rec,      \* states of the records
  whole,    \* records all fields of which were filled in (auxiliary)
  prod,     \* records reserved
  cons      \* records the reader has passed

vars == <<use, pc, data, err, rec, whole, prod, cons>>

Records == 1..MaxRecords

(* Mutant: room is what no program holds.                                  *)
ReserveCountsBusy(c) ==
  /\ pc[c] = "idle" /\ prod < MaxRecords
  /\ err' = [err EXCEPT ![c] = "INIT"]
  /\ IF \E r \in cons + 1 .. cons + Slots : r \notin Records \/ rec[r] # "busy"
     THEN /\ prod' = prod + 1
          /\ data' = [data EXCEPT ![c] = prod + 1]
          /\ rec' = [rec EXCEPT ![prod + 1] = "busy"]
          /\ pc' = [pc EXCEPT ![c] = "fill"]
     ELSE /\ data' = [data EXCEPT ![c] = 0]
          /\ pc' = [pc EXCEPT ![c] = "destroy"]
          /\ UNCHANGED <<prod, rec>>
  /\ UNCHANGED <<use, whole, cons>>

(* guard_ring_buf; a program that gets no record returns at once.          *)
Reserve(c) ==
  /\ pc[c] = "idle" /\ prod < MaxRecords
  /\ err' = [err EXCEPT ![c] = "INIT"]
  /\ IF prod - cons < Slots
     THEN /\ prod' = prod + 1
          /\ data' = [data EXCEPT ![c] = prod + 1]
          /\ rec' = [rec EXCEPT ![prod + 1] = "busy"]
          /\ pc' = [pc EXCEPT ![c] = "fill"]
     ELSE /\ data' = [data EXCEPT ![c] = 0]
          /\ pc' = [pc EXCEPT ![c] = "destroy"]
          /\ UNCHANGED <<prod, rec>>
  /\ UNCHANGED <<use, whole, cons>>

(* set_conn_info, fill_trace: a check that fails sets the code and returns *)
(* with the rest of the record still zero.  iptables-trace.c checks        *)
(* nothing.                                                                *)
Fill(c) ==
  /\ pc[c] = "fill"
  /\ pc' = [pc EXCEPT ![c] = "settle"]
  /\ \/ whole' = whole \cup {data[c]} /\ UNCHANGED err
     \/ use = "report" /\ err' = [err EXCEPT ![c] = "FAILED"] /\ UNCHANGED whole
  /\ UNCHANGED <<use, data, rec, prod, cons>>

(* Mutant: success whatever happened.                                      *)
SettleAlways(c) ==
  /\ pc[c] = "settle"
  /\ pc' = [pc EXCEPT ![c] = "destroy"]
  /\ err' = IF use = "report" THEN [err EXCEPT ![c] = "SUCCESS"] ELSE err
  /\ UNCHANGED <<use, data, rec, whole, prod, cons>>

Settle(c) ==
  /\ pc[c] = "settle"
  /\ pc' = [pc EXCEPT ![c] = "destroy"]
  /\ err' = IF use = "report" /\ err[c] = "INIT" THEN [err EXCEPT ![c] = "SUCCESS"] ELSE err
  /\ UNCHANGED <<use, data, rec, whole, prod, cons>>

(* Mutant: a failed record is just left.                                   *)
DestructorLeaves(c) ==
  /\ pc[c] = "destroy"
  /\ pc' = [pc EXCEPT ![c] = "idle"]
  /\ rec' = IF data[c] = 0 \/ err[c] # "SUCCESS" THEN rec
            ELSE [rec EXCEPT ![data[c]] = "submitted"]
  /\ UNCHANGED <<use, data, err, whole, prod, cons>>

guard_ring_buf_destructor(c) ==
  /\ pc[c] = "destroy"
  /\ pc' = [pc EXCEPT ![c] = "idle"]
  /\ rec' = IF data[c] = 0 THEN rec
            ELSE [rec EXCEPT ![data[c]] = IF err[c] = "SUCCESS" THEN "submitted" ELSE "discarded"]
  /\ UNCHANGED <<use, data, err, whole, prod, cons>>

(* The reader passes a submitted record (and hands it to the program), or  *)
(* a discarded one.                                                        *)
Read ==
  /\ use = "report"
  /\ cons < prod /\ rec[cons + 1] # "busy"
  /\ cons' = cons + 1
  /\ UNCHANGED <<use, pc, data, err, rec, whole, prod>>

Init ==
  /\ use \in {"report", "scratch"}
  /\ pc = [c \in Cpus |-> "idle"]
  /\ data = [c \in Cpus |-> 0]
  /\ err = [c \in Cpus |-> "INIT"]
  /\ rec = [r \in Records |-> "free"]
  /\ whole = {}
  /\ prod = 0 /\ cons = 0

Program(c) == Reserve(c) \/ Fill(c) \/ Settle(c) \/ guard_ring_buf_destructor(c)

Next == Read \/ \E c \in Cpus : Program(c)

(* A BPF program runs to its end, and the reader's loop reads on; nothing  *)
(* makes a new event happen.                                               *)
Fairness ==
  /\ WF_vars(Read)
  /\ \A c \in Cpus : WF_vars(Fill(c) \/ Settle(c) \/ guard_ring_buf_destructor(c))

Spec == Init /\ [][Next]_vars /\ Fairness

-----------------------------------------------------------------------------
(* A record is busy exactly while one program holds it: none is forgotten, *)
(* submitted twice, or shared by two CPUs.                                 *)
BusyIsHeld ==
  /\ \A r \in Records : rec[r] = "busy" <=> \E c \in Cpus : pc[c] # "idle" /\ data[c] = r
  /\ \A c, d \in Cpus : pc[c] # "idle" /\ pc[d] # "idle" /\ data[c] = data[d] =>
       c = d \/ data[c] = 0

(* The reader gets no record whose filling gave up half way, whichever CPU *)
(* reserved the slot before.                                               *)
OnlyWholeSubmitted == \A r \in Records : rec[r] = "submitted" => r \in whole

(* No program, however it ends, blocks a ring that is read: the reader     *)
(* gets past every record that was reserved.                               *)
AllRead == use = "report" => \A r \in Records : (prod >= r) ~> (cons >= r)

(* Without a reader the scratch records of iptables-trace.c use the ring   *)
(* up: discarding gives no room back, so after Slots events the program    *)
(* finds no room and reports nothing any more.                             *)
ScratchUsesUp == use = "scratch" => prod <= Slots
=============================================================================
