-------------------------- MODULE RingGuardProofs --------------------------
(***************************************************************************)
(* Theorems about the ring buffer guard for any number of CPUs and any     *)
(* size of the ring.  IInv adds to the properties what makes them          *)
(* inductive: the free records are those never reserved, and a program     *)
(* about to succeed has filled its record in.                              *)
(***************************************************************************)
EXTENDS RingGuard, TLAPS

TypeInv ==
  /\ use \in {"report", "scratch"}
  /\ pc \in [Cpus -> {"idle", "fill", "settle", "destroy"}]
  /\ data \in [Cpus -> 0..MaxRecords]
  /\ err \in [Cpus -> Codes]
  /\ rec \in [Records -> {"free", "busy", "submitted", "discarded"}]
  /\ prod \in 0..MaxRecords
  /\ cons \in 0..MaxRecords

Reserved ==
  /\ \A r \in Records : rec[r] = "free" <=> r > prod
  /\ \A c \in Cpus : pc[c] \in {"fill", "settle"} => data[c] # 0

Sound(c) ==
  /\ pc[c] = "settle" /\ err[c] = "INIT" => data[c] \in whole
  /\ pc[c] = "destroy" /\ err[c] = "SUCCESS" => data[c] \in whole
  /\ pc[c] = "settle" => err[c] # "SUCCESS"
  /\ pc[c] = "fill" => err[c] = "INIT"

Room == use = "scratch" => cons = 0

IInv ==
  /\ TypeInv
  /\ Reserved
  /\ BusyIsHeld
  /\ OnlyWholeSubmitted
  /\ \A c \in Cpus : Sound(c)
  /\ Room
  /\ ScratchUsesUp

LEMMA InitIInv == Init => IInv
  BY SizeAssumption, SMTT(30) DEF Init, IInv, TypeInv, Reserved, BusyIsHeld, OnlyWholeSubmitted,
     Sound, Room, ScratchUsesUp, Records, Codes

LEMMA StepIInv == IInv /\ [Next]_vars => IInv'
<1> SUFFICES ASSUME IInv, [Next]_vars PROVE IInv'
  OBVIOUS
<1> USE SizeAssumption DEF IInv
<1>1. CASE UNCHANGED vars
  BY <1>1 DEF vars, TypeInv, Reserved, BusyIsHeld, OnlyWholeSubmitted, Sound, Room, ScratchUsesUp
<1>2. CASE Read
  BY <1>2 DEF Read, TypeInv, Reserved, BusyIsHeld, OnlyWholeSubmitted, Sound, Room,
     ScratchUsesUp, Records
<1>3. ASSUME NEW c \in Cpus, Reserve(c) PROVE IInv'
  <2>0. prod' \in 0..MaxRecords /\ data' \in [Cpus -> 0..MaxRecords]
    BY <1>3 DEF Reserve, TypeInv
  <2>1. TypeInv'
    BY <1>3, <2>0 DEF Reserve, TypeInv, Records, Codes
  <2>2. Reserved'
    BY <1>3 DEF Reserve, TypeInv, Reserved, Records, Codes
  <2>3. BusyIsHeld'
    <3>1. CASE prod - cons < Slots
      <4>1. prod + 1 \in Records /\ rec[prod + 1] = "free"
        BY <1>3 DEF Reserve, TypeInv, Reserved, Records
      <4>2. \A d \in Cpus : pc[d] # "idle" => data[d] # prod + 1
        BY <4>1 DEF BusyIsHeld
      <4>3. /\ data' = [data EXCEPT ![c] = prod + 1] /\ rec' = [rec EXCEPT ![prod + 1] = "busy"]
            /\ pc' = [pc EXCEPT ![c] = "fill"] /\ pc[c] = "idle"
        BY <1>3, <3>1 DEF Reserve
      <4>4. ASSUME NEW r \in Records
            PROVE  rec'[r] = "busy" <=> \E d \in Cpus : pc'[d] # "idle" /\ data'[d] = r
        <5>1. CASE r = prod + 1
          BY <4>1, <4>3, <5>1 DEF TypeInv
        <5>2. CASE r # prod + 1
          <6>1. rec'[r] = rec[r]
            BY <4>3, <5>2 DEF TypeInv
          <6>2. \A d \in Cpus : pc'[d] # "idle" /\ data'[d] = r <=> pc[d] # "idle" /\ data[d] = r
            BY <4>3, <5>2 DEF TypeInv
          <6> QED BY <6>1, <6>2 DEF BusyIsHeld
        <5> QED BY <5>1, <5>2
      <4>5. ASSUME NEW d \in Cpus, NEW e \in Cpus, pc'[d] # "idle", pc'[e] # "idle",
                   data'[d] = data'[e]
            PROVE  d = e \/ data'[d] = 0
        BY <4>2, <4>3, <4>5 DEF BusyIsHeld, TypeInv
      <4> QED BY <4>4, <4>5 DEF BusyIsHeld
    <3>2. CASE ~(prod - cons < Slots)
      <4>1. /\ data' = [data EXCEPT ![c] = 0] /\ rec' = rec
            /\ pc' = [pc EXCEPT ![c] = "destroy"] /\ pc[c] = "idle"
        BY <1>3, <3>2 DEF Reserve
      <4>2. ASSUME NEW r \in Records
            PROVE  \A d \in Cpus : pc'[d] # "idle" /\ data'[d] = r <=> pc[d] # "idle" /\ data[d] = r
        BY <4>1 DEF TypeInv, Records
      <4>3. ASSUME NEW d \in Cpus, NEW e \in Cpus, pc'[d] # "idle", pc'[e] # "idle",
                   data'[d] = data'[e]
            PROVE  d = e \/ data'[d] = 0
        BY <4>1, <4>3 DEF BusyIsHeld, TypeInv
      <4> QED BY <4>1, <4>2, <4>3 DEF BusyIsHeld
    <3> QED BY <3>1, <3>2
  <2>4. OnlyWholeSubmitted'
    BY <1>3 DEF Reserve, TypeInv, OnlyWholeSubmitted, Records
  <2>5. \A d \in Cpus : Sound(d)'
    BY <1>3 DEF Reserve, TypeInv, Sound, Records
  <2>6. Room' /\ ScratchUsesUp'
    BY <1>3 DEF Reserve, TypeInv, Room, ScratchUsesUp
  <2> QED BY <2>1, <2>2, <2>3, <2>4, <2>5, <2>6
<1>4. ASSUME NEW c \in Cpus, Fill(c) PROVE IInv'
  <2>1. TypeInv'
    BY <1>4 DEF Fill, TypeInv, Codes
  <2>2. Reserved'
    BY <1>4 DEF Fill, TypeInv, Reserved
  <2>3. BusyIsHeld'
    BY <1>4 DEF Fill, TypeInv, BusyIsHeld
  <2>4. OnlyWholeSubmitted'
    BY <1>4 DEF Fill, TypeInv, OnlyWholeSubmitted
  <2>5. \A d \in Cpus : Sound(d)'
    BY <1>4 DEF Fill, TypeInv, Sound, Codes
  <2>6. Room' /\ ScratchUsesUp'
    BY <1>4 DEF Fill, Room, ScratchUsesUp
  <2> QED BY <2>1, <2>2, <2>3, <2>4, <2>5, <2>6
<1>5. ASSUME NEW c \in Cpus, Settle(c) PROVE IInv'
  <2>1. TypeInv'
    BY <1>5 DEF Settle, TypeInv, Codes
  <2>2. Reserved'
    BY <1>5 DEF Settle, TypeInv, Reserved
  <2>3. BusyIsHeld'
    BY <1>5 DEF Settle, TypeInv, BusyIsHeld
  <2>4. OnlyWholeSubmitted'
    BY <1>5 DEF Settle, TypeInv, OnlyWholeSubmitted
  <2>5. \A d \in Cpus : Sound(d)'
    BY <1>5 DEF Settle, TypeInv, Sound, Codes
  <2>6. Room' /\ ScratchUsesUp'
    BY <1>5 DEF Settle, Room, ScratchUsesUp
  <2> QED BY <2>1, <2>2, <2>3, <2>4, <2>5, <2>6
<1>6. ASSUME NEW c \in Cpus, guard_ring_buf_destructor(c) PROVE IInv'
  <2>1. TypeInv'
    BY <1>6 DEF guard_ring_buf_destructor, TypeInv, Codes, Records
  <2>2. data[c] # 0 => data[c] \in Records /\ rec[data[c]] = "busy"
    BY <1>6 DEF guard_ring_buf_destructor, TypeInv, BusyIsHeld, Records
  <2>3. Reserved'
    BY <1>6, <2>2 DEF guard_ring_buf_destructor, TypeInv, Reserved, Records
  <2>4. BusyIsHeld'
    BY <1>6, <2>2 DEF guard_ring_buf_destructor, TypeInv, BusyIsHeld, Records
  <2>5. OnlyWholeSubmitted'
    BY <1>6, <2>2 DEF guard_ring_buf_destructor, TypeInv, OnlyWholeSubmitted, Sound, Records
  <2>6. \A d \in Cpus : Sound(d)'
    BY <1>6 DEF guard_ring_buf_destructor, TypeInv, Sound
  <2>7. Room' /\ ScratchUsesUp'
    BY <1>6 DEF guard_ring_buf_destructor, Room, ScratchUsesUp
  <2> QED BY <2>1, <2>3, <2>4, <2>5, <2>6, <2>7
<1> QED BY <1>1, <1>2, <1>3, <1>4, <1>5, <1>6 DEF Next, Program

LEMMA AlwaysIInv == Spec => []IInv
  BY InitIInv, StepIInv, PTL DEF Spec

(* A record is busy exactly while one program holds it (bpf_cleanup.h).    *)
THEOREM RecordsHeld == Spec => []BusyIsHeld
<1>1. IInv => BusyIsHeld
  BY DEF IInv
<1> QED BY <1>1, AlwaysIInv, PTL

(* The reader gets only records whose filling ran to its end.              *)
THEOREM WholeRecords == Spec => []OnlyWholeSubmitted
<1>1. IInv => OnlyWholeSubmitted
  BY DEF IInv
<1> QED BY <1>1, AlwaysIInv, PTL

(* Without a reader a ring of n records serves n events, ever.             *)
THEOREM RingUsedUp == Spec => []ScratchUsesUp
<1>1. IInv => ScratchUsesUp
  BY DEF IInv
<1> QED BY <1>1, AlwaysIInv, PTL
=============================================================================
