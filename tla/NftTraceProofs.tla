--------------------------- MODULE NftTraceProofs ---------------------------
(***************************************************************************)
(* The ring of NftTrace, whose slots are used again, implements the ring   *)
(* of RingGuard, whose records are all new; and what is printed of a       *)
(* record is about its own packet: for any number of CPUs, any size of the *)
(* ring and any packets.                                                   *)
(***************************************************************************)
EXTENDS NftTrace, WellFoundedInduction, TLAPS

LEMMA DivMod ==
  ASSUME NEW a \in Nat, NEW n \in Nat \ {0}
  PROVE  a \div n \in Nat /\ a % n \in 0..n - 1 /\ a = n * (a \div n) + (a % n)
OBVIOUS

LEMMA SlotsDiffer ==
  ASSUME NEW r \in Nat \ {0}, NEW s \in Nat \ {0}, r < s, s - r < Slots
  PROVE  Slot(r) # Slot(s)
<1> DEFINE a == r - 1
           b == s - 1
<1>1. a \in Nat /\ b \in Nat /\ Slots \in Nat \ {0} /\ a < b /\ b - a < Slots
  BY NftSizeAssumption
<1> HIDE DEF a, b
<1>2. SUFFICES ASSUME a % Slots = b % Slots PROVE FALSE
  BY DEF Slot, a, b
<1>3. PICK p \in Nat : p = a \div Slots
  BY <1>1, DivMod
<1>4. PICK q \in Nat : q = b \div Slots
  BY <1>1, DivMod
<1>5. b - a = Slots * q - Slots * p
  BY <1>1, <1>2, <1>3, <1>4, DivMod
<1>6. Slots * q - Slots * p = Slots * (q - p)
  BY <1>1, <1>3, <1>4
<1>7. CASE q <= p
  <2>1. Slots * q <= Slots * p
    BY <1>1, <1>7
  <2>2. QED BY <2>1, <1>5, <1>1
<1>8. CASE q > p
  <2>1. Slots * (q - p) >= Slots
    BY <1>1, <1>8
  <2>2. QED BY <2>1, <1>5, <1>6, <1>1
<1>9. QED BY <1>7, <1>8

-----------------------------------------------------------------------------
(* A program holds a record that the reader has not passed, alone, and its *)
(* slot is busy.                                                           *)
RingType ==
  /\ pc \in [Cpus -> {"idle", "fill", "settle", "destroy"}]
  /\ data \in [Cpus -> 0..MaxRecords]
  /\ err \in [Cpus -> {"SUCCESS", "INIT", "FAILED"}]
  /\ hdr \in [0..Slots - 1 -> {"busy", "submitted", "discarded"}]
  /\ prod \in 0..MaxRecords /\ cons \in 0..MaxRecords
  /\ cons <= prod /\ prod - cons <= Slots
  /\ fate \in [Records -> {"free", "busy", "submitted", "discarded"}]

Holds(c) == pc[c] # "idle" /\ data[c] # 0

Held ==
  /\ \A c \in Cpus : pc[c] \in {"fill", "settle"} => data[c] # 0
  /\ \A c \in Cpus : Holds(c) =>
       cons < data[c] /\ data[c] <= prod /\ hdr[Slot(data[c])] = "busy"
  /\ \A c, d \in Cpus : Holds(c) /\ Holds(d) /\ data[c] = data[d] => c = d

IInv == RingType /\ Held

LEMMA SlotType == ASSUME NEW r \in Nat \ {0} PROVE Slot(r) \in 0..Slots - 1
<1>1. r - 1 \in Nat /\ Slots \in Nat \ {0}
  BY NftSizeAssumption
<1>2. QED BY <1>1, DivMod DEF Slot

(* Two records between the consumer and the producer have two slots.       *)
LEMMA LiveSlotsDiffer ==
  ASSUME RingType, NEW r \in Nat, NEW s \in Nat, r # s,
         cons < r, r <= prod, cons < s, s <= prod
  PROVE  Slot(r) # Slot(s)
<1>1. CASE r < s
  BY <1>1, SlotsDiffer, NftSizeAssumption DEF RingType
<1>2. CASE s < r
  BY <1>2, SlotsDiffer, NftSizeAssumption DEF RingType
<1>3. QED BY <1>1, <1>2

LEMMA InitIInv == Init => IInv
<1> SUFFICES ASSUME Init PROVE IInv
  OBVIOUS
<1>1. RingType
  BY NftSizeAssumption DEF Init, RingType, Records
<1>2. Held
  BY DEF Init, Held, Holds
<1>3. QED BY <1>1, <1>2 DEF IInv

LEMMA StepIInv == IInv /\ [Next]_vars => IInv'
<1> SUFFICES ASSUME IInv, [Next]_vars PROVE IInv'
  OBVIOUS
<1> USE DEF IInv
<1>1. CASE UNCHANGED vars
  BY <1>1 DEF vars, ring, history, RingType, Held, Holds
<1>2. CASE Read
  <2>0. cons + 1 \in Nat \ {0} /\ cons + 1 <= prod /\ cons + 1 \in Records
    BY <1>2, NftSizeAssumption DEF Read, RingType, Records
  <2>1. Slot(cons + 1) \in 0..Slots - 1
    BY <2>0, SlotType
  <2>2. RingType'
    <3>1. hdr[Slot(cons + 1)] \in {"busy", "submitted", "discarded"}
      BY <2>1 DEF RingType
    <3>2. fate' \in [Records -> {"free", "busy", "submitted", "discarded"}]
      BY <1>2, <2>0, <3>1 DEF Read, RingType
    <3>3. /\ cons' \in 0..MaxRecords /\ cons' <= prod' /\ prod' - cons' <= Slots
          /\ UNCHANGED <<pc, data, err, hdr, prod>>
      BY <1>2, <2>0, NftSizeAssumption DEF Read, RingType
    <3>4. QED BY <3>2, <3>3 DEF RingType
  <2>3. ASSUME NEW c \in Cpus, Holds(c) PROVE data[c] # cons + 1
    BY <1>2, <2>3 DEF Read, Held
  <2>4. Held'
    BY <1>2, <2>3 DEF Read, RingType, Held, Holds
  <2>5. QED BY <2>2, <2>4
<1>3. ASSUME NEW c \in Cpus, Reserve(c) PROVE IInv'
  <2>1. CASE prod - cons < Slots
    <3>0. /\ prod + 1 \in Nat \ {0}
          /\ prod + 1 \in 0..MaxRecords
          /\ cons < prod + 1
          /\ prod' = prod + 1
          /\ data' = [data EXCEPT ![c] = prod + 1]
          /\ hdr' = [hdr EXCEPT ![Slot(prod + 1)] = "busy"]
          /\ pc' = [pc EXCEPT ![c] = "fill"]
          /\ cons' = cons
      BY <1>3, <2>1, NftSizeAssumption DEF Reserve, RingType
    <3>1. Slot(prod + 1) \in 0..Slots - 1
      BY <3>0, SlotType
    <3>2. RingType'
      <4>1. /\ data' \in [Cpus -> 0..MaxRecords]
            /\ hdr' \in [0..Slots - 1 -> {"busy", "submitted", "discarded"}]
            /\ pc' \in [Cpus -> {"idle", "fill", "settle", "destroy"}]
        BY <3>0, <3>1 DEF RingType
      <4>2. /\ prod' \in 0..MaxRecords /\ cons' \in 0..MaxRecords
            /\ cons' <= prod' /\ prod' - cons' <= Slots
        BY <3>0, <2>1, NftSizeAssumption DEF RingType
      <4>3. err' \in [Cpus -> {"SUCCESS", "INIT", "FAILED"}] /\ fate' = fate
        BY <1>3 DEF Reserve, RingType
      <4>4. QED BY <4>1, <4>2, <4>3 DEF RingType
    <3>3. ASSUME NEW d \in Cpus, Holds(d), d # c PROVE Slot(data[d]) # Slot(prod + 1)
      <4>1. data[d] \in Nat \ {0} /\ data[d] < prod + 1 /\ (prod + 1) - data[d] < Slots
        BY <3>3, <2>1, NftSizeAssumption DEF Held, Holds, RingType
      <4>2. QED BY <4>1, <3>0, SlotsDiffer
    <3>4. \A d \in Cpus : d # c => pc'[d] = pc[d] /\ data'[d] = data[d]
      BY <3>0 DEF RingType
    <3>5. pc'[c] = "fill" /\ data'[c] = prod + 1
      BY <3>0 DEF RingType
    <3>6. ASSUME NEW d \in Cpus, Holds(d)'
          PROVE  cons' < data'[d] /\ data'[d] <= prod' /\ hdr'[Slot(data'[d])] = "busy"
      <4>1. CASE d = c
        BY <4>1, <3>0, <3>1, <3>5 DEF RingType
      <4>2. CASE d # c
        <5>1. Holds(d)
          BY <4>2, <3>4, <3>6 DEF Holds
        <5>2. hdr[Slot(data[d])] = "busy" /\ data[d] <= prod /\ cons < data[d] /\ data[d] \in Nat \ {0}
          BY <5>1 DEF Held, Holds, RingType
        <5>3. Slot(data[d]) \in 0..Slots - 1
          BY <5>2, SlotType
        <5>4. hdr'[Slot(data[d])] = "busy"
          BY <5>1, <5>2, <5>3, <3>3, <4>2, <3>0 DEF RingType
        <5>5. QED BY <5>2, <5>4, <4>2, <3>4, <3>0 DEF RingType
      <4>3. QED BY <4>1, <4>2
    <3>7. ASSUME NEW d \in Cpus, NEW e \in Cpus, Holds(d)', Holds(e)', data'[d] = data'[e] PROVE d = e
      <4>1. \A x \in Cpus : x # c /\ Holds(x)' => data'[x] <= prod /\ Holds(x) /\ data'[x] = data[x]
        BY <3>4 DEF Holds, Held
      <4>2. data'[c] > prod
        BY <3>5 DEF RingType
      <4>3. CASE d = c \/ e = c
        BY <4>1, <4>2, <4>3, <3>7 DEF RingType
      <4>4. CASE d # c /\ e # c
        BY <4>1, <4>4, <3>7 DEF Held
      <4>5. QED BY <4>3, <4>4
    <3>8. ASSUME NEW d \in Cpus, pc'[d] \in {"fill", "settle"} PROVE data'[d] # 0
      BY <3>4, <3>5, <3>8, <3>0 DEF Held
    <3>9. QED BY <3>2, <3>6, <3>7, <3>8 DEF Held
  <2>2. CASE ~(prod - cons < Slots)
    <3>0. /\ data' = [data EXCEPT ![c] = 0] /\ pc' = [pc EXCEPT ![c] = "destroy"]
          /\ err' = [err EXCEPT ![c] = "INIT"]
          /\ UNCHANGED <<hdr, prod, cons, fate>>
      BY <1>3, <2>2 DEF Reserve
    <3>1. RingType'
      BY <3>0, NftSizeAssumption DEF RingType
    <3>2. Held'
      BY <3>0 DEF RingType, Held, Holds
    <3>3. QED BY <3>1, <3>2
  <2>3. QED BY <2>1, <2>2
<1>4. ASSUME NEW c \in Cpus, Fill(c) PROVE IInv'
  <2>0. /\ pc[c] = "fill" /\ pc' = [pc EXCEPT ![c] = "settle"]
        /\ err' = [err EXCEPT ![c] = "FAILED"] \/ err' = err
        /\ UNCHANGED <<data, hdr, prod, cons, fate>>
    BY <1>4 DEF Fill
  <2>1. RingType'
    BY <2>0 DEF RingType
  <2>2. Held'
    BY <2>0 DEF RingType, Held, Holds
  <2>3. QED BY <2>1, <2>2
<1>5. ASSUME NEW c \in Cpus, Settle(c) PROVE IInv'
  <2>0. /\ pc[c] = "settle" /\ pc' = [pc EXCEPT ![c] = "destroy"]
        /\ err' = [err EXCEPT ![c] = "SUCCESS"] \/ err' = err
        /\ UNCHANGED <<data, hdr, prod, cons, fate>>
    BY <1>5 DEF Settle, ring, history
  <2>1. RingType'
    BY <2>0 DEF RingType
  <2>2. Held'
    BY <2>0 DEF RingType, Held, Holds
  <2>3. QED BY <2>1, <2>2
<1>6. ASSUME NEW c \in Cpus, guard_ring_buf_destructor(c) PROVE IInv'
  <2>1. RingType'
    BY <1>6 DEF guard_ring_buf_destructor, history, RingType
  <2>2. ASSUME NEW d \in Cpus, Holds(d)'
        PROVE  d # c /\ Holds(d) /\ hdr'[Slot(data[d])] = "busy"
    <3>1. d # c /\ Holds(d)
      BY <1>6, <2>2 DEF guard_ring_buf_destructor, Holds, RingType
    <3>2. hdr[Slot(data[d])] = "busy" /\ data[d] \in Nat \ {0}
      BY <3>1 DEF Held, Holds, RingType
    <3>3. CASE data[c] = 0
      BY <1>6, <3>1, <3>2, <3>3 DEF guard_ring_buf_destructor
    <3>4. CASE data[c] # 0
      <4>1. Holds(c)
        BY <1>6, <3>4 DEF guard_ring_buf_destructor, Holds
      <4>2. data[c] # data[d] /\ data[c] \in Nat
        BY <4>1, <3>1 DEF Held, RingType
      <4>3. Slot(data[c]) # Slot(data[d])
        BY <4>1, <4>2, <3>1, <3>2, LiveSlotsDiffer DEF Held
      <4>4. Slot(data[d]) \in 0..Slots - 1
        BY <3>2, SlotType
      <4>5. QED BY <1>6, <3>1, <3>2, <3>4, <4>3, <4>4 DEF guard_ring_buf_destructor, RingType
    <3>5. QED BY <3>1, <3>3, <3>4
  <2>3. Held'
    BY <1>6, <2>2 DEF guard_ring_buf_destructor, RingType, Held, Holds
  <2>4. QED BY <2>1, <2>3
<1>7. QED BY <1>1, <1>2, <1>3, <1>4, <1>5, <1>6 DEF Next, Program

-----------------------------------------------------------------------------
(* The refinement.  A record's state is read off its slot while the reader *)
(* has not passed it; that slot is no other record's.                      *)
LEMMA GuardInit == Init => Guard!Init
<1> SUFFICES ASSUME Init PROVE Guard!Init
  OBVIOUS
<1>1. Guard!Records = Records
  BY DEF Guard!Records, Records
<1>2. Rec = [r \in Records |-> "free"]
  BY NftSizeAssumption DEF Init, Rec, Records
<1>3. QED BY <1>1, <1>2 DEF Init, Guard!Init

LEMMA GuardStep == IInv /\ [Next]_vars => [Guard!Next]_Guard!vars
<1> SUFFICES ASSUME IInv, [Next]_vars PROVE [Guard!Next]_Guard!vars
  OBVIOUS
<1>0. RingType /\ Held /\ Guard!Records = Records
  BY DEF IInv, Guard!Records, Records
<1>1. CASE UNCHANGED vars
  BY <1>1 DEF vars, ring, history, Guard!vars, Rec, Slot
<1>2. CASE Read
  <2>0. cons + 1 \in Records /\ cons + 1 <= prod /\ cons' = cons + 1
    BY <1>0, <1>2, NftSizeAssumption DEF Read, RingType, Records
  <2>1. Rec[cons + 1] = hdr[Slot(cons + 1)] /\ fate' = [fate EXCEPT ![cons + 1] = hdr[Slot(cons + 1)]]
    BY <1>0, <1>2, <2>0 DEF Read, Rec, RingType
  <2>2. ASSUME NEW r \in Records PROVE Rec'[r] = Rec[r]
    <3>1. Rec'[r] = IF r > prod' THEN "free" ELSE IF r > cons' THEN hdr'[Slot(r)] ELSE fate'[r]
      BY DEF Rec, Records, Slot
    <3>2. Rec[r] = IF r > prod THEN "free" ELSE IF r > cons THEN hdr[Slot(r)] ELSE fate[r]
      BY DEF Rec
    <3>3. CASE r = cons + 1
      BY <1>0, <1>2, <2>0, <2>1, <3>1, <3>2, <3>3 DEF Read, RingType, Records
    <3>4. CASE r # cons + 1
      BY <1>0, <1>2, <2>0, <2>1, <3>1, <3>2, <3>4 DEF Read, RingType, Records
    <3>5. QED BY <3>3, <3>4
  <2>3. Rec' = Rec
    BY <2>2 DEF Rec, Records
  <2>4. Guard!Read
    BY <1>2, <2>0, <2>1, <2>3 DEF Read, Guard!Read
  <2>5. QED BY <2>4 DEF Guard!Next
<1>3. ASSUME NEW c \in Cpus, Reserve(c) PROVE [Guard!Next]_Guard!vars
  <2>1. CASE prod - cons < Slots
    <3>0. /\ prod + 1 \in Records /\ prod' = prod + 1 /\ cons' = cons /\ fate' = fate
          /\ hdr' = [hdr EXCEPT ![Slot(prod + 1)] = "busy"]
      BY <1>0, <1>3, <2>1, NftSizeAssumption DEF Reserve, RingType, Records
    <3>1. Slot(prod + 1) \in 0..Slots - 1
      BY <3>0, SlotType, NftSizeAssumption DEF Records
    <3>2. ASSUME NEW r \in Records
          PROVE  Rec'[r] = IF r = prod + 1 THEN "busy" ELSE Rec[r]
      <4>1. Rec'[r] = IF r > prod' THEN "free" ELSE IF r > cons' THEN hdr'[Slot(r)] ELSE fate'[r]
        BY DEF Rec, Records, Slot
      <4>2. Rec[r] = IF r > prod THEN "free" ELSE IF r > cons THEN hdr[Slot(r)] ELSE fate[r]
        BY DEF Rec
      <4>3. CASE r = prod + 1
        BY <1>0, <3>0, <3>1, <4>1, <4>3 DEF RingType, Records
      <4>4. CASE r # prod + 1 /\ cons < r /\ r <= prod
        <5>1. Slot(r) # Slot(prod + 1)
          BY <1>0, <2>1, <4>4, SlotsDiffer, NftSizeAssumption DEF RingType, Records
        <5>2. hdr'[Slot(r)] = hdr[Slot(r)]
          <6>1. Slot(r) \in 0..Slots - 1
            BY SlotType, NftSizeAssumption DEF Records
          <6>2. QED BY <1>0, <3>0, <5>1, <6>1 DEF RingType
        <5>3. QED BY <1>0, <3>0, <4>1, <4>2, <4>4, <5>2 DEF RingType, Records
      <4>5. CASE r # prod + 1 /\ ~(cons < r /\ r <= prod)
        BY <1>0, <3>0, <4>1, <4>2, <4>5 DEF RingType, Records
      <4>6. QED BY <4>3, <4>4, <4>5
    <3>3. Rec' = [Rec EXCEPT ![prod + 1] = "busy"]
      BY <3>0, <3>2 DEF Rec, Records
    <3>4. Guard!Reserve(c)
      BY <1>3, <2>1, <3>0, <3>3 DEF Reserve, Guard!Reserve
    <3>5. QED BY <3>4 DEF Guard!Next, Guard!Program
  <2>2. CASE ~(prod - cons < Slots)
    <3>1. Rec' = Rec
      BY <1>3, <2>2 DEF Reserve, Rec, Slot
    <3>2. Guard!Reserve(c)
      BY <1>3, <2>2, <3>1 DEF Reserve, Guard!Reserve
    <3>3. QED BY <3>2 DEF Guard!Next, Guard!Program
  <2>3. QED BY <2>1, <2>2
<1>4. ASSUME NEW c \in Cpus, Fill(c) PROVE [Guard!Next]_Guard!vars
  <2>1. Rec' = Rec
    BY <1>4 DEF Fill, Rec, Slot
  <2>2. Guard!Fill(c)
    BY <1>4, <2>1 DEF Fill, Guard!Fill
  <2>3. QED BY <2>2 DEF Guard!Next, Guard!Program
<1>5. ASSUME NEW c \in Cpus, Settle(c) PROVE [Guard!Next]_Guard!vars
  <2>1. Rec' = Rec
    BY <1>5 DEF Settle, ring, history, Rec, Slot
  <2>2. Guard!Settle(c)
    BY <1>5, <2>1 DEF Settle, ring, history, Guard!Settle
  <2>3. QED BY <2>2 DEF Guard!Next, Guard!Program
<1>6. ASSUME NEW c \in Cpus, guard_ring_buf_destructor(c) PROVE [Guard!Next]_Guard!vars
  <2>1. CASE data[c] = 0
    <3>1. Rec' = Rec
      BY <1>6, <2>1 DEF guard_ring_buf_destructor, history, Rec, Slot
    <3>2. Guard!guard_ring_buf_destructor(c)
      BY <1>6, <2>1, <3>1 DEF guard_ring_buf_destructor, history, Guard!guard_ring_buf_destructor
    <3>3. QED BY <3>2 DEF Guard!Next, Guard!Program
  <2>2. CASE data[c] # 0
    <3> DEFINE code == IF err[c] = "SUCCESS" THEN "submitted" ELSE "discarded"
    <3>0. /\ data[c] \in Records /\ cons < data[c] /\ data[c] <= prod
          /\ hdr' = [hdr EXCEPT ![Slot(data[c])] = code]
          /\ UNCHANGED <<prod, cons, fate>>
      BY <1>0, <1>6, <2>2, NftSizeAssumption DEF guard_ring_buf_destructor, history, RingType, Held, Holds, Records
    <3> HIDE DEF code
    <3>1. Slot(data[c]) \in 0..Slots - 1
      BY <3>0, SlotType, NftSizeAssumption DEF Records
    <3>2. ASSUME NEW r \in Records
          PROVE  Rec'[r] = IF r = data[c] THEN code ELSE Rec[r]
      <4>1. Rec'[r] = IF r > prod THEN "free" ELSE IF r > cons THEN hdr'[Slot(r)] ELSE fate[r]
        BY <3>0 DEF Rec, Records, Slot
      <4>2. Rec[r] = IF r > prod THEN "free" ELSE IF r > cons THEN hdr[Slot(r)] ELSE fate[r]
        BY DEF Rec
      <4>3. CASE r = data[c]
        BY <1>0, <3>0, <3>1, <4>1, <4>3 DEF RingType, Records
      <4>4. CASE r # data[c] /\ cons < r /\ r <= prod
        <5>1. Slot(r) # Slot(data[c])
          BY <1>0, <3>0, <4>4, LiveSlotsDiffer, NftSizeAssumption DEF Records
        <5>2. Slot(r) \in 0..Slots - 1
          BY SlotType, NftSizeAssumption DEF Records
        <5>3. hdr'[Slot(r)] = hdr[Slot(r)]
          BY <1>0, <3>0, <5>1, <5>2 DEF RingType
        <5>4. QED BY <4>1, <4>2, <4>4, <5>3
      <4>5. CASE r # data[c] /\ ~(cons < r /\ r <= prod)
        BY <1>0, <4>1, <4>2, <4>5 DEF RingType, Records
      <4>6. QED BY <4>3, <4>4, <4>5
    <3>3. Rec' = [Rec EXCEPT ![data[c]] = code]
      BY <3>0, <3>2 DEF Rec, Records
    <3>4. Guard!guard_ring_buf_destructor(c)
      BY <1>6, <2>2, <3>3 DEF guard_ring_buf_destructor, history, Guard!guard_ring_buf_destructor, code
    <3>5. QED BY <3>4 DEF Guard!Next, Guard!Program
  <2>3. QED BY <2>1, <2>2
<1>7. QED BY <1>1, <1>2, <1>3, <1>4, <1>5, <1>6 DEF Next, Program

LEMMA RingInvariance == Spec => []IInv
<1>1. Init /\ [][Next]_vars => []IInv
  BY InitIInv, StepIInv, PTL
<1>2. QED BY <1>1 DEF Spec

(* Every behaviour of the nftables tracer is one of the guard's ring: a    *)
(* slot that comes back is a new record, settled by its own program.       *)
(* Fairness, the rest of ImplementsGuard, is left to the run.              *)
THEOREM GuardImplemented == Spec => Guard!Init /\ [][Guard!Next]_Guard!vars
BY RingInvariance, GuardInit, GuardStep, PTL DEF Spec

-----------------------------------------------------------------------------
(* What the lines say.  Every change of nft_trace_packet's arguments has a *)
(* build of its version.                                                   *)
BuildPerBound ==
  /\ Builds \in Seq(Nat) /\ Kernels \subseteq Nat
  /\ \A v \in Bounds : v \in Nat /\ \E i \in DOMAIN Builds : v = Builds[i]

Exact == \E i \in DOMAIN Builds : kernel = Builds[i]

(* A record filled for record r's evaluation, into zeroed memory.          *)
Told(r) == Filled(Zeroed, of[r].pkt, of[r].rule)

SameLayout ==
  /\ \A c \in Cpus : pc[c] # "idle" => build # 0
  /\ build # 0 /\ ~Exact => Layout(kernel) = Layout(build)

Histories ==
  DOMAIN mem = 0..Slots - 1 /\ DOMAIN shown = Records /\ DOMAIN of = Records

(* The memory of a program's record once it is filled, and of a submitted  *)
(* one until it is read; and the line printed for it then.                 *)
FilledIsTold ==
  \A c \in Cpus :
    /\ pc[c] = "fill" => err[c] = "INIT"
    /\ pc[c] = "destroy" /\ data[c] # 0 => err[c] # "INIT"
    /\ pc[c] \in {"settle", "destroy"} /\ data[c] # 0 /\ err[c] # "FAILED" =>
         mem[Slot(data[c])] = Told(data[c])

SubmittedIsTold ==
  \A r \in Records :
    cons < r /\ r <= prod /\ hdr[Slot(r)] = "submitted" => mem[Slot(r)] = Told(r)

ShownIsTold ==
  \A r \in Records : shown[r] # None => r <= cons /\ shown[r] = LineOf(Told(r))

LInv ==
  /\ SameLayout /\ Histories
  /\ ~Exact => FilledIsTold /\ SubmittedIsTold /\ ShownIsTold

LEMMA MaxExists ==
  ASSUME NEW S \in SUBSET Nat, NEW n \in Nat, S # {}, \A x \in S : x <= n
  PROVE  Max(S) \in S /\ \A y \in S : Max(S) >= y
<1> DEFINE T == {n - x : x \in S}
           R == OpToRel(<, Nat)
<1>1. T \subseteq Nat /\ T # {}
  <2>1. \A x \in S : n - x \in Nat
    OBVIOUS
  <2>2. QED BY <2>1
<1>2. IsWellFoundedOn(R, Nat)
  BY NatLessThanWellFounded
<1> HIDE DEF T, R
<1>3. PICK m \in T : \A k \in T : <<k, m>> \notin R
  BY <1>1, <1>2, WFMin
<1>4. \A k \in T : ~(k < m)
  <2>1. \A k, l \in Nat : k < l => <<k, l>> \in R
    BY DEF OpToRel, R
  <2>2. QED BY <1>1, <1>3, <2>1
<1>5. PICK x \in S : m = n - x
  BY DEF T
<1>6. \A y \in S : x >= y
  BY <1>4, <1>5 DEF T
<1>7. QED BY <1>6 DEF Max

(* main.go's choice is right for every kernel that is not exactly a        *)
(* build's: no change of the arguments lies between the two.               *)
LEMMA BuildFits ==
  ASSUME BuildPerBound, NEW k \in Kernels, \A i \in DOMAIN Builds : k # Builds[i],
         NEW f, f = findFirstSmaller(Builds, k), f # 0
  PROVE  Layout(k) = Layout(f)
<1> DEFINE S == {0} \cup {Builds[i] : i \in {j \in DOMAIN Builds : Builds[j] < k}}
<1>1. k \in Nat /\ \A i \in DOMAIN Builds : Builds[i] \in Nat
  BY DEF BuildPerBound
<1>2. S \in SUBSET Nat /\ S # {} /\ \A x \in S : x <= k
  BY <1>1
<1>3. f = Max(S)
  BY DEF findFirstSmaller
<1>4. f \in S /\ \A x \in S : f >= x
  BY <1>1, <1>2, <1>3, MaxExists
<1>5. f \in Nat /\ f < k
  BY <1>1, <1>4
<1>6. ASSUME NEW v \in Bounds PROVE v <= k <=> v <= f
  <2>1. PICK i \in DOMAIN Builds : v = Builds[i]
    BY DEF BuildPerBound
  <2>2. v \in Nat /\ v # k
    BY <1>1, <2>1
  <2>3. v < k => v \in S
    BY <2>1
  <2>4. QED BY <1>1, <1>4, <1>5, <2>2, <2>3
<1>7. {v \in Bounds : v <= k} = {v \in Bounds : v <= f}
  BY <1>6
<1>8. QED BY <1>7 DEF Layout

LEMMA InitLInv == BuildPerBound /\ Init => LInv
<1> SUFFICES ASSUME BuildPerBound, Init PROVE LInv
  OBVIOUS
<1>1. SameLayout
  BY BuildFits DEF Init, SameLayout, Exact
<1>2. Histories
  BY DEF Init, Histories
<1>3. FilledIsTold /\ SubmittedIsTold /\ ShownIsTold
  BY NftSizeAssumption DEF Init, FilledIsTold, SubmittedIsTold, ShownIsTold, Records
<1>4. QED BY <1>1, <1>2, <1>3 DEF LInv

(* Told(r) is of the evaluation r was reserved for; only a new record gets *)
(* another.                                                                *)
LEMMA ToldKept ==
  ASSUME NEW r, of'[r] = of[r]
  PROVE  Told(r)' = Told(r)
BY DEF Told, Filled, Zeroed

LEMMA StepLInv == IInv /\ LInv /\ [Next]_vars => LInv'
<1> SUFFICES ASSUME IInv, LInv, [Next]_vars PROVE LInv'
  OBVIOUS
<1>0. RingType /\ Held /\ SameLayout /\ Histories
  BY DEF IInv, LInv
<1>a. UNCHANGED <<kernel, build>>
  BY DEF Next, Program, Read, Reserve, Fill, Settle, guard_ring_buf_destructor, vars, launched
<1>b. Exact' = Exact /\ (build # 0 /\ ~Exact => Layout(kernel) = Layout(build))'
  BY <1>0, <1>a DEF Exact, SameLayout, Layout
<1>c. SUFFICES ASSUME ~Exact => FilledIsTold /\ SubmittedIsTold /\ ShownIsTold
               PROVE  /\ \A c \in Cpus : pc'[c] # "idle" => build # 0
                      /\ Histories'
                      /\ ~Exact => FilledIsTold' /\ SubmittedIsTold' /\ ShownIsTold'
  BY <1>a, <1>b DEF LInv, SameLayout
<1>1. CASE UNCHANGED vars
  BY <1>0, <1>c, <1>1 DEF vars, ring, history, SameLayout, Histories, FilledIsTold,
     SubmittedIsTold, ShownIsTold, Told, Slot
<1>2. CASE Read
  <2>0. cons + 1 \in Records /\ cons + 1 <= prod /\ cons' = cons + 1
    BY <1>0, <1>2, NftSizeAssumption DEF Read, RingType, Records
  <2>1. UNCHANGED <<pc, data, err, mem, hdr, prod, of>>
    BY <1>2 DEF Read
  <2>2. (\A c \in Cpus : pc'[c] # "idle" => build # 0) /\ Histories'
    BY <1>0, <1>2, <2>1 DEF Read, SameLayout, Histories
  <2>3. ASSUME ~Exact PROVE FilledIsTold' /\ SubmittedIsTold' /\ ShownIsTold'
    <3>0. FilledIsTold /\ SubmittedIsTold /\ ShownIsTold
      BY <1>c, <2>3
    <3>t. \A r \in Records : Told(r)' = Told(r)
      BY <2>1, ToldKept
    <3>1. FilledIsTold'
      BY <2>1, <3>0 DEF FilledIsTold, Told, Slot
    <3>2. SubmittedIsTold'
      BY <1>0, <2>0, <2>1, <3>0, <3>t DEF SubmittedIsTold, Slot, RingType, Records
    <3>3. ASSUME NEW r \in Records, shown'[r] # None
          PROVE  r <= cons' /\ shown'[r] = LineOf(Told(r))
      <4>1. CASE r = cons + 1 /\ hdr[Slot(cons + 1)] = "submitted"
        <5>1. mem[Slot(r)] = Told(r)
          BY <1>0, <2>0, <3>0, <4>1 DEF SubmittedIsTold, RingType
        <5>2. shown'[r] = LineOf(mem[Slot(r)]) \/ shown' = shown
          BY <1>0, <1>2, <4>1 DEF Read, Histories
        <5>3. QED BY <1>0, <2>0, <3>0, <3>3, <4>1, <5>1, <5>2 DEF ShownIsTold, RingType
      <4>2. CASE ~(r = cons + 1 /\ hdr[Slot(cons + 1)] = "submitted")
        <5>1. shown'[r] = shown[r]
          BY <1>0, <1>2, <4>2 DEF Read, Histories
        <5>2. QED BY <1>0, <2>0, <3>0, <3>3, <5>1 DEF ShownIsTold, RingType, Records
      <4>3. QED BY <4>1, <4>2
    <3>4. ShownIsTold'
      BY <3>3, <3>t DEF ShownIsTold, LineOf
    <3>5. QED BY <3>1, <3>2, <3>4
  <2>4. QED BY <1>a, <2>2, <2>3
<1>3. ASSUME NEW c \in Cpus, Reserve(c)
      PROVE  /\ \A d \in Cpus : pc'[d] # "idle" => build # 0
             /\ Histories'
             /\ ~Exact => FilledIsTold' /\ SubmittedIsTold' /\ ShownIsTold'
  <2>0. /\ build # 0 /\ err' = [err EXCEPT ![c] = "INIT"] /\ UNCHANGED <<mem, cons, shown>>
        /\ \A d \in Cpus \ {c} : pc'[d] = pc[d] /\ data'[d] = data[d] /\ err'[d] = err[d]
        /\ err'[c] = "INIT"
    BY <1>0, <1>3 DEF Reserve, RingType
  <2>1. CASE prod - cons < Slots
    <3>0. /\ prod + 1 \in Records /\ prod' = prod + 1
          /\ hdr' = [hdr EXCEPT ![Slot(prod + 1)] = "busy"]
          /\ pc'[c] = "fill" /\ data'[c] = prod + 1
          /\ DOMAIN of' = Records /\ \A r \in Records \ {prod + 1} : of'[r] = of[r]
      <4>1. prod + 1 \in Records
        BY <1>0, <1>3, NftSizeAssumption DEF Reserve, RingType, Records
      <4>2. /\ prod' = prod + 1 /\ hdr' = [hdr EXCEPT ![Slot(prod + 1)] = "busy"]
            /\ pc' = [pc EXCEPT ![c] = "fill"] /\ data' = [data EXCEPT ![c] = prod + 1]
            /\ \E e \in Evaluations : of' = [of EXCEPT ![prod + 1] = e]
        BY <1>3, <2>1 DEF Reserve
      <4>3. pc'[c] = "fill" /\ data'[c] = prod + 1
        BY <1>0, <4>2 DEF RingType
      <4>4. DOMAIN of' = Records /\ \A r \in Records \ {prod + 1} : of'[r] = of[r]
        BY <1>0, <4>2 DEF Histories
      <4>5. QED BY <4>1, <4>2, <4>3, <4>4
    <3>1. Histories'
      BY <1>0, <2>0, <3>0 DEF Histories
    <3>2. ASSUME ~Exact PROVE FilledIsTold' /\ SubmittedIsTold' /\ ShownIsTold'
      <4>0. FilledIsTold /\ SubmittedIsTold /\ ShownIsTold
        BY <1>c, <3>2
      <4>t. \A r \in Records \ {prod + 1} : Told(r)' = Told(r)
        BY <3>0, ToldKept
      <4>1. ASSUME NEW d \in Cpus
            PROVE  /\ pc'[d] = "fill" => err'[d] = "INIT"
                   /\ pc'[d] = "destroy" /\ data'[d] # 0 => err'[d] # "INIT"
                   /\ pc'[d] \in {"settle", "destroy"} /\ data'[d] # 0 /\ err'[d] # "FAILED" =>
                        d # c /\ mem[Slot(data[d])] = Told(data[d])'
        <5>1. CASE d = c
          BY <2>0, <3>0, <5>1
        <5>2. CASE d # c
          <6>0. pc'[d] = pc[d] /\ data'[d] = data[d] /\ err'[d] = err[d]
            BY <2>0, <5>2
          <6>1. pc'[d] \in {"settle", "destroy"} /\ data'[d] # 0 => data[d] \in Records \ {prod + 1}
            BY <1>0, <6>0, NftSizeAssumption DEF Held, Holds, RingType, Records
          <6>2. QED BY <4>0, <4>t, <5>2, <6>0, <6>1 DEF FilledIsTold
        <5>3. QED BY <5>1, <5>2
      <4>2. FilledIsTold'
        BY <2>0, <4>1 DEF FilledIsTold, Told, Slot
      <4>3. ASSUME NEW r \in Records, cons' < r, r <= prod', hdr'[Slot(r)] = "submitted"
            PROVE  mem'[Slot(r)] = Told(r)'
        <5>1. Slot(r) \in 0..Slots - 1 /\ Slot(prod + 1) \in 0..Slots - 1
          BY <3>0, SlotType, NftSizeAssumption DEF Records
        <5>2. r # prod + 1 /\ hdr[Slot(r)] = "submitted"
          BY <1>0, <3>0, <4>3, <5>1 DEF RingType
        <5>3. r <= prod
          BY <1>0, <3>0, <4>3, <5>2 DEF RingType, Records
        <5>4. QED BY <2>0, <4>0, <4>t, <4>3, <5>2, <5>3 DEF SubmittedIsTold
      <4>4. SubmittedIsTold'
        BY <4>3 DEF SubmittedIsTold, Slot
      <4>5. ASSUME NEW r \in Records, shown[r] # None
            PROVE  r <= cons /\ shown[r] = LineOf(Told(r)')
        <5>1. r <= cons /\ shown[r] = LineOf(Told(r))
          BY <4>0, <4>5 DEF ShownIsTold
        <5>2. r # prod + 1
          BY <1>0, <5>1 DEF RingType, Records
        <5>3. QED BY <4>t, <5>1, <5>2
      <4>6. ShownIsTold'
        BY <2>0, <4>5 DEF ShownIsTold, LineOf
      <4>7. QED BY <4>2, <4>4, <4>6
    <3>3. QED BY <1>0, <2>0, <3>1, <3>2
  <2>2. CASE ~(prod - cons < Slots)
    <3>0. pc'[c] = "destroy" /\ data'[c] = 0 /\ UNCHANGED <<prod, hdr, of>>
      BY <1>0, <1>3, <2>2 DEF Reserve, RingType
    <3>1. Histories'
      BY <1>0, <2>0, <3>0 DEF Histories
    <3>2. ASSUME ~Exact PROVE FilledIsTold' /\ SubmittedIsTold' /\ ShownIsTold'
      <4>0. FilledIsTold /\ SubmittedIsTold /\ ShownIsTold
        BY <1>c, <3>2
      <4>1. \A d \in Cpus :
              /\ pc'[d] = "fill" => err'[d] = "INIT"
              /\ pc'[d] = "destroy" /\ data'[d] # 0 => err'[d] # "INIT"
              /\ pc'[d] \in {"settle", "destroy"} /\ data'[d] # 0 /\ err'[d] # "FAILED" =>
                   d # c /\ mem[Slot(data[d])] = Told(data[d])
        BY <2>0, <3>0, <4>0 DEF FilledIsTold
      <4>2. FilledIsTold'
        BY <2>0, <3>0, <4>1 DEF FilledIsTold, Told, Slot
      <4>3. SubmittedIsTold'
        BY <2>0, <3>0, <4>0 DEF SubmittedIsTold, Told, Slot
      <4>4. ShownIsTold'
        BY <2>0, <3>0, <4>0 DEF ShownIsTold, Told
      <4>5. QED BY <4>2, <4>3, <4>4
    <3>3. QED BY <1>0, <2>0, <3>1, <3>2
  <2>3. QED BY <2>1, <2>2
<1>4. ASSUME NEW c \in Cpus, Fill(c)
      PROVE  /\ \A d \in Cpus : pc'[d] # "idle" => build # 0
             /\ Histories'
             /\ ~Exact => FilledIsTold' /\ SubmittedIsTold' /\ ShownIsTold'
  <2>0. /\ pc[c] = "fill" /\ pc' = [pc EXCEPT ![c] = "settle"]
        /\ UNCHANGED <<data, hdr, prod, cons, shown, of>>
        /\ \E v : mem' = [mem EXCEPT ![Slot(data[c])] = v]
    BY <1>4 DEF Fill
  <2>1. \A d \in Cpus : pc'[d] # "idle" => build # 0
    BY <1>0, <2>0 DEF SameLayout, RingType
  <2>2. Histories'
    BY <1>0, <2>0 DEF Histories
  <2>3. ASSUME ~Exact PROVE FilledIsTold' /\ SubmittedIsTold' /\ ShownIsTold'
    <3>0. FilledIsTold /\ SubmittedIsTold /\ ShownIsTold
      BY <1>c, <2>3
    <3>t. \A r : Told(r)' = Told(r)
      BY <2>0 DEF Told
    <3>1. Layout(kernel) = Layout(build)
      BY <1>0, <2>0, <2>3 DEF SameLayout
    <3>2. Holds(c) /\ data[c] \in Nat \ {0} /\ Slot(data[c]) \in 0..Slots - 1
      <4>1. data[c] \in Nat \ {0}
        BY <1>0, <2>0 DEF Held, RingType
      <4>2. QED BY <2>0, <4>1, SlotType DEF Holds
    <3>3. \/ err' = [err EXCEPT ![c] = "FAILED"]
          \/ err' = err /\ mem'[Slot(data[c])] = Told(data[c])
      BY <1>0, <1>4, <3>1, <3>2 DEF Fill, Memset, Told, Histories
    <3>4. \A n \in 0..Slots - 1 : n # Slot(data[c]) => mem'[n] = mem[n]
      BY <1>0, <2>0 DEF Histories
    <3>5. ASSUME NEW d \in Cpus
          PROVE  /\ pc'[d] = "fill" => err'[d] = "INIT"
                 /\ pc'[d] = "destroy" /\ data[d] # 0 => err'[d] # "INIT"
                 /\ pc'[d] \in {"settle", "destroy"} /\ data[d] # 0 /\ err'[d] # "FAILED" =>
                      mem'[Slot(data[d])] = Told(data[d])
      <4>1. CASE d = c
        BY <1>0, <2>0, <3>3, <4>1 DEF RingType
      <4>2. CASE d # c
        <5>1. pc'[d] = pc[d] /\ err'[d] = err[d]
          BY <1>0, <2>0, <3>3, <4>2 DEF RingType
        <5>2. ASSUME Holds(d) PROVE mem'[Slot(data[d])] = mem[Slot(data[d])]
          <6>1. data[d] \in Nat \ {0} /\ data[d] # data[c]
            BY <1>0, <3>2, <4>2, <5>2 DEF Held, Holds, RingType
          <6>2. Slot(data[d]) # Slot(data[c]) /\ Slot(data[d]) \in 0..Slots - 1
            BY <1>0, <3>2, <5>2, <6>1, LiveSlotsDiffer, SlotType DEF Held
          <6>3. QED BY <3>4, <6>2
        <5>3. QED BY <3>0, <5>1, <5>2 DEF FilledIsTold, Holds
      <4>3. QED BY <4>1, <4>2
    <3>6. FilledIsTold'
      BY <2>0, <3>5, <3>t DEF FilledIsTold, Slot
    <3>7. ASSUME NEW r \in Records, cons < r, r <= prod, hdr[Slot(r)] = "submitted"
          PROVE  mem'[Slot(r)] = Told(r)
      <4>1. Slot(r) # Slot(data[c]) /\ Slot(r) \in 0..Slots - 1
        BY <1>0, <3>2, <3>7, SlotType, NftSizeAssumption DEF Held, Records
      <4>2. QED BY <3>0, <3>4, <3>7, <4>1 DEF SubmittedIsTold
    <3>8. SubmittedIsTold'
      BY <2>0, <3>7, <3>t DEF SubmittedIsTold, Slot
    <3>9. ShownIsTold'
      BY <2>0, <3>0, <3>t DEF ShownIsTold
    <3>10. QED BY <3>6, <3>8, <3>9
  <2>4. QED BY <2>1, <2>2, <2>3
<1>5. ASSUME NEW c \in Cpus, Settle(c)
      PROVE  /\ \A d \in Cpus : pc'[d] # "idle" => build # 0
             /\ Histories'
             /\ ~Exact => FilledIsTold' /\ SubmittedIsTold' /\ ShownIsTold'
  <2>0. /\ pc[c] = "settle" /\ pc' = [pc EXCEPT ![c] = "destroy"]
        /\ err' = IF err[c] = "INIT" THEN [err EXCEPT ![c] = "SUCCESS"] ELSE err
        /\ UNCHANGED <<data, mem, hdr, prod, cons, shown, of>>
    BY <1>5 DEF Settle, ring, history
  <2>1. (\A d \in Cpus : pc'[d] # "idle" => build # 0) /\ Histories'
    BY <1>0, <2>0 DEF SameLayout, RingType, Histories
  <2>2. ASSUME ~Exact PROVE FilledIsTold' /\ SubmittedIsTold' /\ ShownIsTold'
    <3>0. FilledIsTold /\ SubmittedIsTold /\ ShownIsTold
      BY <1>c, <2>2
    <3>1. \A d \in Cpus :
            /\ d # c => pc'[d] = pc[d] /\ err'[d] = err[d]
            /\ d = c => pc'[d] = "destroy" /\ err'[d] # "INIT" /\ (err'[d] = "FAILED" <=> err[d] = "FAILED")
      BY <1>0, <2>0 DEF RingType
    <3>2. FilledIsTold'
      BY <2>0, <3>0, <3>1 DEF FilledIsTold, Told, Slot
    <3>3. SubmittedIsTold' /\ ShownIsTold'
      BY <2>0, <3>0 DEF SubmittedIsTold, ShownIsTold, Told, Slot
    <3>4. QED BY <3>2, <3>3
  <2>3. QED BY <2>1, <2>2
<1>6. ASSUME NEW c \in Cpus, guard_ring_buf_destructor(c)
      PROVE  /\ \A d \in Cpus : pc'[d] # "idle" => build # 0
             /\ Histories'
             /\ ~Exact => FilledIsTold' /\ SubmittedIsTold' /\ ShownIsTold'
  <2>0. /\ pc[c] = "destroy" /\ pc' = [pc EXCEPT ![c] = "idle"]
        /\ hdr' = IF data[c] = 0 THEN hdr
                  ELSE [hdr EXCEPT ![Slot(data[c])] = IF err[c] = "SUCCESS" THEN "submitted" ELSE "discarded"]
        /\ UNCHANGED <<data, err, mem, prod, cons, shown, of>>
    BY <1>6 DEF guard_ring_buf_destructor, history
  <2>1. (\A d \in Cpus : pc'[d] # "idle" => build # 0) /\ Histories'
    BY <1>0, <2>0 DEF SameLayout, RingType, Histories
  <2>2. ASSUME ~Exact PROVE FilledIsTold' /\ SubmittedIsTold' /\ ShownIsTold'
    <3>0. FilledIsTold /\ SubmittedIsTold /\ ShownIsTold
      BY <1>c, <2>2
    <3>1. \A d \in Cpus : pc'[d] = pc[d] \/ pc'[d] = "idle"
      BY <1>0, <2>0 DEF RingType
    <3>2. FilledIsTold'
      BY <2>0, <3>0, <3>1 DEF FilledIsTold, Told, Slot
    <3>3. ASSUME NEW r \in Records, cons < r, r <= prod, hdr'[Slot(r)] = "submitted"
          PROVE  mem[Slot(r)] = Told(r)
      <4>1. CASE hdr[Slot(r)] = "submitted"
        BY <3>0, <3>3, <4>1 DEF SubmittedIsTold
      <4>2. CASE hdr[Slot(r)] # "submitted"
        <5>1. data[c] # 0 /\ Slot(r) = Slot(data[c]) /\ err[c] = "SUCCESS"
          <6>1. Slot(r) \in 0..Slots - 1
            BY SlotType, NftSizeAssumption DEF Records
          <6>2. QED BY <1>0, <2>0, <3>3, <4>2, <6>1 DEF RingType
        <5>2. Holds(c) /\ data[c] \in Nat
          BY <1>0, <2>0, <5>1 DEF Holds, RingType
        <5>3. r = data[c]
          BY <1>0, <3>3, <5>1, <5>2, LiveSlotsDiffer, NftSizeAssumption DEF Held, Records
        <5>4. QED BY <2>0, <3>0, <5>1, <5>3 DEF FilledIsTold
      <4>3. QED BY <4>1, <4>2
    <3>4. SubmittedIsTold'
      BY <2>0, <3>3 DEF SubmittedIsTold, Told, Slot
    <3>5. ShownIsTold'
      BY <2>0, <3>0 DEF ShownIsTold, Told
    <3>6. QED BY <3>2, <3>4, <3>5
  <2>3. QED BY <2>1, <2>2
<1>7. QED BY <1>1, <1>2, <1>3, <1>4, <1>5, <1>6 DEF Next, Program

LEMMA ToldIsTrue ==
  ASSUME NEW r \in Records, NEW line, line = LineOf(Told(r)), NEW p, p = of[r].pkt
  PROVE  /\ line.rule = of[r].rule
         /\ {line.mac, line.ends, line.ports} \subseteq {p.id, None}
         /\ p.eth = "ip" /\ p.pf = "ipv4" =>
              line.ends = p.id /\ (p.l4 \in {"tcp", "udp"} => line.ports = p.id)
BY DEF LineOf, Told, Filled, Zeroed

(* LinesAreTrue: for any number of CPUs, any ring and any packets and      *)
(* rules, a printed line is its own evaluation's, if each change of        *)
(* nft_trace_packet's arguments has a build of its version.                *)
THEOREM LinesTrue == ASSUME BuildPerBound PROVE Spec => []LinesAreTrue
<1>1. LInv => LinesAreTrue
  BY ToldIsTrue DEF LInv, ShownIsTold, LinesAreTrue, Exact
<1>2. Spec => []LInv
  BY RingInvariance, InitLInv, StepLInv, PTL DEF Spec
<1>3. QED BY <1>1, <1>2, PTL
=============================================================================
