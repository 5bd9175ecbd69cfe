---------------------------- MODULE TracerProofs ----------------------------
(***************************************************************************)
(* Theorems about Tracers, the tracers whose programs leave something for  *)
(* the next one.  IptTrace, for any tasks, ids, calls, depth and room in   *)
(* the ring: an event has the arguments of its own call, and a call is     *)
(* silent for a reason.  UnixSock, for any tasks, messages and paths: what *)
(* a packet says is of one message, and every message of a watched socket  *)
(* is reported.  EthtoolTrace, for any tasks, CPUs, commands and devices:  *)
(* what an event says is its own request's.                                *)
(***************************************************************************)
EXTENDS Tracers, SequenceTheorems, WellFoundedInduction, TLAPS

-----------------------------------------------------------------------------
(* The iptables tracer, IptTrace.                                          *)
Frame == [id: Nat, kind: Kinds, ret: BOOLEAN, pc: {"running", "found"}, got: Nat]

TypeOK ==
  /\ entry \in SUBSET Kinds /\ return \in SUBSET Kinds
  /\ stack \in [Tasks -> Seq(Frame)]
  /\ slot \in [Ids -> Nat]
  /\ room \in Nat /\ begun \in Nat /\ early \in Nat
  /\ events \in SUBSET [by: Nat, in: Tasks, of: Nat]
  /\ silent \in SUBSET [by: Nat, in: Tasks]
  /\ outer \in SUBSET Nat /\ steals \in BOOLEAN

(* The last kprobe comes when every kretprobe is there; until then every   *)
(* call is an early one.                                                   *)
ProbesInOrder ==
  /\ entry = Kinds => return = Kinds
  /\ early <= begun
  /\ entry # Kinds => early = begun

(* Calls are numbered in the order they begin; the return of a late one    *)
(* will be seen; only the innermost is in a program, and each of the       *)
(* others has had a call inside of it.                                     *)
NumberedIn(t) ==
  \A i \in 1..Len(stack[t]) :
    /\ 0 < stack[t][i].id /\ stack[t][i].id <= begun
    /\ stack[t][i].id > early => stack[t][i].ret
    /\ i < Len(stack[t]) => /\ stack[t][i].pc = "running" /\ stack[t][i].id \in outer
                            /\ stack[t][i].id < stack[t][i + 1].id

Numbered == \A t \in Tasks : NumberedIn(t)

(* Under an id of the task's own there is its innermost call, if that is a *)
(* late one; or nothing, once a call inside of it has returned.            *)
SlotIsTopOf(t) ==
  OwnId(t) /\ stack[t] # <<>> /\ Top(t).id > early =>
    /\ slot[PidTgid[t]] \in {None, Top(t).id}
    /\ Top(t).pc = "found" => Top(t).got = Top(t).id
    /\ Top(t).pc = "running" /\ slot[PidTgid[t]] = None => Top(t).id \in outer

SlotIsTop == \A t \in Tasks : SlotIsTopOf(t)

IInv ==
  /\ TypeOK /\ ProbesInOrder /\ Numbered /\ SlotIsTop
  /\ EventIsOwn /\ SilentForAReason /\ NoEntryLeft

-----------------------------------------------------------------------------
(* What the three kinds of steps do to the stack of a task.                *)
OthersKept(t) == \A u \in Tasks \ {t} : stack'[u] = stack[u]

Pushed(t, f) ==
  /\ OthersKept(t)
  /\ Len(stack'[t]) = Len(stack[t]) + 1
  /\ \A i \in 1..Len(stack[t]) : stack'[t][i] = stack[t][i]
  /\ stack'[t][Len(stack[t]) + 1] = f

Popped(t) ==
  /\ OthersKept(t)
  /\ Len(stack'[t]) = Len(stack[t]) - 1
  /\ \A i \in 1..(Len(stack[t]) - 1) : stack'[t][i] = stack[t][i]

Marked(t, f) ==
  /\ OthersKept(t)
  /\ Len(stack'[t]) = Len(stack[t])
  /\ \A i \in 1..(Len(stack[t]) - 1) : stack'[t][i] = stack[t][i]
  /\ stack'[t][Len(stack[t])] = f

StackTyped == stack' \in [Tasks -> Seq(Frame)]

LEMMA TopIsFrame ==
  ASSUME TypeOK, NEW t \in Tasks, stack[t] # <<>>
  PROVE  /\ Len(stack[t]) \in Nat \ {0}
         /\ Top(t) \in Frame
  BY DEF TypeOK, Top

LEMMA PushFacts ==
  ASSUME TypeOK, NEW t \in Tasks, NEW f \in Frame, stack' = [stack EXCEPT ![t] = Append(@, f)]
  PROVE  StackTyped /\ Pushed(t, f)
<1>1. stack[t] \in Seq(Frame)
  BY DEF TypeOK
<1>2. /\ Append(stack[t], f) \in Seq(Frame)
      /\ Len(Append(stack[t], f)) = Len(stack[t]) + 1
      /\ \A i \in 1..Len(stack[t]) : Append(stack[t], f)[i] = stack[t][i]
      /\ Append(stack[t], f)[Len(stack[t]) + 1] = f
  BY <1>1
<1>3. stack'[t] = Append(stack[t], f)
  BY DEF TypeOK
<1>4. StackTyped
  BY <1>2 DEF TypeOK, StackTyped
<1> QED
  BY <1>2, <1>3, <1>4 DEF Pushed, OthersKept, TypeOK

LEMMA PopFacts ==
  ASSUME TypeOK, NEW t \in Tasks, stack[t] # <<>>, stack' = Pop(t)
  PROVE  StackTyped /\ Popped(t)
<1> DEFINE s == stack[t]
           p == SubSeq(s, 1, Len(s) - 1)
<1>1. s \in Seq(Frame) /\ Len(s) \in Nat \ {0}
  BY TopIsFrame DEF TypeOK
<1>2. /\ p \in Seq(Frame)
      /\ Len(p) = Len(s) - 1
      /\ \A i \in 1..(Len(s) - 1) : p[i] = s[i]
  BY <1>1
<1>3. stack' = [stack EXCEPT ![t] = p]
  BY DEF Pop
<1> HIDE DEF p
<1>4. stack'[t] = p /\ StackTyped
  BY <1>2, <1>3 DEF TypeOK, StackTyped
<1> QED
  BY <1>2, <1>3, <1>4 DEF Popped, OthersKept, TypeOK

LEMMA MarkFacts ==
  ASSUME TypeOK, NEW t \in Tasks, stack[t] # <<>>, NEW n, n = Len(stack[t]), NEW v \in Nat,
         stack' = [stack EXCEPT ![t][n].pc = "found", ![t][n].got = v]
  PROVE  /\ StackTyped
         /\ \E f \in Frame : /\ Marked(t, f)
                             /\ f.id = Top(t).id /\ f.ret = Top(t).ret
                             /\ f.pc = "found" /\ f.got = v
<1> DEFINE s == stack[t]
           f == [s[n] EXCEPT !.pc = "found", !.got = v]
           m == [s EXCEPT ![n] = f]
<1>1. s \in Seq(Frame) /\ n \in Nat \ {0} /\ n = Len(s)
  BY TopIsFrame DEF TypeOK
<1>2. Top(t) \in Frame /\ Top(t) = s[n]
  BY TopIsFrame DEF Top
<1>3. f \in Frame /\ f.id = Top(t).id /\ f.ret = Top(t).ret /\ f.pc = "found" /\ f.got = v
  BY <1>2 DEF Frame
<1>4. stack' = [stack EXCEPT ![t] = m]
  BY <1>1 DEF TypeOK
<1> HIDE DEF f
<1>5. /\ m \in Seq(Frame) /\ Len(m) = Len(s)
      /\ \A i \in 1..(Len(s) - 1) : m[i] = s[i]
      /\ m[Len(s)] = f
  BY <1>1, <1>3
<1> HIDE DEF m
<1>6. stack'[t] = m /\ StackTyped
  <2>1. stack \in [Tasks -> Seq(Frame)] /\ m \in Seq(Frame)
    BY <1>5 DEF TypeOK
  <2>2. stack'[t] = m
    BY <1>4, <2>1
  <2>3. stack' \in [Tasks -> Seq(Frame)]
    BY <1>4, <2>1
  <2> QED
    BY <2>2, <2>3 DEF StackTyped
<1>7. Marked(t, f)
  BY <1>4, <1>5, <1>6 DEF Marked, OthersKept, TypeOK
<1> QED
  BY <1>3, <1>6, <1>7

-----------------------------------------------------------------------------
(* No step takes a number back, and a step of one task leaves what is said *)
(* of the others true.                                                     *)
Grows == begun <= begun' /\ early <= early' /\ outer \subseteq outer'

LEMMA OthersNumbered ==
  ASSUME TypeOK, TypeOK', Numbered, Grows, NEW u \in Tasks, stack'[u] = stack[u]
  PROVE  NumberedIn(u)'
<1>1. NumberedIn(u) /\ stack[u] \in Seq(Frame)
  BY DEF Numbered, TypeOK
<1>2. begun \in Nat /\ begun' \in Nat /\ early \in Nat /\ early' \in Nat
  BY DEF TypeOK
<1>3. SUFFICES ASSUME NEW i \in 1..Len(stack[u])
               PROVE  /\ 0 < stack[u][i].id /\ stack[u][i].id <= begun'
                      /\ stack[u][i].id > early' => stack[u][i].ret
                      /\ i < Len(stack[u]) => /\ stack[u][i].pc = "running" /\ stack[u][i].id \in outer'
                                              /\ stack[u][i].id < stack[u][i + 1].id
  BY DEF NumberedIn
<1>4. stack[u][i] \in Frame
  BY <1>1
<1>5. stack[u][i].id \in Nat
  BY <1>4 DEF Frame
<1>6. /\ 0 < stack[u][i].id /\ stack[u][i].id <= begun
      /\ stack[u][i].id > early => stack[u][i].ret
      /\ i < Len(stack[u]) => /\ stack[u][i].pc = "running" /\ stack[u][i].id \in outer
                              /\ stack[u][i].id < stack[u][i + 1].id
  BY <1>1 DEF NumberedIn
<1>7. stack[u][i].id <= begun' /\ (stack[u][i].id > early' => stack[u][i].id > early)
  BY <1>2, <1>5, <1>6 DEF Grows
<1> QED
  BY <1>6, <1>7 DEF Grows

LEMMA OthersSlot ==
  ASSUME TypeOK, TypeOK', SlotIsTop, Grows, NEW u \in Tasks, stack'[u] = stack[u],
         OwnId(u) => slot'[PidTgid[u]] = slot[PidTgid[u]]
  PROVE  SlotIsTopOf(u)'
<1>1. SlotIsTopOf(u)
  BY DEF SlotIsTop
<1> SUFFICES ASSUME OwnId(u), stack[u] # <<>>, Top(u).id > early'
             PROVE  /\ slot[PidTgid[u]] \in {None, Top(u).id}
                    /\ Top(u).pc = "found" => Top(u).got = Top(u).id
                    /\ Top(u).pc = "running" /\ slot[PidTgid[u]] = None => Top(u).id \in outer'
  BY DEF SlotIsTopOf, Top, OwnId
<1>a. Top(u).id \in Nat /\ early \in Nat /\ early' \in Nat
  BY TopIsFrame DEF TypeOK, Frame
<1>2. Top(u).id > early
  BY <1>a DEF Grows
<1> QED
  BY <1>1, <1>2 DEF SlotIsTopOf, Grows

LEMMA Kept ==
  ASSUME IInv, TypeOK', Grows, ProbesInOrder', UNCHANGED <<stack, slot, events, silent, steals>>,
         room' = 0 \/ room # 0
  PROVE  IInv'
<1>1. Numbered'
  BY OthersNumbered DEF IInv, Numbered
<1>2. SlotIsTop'
  BY OthersSlot DEF IInv, SlotIsTop
<1>3. EventIsOwn'
  <2> SUFFICES ASSUME ~steals, NEW e \in events, e.by > early', OwnId(e.in)
               PROVE  e.of = e.by
    BY DEF EventIsOwn, OwnId
  <2>1. e.by > early
    BY DEF IInv, TypeOK, Grows
  <2> QED
    BY <2>1 DEF IInv, EventIsOwn
<1>4. SilentForAReason'
  <2> SUFFICES ASSUME NEW c \in silent, c.by > early', OwnId(c.in)
               PROVE  c.by \in outer' \/ room' = 0
    BY DEF SilentForAReason, OwnId
  <2>1. c.by > early
    BY DEF IInv, TypeOK, Grows
  <2> QED
    BY <2>1 DEF IInv, SilentForAReason, Grows
<1>5. NoEntryLeft'
  BY DEF IInv, NoEntryLeft, Grows, TypeOK, Ids
<1> QED
  BY <1>1, <1>2, <1>3, <1>4, <1>5 DEF IInv

LEMMA InitInv == Init => IInv
<1> SUFFICES ASSUME Init PROVE IInv
  OBVIOUS
<1>1. TypeOK
  BY BoundAssumption DEF Init, TypeOK, Kinds, None
<1>2. ProbesInOrder
  BY DEF Init, ProbesInOrder, Kinds
<1>3. \A t \in Tasks : stack[t] = <<>> /\ Len(stack[t]) = 0
  BY DEF Init
<1>4. Numbered /\ SlotIsTop
  BY <1>3 DEF Numbered, NumberedIn, SlotIsTop, SlotIsTopOf
<1>5. EventIsOwn /\ SilentForAReason /\ NoEntryLeft
  BY DEF Init, EventIsOwn, SilentForAReason, NoEntryLeft
<1> QED
  BY <1>1, <1>2, <1>4, <1>5 DEF IInv

LEMMA AttachStep == ASSUME IInv, Attach PROVE IInv'
<1>1. TypeOK'
  BY DEF IInv, TypeOK, Attach, Kinds
<1>2. ProbesInOrder'
  BY DEF IInv, ProbesInOrder, Attach, Kinds
<1>3. Grows /\ (room' = 0 \/ room # 0)
  BY DEF IInv, TypeOK, Attach, Grows
<1> QED
  BY <1>1, <1>2, <1>3, Kept DEF Attach

LEMMA NfLogTraceStep == ASSUME IInv, NEW t \in Tasks, NfLogTrace(t) PROVE IInv'
<1>1. room' \in Nat /\ room # 0
  BY DEF IInv, TypeOK, NfLogTrace
<1>2. TypeOK'
  BY <1>1 DEF IInv, TypeOK, NfLogTrace
<1>3. ProbesInOrder' /\ Grows
  BY DEF IInv, TypeOK, ProbesInOrder, NfLogTrace, Grows
<1> QED
  BY <1>1, <1>2, <1>3, Kept DEF NfLogTrace

LEMMA BeginStep ==
  ASSUME IInv, NEW t \in Tasks, NEW k \in Kinds, Begin(t, k)
  PROVE  IInv'
<1> DEFINE f == [id |-> begun + 1, kind |-> k, ret |-> k \in return, pc |-> "running", got |-> None]
           n == Len(stack[t])
<1>0. TypeOK /\ stack[t] \in Seq(Frame) /\ n \in Nat /\ begun \in Nat /\ early \in Nat
  BY DEF IInv, TypeOK
<1>1. f \in Frame
  BY <1>0 DEF Frame, None
<1>2. stack' = [stack EXCEPT ![t] = Append(@, f)]
  BY DEF Begin
<1>f. f.id = begun + 1 /\ f.ret = (k \in return) /\ f.pc = "running"
  OBVIOUS
<1> HIDE DEF f
<1>3. StackTyped /\ Pushed(t, f)
  BY <1>0, <1>1, <1>2, PushFacts
<1>4. begun' = begun + 1 /\ early' \in {early, begun'} /\ (entry # Kinds => early' = begun')
      /\ (entry = Kinds => early' = early)
  BY DEF Begin
<1>5. Grows
  BY <1>0, <1>4 DEF Begin, Grows, IInv, ProbesInOrder
<1>6. TypeOK'
  <2>1. begun' \in Nat /\ early' \in Nat
    BY <1>0, <1>4
  <2>2. PidTgid[t] \in Ids
    BY DEF Ids
  <2>3. slot' \in [Ids -> Nat]
    BY <1>0, <2>2 DEF Begin, Save, TypeOK
  <2>4. outer' \in SUBSET Nat
    <3>1. CASE stack[t] = <<>>
      BY <1>0, <3>1 DEF Begin, TypeOK
    <3>2. CASE stack[t] # <<>>
      <4>1. Top(t).id \in Nat
        BY <1>0, <3>2, TopIsFrame DEF Frame
      <4> QED
        BY <1>0, <3>2, <4>1 DEF Begin, TypeOK
    <3> QED
      BY <3>1, <3>2
  <2> QED
    BY <1>0, <1>3, <2>1, <2>3, <2>4 DEF Begin, TypeOK, StackTyped
<1>7. ProbesInOrder'
  BY <1>0, <1>4 DEF IInv, ProbesInOrder, Begin
<1>s. stack'[t] # <<>> /\ Len(stack'[t]) = n + 1 /\ Top(t)' = f
  <2>1. stack'[t] \in Seq(Frame) /\ Len(stack'[t]) = n + 1 /\ stack'[t][n + 1] = f
    BY <1>3 DEF Pushed, StackTyped
  <2> QED
    BY <1>0, <2>1 DEF Top
<1>8. Numbered'
  <2> SUFFICES ASSUME NEW u \in Tasks PROVE NumberedIn(u)'
    BY DEF Numbered
  <2>1. CASE u # t
    BY <1>0, <1>3, <1>5, <1>6, <2>1, OthersNumbered DEF IInv, Pushed, OthersKept
  <2>2. CASE u = t
    <3>0. NumberedIn(t)
      BY DEF IInv, Numbered
    <3> SUFFICES ASSUME NEW i \in 1..(n + 1)
                 PROVE  /\ 0 < stack'[t][i].id /\ stack'[t][i].id <= begun'
                        /\ stack'[t][i].id > early' => stack'[t][i].ret
                        /\ i < n + 1 => /\ stack'[t][i].pc = "running" /\ stack'[t][i].id \in outer'
                                        /\ stack'[t][i].id < stack'[t][i + 1].id
      BY <1>s, <2>2 DEF NumberedIn
    <3>1. CASE i = n + 1
      <4>1. stack'[t][i] = f
        BY <1>3, <3>1 DEF Pushed
      <4>2. f.id > early' => k \in return
        BY <1>0, <1>f, <1>4 DEF IInv, ProbesInOrder
      <4>3. 0 < f.id /\ f.id <= begun' /\ ~(i < n + 1)
        BY <1>0, <1>f, <1>4, <3>1
      <4>4. f.id > early' => f.ret
        BY <1>f, <4>2
      <4> QED
        BY <4>1, <4>3, <4>4
    <3>2. CASE i \in 1..n
      <4>1. stack'[t][i] = stack[t][i] /\ stack[t][i] \in Frame
        BY <1>0, <1>3, <3>2 DEF Pushed
      <4>2. /\ 0 < stack[t][i].id /\ stack[t][i].id <= begun /\ stack[t][i].id \in Nat
            /\ stack[t][i].id > early => stack[t][i].ret
        BY <3>0, <3>2, <4>1 DEF NumberedIn, Frame
      <4>3. stack[t][i].id > early' => stack[t][i].id > early
        BY <1>0, <1>4, <4>2
      <4>4. CASE i < n
        <5>1. stack'[t][i + 1] = stack[t][i + 1]
          BY <1>0, <1>3, <4>4, <3>2 DEF Pushed
        <5>2. /\ stack[t][i].pc = "running" /\ stack[t][i].id \in outer
              /\ stack[t][i].id < stack[t][i + 1].id
          BY <3>0, <3>2, <4>4 DEF NumberedIn
        <5> QED
          BY <1>0, <1>4, <1>5, <4>1, <4>2, <4>3, <5>1, <5>2 DEF Grows
      <4>5. CASE i = n
        <5>1. stack[t] # <<>> /\ Top(t) = stack[t][i]
          BY <1>0, <3>2, <4>5 DEF Top
        <5>2. stack[t][i].pc = "running"
          BY <4>1, <5>1 DEF Begin, InProgram, Frame
        <5>3. stack[t][i].id \in outer'
          BY <5>1 DEF Begin
        <5>4. stack'[t][i + 1] = f
          BY <1>3, <4>5 DEF Pushed
        <5>5. stack[t][i].id <= begun' /\ stack[t][i].id < f.id
          BY <1>0, <1>f, <1>4, <4>2
        <5> QED
          BY <4>1, <4>2, <4>3, <5>2, <5>3, <5>4, <5>5
      <4> QED
        BY <1>0, <3>2, <4>4, <4>5
    <3> QED
      BY <1>0, <3>1, <3>2
  <2> QED
    BY <2>1, <2>2
<1>9. SlotIsTop'
  <2> SUFFICES ASSUME NEW u \in Tasks PROVE SlotIsTopOf(u)'
    BY DEF SlotIsTop
  <2>1. CASE u # t
    <3>1. OwnId(u) => slot'[PidTgid[u]] = slot[PidTgid[u]]
      BY <1>0, <2>1 DEF OwnId, Begin, Save, TypeOK, Ids
    <3> QED
      BY <1>0, <1>3, <1>5, <1>6, <2>1, <3>1, OthersSlot DEF IInv, Pushed, OthersKept
  <2>2. CASE u = t
    <3>1. CASE entry # Kinds
      <4>1. ~(Top(t)'.id > early')
        BY <1>0, <1>f, <1>s, <1>4, <3>1
      <4> QED
        BY <2>2, <4>1 DEF SlotIsTopOf
    <3>2. CASE entry = Kinds
      <4>1. slot'[PidTgid[t]] = begun + 1
        BY <1>0, <3>2 DEF Begin, Save, TypeOK, Ids
      <4>2. begun + 1 # None
        BY <1>0 DEF None
      <4> QED
        BY <1>f, <1>s, <2>2, <4>1, <4>2 DEF SlotIsTopOf
    <3> QED
      BY <3>1, <3>2
  <2> QED
    BY <2>1, <2>2
<1>10. EventIsOwn'
  <2> SUFFICES ASSUME ~steals, NEW e \in events, e.by > early', OwnId(e.in)
               PROVE  e.of = e.by
    BY DEF EventIsOwn, OwnId, Begin
  <2>1. e.by > early
    BY <1>0, <1>4, <1>5 DEF TypeOK, Grows
  <2> QED
    BY <2>1 DEF IInv, EventIsOwn
<1>11. SilentForAReason'
  <2> SUFFICES ASSUME NEW c \in silent, c.by > early', OwnId(c.in)
               PROVE  c.by \in outer' \/ room = 0
    BY DEF SilentForAReason, OwnId, Begin
  <2>1. c.by > early
    BY <1>0, <1>4, <1>5 DEF TypeOK, Grows
  <2> QED
    BY <1>5, <2>1 DEF IInv, SilentForAReason, Grows
<1>12. NoEntryLeft'
  <2> SUFFICES ASSUME early' = 0, NEW id \in Ids, slot'[id] # None
               PROVE  \E u \in Tasks : PidTgid[u] = id /\ stack'[u] # <<>>
    BY DEF NoEntryLeft
  <2>1. CASE id = PidTgid[t]
    BY <1>s, <2>1
  <2>2. CASE id # PidTgid[t]
    <3>1. early = 0 /\ slot[id] # None
      BY <1>0, <1>5, <2>2 DEF Grows, Begin, Save, TypeOK
    <3>2. PICK u \in Tasks : PidTgid[u] = id /\ stack[u] # <<>>
      BY <3>1 DEF IInv, NoEntryLeft
    <3> QED
      BY <1>3, <2>2, <3>2 DEF Pushed, OthersKept
  <2> QED
    BY <2>1, <2>2
<1> QED
  BY <1>6, <1>7, <1>8, <1>9, <1>10, <1>11, <1>12 DEF IInv

-----------------------------------------------------------------------------
(* When a call returns, the one around it becomes the innermost again.     *)
LEMMA Uncovered ==
  ASSUME TypeOK, StackTyped, Numbered, NEW t \in Tasks, stack[t] # <<>>, Popped(t), stack'[t] # <<>>
  PROVE  /\ Top(t)'.pc = "running" /\ Top(t)'.id \in outer
         /\ Top(t)'.id \in Nat /\ Top(t).id \in Nat /\ Top(t)'.id < Top(t).id
<1> DEFINE n == Len(stack[t])
           m == Len(stack'[t])
<1>1. stack[t] \in Seq(Frame) /\ stack'[t] \in Seq(Frame)
  BY DEF TypeOK, StackTyped
<1>2. n \in Nat \ {0} /\ m \in Nat \ {0} /\ m = n - 1
  BY <1>1 DEF Popped
<1>3. m \in 1..(n - 1) /\ m \in 1..n /\ m < n /\ m + 1 = n
  BY <1>2
<1>4. stack'[t][m] = stack[t][m] /\ stack[t][m] \in Frame /\ stack[t][n] \in Frame
  <2>1. stack'[t][m] = stack[t][m]
    BY <1>3 DEF Popped
  <2>2. \A i \in 1..n : stack[t][i] \in Frame
    BY <1>1
  <2> QED
    BY <1>2, <1>3, <2>1, <2>2
<1>5. Top(t) = stack[t][n] /\ Top(t)' = stack[t][m]
  BY <1>4 DEF Top
<1>6. stack[t][m].pc = "running" /\ stack[t][m].id \in outer /\ stack[t][m].id < stack[t][n].id
  <2>1. NumberedIn(t)
    BY DEF Numbered
  <2> HIDE DEF n, m
  <2>2. m \in 1..n /\ n = Len(stack[t])
    BY <1>3 DEF n
  <2>3. stack[t][m].pc = "running" /\ stack[t][m].id \in outer /\ stack[t][m].id < stack[t][m + 1].id
    BY <1>3, <2>1, <2>2 DEF NumberedIn
  <2> QED
    BY <1>3, <2>3
<1> QED
  BY <1>4, <1>5, <1>6 DEF Frame

(* What every return leaves true, whoever sees it.                         *)
LEMMA PopKeeps ==
  ASSUME IInv, TypeOK', NEW t \in Tasks, stack[t] # <<>>, Popped(t),
         UNCHANGED <<begun, early, outer>>,
         \A id \in Ids \ {PidTgid[t]} : slot'[id] = slot[id],
         slot'[PidTgid[t]] = None \/ Top(t).id <= early
  PROVE  Numbered' /\ SlotIsTop'
<1>0. TypeOK /\ Numbered /\ SlotIsTop /\ Grows /\ StackTyped
  BY DEF IInv, TypeOK, Grows, StackTyped
<1>1. Numbered'
  <2> SUFFICES ASSUME NEW u \in Tasks PROVE NumberedIn(u)'
    BY DEF Numbered
  <2>1. CASE u # t
    BY <1>0, <2>1, OthersNumbered DEF Popped, OthersKept
  <2>2. CASE u = t
    <3>0. NumberedIn(t) /\ stack[t] \in Seq(Frame)
      BY <1>0 DEF Numbered, TypeOK
    <3>1. Len(stack[t]) \in Nat \ {0} /\ Len(stack'[t]) = Len(stack[t]) - 1
      BY <3>0 DEF Popped
    <3> SUFFICES ASSUME NEW i \in 1..Len(stack'[t])
                 PROVE  /\ 0 < stack'[t][i].id /\ stack'[t][i].id <= begun
                        /\ stack'[t][i].id > early => stack'[t][i].ret
                        /\ i < Len(stack'[t]) => /\ stack'[t][i].pc = "running" /\ stack'[t][i].id \in outer
                                                 /\ stack'[t][i].id < stack'[t][i + 1].id
      BY <2>2 DEF NumberedIn
    <3>2. i \in 1..(Len(stack[t]) - 1) /\ i \in 1..Len(stack[t]) /\ i < Len(stack[t])
      BY <3>1
    <3>3. stack'[t][i] = stack[t][i] /\ (i < Len(stack'[t]) => stack'[t][i + 1] = stack[t][i + 1])
      BY <3>1, <3>2 DEF Popped
    <3> QED
      BY <3>0, <3>2, <3>3 DEF NumberedIn
  <2> QED
    BY <2>1, <2>2
<1>2. SlotIsTop'
  <2> SUFFICES ASSUME NEW u \in Tasks PROVE SlotIsTopOf(u)'
    BY DEF SlotIsTop
  <2>1. CASE u # t
    <3>1. OwnId(u) => slot'[PidTgid[u]] = slot[PidTgid[u]]
      BY <2>1 DEF OwnId, Ids
    <3> QED
      BY <1>0, <2>1, <3>1, OthersSlot DEF Popped, OthersKept
  <2>2. CASE u = t
    <3> SUFFICES ASSUME stack'[t] # <<>>, Top(t)'.id > early
                 PROVE  SlotIsTopOf(t)'
      BY <2>2 DEF SlotIsTopOf
    <3>1. /\ Top(t)'.pc = "running" /\ Top(t)'.id \in outer
          /\ Top(t)'.id \in Nat /\ Top(t).id \in Nat /\ Top(t)'.id < Top(t).id
      BY <1>0, Uncovered
    <3>2. ~(Top(t).id <= early)
      BY <1>0, <3>1 DEF TypeOK
    <3> QED
      BY <3>1, <3>2 DEF SlotIsTopOf
  <2> QED
    BY <2>1, <2>2
<1> QED
  BY <1>1, <1>2

LEMMA TopNumbered ==
  ASSUME TypeOK, Numbered, NEW t \in Tasks, stack[t] # <<>>
  PROVE  /\ Top(t).id \in Nat /\ 0 < Top(t).id /\ Top(t).id <= begun
         /\ Top(t).id > early => Top(t).ret
<1>1. Len(stack[t]) \in Nat \ {0} /\ Top(t) \in Frame
  BY TopIsFrame
<1>2. Len(stack[t]) \in 1..Len(stack[t])
  BY <1>1
<1> QED
  BY <1>1, <1>2 DEF Numbered, NumberedIn, Top, Frame

LEMMA ReturnUnseenStep == ASSUME IInv, NEW t \in Tasks, ReturnUnseen(t) PROVE IInv'
<1>0. TypeOK /\ Numbered /\ stack[t] # <<>> /\ stack' = Pop(t)
  BY DEF IInv, ReturnUnseen
<1>1. StackTyped /\ Popped(t)
  BY <1>0, PopFacts
<1>2. TypeOK'
  BY <1>0, <1>1 DEF TypeOK, StackTyped, ReturnUnseen
<1>3. Top(t).id <= early /\ early # 0
  BY <1>0, TopNumbered DEF ReturnUnseen, TypeOK
<1>4. Numbered' /\ SlotIsTop'
  BY <1>0, <1>1, <1>2, <1>3, PopKeeps DEF ReturnUnseen
<1>5. ProbesInOrder' /\ EventIsOwn' /\ SilentForAReason'
  BY DEF IInv, ProbesInOrder, EventIsOwn, SilentForAReason, OwnId, ReturnUnseen
<1>6. NoEntryLeft'
  BY <1>3 DEF NoEntryLeft, ReturnUnseen
<1> QED
  BY <1>2, <1>4, <1>5, <1>6 DEF IInv

LEMMA LookupMissStep ==
  ASSUME IInv, NEW t \in Tasks, Lookup(t), slot[PidTgid[t]] = None
  PROVE  IInv'
<1>0. /\ TypeOK /\ Numbered /\ stack[t] # <<>> /\ Top(t).pc = "running" /\ stack' = Pop(t)
      /\ silent' = silent \cup {[by |-> Top(t).id, in |-> t]}
      /\ UNCHANGED <<entry, return, slot, room, begun, events, steals, early, outer>>
  BY DEF IInv, Lookup
<1>1. StackTyped /\ Popped(t)
  BY <1>0, PopFacts
<1>2. Top(t).id \in Nat
  BY <1>0, TopNumbered
<1>3. TypeOK'
  BY <1>0, <1>1, <1>2 DEF TypeOK, StackTyped
<1>4. Numbered' /\ SlotIsTop'
  BY <1>0, <1>1, <1>3, PopKeeps
<1>5. ProbesInOrder' /\ EventIsOwn'
  BY <1>0 DEF IInv, ProbesInOrder, EventIsOwn, OwnId
<1>6. SilentForAReason'
  <2>1. Top(t).id > early /\ OwnId(t) => Top(t).id \in outer
    BY <1>0 DEF IInv, SlotIsTop, SlotIsTopOf
  <2> QED
    BY <1>0, <2>1 DEF IInv, SilentForAReason, OwnId
<1>7. NoEntryLeft'
  <2> SUFFICES ASSUME early = 0, NEW id \in Ids, slot[id] # None
               PROVE  \E u \in Tasks : PidTgid[u] = id /\ stack'[u] # <<>>
    BY <1>0 DEF NoEntryLeft
  <2>1. PICK u \in Tasks : PidTgid[u] = id /\ stack[u] # <<>>
    BY DEF IInv, NoEntryLeft
  <2> QED
    BY <1>1, <2>1 DEF Popped, OthersKept
<1> QED
  BY <1>3, <1>4, <1>5, <1>6, <1>7 DEF IInv

LEMMA LookupHitStep ==
  ASSUME IInv, NEW t \in Tasks, Lookup(t), slot[PidTgid[t]] # None
  PROVE  IInv'
<1> DEFINE n == Len(stack[t])
<1>0. /\ TypeOK /\ Numbered /\ SlotIsTop /\ stack[t] # <<>> /\ Top(t).pc = "running"
      /\ stack' = [stack EXCEPT ![t][n].pc = "found", ![t][n].got = slot[PidTgid[t]]]
      /\ UNCHANGED <<entry, return, slot, room, begun, events, silent, steals, early, outer>>
  BY DEF IInv, Lookup
<1>1. slot[PidTgid[t]] \in Nat
  BY <1>0 DEF TypeOK, Ids
<1>n. stack[t] \in Seq(Frame) /\ n \in Nat \ {0} /\ n \in 1..n
  BY <1>0, TopIsFrame DEF TypeOK
<1> HIDE DEF n
<1>2. n = Len(stack[t])
  BY DEF n
<1>3. StackTyped
  BY <1>0, <1>1, <1>2, MarkFacts
<1>4. PICK f \in Frame : /\ Marked(t, f)
                        /\ f.id = Top(t).id /\ f.ret = Top(t).ret
                        /\ f.pc = "found" /\ f.got = slot[PidTgid[t]]
  BY <1>0, <1>1, <1>2, MarkFacts
<1>5. TypeOK' /\ Grows
  BY <1>0, <1>3 DEF TypeOK, StackTyped, Grows
<1>6. stack'[t] # <<>> /\ Len(stack'[t]) = n /\ Top(t)' = f
  <2>1. stack'[t] \in Seq(Frame) /\ Len(stack'[t]) = n /\ stack'[t][n] = f
    BY <1>2, <1>3, <1>4 DEF Marked, StackTyped
  <2> QED
    BY <1>n, <2>1 DEF Top
<1>k. begun' = begun /\ early' = early /\ outer' = outer
  BY <1>0
<1>7. Numbered'
  <2> SUFFICES ASSUME NEW u \in Tasks PROVE NumberedIn(u)'
    BY DEF Numbered
  <2>1. CASE u # t
    BY <1>0, <1>4, <1>5, <2>1, OthersNumbered DEF Marked, OthersKept
  <2>2. CASE u = t
    <3>0. NumberedIn(t)
      BY <1>0 DEF Numbered
    <3> SUFFICES ASSUME NEW i \in 1..n
                 PROVE  /\ 0 < stack'[t][i].id /\ stack'[t][i].id <= begun
                        /\ stack'[t][i].id > early => stack'[t][i].ret
                        /\ i < n => /\ stack'[t][i].pc = "running" /\ stack'[t][i].id \in outer
                                    /\ stack'[t][i].id < stack'[t][i + 1].id
      BY <1>6, <1>k, <2>2 DEF NumberedIn
    <3>1. /\ stack'[t][i].id = stack[t][i].id /\ stack'[t][i].ret = stack[t][i].ret
          /\ i < n => stack'[t][i] = stack[t][i]
      <4>1. CASE i = n
        BY <1>n, <1>2, <1>4, <4>1 DEF Marked, Top
      <4>2. CASE i \in 1..(n - 1)
        BY <1>n, <1>2, <1>4, <4>2 DEF Marked
      <4> QED
        BY <1>n, <4>1, <4>2
    <3>2. i < n => stack'[t][i + 1].id = stack[t][i + 1].id
      <4>1. CASE i + 1 = n
        BY <1>n, <1>2, <1>4, <4>1 DEF Marked, Top
      <4>2. CASE i + 1 \in 1..(n - 1)
        BY <1>n, <1>2, <1>4, <4>2 DEF Marked
      <4> QED
        BY <1>n, <4>1, <4>2
    <3> QED
      BY <1>2, <3>0, <3>1, <3>2 DEF NumberedIn
  <2> QED
    BY <2>1, <2>2
<1>8. SlotIsTop'
  <2> SUFFICES ASSUME NEW u \in Tasks PROVE SlotIsTopOf(u)'
    BY DEF SlotIsTop
  <2>1. CASE u # t
    BY <1>0, <1>4, <1>5, <2>1, OthersSlot DEF Marked, OthersKept
  <2>2. CASE u = t
    <3>1. SlotIsTopOf(t)
      BY <1>0 DEF SlotIsTop
    <3> QED
      BY <1>0, <1>4, <1>6, <2>2, <3>1 DEF SlotIsTopOf, OwnId
  <2> QED
    BY <2>1, <2>2
<1>9. ProbesInOrder' /\ EventIsOwn' /\ SilentForAReason'
  BY <1>0 DEF IInv, ProbesInOrder, EventIsOwn, SilentForAReason, OwnId
<1>10. NoEntryLeft'
  <2> SUFFICES ASSUME early = 0, NEW id \in Ids, slot[id] # None
               PROVE  \E u \in Tasks : PidTgid[u] = id /\ stack'[u] # <<>>
    BY <1>0 DEF NoEntryLeft
  <2>1. PICK u \in Tasks : PidTgid[u] = id /\ stack[u] # <<>>
    BY DEF IInv, NoEntryLeft
  <2> QED
    BY <1>4, <1>6, <2>1 DEF Marked, OthersKept
<1> QED
  BY <1>5, <1>7, <1>8, <1>9, <1>10 DEF IInv

LEMMA DeleteAndReportStep ==
  ASSUME IInv, NEW t \in Tasks, DeleteAndReport(t)
  PROVE  IInv'
<1>0. /\ TypeOK /\ Numbered /\ SlotIsTop /\ stack[t] # <<>> /\ Top(t).pc = "found" /\ stack' = Pop(t)
      /\ slot' = [slot EXCEPT ![PidTgid[t]] = None]
      /\ UNCHANGED <<entry, return, begun, steals, early, outer>>
  BY DEF IInv, DeleteAndReport, InProgram, Drop
<1>1. StackTyped /\ Popped(t)
  BY <1>0, PopFacts
<1>2. Top(t).id \in Nat /\ Top(t).got \in Nat
  BY <1>0, TopIsFrame DEF Frame
<1>3. /\ slot' \in [Ids -> Nat]
      /\ slot'[PidTgid[t]] = None
      /\ \A id \in Ids \ {PidTgid[t]} : slot'[id] = slot[id]
  BY <1>0 DEF TypeOK, Ids, None
<1>4. ASSUME room = 0 PROVE TypeOK' /\ EventIsOwn' /\ SilentForAReason'
  <2>1. /\ silent' = silent \cup {[by |-> Top(t).id, in |-> t]}
        /\ room' = room /\ events' = events
    BY <1>4 DEF DeleteAndReport
  <2>2. TypeOK'
    BY <1>0, <1>1, <1>2, <1>3, <2>1 DEF TypeOK, StackTyped
  <2>3. EventIsOwn' /\ SilentForAReason'
    BY <1>0, <1>4, <2>1 DEF IInv, EventIsOwn, SilentForAReason, OwnId
  <2> QED
    BY <2>2, <2>3
<1>5. ASSUME room # 0 PROVE TypeOK' /\ EventIsOwn' /\ SilentForAReason'
  <2>1. PICK who \in {Top(t).got} \cup (IF steals THEN {slot[id] : id \in Ids} \ {None} ELSE {}) :
          events' = events \cup {[by |-> Top(t).id, in |-> t, of |-> who]}
    BY <1>5 DEF DeleteAndReport
  <2>2. room' \in Nat /\ silent' = silent
    <3>1. room' = room - 1 /\ silent' = silent
      BY <1>5 DEF DeleteAndReport
    <3>2. room \in Nat
      BY <1>0 DEF TypeOK
    <3> QED
      BY <1>5, <3>1, <3>2
  <2>3. who \in Nat /\ (~steals => who = Top(t).got)
    <3>1. \A id \in Ids : slot[id] \in Nat
      BY <1>0 DEF TypeOK, Ids
    <3> QED
      BY <1>2, <2>1, <3>1
  <2>4. TypeOK'
    BY <1>0, <1>1, <1>2, <1>3, <2>1, <2>2, <2>3 DEF TypeOK, StackTyped
  <2>5. EventIsOwn'
    <3>1. Top(t).id > early /\ OwnId(t) => Top(t).got = Top(t).id
      BY <1>0 DEF SlotIsTop, SlotIsTopOf
    <3> QED
      BY <1>0, <2>1, <2>3, <3>1 DEF IInv, EventIsOwn, OwnId
  <2>6. SilentForAReason'
    BY <1>0, <1>5, <2>2 DEF IInv, SilentForAReason, OwnId
  <2> QED
    BY <2>4, <2>5, <2>6
<1>t. TypeOK' /\ EventIsOwn' /\ SilentForAReason'
  BY <1>4, <1>5
<1>6. Numbered' /\ SlotIsTop'
  BY <1>0, <1>1, <1>3, <1>t, PopKeeps
<1>7. ProbesInOrder'
  BY <1>0 DEF IInv, ProbesInOrder
<1>8. NoEntryLeft'
  <2> SUFFICES ASSUME early = 0, NEW id \in Ids, slot'[id] # None
               PROVE  \E u \in Tasks : PidTgid[u] = id /\ stack'[u] # <<>>
    BY <1>0 DEF NoEntryLeft
  <2>1. id # PidTgid[t] /\ slot[id] # None
    BY <1>3
  <2>2. PICK u \in Tasks : PidTgid[u] = id /\ stack[u] # <<>>
    BY <2>1 DEF IInv, NoEntryLeft
  <2> QED
    BY <1>1, <2>1, <2>2 DEF Popped, OthersKept
<1> QED
  BY <1>6, <1>7, <1>8, <1>t DEF IInv

LEMMA Stutter == ASSUME IInv, UNCHANGED vars PROVE IInv'
<1>1. TypeOK' /\ ProbesInOrder' /\ Grows /\ (room' = 0 \/ room # 0)
  BY DEF IInv, TypeOK, ProbesInOrder, Grows, vars
<1> QED
  BY <1>1, Kept DEF vars

THEOREM Invariance == Spec => []IInv
<1>1. ASSUME IInv, [Next]_vars PROVE IInv'
  <2>1. CASE Attach
    BY <1>1, <2>1, AttachStep
  <2>2. ASSUME NEW t \in Tasks, NEW k \in Kinds, Begin(t, k) PROVE IInv'
    BY <1>1, <2>2, BeginStep
  <2>3. ASSUME NEW t \in Tasks, NfLogTrace(t) PROVE IInv'
    BY <1>1, <2>3, NfLogTraceStep
  <2>4. ASSUME NEW t \in Tasks, ReturnUnseen(t) PROVE IInv'
    BY <1>1, <2>4, ReturnUnseenStep
  <2>5. ASSUME NEW t \in Tasks, Lookup(t) PROVE IInv'
    BY <1>1, <2>5, LookupMissStep, LookupHitStep
  <2>6. ASSUME NEW t \in Tasks, DeleteAndReport(t) PROVE IInv'
    BY <1>1, <2>6, DeleteAndReportStep
  <2>7. CASE UNCHANGED vars
    BY <1>1, <2>7, Stutter
  <2> QED
    BY <1>1, <2>1, <2>2, <2>3, <2>4, <2>5, <2>6, <2>7 DEF Next
<1> QED
  BY <1>1, InitInv, PTL DEF Spec

(* Once every probe is registered, what is reported of a call of a task    *)
(* with an id of its own are this call's arguments, whatever runs inside   *)
(* of it, unless a deleted entry is reused while it is read.               *)
THEOREM OwnArguments == Spec => []EventIsOwn
<1>1. IInv => EventIsOwn
  BY DEF IInv
<1> QED
  BY <1>1, Invariance, PTL

(* Such a call is reported unless another ran inside of it, or the ring is *)
(* used up.                                                                *)
THEOREM NoOtherSilence == Spec => []SilentForAReason
<1>1. IInv => SilentForAReason
  BY DEF IInv
<1> QED
  BY <1>1, Invariance, PTL

(* With every probe registered before the first call, an entry is under    *)
(* the id of a task that is in a call, for shared ids too.                 *)
THEOREM EntriesHaveACall == Spec => []NoEntryLeft
<1>1. IInv => NoEntryLeft
  BY DEF IInv
<1> QED
  BY <1>1, Invariance, PTL

-----------------------------------------------------------------------------
(* The unix socket tracer, UnixSock.                                       *)
-----------------------------------------------------------------------------
(* What ReadStr leaves in an element: the path, cut to its size, and a     *)
(* zero behind it.  What comes after is anything.                          *)
Holds(buf, path) ==
  \A i \in Usk!Bytes :
    /\ i <= Len(path) /\ i < PathMax => buf[i] = path[i]
    /\ i = Len(path) + 1 \/ i = PathMax => buf[i] = 0

LEMMA ReadHolds ==
  ASSUME Sizes, NEW buf \in [Usk!Bytes -> Nat], NEW path, Path(path)
  PROVE  Holds(Usk!ReadStr(buf, path), path) /\ Usk!ReadStr(buf, path) \in [Usk!Bytes -> Nat]
<1>1. Len(path) \in Nat /\ PathMax \in Nat \ {0} /\ \A i \in 1..Len(path) : path[i] \in Nat \ {0}
  BY DEF Sizes, Path
<1>2. ASSUME NEW i \in Usk!Bytes
      PROVE  /\ i <= Len(path) /\ i < PathMax => Usk!ReadStr(buf, path)[i] = path[i]
             /\ i = Len(path) + 1 \/ i = PathMax => Usk!ReadStr(buf, path)[i] = 0
             /\ Usk!ReadStr(buf, path)[i] \in Nat
  BY <1>1 DEF Usk!ReadStr, Usk!Bytes
<1> QED
  BY <1>2 DEF Holds, Usk!ReadStr

(* sock_path in its array: the bytes behind its end are zero.              *)
Agrees(buf) == \A i \in 1..Len(sockPath) : buf[i] = sockPath[i]

LEMMA CfgBytes ==
  ASSUME Sizes, sockPath \in SockPaths
  PROVE  /\ Len(sockPath) \in 0..PathMax
         /\ \A i \in Nat \ {0} : Usk!Cfg(i) # 0 <=> i <= Len(sockPath)
         /\ \A i \in 1..Len(sockPath) : Usk!Cfg(i) = sockPath[i]
BY DEF Sizes, Path, Usk!Cfg

(* Whatever is behind the end of a path that was read, the bytes of        *)
(* sock_path agree with it just if the path begins with them.              *)
LEMMA AgreesIsWatched ==
  ASSUME Sizes, sockPath \in SockPaths, NEW buf, NEW path, Path(path), path # NULL, Holds(buf, path)
  PROVE  Agrees(buf) <=> Usk!Watched(path)
<1> DEFINE n == Len(sockPath)
<1>1. /\ n \in Nat /\ n <= PathMax /\ PathMax \in Nat \ {0} /\ Len(path) \in Nat
      /\ sockPath \in Seq(Nat \ {0}) /\ \A i \in 1..n : sockPath[i] # 0
      /\ path \in Seq(Nat \ {0})
  BY CfgBytes DEF Sizes, Path
<1>2. Len(Usk!ReadAs(path)) = Usk!Least(Len(path), PathMax - 1)
  <2>1. Usk!Least(Len(path), PathMax - 1) \in 0..Len(path)
    BY <1>1 DEF Usk!Least
  <2> QED
    BY <1>1, <2>1 DEF Usk!ReadAs
<1>3. ASSUME Agrees(buf) PROVE Usk!Watched(path)
  <2>1. n <= Len(path)
    <3> SUFFICES ASSUME Len(path) + 1 <= n PROVE FALSE
      BY <1>1
    <3>1. Len(path) + 1 \in Usk!Bytes /\ Len(path) + 1 \in 1..n
      BY <1>1 DEF Usk!Bytes
    <3>2. buf[Len(path) + 1] = 0
      BY <3>1 DEF Holds
    <3> QED
      BY <1>1, <1>3, <3>1, <3>2 DEF Agrees
  <2>2. n < PathMax
    <3> SUFFICES ASSUME n = PathMax PROVE FALSE
      BY <1>1
    <3>1. PathMax \in Usk!Bytes /\ PathMax \in 1..n
      BY <1>1 DEF Usk!Bytes
    <3>2. buf[PathMax] = 0
      BY <3>1 DEF Holds
    <3> QED
      BY <1>1, <1>3, <3>1, <3>2 DEF Agrees
  <2>3. \A i \in 1..n : path[i] = sockPath[i]
    BY <1>1, <1>3, <2>1, <2>2 DEF Agrees, Holds, Usk!Bytes
  <2>4. SubSeq(path, 1, n) = sockPath
    <3>1. /\ SubSeq(path, 1, n) \in Seq(Nat \ {0}) /\ Len(SubSeq(path, 1, n)) = n
          /\ \A i \in 1..n : SubSeq(path, 1, n)[i] = path[i]
      BY <1>1, <2>1
    <3> QED
      BY <1>1, <2>3, <3>1, SeqEqual
  <2>5. Len(Usk!ReadAs(path)) >= n
    BY <1>1, <1>2, <2>1, <2>2 DEF Usk!Least
  <2> QED
    BY <2>4, <2>5 DEF Usk!Watched
<1>4. ASSUME Usk!Watched(path) PROVE Agrees(buf)
  <2>1. n <= Len(path) /\ n < PathMax
    BY <1>1, <1>2, <1>4 DEF Usk!Watched, Usk!Least
  <2>2. SubSeq(path, 1, n) = sockPath
    BY <1>4 DEF Usk!Watched
  <2>3. \A i \in 1..n : path[i] = sockPath[i]
    <3>1. \A i \in 1..n : SubSeq(path, 1, n)[i] = path[i]
      BY <1>1, <2>1
    <3> QED
      BY <2>2, <3>1
  <2> QED
    BY <1>1, <2>1, <2>3 DEF Agrees, Holds, Usk!Bytes
<1> QED
  BY <1>3, <1>4

-----------------------------------------------------------------------------
(* __is_path_matched, word by word, comes to the same as byte by byte.     *)
LEMMA LeastWord ==
  ASSUME NEW S \in SUBSET Nat, S # {}
  PROVE  \E w \in S : \A v \in S : w <= v
<1> DEFINE R == OpToRel(<, Nat)
<1>1. PICK w \in S : \A v \in S : <<v, w>> \notin R
  BY NatLessThanWellFounded, WFMin
<1>2. \A k, l \in Nat : k < l => <<k, l>> \in R
  BY DEF OpToRel
<1> HIDE DEF R
<1>3. \A v \in S : v \in Nat /\ ~(v < w)
  BY <1>1, <1>2
<1>4. w \in Nat
  OBVIOUS
<1> QED
  BY <1>3, <1>4

(* The word of a byte.                                                     *)
LEMMA WordOf ==
  ASSUME Sizes, NEW i \in Nat \ {0}
  PROVE  \E w \in Nat, j \in 1..WORD :
           i = w * WORD + j /\ \A k \in Nat : i <= k * WORD => w < k
<1> DEFINE a == i - 1
           w == a \div WORD
           j == (a % WORD) + 1
<1>1. WORD \in Nat \ {0} /\ a \in Nat
  BY DEF Sizes
<1> HIDE DEF a
<1>2. w \in Nat /\ a % WORD \in 0..(WORD - 1) /\ a = WORD * w + (a % WORD)
  BY <1>1
<1> HIDE DEF w
<1>3. j \in 1..WORD /\ i = w * WORD + j
  BY <1>1, <1>2 DEF a
<1>4. ASSUME NEW k \in Nat, i <= k * WORD PROVE w < k
  <2> SUFFICES ASSUME k <= w PROVE FALSE
    BY <1>2
  <2>1. k * WORD <= w * WORD
    BY <1>1, <1>2
  <2> QED
    BY <1>1, <1>2, <1>3, <1>4, <2>1
<1> QED
  BY <1>2, <1>3, <1>4

LEMMA Prefix ==
  ASSUME Sizes, sockPath \in SockPaths, NEW buf, NEW from \in Nat, NEW siz \in Nat
  PROVE  Usk!IsStrPrefix(buf, from, siz) <=>
           \A i \in 1..siz : from + i <= Len(sockPath) => buf[from + i] = sockPath[from + i]
<1>1. Len(sockPath) \in Nat
  BY CfgBytes
<1>2. ASSUME NEW i \in 1..siz
      PROVE  (\A j \in 1..i : Usk!Cfg(from + j) # 0) <=> from + i <= Len(sockPath)
  <2>1. i \in 1..i /\ from + i \in Nat \ {0}
    BY <1>2
  <2>2. ASSUME from + i <= Len(sockPath) PROVE \A j \in 1..i : Usk!Cfg(from + j) # 0
    <3>1. \A j \in 1..i : from + j \in Nat \ {0} /\ from + j <= Len(sockPath)
      BY <1>1, <2>2
    <3> QED
      BY <3>1, CfgBytes
  <2> QED
    BY <2>1, <2>2, CfgBytes
<1>3. \A i \in 1..siz : from + i <= Len(sockPath) =>
        from + i \in 1..Len(sockPath) /\ Usk!Cfg(from + i) = sockPath[from + i]
  BY <1>1, CfgBytes
<1> QED
  BY <1>2, <1>3 DEF Usk!IsStrPrefix

LEMMA WordWise ==
  ASSUME Sizes, sockPath \in SockPaths, NEW buf
  PROVE  Usk!IsPathMatched(buf) <=> Agrees(buf)
<1> DEFINE n == Len(sockPath)
           K == PathMax \div WORD
           Zero(w)    == \A j \in 1..WORD : Usk!Cfg(w * WORD + j) = 0
           Differs(w) == \E j \in 1..WORD : buf[w * WORD + j] # Usk!Cfg(w * WORD + j)
           stops      == {w \in Usk!Words : Zero(w) \/ Differs(w)}
           Equal(w)   == \A j \in 1..WORD : w * WORD + j <= n => buf[w * WORD + j] = sockPath[w * WORD + j]
<1>1. /\ WORD \in Nat \ {0} /\ n \in Nat /\ n <= PathMax /\ PathMax \in Nat \ {0}
      /\ K \in Nat /\ PathMax = K * WORD + WORD \div 2 /\ WORD \div 2 \in Nat
      /\ Usk!Words = 0..(K - 1)
  BY CfgBytes DEF Sizes, Usk!Words
<1>2. ASSUME NEW w \in Nat, NEW j \in 1..WORD
      PROVE  /\ w * WORD \in Nat /\ w * WORD + j \in Nat \ {0}
             /\ Usk!Cfg(w * WORD + j) # 0 <=> w * WORD + j <= n
             /\ w * WORD + j <= n => Usk!Cfg(w * WORD + j) = sockPath[w * WORD + j]
  <2>1. w * WORD \in Nat /\ w * WORD + j \in Nat \ {0}
    BY <1>1
  <2> QED
    BY <1>1, <2>1, CfgBytes
<1> HIDE DEF K
(* A word that is no stop agrees, and so does one that is all zero.        *)
<1>3. ASSUME NEW w \in Usk!Words, w \notin stops PROVE Equal(w)
  <2>1. w \in Nat /\ ~Differs(w)
    BY <1>1, <1>3
  <2> QED
    BY <1>2, <2>1
<1>4. ASSUME NEW w \in Nat, Zero(w) PROVE n <= w * WORD
  <2>1. 1 \in 1..WORD
    BY <1>1
  <2>2. ~(w * WORD + 1 <= n) /\ w * WORD \in Nat
    BY <1>2, <1>4, <2>1
  <2> QED
    BY <1>1, <2>2
<1>5. ASSUME NEW w \in Nat PROVE Usk!IsStrPrefix(buf, w * WORD, WORD) <=> Equal(w)
  <2>1. w * WORD \in Nat /\ WORD \in Nat
    BY <1>1
  <2> HIDE DEF Zero, Differs, stops
  <2> QED
    BY <2>1, Prefix
<1>6. ASSUME Agrees(buf), NEW w \in Nat PROVE Equal(w)
  BY <1>1, <1>2, <1>6 DEF Agrees
(* All bytes of sock_path, if those of the words up to its end agree.      *)
<1>7. ASSUME NEW w \in Nat, n <= w * WORD, \A v \in 0..(w - 1) : Equal(v) PROVE Agrees(buf)
  <2> SUFFICES ASSUME NEW i \in 1..n PROVE buf[i] = sockPath[i]
    BY DEF Agrees
  <2>1. i \in Nat \ {0} /\ i <= n /\ i <= w * WORD
    BY <1>1, <1>7
  <2>2. PICK v \in Nat, j \in 1..WORD : i = v * WORD + j /\ v < w
    BY <2>1, WordOf
  <2>3. Equal(v)
    BY <1>7, <2>2
  <2> QED
    BY <2>1, <2>2, <2>3
<1> HIDE DEF Zero, Differs, stops, Equal
<1>8. CASE stops = {}
  <2>1. \A v \in 0..(K - 1) : Equal(v)
    BY <1>1, <1>3, <1>8
  <2>2. K * WORD \in Nat
    BY <1>1
  <2>3. Usk!IsPathMatched(buf) <=> Usk!IsStrPrefix(buf, K * WORD, WORD \div 2)
    BY <1>8 DEF Usk!IsPathMatched, K, stops, Zero, Differs
  <2>4. Usk!IsStrPrefix(buf, K * WORD, WORD \div 2) <=>
          \A i \in 1..(WORD \div 2) : K * WORD + i <= n => buf[K * WORD + i] = sockPath[K * WORD + i]
    BY <1>1, <2>2, Prefix
  <2>5. ASSUME Agrees(buf) PROVE Usk!IsPathMatched(buf)
    <3>1. ASSUME NEW i \in 1..(WORD \div 2), K * WORD + i <= n
          PROVE  buf[K * WORD + i] = sockPath[K * WORD + i]
      <4>1. K * WORD + i \in 1..n
        BY <1>1, <2>2, <3>1
      <4> QED
        BY <2>5, <4>1 DEF Agrees
    <3> QED
      BY <2>3, <2>4, <3>1
  <2>6. ASSUME Usk!IsPathMatched(buf), NEW i \in 1..n PROVE buf[i] = sockPath[i]
    <3>1. CASE i <= K * WORD
      <4>1. i \in Nat \ {0} /\ i <= n
        BY <1>1, <2>6
      <4>2. PICK v \in Nat, j \in 1..WORD : i = v * WORD + j /\ v < K
        BY <1>1, <3>1, <4>1, WordOf
      <4>3. Equal(v)
        BY <1>1, <2>1, <4>2
      <4> QED
        BY <4>1, <4>2, <4>3 DEF Equal
    <3>2. CASE i > K * WORD
      <4>1. i - K * WORD \in 1..(WORD \div 2) /\ K * WORD + (i - K * WORD) = i /\ i <= n
        BY <1>1, <2>2, <2>6, <3>2
      <4> QED
        BY <2>3, <2>4, <2>6, <4>1
    <3> QED
      BY <1>1, <2>2, <2>6, <3>1, <3>2
  <2> QED
    BY <2>5, <2>6 DEF Agrees
<1>9. CASE stops # {}
  <2>1. stops \subseteq Nat /\ stops \subseteq Usk!Words
    BY <1>1 DEF stops
  <2>2. PICK w \in stops : \A v \in stops : w <= v
    BY <1>9, <2>1, LeastWord
  <2>3. w \in Nat /\ w \in Usk!Words
    BY <2>1, <2>2
  <2>4. \A v \in 0..(w - 1) : Equal(v)
    <3> SUFFICES ASSUME NEW v \in 0..(w - 1) PROVE Equal(v)
      OBVIOUS
    <3>1. v \in Usk!Words /\ ~(w <= v)
      BY <1>1, <2>3
    <3>2. v \notin stops
      BY <2>2, <3>1
    <3> QED
      BY <1>3, <3>1, <3>2
  <2>5. Usk!IsPathMatched(buf) <=> Zero(w) \/ Usk!IsStrPrefix(buf, w * WORD, WORD)
    <3>1. Usk!IsPathMatched(buf) <=>
            \A u \in stops : (\A v \in stops : u <= v) => Zero(u) \/ Usk!IsStrPrefix(buf, u * WORD, WORD)
      BY <1>9 DEF Usk!IsPathMatched, stops, Zero, Differs
    <3>2. \A u \in stops : (\A v \in stops : u <= v) => u = w
      BY <2>1, <2>2
    <3> QED
      BY <2>2, <3>1, <3>2
  <2>6. ASSUME Agrees(buf) PROVE Usk!IsPathMatched(buf)
    BY <1>5, <1>6, <2>3, <2>5, <2>6
  <2>7. ASSUME Zero(w) PROVE Agrees(buf)
    BY <1>4, <1>7, <2>3, <2>4, <2>7
  <2>8. ASSUME Usk!IsStrPrefix(buf, w * WORD, WORD), ~Zero(w) PROVE Agrees(buf)
    <3>1. Equal(w)
      BY <1>5, <2>3, <2>8
    <3>2. PICK j \in 1..WORD : buf[w * WORD + j] # Usk!Cfg(w * WORD + j)
      BY <2>2, <2>8 DEF stops, Differs
    <3>3. ~(w * WORD + j <= n) /\ w * WORD \in Nat
      BY <1>2, <2>3, <3>1, <3>2 DEF Equal
    <3>4. (w + 1) * WORD = w * WORD + WORD /\ w + 1 \in Nat
      BY <1>1, <2>3
    <3>5. n <= (w + 1) * WORD
      BY <1>1, <3>3, <3>4
    <3>6. \A v \in 0..w : Equal(v)
      BY <2>3, <2>4, <3>1
    <3>7. \A v \in 0..((w + 1) - 1) : Equal(v)
      BY <2>3, <3>6
    <3> QED
      BY <1>7, <3>4, <3>5, <3>7
  <2> QED
    BY <2>5, <2>6, <2>7, <2>8
<1> QED
  BY <1>8, <1>9

LEMMA MatchIsWatched ==
  ASSUME Sizes, sockPath \in SockPaths, NEW buf, NEW path, Path(path), path # NULL, Holds(buf, path)
  PROVE  Usk!IsPathMatched(buf) <=> Usk!Watched(path)
BY WordWise, AgreesIsWatched

(* The path user space reads is the one that was put there.                *)
LEMMA OutputPath ==
  ASSUME Sizes, NEW p, p.path \in [Usk!Bytes -> Nat], NEW path, Path(path), Holds(p.path, path)
  PROVE  Usk!Output(p).path = Usk!ReadAs(path)
<1> DEFINE n == Usk!Least(Len(path), PathMax - 1)
           Ends(i) == p.path[i] = 0 /\ \A j \in 1..(i - 1) : p.path[j] # 0
           end == CHOOSE i \in Usk!Bytes : Ends(i)
<1>1. /\ PathMax \in Nat \ {0} /\ Len(path) \in Nat /\ path \in Seq(Nat \ {0})
      /\ n \in Nat /\ n <= Len(path) /\ n < PathMax /\ (n = Len(path) \/ n = PathMax - 1)
  BY DEF Sizes, Path, Usk!Least
<1> HIDE DEF n
<1>2. \A i \in 1..n : p.path[i] = path[i] /\ path[i] \in Nat \ {0}
  BY <1>1 DEF Holds, Usk!Bytes
<1>3. n + 1 \in Usk!Bytes /\ Ends(n + 1)
  <2>1. n + 1 \in Usk!Bytes /\ (n + 1 = Len(path) + 1 \/ n + 1 = PathMax)
    BY <1>1 DEF Usk!Bytes
  <2>2. p.path[n + 1] = 0
    BY <2>1 DEF Holds
  <2> QED
    BY <1>1, <1>2, <2>1, <2>2
<1>4. \A i \in Usk!Bytes : Ends(i) => i = n + 1
  <2> SUFFICES ASSUME NEW i \in Usk!Bytes, Ends(i) PROVE i = n + 1
    OBVIOUS
  <2>1. i \in Nat \ {0}
    BY <1>1 DEF Usk!Bytes
  <2>2. ~(i <= n)
    BY <1>1, <1>2, <2>1
  <2>3. ~(n + 1 < i)
    <3> SUFFICES ASSUME n + 1 < i PROVE FALSE
      OBVIOUS
    <3>1. n + 1 \in 1..(i - 1)
      BY <1>1, <2>1
    <3> QED
      BY <1>3, <3>1
  <2> QED
    BY <1>1, <2>1, <2>2, <2>3
<1> HIDE DEF Ends
<1>5. end = n + 1
  BY <1>3, <1>4
<1>6. Usk!Output(p).path = SubSeq(p.path, 1, n)
  <2>1. Usk!Output(p).path = SubSeq(p.path, 1, end - 1)
    BY DEF Usk!Output, Ends
  <2> HIDE DEF end
  <2>2. end - 1 = n
    BY <1>1, <1>5
  <2> QED
    BY <2>1, <2>2
<1>7. /\ p.path \in Seq(Nat) /\ Len(p.path) = PathMax
  BY <1>1 DEF Usk!Bytes
<1>8. /\ SubSeq(p.path, 1, n) \in Seq(Nat) /\ Len(SubSeq(p.path, 1, n)) = n
      /\ \A i \in 1..n : SubSeq(p.path, 1, n)[i] = p.path[i]
  BY <1>1, <1>7
<1>9. /\ SubSeq(path, 1, n) \in Seq(Nat) /\ Len(SubSeq(path, 1, n)) = n
      /\ \A i \in 1..n : SubSeq(path, 1, n)[i] = path[i]
  <2>1. path \in Seq(Nat)
    BY <1>1
  <2> QED
    BY <1>1, <2>1
<1>10. SubSeq(p.path, 1, n) = SubSeq(path, 1, n)
  BY <1>2, <1>8, <1>9, SeqEqual
<1> QED
  BY <1>6, <1>10 DEF Usk!ReadAs, n

-----------------------------------------------------------------------------
(* The state: calls, and an element that any program may have left.        *)
UskCalls ==
  [pc: {"called", "traced"} \cup Usk!Fentry, prog: {"stream", "dgram"}, msg: Messages,
   seg: Nat, kprobe: BOOLEAN]

Packets ==
  [path: [Usk!Bytes -> Nat], proc: Senders \cup {NULL}, err: BOOLEAN,
   data: {NULL} \cup [of: Senders, seg: Nat]]

UskTyped ==
  /\ sockPath \in SockPaths
  /\ send \in [Senders -> {Usk!Idle} \cup UskCalls]
  /\ pkt \in Packets
  /\ clean \subseteq Senders

(* The path in the element is the one that makes a message be reported.    *)
Decides(buf, msg) ==
  IF Usk!Watched(msg.own) THEN Holds(buf, msg.own)
  ELSE Usk!Watched(msg.peer) /\ Holds(buf, msg.peer)

(* How far a fentry program that had the element for itself has got.       *)
Progress(t) ==
  LET msg == send[t].msg IN
  /\ send[t].pc = "match" => Holds(pkt.path, msg.own)
  /\ send[t].pc \in {"peer", "matchpeer"} => ~Usk!Watched(msg.own)
  /\ send[t].pc = "matchpeer" => msg.peer # NULL /\ Holds(pkt.path, msg.peer)
  /\ send[t].pc \in {"fill", "copy", "output"} => Decides(pkt.path, msg)
  /\ send[t].pc \in {"copy", "output"} => pkt.proc = t
  /\ send[t].pc = "output" =>
       /\ pkt.err = ~msg.flat
       /\ msg.flat => pkt.data = [of |-> t, seg |-> send[t].seg]

(* A program reads only paths there are.                                   *)
HasOwn == \A t \in Senders : send[t].pc \in {"read", "match"} => send[t].msg.own # NULL

UskInv ==
  /\ UskTyped /\ HasOwn
  /\ \A t \in clean : Progress(t)
  /\ Usk!PacketsTrue /\ Usk!WatchedReported

-----------------------------------------------------------------------------
LEMMA MessageFacts ==
  ASSUME Sizes, NEW msg \in Messages
  PROVE  /\ msg.own # NULL => Path(msg.own)
         /\ msg.peer # NULL => Path(msg.peer)
         /\ msg.segs \in Nat /\ msg.flat \in BOOLEAN /\ Usk!NumSegs(msg) \in Nat
<1>1. msg \in MessageType /\ SegsPerMsg \in Nat
  BY DEF Sizes
<1> QED
  BY <1>1 DEF MessageType, Path, Usk!NumSegs, Usk!Least

(* What each function of usk_send_msg makes of an element.                 *)
LEMMA PacketSteps ==
  ASSUME NEW p \in Packets
  PROVE  /\ \A buf \in [Usk!Bytes -> Nat] :
              /\ [p EXCEPT !.path = buf] \in Packets
              /\ [p EXCEPT !.path = buf].path = buf
         /\ \A t \in Senders :
              /\ Usk!FillProcess(p, t) \in Packets
              /\ Usk!FillProcess(p, t).proc = t /\ Usk!FillProcess(p, t).path = p.path
         /\ /\ Usk!ErrPacket(p) \in Packets
            /\ Usk!ErrPacket(p).err /\ Usk!ErrPacket(p).path = p.path
            /\ Usk!ErrPacket(p).proc = p.proc
         /\ \A t \in Senders, i \in Nat :
              /\ Usk!CollectData(p, t, i) \in Packets
              /\ ~Usk!CollectData(p, t, i).err
              /\ Usk!CollectData(p, t, i).data = [of |-> t, seg |-> i]
              /\ Usk!CollectData(p, t, i).path = p.path /\ Usk!CollectData(p, t, i).proc = p.proc
<1>1. /\ p.path \in [Usk!Bytes -> Nat] /\ p.proc \in Senders \cup {NULL} /\ p.err \in BOOLEAN
      /\ p.data \in {NULL} \cup [of: Senders, seg: Nat]
      /\ p = [path |-> p.path, proc |-> p.proc, err |-> p.err, data |-> p.data]
  BY DEF Packets
<1>2. ASSUME NEW buf \in [Usk!Bytes -> Nat]
      PROVE  [p EXCEPT !.path = buf] \in Packets /\ [p EXCEPT !.path = buf].path = buf
  BY DEF Packets
<1>3. ASSUME NEW t \in Senders
      PROVE  /\ Usk!FillProcess(p, t) \in Packets
             /\ Usk!FillProcess(p, t).proc = t /\ Usk!FillProcess(p, t).path = p.path
  BY DEF Packets, Usk!FillProcess
<1>4. /\ Usk!ErrPacket(p) \in Packets
      /\ Usk!ErrPacket(p).err /\ Usk!ErrPacket(p).path = p.path /\ Usk!ErrPacket(p).proc = p.proc
  BY DEF Packets, Usk!ErrPacket
<1>5. ASSUME NEW t \in Senders, NEW i \in Nat
      PROVE  /\ Usk!CollectData(p, t, i) \in Packets
             /\ ~Usk!CollectData(p, t, i).err
             /\ Usk!CollectData(p, t, i).data = [of |-> t, seg |-> i]
             /\ Usk!CollectData(p, t, i).path = p.path /\ Usk!CollectData(p, t, i).proc = p.proc
  BY DEF Packets, Usk!CollectData
<1> QED
  BY <1>2, <1>3, <1>4, <1>5

LEMMA PathRead ==
  ASSUME Sizes, sockPath \in SockPaths, NEW p \in Packets, NEW path, Path(path), path # NULL
  PROVE  LET q == [p EXCEPT !.path = Usk!ReadStr(p.path, path)] IN
         /\ q \in Packets /\ Holds(q.path, path)
         /\ Usk!IsPathMatched(q.path) <=> Usk!Watched(path)
<1> DEFINE buf == Usk!ReadStr(p.path, path)
<1>1. p.path \in [Usk!Bytes -> Nat]
  BY DEF Packets
<1>2. buf \in [Usk!Bytes -> Nat] /\ Holds(buf, path)
  BY <1>1, ReadHolds
<1> HIDE DEF buf
<1>3. [p EXCEPT !.path = buf] \in Packets /\ [p EXCEPT !.path = buf].path = buf
  BY <1>2, PacketSteps
<1>4. Usk!IsPathMatched(buf) <=> Usk!Watched(path)
  BY <1>2, MatchIsWatched
<1> QED
  BY <1>2, <1>3, <1>4 DEF buf

LEMMA Matched ==
  ASSUME Sizes, sockPath \in SockPaths, NEW p \in Packets, NEW msg \in Messages
  PROVE  /\ Usk!AfterMatch(p, msg).pkt \in Packets
         /\ Usk!AfterMatch(p, msg).matched <=> Usk!Watched(msg.own) \/ Usk!Watched(msg.peer)
         /\ Usk!AfterMatch(p, msg).matched => Decides(Usk!AfterMatch(p, msg).pkt.path, msg)
<1> DEFINE own == IF msg.own = NULL THEN p ELSE [p EXCEPT !.path = Usk!ReadStr(p.path, msg.own)]
           peer == [own EXCEPT !.path = Usk!ReadStr(own.path, msg.peer)]
<1>1. /\ own \in Packets
      /\ msg.own # NULL => Holds(own.path, msg.own) /\ (Usk!IsPathMatched(own.path) <=> Usk!Watched(msg.own))
  BY MessageFacts, PathRead
<1>2. msg.own = NULL => ~Usk!Watched(msg.own)
  BY DEF Usk!Watched
<1> HIDE DEF own
<1>3. CASE msg.own # NULL /\ Usk!IsPathMatched(own.path)
  <2>1. Usk!AfterMatch(p, msg) = [pkt |-> own, matched |-> TRUE]
    BY <1>3 DEF Usk!AfterMatch, own
  <2> QED
    BY <1>1, <1>3, <2>1 DEF Decides
<1>4. CASE ~(msg.own # NULL /\ Usk!IsPathMatched(own.path)) /\ msg.peer = NULL
  <2>1. Usk!AfterMatch(p, msg) = [pkt |-> own, matched |-> FALSE]
    BY <1>4 DEF Usk!AfterMatch, own
  <2>2. ~Usk!Watched(msg.peer) /\ ~Usk!Watched(msg.own)
    BY <1>1, <1>2, <1>4 DEF Usk!Watched
  <2> QED
    BY <1>1, <2>1, <2>2
<1>5. CASE ~(msg.own # NULL /\ Usk!IsPathMatched(own.path)) /\ msg.peer # NULL
  <2>1. peer \in Packets /\ Holds(peer.path, msg.peer) /\ (Usk!IsPathMatched(peer.path) <=> Usk!Watched(msg.peer))
    BY <1>1, <1>5, MessageFacts, PathRead
  <2>2. Usk!AfterMatch(p, msg) = [pkt |-> peer, matched |-> Usk!IsPathMatched(peer.path)]
    BY <1>5 DEF Usk!AfterMatch, own
  <2>3. ~Usk!Watched(msg.own)
    BY <1>1, <1>2, <1>5
  <2> HIDE DEF peer
  <2> QED
    BY <2>1, <2>2, <2>3 DEF Decides
<1> QED
  BY <1>3, <1>4, <1>5

(* A packet is true, if its fields are.                                    *)
LEMMA PacketIsTrue ==
  ASSUME Sizes, NEW p \in Packets, NEW msg \in Messages, NEW t \in Senders, NEW seg \in Nat,
         Decides(p.path, msg), p.proc = t, p.err = ~msg.flat,
         msg.flat => p.data = [of |-> t, seg |-> seg]
  PROVE  Usk!TruePacket(t, msg, seg, Usk!Output(p))
<1>1. p.path \in [Usk!Bytes -> Nat]
  BY DEF Packets
<1>2. /\ Usk!Output(p).proc = p.proc /\ Usk!Output(p).err = p.err /\ Usk!Output(p).data = p.data
  BY DEF Usk!Output
<1>3. IF Usk!Watched(msg.own) THEN Usk!Output(p).path = Usk!ReadAs(msg.own)
      ELSE Usk!Watched(msg.peer) /\ Usk!Output(p).path = Usk!ReadAs(msg.peer)
  <2>1. \A path : Usk!Watched(path) => path # NULL
    BY DEF Usk!Watched
  <2> QED
    BY <1>1, <2>1, MessageFacts, OutputPath DEF Decides
<1> QED
  BY <1>2, <1>3 DEF Usk!TruePacket

-----------------------------------------------------------------------------
LEMMA UskInit == ASSUME Sizes PROVE Usk!Init => UskInv
<1> SUFFICES ASSUME Sizes, Usk!Init PROVE UskInv
  OBVIOUS
<1>1. [i \in Usk!Bytes |-> 0] \in [Usk!Bytes -> Nat]
  OBVIOUS
<1>2. pkt \in Packets
  BY <1>1 DEF Usk!Init, Packets
<1>3. HasOwn
  BY DEF Usk!Init, HasOwn, Usk!Idle
<1> QED
  BY <1>2, <1>3 DEF Usk!Init, UskInv, UskTyped, Usk!PacketsTrue, Usk!WatchedReported

(* A step of t leaves what is said of another task true: what t does to    *)
(* the element, it does to a program that no longer has it for itself.     *)
LEMMA Rest ==
  ASSUME UskTyped, NEW t \in Senders, NEW c, send' = [send EXCEPT ![t] = c], sockPath' = sockPath,
         \A u \in clean : Progress(u),
         clean' \subseteq {t} \/ (clean' \subseteq clean \cup {t} /\ pkt' = pkt),
         t \in clean' => Progress(t)'
  PROVE  \A u \in clean' : Progress(u)'
<1> SUFFICES ASSUME NEW u \in clean', u # t PROVE Progress(u)'
  OBVIOUS
<1>1. u \in clean /\ u \in Senders /\ pkt' = pkt
  BY DEF UskTyped
<1>2. send'[u] = send[u]
  BY <1>1 DEF UskTyped
<1>3. Progress(u)
  BY <1>1
<1> QED
  BY <1>1, <1>2, <1>3 DEF Progress, Decides, Usk!Watched

LEMMA DecidesKept ==
  ASSUME NEW t \in Senders, UNCHANGED sockPath, pkt'.path = pkt.path, send'[t].msg = send[t].msg,
         Decides(pkt.path, send[t].msg)
  PROVE  Decides(pkt.path, send[t].msg)'
BY DEF Decides, Usk!Watched, Holds

(* The calls that a step makes of a call.                                  *)
LEMMA CallSteps ==
  ASSUME UskTyped, NEW t \in Senders, send[t].pc # "idle"
  PROVE  /\ send[t] \in UskCalls /\ send[t].msg \in Messages /\ send[t].seg \in Nat
         /\ \A label \in {"called", "traced"} \cup Usk!Fentry :
              LET c == [send[t] EXCEPT !.pc = label] IN
              c \in UskCalls /\ c.pc = label /\ c.msg = send[t].msg /\ c.seg = send[t].seg
<1>1. send[t] \in UskCalls
  BY DEF UskTyped, Usk!Idle
<1> QED
  BY <1>1 DEF UskCalls

LEMMA Went ==
  ASSUME UskTyped, NEW t \in Senders, send[t].pc # "idle",
         NEW label \in {"called", "traced"} \cup Usk!Fentry, Usk!Goto(t, label)
  PROVE  /\ send' = [send EXCEPT ![t] = [send[t] EXCEPT !.pc = label]]
         /\ send' \in [Senders -> {Usk!Idle} \cup UskCalls]
         /\ send'[t].pc = label /\ send'[t].msg = send[t].msg /\ send'[t].seg = send[t].seg
         /\ \A u \in Senders \ {t} : send'[u] = send[u]
<1> DEFINE c == [send[t] EXCEPT !.pc = label]
<1>1. c \in UskCalls /\ c.pc = label /\ c.msg = send[t].msg /\ c.seg = send[t].seg
  BY CallSteps
<1>2. send' = [send EXCEPT ![t] = c]
  BY DEF Usk!Goto, UskTyped
<1> HIDE DEF c
<1>3. /\ send'[t] = c /\ send' \in [Senders -> {Usk!Idle} \cup UskCalls]
      /\ \A u \in Senders \ {t} : send'[u] = send[u]
  BY <1>1, <1>2 DEF UskTyped
<1> QED
  BY <1>1, <1>2, <1>3 DEF c

(* A program that sends nothing.                                           *)
LEMMA SilentStep == Usk!Silent => Usk!PacketsTrue' /\ Usk!WatchedReported'
BY DEF Usk!Silent, Usk!PacketsTrue, Usk!WatchedReported

LEMMA SendStep ==
  ASSUME Sizes, UskInv, NEW t \in Senders, Usk!Send(t)
  PROVE  UskInv'
<1>1. PICK prog \in {"stream", "dgram"}, msg \in Messages :
        send' = [send EXCEPT ![t] = [pc |-> "called", prog |-> prog, msg |-> msg,
                                     seg |-> 0, kprobe |-> FALSE]]
  BY DEF Usk!Send
<1> DEFINE c == [pc |-> "called", prog |-> prog, msg |-> msg, seg |-> 0, kprobe |-> FALSE]
<1>2. c \in UskCalls /\ c.pc = "called"
  BY DEF UskCalls
<1>3. send' = [send EXCEPT ![t] = c]
  BY <1>1
<1> HIDE DEF c
<1>4. /\ UNCHANGED <<sockPath, pkt, clean>> /\ UskTyped /\ HasOwn
      /\ Usk!PacketsTrue' /\ Usk!WatchedReported'
  BY SilentStep DEF UskInv, Usk!Send
<1>5. /\ send' \in [Senders -> {Usk!Idle} \cup UskCalls] /\ send'[t].pc = "called"
      /\ \A u \in Senders \ {t} : send'[u] = send[u]
  BY <1>2, <1>3, <1>4 DEF UskTyped
<1>6. UskTyped' /\ HasOwn'
  BY <1>4, <1>5 DEF UskTyped, HasOwn
<1>7. Progress(t)'
  BY <1>5 DEF Progress
<1>8. \A u \in clean' : Progress(u)'
  BY <1>3, <1>4, <1>7, Rest DEF UskInv
<1> QED
  BY <1>4, <1>6, <1>8 DEF UskInv

(* Fentry programs.                                                        *)
LEMMA FentryBeginStep ==
  ASSUME Sizes, UskInv, NEW t \in Senders, Usk!FentryBegin(t)
  PROVE  UskInv'
<1>0. /\ UNCHANGED <<sockPath, pkt>> /\ UskTyped /\ HasOwn
      /\ Usk!PacketsTrue' /\ Usk!WatchedReported' /\ send[t].pc = "called"
  BY SilentStep DEF UskInv, Usk!FentryBegin
<1>1. CASE Usk!Goto(t, "traced") /\ UNCHANGED clean
  <2>1. /\ send' = [send EXCEPT ![t] = [send[t] EXCEPT !.pc = "traced"]]
        /\ send' \in [Senders -> {Usk!Idle} \cup UskCalls] /\ send'[t].pc = "traced"
        /\ \A u \in Senders \ {t} : send'[u] = send[u]
    BY <1>0, <1>1, Went
  <2>2. UskTyped' /\ HasOwn'
    BY <1>0, <1>1, <2>1 DEF UskTyped, HasOwn
  <2>3. Progress(t)'
    BY <2>1 DEF Progress
  <2>4. \A u \in clean' : Progress(u)'
    BY <1>0, <1>1, <2>1, <2>3, Rest DEF UskInv
  <2> QED
    BY <1>0, <2>2, <2>4 DEF UskInv
<1>2. CASE Usk!Goto(t, IF send[t].msg.own = NULL THEN "peer" ELSE "read") /\ clean' = {t}
  <2>1. PICK label \in {"peer", "read"} :
          Usk!Goto(t, label) /\ (label = "peer" <=> send[t].msg.own = NULL)
    BY <1>2
  <2>2. /\ send' = [send EXCEPT ![t] = [send[t] EXCEPT !.pc = label]]
        /\ send' \in [Senders -> {Usk!Idle} \cup UskCalls] /\ send'[t].pc = label
        /\ send'[t].msg = send[t].msg
        /\ \A u \in Senders \ {t} : send'[u] = send[u]
    BY <1>0, <2>1, Went DEF Usk!Fentry
  <2>3. UskTyped' /\ HasOwn'
    BY <1>0, <1>2, <2>1, <2>2 DEF UskTyped, HasOwn
  <2>4. Progress(t)'
    BY <2>1, <2>2 DEF Progress, Usk!Watched
  <2>5. \A u \in clean' : Progress(u)'
    BY <1>2, <2>4
  <2> QED
    BY <1>0, <2>3, <2>5 DEF UskInv
<1> QED
  BY <1>1, <1>2 DEF Usk!FentryBegin

(* The programs that write to the element: what is left to show.           *)
LEMMA Wrote ==
  ASSUME Sizes, UskInv, NEW t \in Senders, send[t].pc # "idle", UNCHANGED sockPath,
         NEW label \in {"called", "traced"} \cup Usk!Fentry, Usk!Goto(t, label), label \notin {"read", "match"},
         pkt' \in Packets, Usk!Others(t), Usk!Silent, t \in clean => Progress(t)'
  PROVE  UskInv'
<1>1. /\ send' = [send EXCEPT ![t] = [send[t] EXCEPT !.pc = label]]
      /\ send' \in [Senders -> {Usk!Idle} \cup UskCalls] /\ send'[t].pc = label
      /\ \A u \in Senders \ {t} : send'[u] = send[u]
  BY Went DEF UskInv
<1>2. clean' \subseteq {t} /\ clean' \subseteq clean
  BY DEF Usk!Others
<1>3. UskTyped' /\ HasOwn'
  BY <1>1, <1>2 DEF UskInv, UskTyped, HasOwn
<1>4. \A u \in clean' : Progress(u)'
  BY <1>2
<1> QED
  BY <1>3, <1>4, SilentStep DEF UskInv

LEMMA ReadOwnStep ==
  ASSUME Sizes, UskInv, NEW t \in Senders, Usk!ReadOwn(t)
  PROVE  UskInv'
<1>1. /\ send[t].pc = "read" /\ Usk!Goto(t, "match") /\ Usk!Others(t) /\ Usk!Silent
      /\ UNCHANGED sockPath
      /\ pkt' = [pkt EXCEPT !.path = Usk!ReadStr(pkt.path, send[t].msg.own)]
      /\ UskTyped /\ HasOwn /\ sockPath \in SockPaths /\ pkt \in Packets
  BY DEF UskInv, Usk!ReadOwn, UskTyped
<1>2. send[t].msg \in Messages /\ send[t].msg.own # NULL
  BY <1>1, CallSteps DEF HasOwn
<1>3. pkt' \in Packets /\ Holds(pkt'.path, send[t].msg.own)
  BY <1>1, <1>2, MessageFacts, PathRead
<1>4. /\ send' = [send EXCEPT ![t] = [send[t] EXCEPT !.pc = "match"]]
      /\ send' \in [Senders -> {Usk!Idle} \cup UskCalls] /\ send'[t].pc = "match"
      /\ send'[t].msg = send[t].msg
      /\ \A u \in Senders \ {t} : send'[u] = send[u]
  BY <1>1, Went DEF Usk!Fentry
<1>5. clean' \subseteq {t} /\ clean' \subseteq clean
  BY <1>1 DEF Usk!Others
<1>6. UskTyped' /\ HasOwn'
  BY <1>1, <1>2, <1>3, <1>4, <1>5 DEF UskTyped, HasOwn
<1>7. Progress(t)'
  BY <1>3, <1>4 DEF Progress, Holds
<1> QED
  BY <1>1, <1>5, <1>6, <1>7, SilentStep DEF UskInv

LEMMA MatchStep ==
  ASSUME Sizes, UskInv, NEW t \in Senders, Usk!Match(t)
  PROVE  UskInv'
<1>1. PICK label \in {"fill", "peer", "traced"} :
        /\ Usk!Goto(t, label)
        /\ label = "fill" <=> Usk!IsPathMatched(pkt.path)
        /\ label = "peer" => send[t].pc = "match"
  BY DEF Usk!Match
<1>2. /\ send[t].pc \in {"match", "matchpeer"} /\ UNCHANGED <<sockPath, pkt, clean>>
      /\ UskTyped /\ HasOwn /\ sockPath \in SockPaths
      /\ Usk!PacketsTrue' /\ Usk!WatchedReported'
  BY SilentStep DEF UskInv, Usk!Match, UskTyped
<1>3. /\ send' = [send EXCEPT ![t] = [send[t] EXCEPT !.pc = label]]
      /\ send' \in [Senders -> {Usk!Idle} \cup UskCalls] /\ send'[t].pc = label
      /\ send'[t].msg = send[t].msg
      /\ \A u \in Senders \ {t} : send'[u] = send[u]
  BY <1>1, <1>2, Went DEF Usk!Fentry
<1>4. UskTyped' /\ HasOwn'
  BY <1>2, <1>3 DEF UskTyped, HasOwn
<1>5. ASSUME t \in clean PROVE Progress(t)'
  <2>1. Progress(t) /\ send[t].msg \in Messages
    BY <1>2, <1>5, CallSteps DEF UskInv
  <2>2. CASE send[t].pc = "match"
    <3>1. Holds(pkt.path, send[t].msg.own) /\ send[t].msg.own # NULL
      BY <1>2, <2>1, <2>2 DEF Progress, HasOwn
    <3>2. Usk!IsPathMatched(pkt.path) <=> Usk!Watched(send[t].msg.own)
      BY <1>2, <2>1, <3>1, MessageFacts, MatchIsWatched
    <3> QED
      BY <1>1, <1>2, <1>3, <3>1, <3>2 DEF Progress, Decides, Usk!Watched, Holds
  <2>3. CASE send[t].pc = "matchpeer"
    <3>1. /\ Holds(pkt.path, send[t].msg.peer) /\ send[t].msg.peer # NULL
          /\ ~Usk!Watched(send[t].msg.own)
      BY <2>1, <2>3 DEF Progress
    <3>2. Usk!IsPathMatched(pkt.path) <=> Usk!Watched(send[t].msg.peer)
      BY <1>2, <2>1, <3>1, MessageFacts, MatchIsWatched
    <3> QED
      BY <1>1, <1>2, <1>3, <2>3, <3>1, <3>2 DEF Progress, Decides, Usk!Watched, Holds
  <2> QED
    BY <1>2, <2>2, <2>3
<1>6. \A u \in clean' : Progress(u)'
  BY <1>2, <1>3, <1>5, Rest DEF UskInv
<1> QED
  BY <1>2, <1>4, <1>6 DEF UskInv

LEMMA ReadPeerStep ==
  ASSUME Sizes, UskInv, NEW t \in Senders, Usk!ReadPeer(t)
  PROVE  UskInv'
<1>0. /\ send[t].pc = "peer" /\ Usk!Silent /\ UNCHANGED sockPath
      /\ UskTyped /\ HasOwn /\ sockPath \in SockPaths /\ pkt \in Packets
  BY DEF UskInv, Usk!ReadPeer, UskTyped
<1>1. CASE send[t].msg.peer = NULL
  <2>1. Usk!Goto(t, "traced") /\ UNCHANGED <<pkt, clean>>
    BY <1>1 DEF Usk!ReadPeer
  <2>2. /\ send' = [send EXCEPT ![t] = [send[t] EXCEPT !.pc = "traced"]]
        /\ send' \in [Senders -> {Usk!Idle} \cup UskCalls] /\ send'[t].pc = "traced"
        /\ \A u \in Senders \ {t} : send'[u] = send[u]
    BY <1>0, <2>1, Went
  <2>3. UskTyped' /\ HasOwn'
    BY <1>0, <2>1, <2>2 DEF UskTyped, HasOwn
  <2>4. Progress(t)'
    BY <2>2 DEF Progress
  <2>5. \A u \in clean' : Progress(u)'
    BY <1>0, <2>1, <2>2, <2>4, Rest DEF UskInv
  <2> QED
    BY <1>0, <2>3, <2>5, SilentStep DEF UskInv
<1>2. CASE send[t].msg.peer # NULL
  <2>1. /\ Usk!Goto(t, "matchpeer") /\ Usk!Others(t)
        /\ pkt' = [pkt EXCEPT !.path = Usk!ReadStr(pkt.path, send[t].msg.peer)]
    BY <1>2 DEF Usk!ReadPeer
  <2>2. send[t].msg \in Messages
    BY <1>0, CallSteps
  <2>3. pkt' \in Packets /\ Holds(pkt'.path, send[t].msg.peer)
    BY <1>0, <1>2, <2>1, <2>2, MessageFacts, PathRead
  <2>4. send'[t].pc = "matchpeer" /\ send'[t].msg = send[t].msg
    BY <1>0, <2>1, Went DEF Usk!Fentry
  <2>5. ASSUME t \in clean PROVE Progress(t)'
    <3>1. ~Usk!Watched(send[t].msg.own)
      BY <1>0, <2>5 DEF UskInv, Progress
    <3> QED
      BY <1>0, <1>2, <2>3, <2>4, <3>1 DEF Progress, Holds, Usk!Watched
  <2> QED
    BY <1>0, <2>1, <2>3, <2>5, Wrote DEF Usk!Fentry
<1> QED
  BY <1>1, <1>2

LEMMA FillStep ==
  ASSUME Sizes, UskInv, NEW t \in Senders, Usk!Fill(t)
  PROVE  UskInv'
<1>1. PICK label \in {"traced", "copy"} : Usk!Goto(t, label)
  BY DEF Usk!Fill
<1>2. /\ send[t].pc = "fill" /\ pkt' = Usk!FillProcess(pkt, t) /\ Usk!Others(t) /\ Usk!Silent
      /\ UNCHANGED sockPath /\ UskTyped /\ pkt \in Packets
  BY DEF UskInv, Usk!Fill, UskTyped
<1>3. pkt' \in Packets /\ pkt'.proc = t /\ pkt'.path = pkt.path
  BY <1>2, PacketSteps
<1>4. send'[t].pc = label /\ send'[t].msg = send[t].msg
  BY <1>1, <1>2, Went DEF Usk!Fentry
<1>5. ASSUME t \in clean PROVE Progress(t)'
  <2>1. Decides(pkt.path, send[t].msg)
    BY <1>2, <1>5 DEF UskInv, Progress
  <2>2. Decides(pkt.path, send[t].msg)'
    BY <1>2, <1>3, <1>4, <2>1, DecidesKept
  <2> QED
    BY <1>3, <1>4, <2>2 DEF Progress
<1> QED
  BY <1>1, <1>2, <1>3, <1>5, Wrote DEF Usk!Fentry

LEMMA CopyStep ==
  ASSUME Sizes, UskInv, NEW t \in Senders, Usk!Copy(t)
  PROVE  UskInv'
<1> DEFINE n == send[t].seg + 1
           c == [send[t] EXCEPT !.pc = "output", !.seg = n]
<1>1. /\ send[t].pc = "copy" /\ Usk!Others(t)
      /\ UNCHANGED sockPath /\ UskTyped /\ HasOwn /\ pkt \in Packets
      /\ Usk!PacketsTrue' /\ Usk!WatchedReported'
  BY SilentStep DEF UskInv, Usk!Copy, UskTyped
<1>2. send[t] \in UskCalls /\ send[t].msg \in Messages /\ send[t].msg.flat \in BOOLEAN /\ n \in Nat
  BY <1>1, CallSteps, MessageFacts
<1>3. c \in UskCalls /\ c.pc = "output" /\ c.seg = n /\ c.msg = send[t].msg
  BY <1>2 DEF UskCalls, Usk!Fentry
<1>4. send' = [send EXCEPT ![t] = c]
  BY <1>1 DEF Usk!Copy, UskTyped
<1>5. /\ pkt' \in Packets /\ pkt'.path = pkt.path /\ pkt'.proc = pkt.proc
      /\ pkt'.err = ~send[t].msg.flat
      /\ send[t].msg.flat => pkt'.data = [of |-> t, seg |-> n]
  <2>1. CASE send[t].msg.flat
    <3>1. pkt' = Usk!CollectData(pkt, t, n)
      BY <2>1 DEF Usk!Copy
    <3>2. pkt' \in Packets /\ ~pkt'.err
      BY <1>1, <1>2, <3>1, PacketSteps
    <3> QED
      BY <1>1, <1>2, <2>1, <3>1, <3>2, PacketSteps DEF Packets
  <2>2. CASE ~send[t].msg.flat
    <3>1. pkt' = Usk!ErrPacket(pkt)
      BY <2>2 DEF Usk!Copy
    <3>2. pkt' \in Packets /\ pkt'.err
      BY <1>1, <3>1, PacketSteps
    <3> QED
      BY <1>1, <1>2, <2>2, <3>1, <3>2, PacketSteps DEF Packets
  <2> QED
    BY <2>1, <2>2
<1> HIDE DEF n, c
<1>6. /\ send' \in [Senders -> {Usk!Idle} \cup UskCalls] /\ send'[t] = c
      /\ \A u \in Senders \ {t} : send'[u] = send[u]
  BY <1>1, <1>3, <1>4 DEF UskTyped
<1>7. clean' \subseteq {t} /\ clean' \subseteq clean
  BY <1>1 DEF Usk!Others
<1>8. UskTyped' /\ HasOwn'
  BY <1>1, <1>3, <1>5, <1>6, <1>7 DEF UskTyped, HasOwn
<1>9. ASSUME t \in clean PROVE Progress(t)'
  <2>1. Decides(pkt.path, send[t].msg) /\ pkt.proc = t
    BY <1>1, <1>9 DEF UskInv, Progress
  <2>2. send'[t].pc = "output" /\ send'[t].seg = n /\ send'[t].msg = send[t].msg
    BY <1>3, <1>6
  <2>3. Decides(pkt.path, send[t].msg)'
    BY <1>1, <1>5, <2>1, <2>2, DecidesKept
  <2> QED
    BY <1>5, <2>1, <2>2, <2>3 DEF Progress
<1> QED
  BY <1>1, <1>7, <1>8, <1>9 DEF UskInv

LEMMA OutputPktStep ==
  ASSUME Sizes, UskInv, NEW t \in Senders, Usk!OutputPkt(t)
  PROVE  UskInv'
<1>1. PICK label \in {"copy", "traced"} : Usk!Goto(t, label)
  BY DEF Usk!OutputPkt
<1>2. /\ send[t].pc = "output" /\ UNCHANGED <<sockPath, pkt, clean>>
      /\ Usk!Sends(t, <<Usk!Output(pkt)>>, FALSE, t \in clean)
      /\ UskTyped /\ HasOwn /\ pkt \in Packets
  BY DEF UskInv, Usk!OutputPkt, UskTyped
<1>3. /\ send' = [send EXCEPT ![t] = [send[t] EXCEPT !.pc = label]]
      /\ send' \in [Senders -> {Usk!Idle} \cup UskCalls] /\ send'[t].pc = label
      /\ send'[t].msg = send[t].msg
      /\ \A u \in Senders \ {t} : send'[u] = send[u]
  BY <1>1, <1>2, Went DEF Usk!Fentry
<1>4. send[t].msg \in Messages /\ send[t].seg \in Nat
  BY <1>2, CallSteps
<1>5. UskTyped' /\ HasOwn'
  BY <1>2, <1>3 DEF UskTyped, HasOwn
<1>6. ASSUME t \in clean
      PROVE  Progress(t)' /\ Usk!TruePacket(t, send[t].msg, send[t].seg, Usk!Output(pkt))
  <2>1. /\ Decides(pkt.path, send[t].msg) /\ pkt.proc = t /\ pkt.err = ~send[t].msg.flat
        /\ send[t].msg.flat => pkt.data = [of |-> t, seg |-> send[t].seg]
    BY <1>2, <1>6 DEF UskInv, Progress
  <2>2. Decides(pkt.path, send[t].msg)'
    BY <1>2, <1>3, <2>1, DecidesKept
  <2>3. Progress(t)'
    BY <1>2, <1>3, <2>1, <2>2 DEF Progress
  <2>4. Usk!TruePacket(t, send[t].msg, send[t].seg, Usk!Output(pkt))
    BY <1>2, <1>4, <2>1, PacketIsTrue
  <2> QED
    BY <2>3, <2>4
<1>7. \A u \in clean' : Progress(u)'
  BY <1>2, <1>3, <1>6, Rest DEF UskInv
<1>8. /\ output'.packets = <<Usk!Output(pkt)>> /\ output'.whole = FALSE /\ output'.own = (t \in clean)
      /\ output'.by = t /\ output'.msg = send[t].msg /\ output'.seg = send[t].seg
  BY <1>2 DEF Usk!Sends
<1>9. Usk!PacketsTrue'
  <2>1. /\ DOMAIN output'.packets = {1} /\ output'.packets[1] = Usk!Output(pkt)
        /\ output'.whole = FALSE
        /\ output'.own => t \in clean
    <3> DEFINE x == Usk!Output(pkt)
    <3>1. output'.packets = <<x>>
      BY <1>8
    <3>2. output'.whole = FALSE /\ (output'.own => t \in clean)
      BY <1>8
    <3> HIDE DEF x
    <3>3. DOMAIN output'.packets = {1} /\ output'.packets[1] = x
      BY <3>1
    <3> QED
      BY <3>2, <3>3 DEF x
  <2>2. ASSUME t \in clean
        PROVE  Usk!TruePacket(output.by, output.msg, output.seg, output.packets[1])'
    <3>1. Usk!TruePacket(t, send[t].msg, send[t].seg, output'.packets[1])
      BY <1>6, <2>1, <2>2
    <3> QED
      BY <1>2, <1>8, <3>1 DEF Usk!TruePacket, Usk!Watched
  <2> QED
    BY <2>1, <2>2 DEF Usk!PacketsTrue
<1>10. Usk!WatchedReported'
  BY <1>8 DEF Usk!WatchedReported
<1> QED
  BY <1>5, <1>7, <1>9, <1>10 DEF UskInv

LEMMA ReturnStep ==
  ASSUME Sizes, UskInv, NEW t \in Senders, Usk!Return(t)
  PROVE  UskInv'
<1>1. /\ send' = [send EXCEPT ![t] = Usk!Idle] /\ clean' = clean \ {t} /\ UNCHANGED sockPath
      /\ UskTyped /\ HasOwn /\ pkt \in Packets
      /\ Usk!PacketsTrue' /\ Usk!WatchedReported'
  BY SilentStep DEF UskInv, Usk!Return, UskTyped
<1>2. /\ send' \in [Senders -> {Usk!Idle} \cup UskCalls] /\ send'[t].pc = "idle"
      /\ \A u \in Senders \ {t} : send'[u] = send[u]
  BY <1>1 DEF UskTyped, Usk!Idle
<1>3. /\ pkt' \in Packets
      /\ pkt'.path = pkt.path /\ pkt'.proc = pkt.proc /\ pkt'.err = pkt.err
      /\ \A u \in Senders \ {t}, i \in Nat : pkt.data = [of |-> u, seg |-> i] => pkt'.data = pkt.data
  <2>1. CASE pkt.data # NULL /\ pkt.data.of = t
    <3>1. pkt' = [pkt EXCEPT !.data = NULL]
      BY <2>1 DEF Usk!Return
    <3> QED
      BY <1>1, <2>1, <3>1 DEF Packets
  <2>2. CASE ~(pkt.data # NULL /\ pkt.data.of = t)
    <3>1. pkt' = pkt
      BY <2>2 DEF Usk!Return
    <3> QED
      BY <1>1, <3>1
  <2> QED
    BY <2>1, <2>2
<1>4. UskTyped' /\ HasOwn'
  BY <1>1, <1>2, <1>3 DEF UskTyped, HasOwn
<1>5. ASSUME NEW u \in clean' PROVE Progress(u)'
  <2>1. u \in Senders \ {t} /\ Progress(u) /\ send'[u] = send[u]
    BY <1>1, <1>2, <1>5 DEF UskInv, UskTyped
  <2>2. send[u].pc = "output" => send[u].seg \in Nat
    BY <1>1, <2>1, CallSteps
  <2>3. Holds(pkt'.path, send'[u].msg.own) <=> Holds(pkt.path, send[u].msg.own)
    BY <1>3, <2>1
  <2>4. Decides(pkt.path, send[u].msg) => Decides(pkt.path, send[u].msg)'
    BY <1>1, <1>3, <2>1, DecidesKept
  <2>5. /\ Usk!Watched(send[u].msg.own)' <=> Usk!Watched(send[u].msg.own)
        /\ Holds(pkt.path, send[u].msg.peer)' <=> Holds(pkt.path, send[u].msg.peer)
        /\ Holds(pkt.path, send[u].msg.own)' <=> Holds(pkt.path, send[u].msg.own)
    BY <1>1, <1>3, <2>1 DEF Usk!Watched, Holds
  <2> QED
    BY <1>3, <2>1, <2>2, <2>4, <2>5 DEF Progress
<1> QED
  BY <1>1, <1>4, <1>5 DEF UskInv

(* The kprobe program, from the paths to the last packet.                  *)
LEMMA KprobeStep ==
  ASSUME Sizes, UskInv, NEW t \in Senders, Usk!Kprobe(t)
  PROVE  UskInv'
<1> DEFINE msg == send[t].msg
           m == Usk!AfterMatch(pkt, msg)
           n == IF m.matched /\ msg.flat THEN Usk!NumSegs(msg) ELSE 0
           head == Usk!FillProcess(m.pkt, t)
           Seg(i) == Usk!CollectData(head, t, i)
           c == [send[t] EXCEPT !.kprobe = TRUE]
           watched == Usk!Watched(msg.own) \/ Usk!Watched(msg.peer)
<1>1. /\ send[t].pc \in {"called", "traced"} /\ Usk!Others(t) /\ UNCHANGED sockPath
      /\ UskTyped /\ HasOwn /\ sockPath \in SockPaths /\ pkt \in Packets
      /\ send' = [send EXCEPT ![t].kprobe = TRUE]
  BY DEF UskInv, Usk!Kprobe, UskTyped
<1>2. send[t] \in UskCalls /\ msg \in Messages
  BY <1>1, CallSteps
<1>3. msg.flat \in BOOLEAN /\ Usk!NumSegs(msg) \in Nat
  BY <1>2, MessageFacts
<1>4. /\ m.pkt \in Packets
      /\ m.matched <=> watched
      /\ m.matched => Decides(m.pkt.path, msg)
  BY <1>1, <1>2, Matched
<1>5. /\ \/ /\ ~m.matched
            /\ pkt' = m.pkt /\ Usk!Sends(t, <<>>, TRUE, TRUE)
         \/ /\ m.matched /\ ~msg.flat
            /\ pkt' = Usk!ErrPacket(head) /\ Usk!Sends(t, <<Usk!Output(Usk!ErrPacket(head))>>, TRUE, TRUE)
         \/ /\ m.matched /\ msg.flat
            /\ pkt' = IF n = 0 THEN head ELSE Seg(n)
            /\ Usk!Sends(t, [i \in 1..n |-> Usk!Output(Seg(i))], TRUE, TRUE)
  BY DEF Usk!Kprobe
<1>6. /\ head \in Packets /\ head.proc = t
      /\ m.matched => Decides(head.path, msg)
  <2> DEFINE p == m.pkt
  <2>1. p \in Packets
    BY <1>4
  <2> HIDE DEF p
  <2>2. /\ Usk!FillProcess(p, t) \in Packets
        /\ Usk!FillProcess(p, t).proc = t /\ Usk!FillProcess(p, t).path = p.path
    BY <2>1, PacketSteps
  <2>3. head = Usk!FillProcess(p, t) /\ p = m.pkt
    BY DEF p
  <2> HIDE DEF head, m, msg
  <2> QED
    BY <1>4, <2>2, <2>3
<1> HIDE DEF m, msg
<1> HIDE DEF head
<1>7. n \in Nat
  BY <1>3
<1>8. \A i \in Nat : Seg(i) \in Packets
  BY <1>6, PacketSteps
<1>9. pkt' \in Packets
  <2>1. Usk!ErrPacket(head) \in Packets
    BY <1>6, PacketSteps
  <2>2. Seg(n) \in Packets
    BY <1>7, <1>8
  <2> DEFINE last == IF n = 0 THEN head ELSE Seg(n)
  <2> HIDE DEF n, Seg
  <2>3. last \in Packets
    BY <1>6, <2>2
  <2>4. pkt' = m.pkt \/ pkt' = Usk!ErrPacket(head) \/ pkt' = last
    BY <1>5
  <2> HIDE DEF last
  <2> QED
    BY <1>4, <2>1, <2>3, <2>4
<1>10. /\ c \in UskCalls /\ c.pc = send[t].pc
  BY <1>2 DEF UskCalls
<1>11. send' = [send EXCEPT ![t] = c]
  BY <1>1 DEF UskTyped
<1> HIDE DEF c
<1>12. /\ send' \in [Senders -> {Usk!Idle} \cup UskCalls] /\ send'[t].pc \in {"called", "traced"}
       /\ \A u \in Senders \ {t} : send'[u] = send[u]
  BY <1>1, <1>10, <1>11 DEF UskTyped
<1>13. clean' \subseteq {t} /\ clean' \subseteq clean
  BY <1>1 DEF Usk!Others
<1>14. UskTyped' /\ HasOwn'
  BY <1>1, <1>9, <1>12, <1>13 DEF UskTyped, HasOwn
<1>15. Progress(t)'
  BY <1>12 DEF Progress
<1>16. /\ output'.by = t /\ output'.msg = msg /\ output'.whole = TRUE /\ output'.own = TRUE
       /\ \/ /\ ~watched /\ output'.packets = <<>>
          \/ /\ watched /\ ~msg.flat /\ output'.packets = <<Usk!Output(Usk!ErrPacket(head))>>
          \/ /\ watched /\ msg.flat
             /\ output'.packets = [i \in 1..Usk!NumSegs(msg) |-> Usk!Output(Seg(i))]
  <2>1. CASE ~m.matched /\ Usk!Sends(t, <<>>, TRUE, TRUE)
    BY <1>4, <2>1 DEF Usk!Sends, msg
  <2>2. CASE m.matched /\ ~msg.flat /\ Usk!Sends(t, <<Usk!Output(Usk!ErrPacket(head))>>, TRUE, TRUE)
    BY <1>4, <2>2 DEF Usk!Sends, msg
  <2>3. CASE m.matched /\ msg.flat /\ Usk!Sends(t, [i \in 1..n |-> Usk!Output(Seg(i))], TRUE, TRUE)
    <3>1. n = Usk!NumSegs(msg)
      BY <2>3
    <3> HIDE DEF n, Seg
    <3> QED
      BY <1>4, <2>3, <3>1 DEF Usk!Sends, msg
  <2> HIDE DEF n, Seg, watched
  <2> QED
    BY <1>5, <2>1, <2>2, <2>3
<1>17. ASSUME watched, ~msg.flat, NEW i \in Nat
       PROVE  Usk!TruePacket(t, msg, i, Usk!Output(Usk!ErrPacket(head)))
  <2>1. /\ Usk!ErrPacket(head) \in Packets /\ Usk!ErrPacket(head).err
        /\ Usk!ErrPacket(head).path = head.path /\ Usk!ErrPacket(head).proc = head.proc
    BY <1>6, PacketSteps
  <2>2. Usk!ErrPacket(head).err = ~msg.flat
    BY <1>3, <1>17, <2>1 DEF Packets
  <2> QED
    BY <1>2, <1>4, <1>6, <1>17, <2>1, <2>2, PacketIsTrue
<1>18. ASSUME watched, msg.flat, NEW i \in Nat
       PROVE  Usk!TruePacket(t, msg, i, Usk!Output(Seg(i)))
  <2>1. /\ Seg(i) \in Packets /\ ~Seg(i).err /\ Seg(i).data = [of |-> t, seg |-> i]
        /\ Seg(i).path = head.path /\ Seg(i).proc = head.proc
    BY <1>6, PacketSteps
  <2> HIDE DEF Seg
  <2>2. Seg(i).err = ~msg.flat
    BY <1>3, <1>18, <2>1 DEF Packets
  <2> QED
    BY <1>2, <1>4, <1>6, <1>18, <2>1, <2>2, PacketIsTrue
<1> HIDE DEF Seg
<1>19. ASSUME NEW i \in DOMAIN output'.packets
       PROVE  Usk!TruePacket(t, msg, i, output'.packets[i])
  <2>1. CASE output'.packets = <<>>
    BY <1>19, <2>1
  <2>2. CASE watched /\ ~msg.flat /\ output'.packets = <<Usk!Output(Usk!ErrPacket(head))>>
    <3>1. i \in Nat /\ output'.packets[i] = Usk!Output(Usk!ErrPacket(head))
      BY <1>19, <2>2
    <3> QED
      BY <1>17, <2>2, <3>1
  <2>3. CASE watched /\ msg.flat
                  /\ output'.packets = [k \in 1..Usk!NumSegs(msg) |-> Usk!Output(Seg(k))]
    <3>1. i \in Nat /\ output'.packets[i] = Usk!Output(Seg(i))
      BY <1>3, <1>19, <2>3
    <3> QED
      BY <1>18, <2>3, <3>1
  <2> QED
    BY <1>16, <2>1, <2>2, <2>3
<1>20. ASSUME NEW i, NEW packet, Usk!TruePacket(t, msg, i, packet)
       PROVE  Usk!TruePacket(t, output.msg, i, packet)'
  BY <1>1, <1>16, <1>20 DEF Usk!TruePacket, Usk!Watched
<1>21. Usk!PacketsTrue'
  BY <1>16, <1>19, <1>20 DEF Usk!PacketsTrue
<1>22. Usk!WatchedReported'
  <2>1. (Usk!Watched(output.msg.own) \/ Usk!Watched(output.msg.peer))' <=> watched
    BY <1>1, <1>16 DEF Usk!Watched
  <2>2. Usk!NumSegs(msg) = Usk!NumSegs(output.msg)' /\ output'.msg.flat = msg.flat
    BY <1>16
  <2>3. /\ Len(<<>>) = 0 /\ Len(<<Usk!Output(Usk!ErrPacket(head))>>) = 1
        /\ Len([i \in 1..Usk!NumSegs(msg) |-> Usk!Output(Seg(i))]) = Usk!NumSegs(msg)
    BY <1>3
  <2> HIDE DEF watched
  <2>4. Len(output'.packets) = IF ~watched THEN 0 ELSE IF msg.flat THEN Usk!NumSegs(msg) ELSE 1
    <3>1. CASE ~watched /\ output'.packets = <<>>
      BY <2>3, <3>1
    <3>2. CASE watched /\ ~msg.flat /\ output'.packets = <<Usk!Output(Usk!ErrPacket(head))>>
      BY <2>3, <3>2
    <3>3. CASE watched /\ msg.flat
                    /\ output'.packets = [i \in 1..Usk!NumSegs(msg) |-> Usk!Output(Seg(i))]
      <4>1. Len(output'.packets) = Usk!NumSegs(msg)
        BY <1>3, <3>3
      <4> QED
        BY <3>3, <4>1
    <3> QED
      BY <1>16, <3>1, <3>2, <3>3
  <2> QED
    BY <1>16, <2>1, <2>2, <2>4 DEF Usk!WatchedReported
<1> QED
  BY <1>13, <1>14, <1>15, <1>21, <1>22 DEF UskInv

LEMMA UskStep == ASSUME Sizes, UskInv, [Usk!Next]_(Usk!vars) PROVE UskInv'
<1>1. CASE UNCHANGED Usk!vars
  <2>1. ASSUME NEW u \in clean PROVE Progress(u)'
    <3>1. Progress(u)
      BY DEF UskInv
    <3> QED
      BY <1>1, <3>1 DEF Progress, Decides, Usk!Watched, Holds, Usk!vars
  <2>2. UskTyped' /\ HasOwn'
    BY <1>1 DEF UskInv, UskTyped, HasOwn, Usk!vars
  <2>3. Usk!PacketsTrue' /\ Usk!WatchedReported'
    BY <1>1 DEF UskInv, Usk!PacketsTrue, Usk!WatchedReported, Usk!TruePacket, Usk!Watched,
                Usk!vars
  <2> QED
    BY <1>1, <2>1, <2>2, <2>3 DEF UskInv, Usk!vars
<1> QED
  BY <1>1, SendStep, KprobeStep, FentryBeginStep, ReadOwnStep, MatchStep, ReadPeerStep,
     FillStep, CopyStep, OutputPktStep, ReturnStep DEF Usk!Next

(* Where UnixSock is the tracer, its invariant holds.                      *)
UskWhen == tracer = "unix" => UskInv

LEMMA UskInvariance == TracersSpec => []UskWhen
<1>1. TracersInit => UskWhen
  BY UskInit, SizeAssumption DEF TracersInit, UskWhen
<1>2. UskWhen /\ [TracersNext]_tracersVars => UskWhen'
  <2> SUFFICES ASSUME UskWhen, [TracersNext]_tracersVars, (tracer = "unix")' PROVE UskInv'
    BY DEF UskWhen
  <2>1. tracer = "unix" /\ [Usk!Next]_(Usk!vars)
    BY DEF TracersNext, tracersVars, uskVars, Usk!vars
  <2> QED
    BY <2>1, UskStep, SizeAssumption DEF UskWhen
<1> QED
  BY <1>1, <1>2, PTL DEF TracersSpec

(* PacketsTrue: a packet of a kprobe program, or of a fentry program that  *)
(* had the CPU's element for itself, is about the one message, process and *)
(* segment it was built for, whatever the element held before.             *)
THEOREM PacketsOwn == TracersSpec => []PacketsTrue
<1>1. UskWhen => PacketsTrue
  BY DEF UskWhen, UskInv, PacketsTrue
<1> QED
  BY <1>1, UskInvariance, PTL

(* WatchedReported: the kprobe program reports the segments of every       *)
(* message of a watched path, and no others; comparing the path word by    *)
(* word decides it, whatever earlier paths left behind its end.            *)
THEOREM AllReported == TracersSpec => []WatchedReported
<1>1. UskWhen => WatchedReported
  BY DEF UskWhen, UskInv, WatchedReported
<1> QED
  BY <1>1, UskInvariance, PTL

-----------------------------------------------------------------------------
(* The ethtool tracer, EthtoolTrace.                                       *)
(* Requests and elements keep their types field by field.                  *)
LEMMA RequestType ==
  /\ Eth!NoCall \in Eth!Requests
  /\ \A cmd \in Cmds : [pc |-> "begun", cmd |-> cmd, dev |-> NULL] \in Eth!Requests
  /\ \A r \in Eth!Requests :
       /\ \A label \in {"parse", "after"} : [r EXCEPT !.pc = label] \in Eth!Requests
       /\ \A dev \in Devs : [pc |-> "found", cmd |-> r.cmd, dev |-> dev] \in Eth!Requests
  BY DEF Eth!Requests, Eth!NoCall

LEMMA ElementType ==
  ASSUME NEW e \in Eth!Elements
  PROVE  /\ \A cmd \in Cmds : [e EXCEPT !.cmd = cmd, !.req = NULL] \in Eth!Elements
         /\ \A q \in Requesters \cup {NULL, Freed} : [e EXCEPT !.req = q] \in Eth!Elements
         /\ \A name \in Devs \cup {NULL} : [e EXCEPT !.ifname = name] \in Eth!Elements
  BY DEF Eth!Elements

LEMMA EthInit == ASSUME Pointers PROVE Eth!Init => Eth!IInv
<1> SUFFICES ASSUME Pointers, Eth!Init PROVE Eth!IInv
  OBVIOUS
<1>1. [cmd |-> NULL, ifname |-> NULL, req |-> NULL] \in Eth!Elements
  BY DEF Eth!Elements
<1>2. \A t \in Requesters : call[t].pc = "idle"
  BY DEF Eth!Init, Eth!NoCall
<1>3. Eth!TypeOK
  BY <1>1, <1>2, RequestType DEF Eth!Init, Eth!TypeOK
<1>4. Eth!NotedCommand /\ Eth!PointedRequest
  BY DEF Eth!Init, Eth!NotedCommand, Eth!PointedRequest, Pointers
<1>5. Eth!InsideIsPointed
  BY <1>2 DEF Eth!InsideIsPointed, Eth!Inside
<1> QED
  BY <1>3, <1>4, <1>5 DEF Eth!IInv

(* One task's request changes, and runs on a CPU.                          *)
LEMMA CallType ==
  ASSUME Eth!TypeOK, NEW t \in Requesters, NEW r \in Eth!Requests,
         call' = [call EXCEPT ![t] = r], r.pc # "idle" => on'[t] \in Cpus,
         NEW c \in Cpus \cup {NULL}, on' = on \/ on' = [on EXCEPT ![t] = c]
  PROVE  /\ call' \in [Requesters -> Eth!Requests]
         /\ on' \in [Requesters -> Cpus \cup {NULL}]
         /\ \A u \in Requesters : call'[u].pc # "idle" => on'[u] \in Cpus
<1>1. call' \in [Requesters -> Eth!Requests] /\ on' \in [Requesters -> Cpus \cup {NULL}]
  BY DEF Eth!TypeOK
<1>2. call'[t] = r /\ \A u \in Requesters \ {t} : call'[u] = call[u] /\ on'[u] = on[u]
  BY DEF Eth!TypeOK
<1> QED
  BY <1>1, <1>2 DEF Eth!TypeOK

LEMMA EthTypeStep == ASSUME Pointers PROVE Eth!IInv /\ [Eth!Next]_(Eth!vars) => Eth!TypeOK'
<1> SUFFICES ASSUME Pointers, Eth!TypeOK, [Eth!Next]_(Eth!vars) PROVE Eth!TypeOK'
  BY DEF Eth!IInv
<1>1. ASSUME NEW t \in Requesters, Eth!KpEthnlDoit(t) PROVE Eth!TypeOK'
  <2>1. PICK c \in Cpus, cmd \in Cmds :
          /\ on' = [on EXCEPT ![t] = c]
          /\ call' = [call EXCEPT ![t] = [pc |-> "begun", cmd |-> cmd, dev |-> NULL]]
          /\ cache' = [cache EXCEPT ![c].cmd = cmd, ![c].req = NULL]
          /\ noted' = [noted EXCEPT ![c] = t]
          /\ pointed' = [pointed EXCEPT ![c] = NULL]
    BY <1>1 DEF Eth!KpEthnlDoit, Eth!Slot
  <2>2. on'[t] \in Cpus
    BY <2>1 DEF Eth!TypeOK
  <2>3. /\ call' \in [Requesters -> Eth!Requests] /\ on' \in [Requesters -> Cpus \cup {NULL}]
        /\ \A u \in Requesters : call'[u].pc # "idle" => on'[u] \in Cpus
    BY <2>1, <2>2, RequestType, CallType
  <2>4. cache[c] \in Eth!Elements /\ [cache[c] EXCEPT !.cmd = cmd, !.req = NULL] \in Eth!Elements
    BY ElementType DEF Eth!TypeOK
  <2>5. cache' = [cache EXCEPT ![c] = [cache[c] EXCEPT !.cmd = cmd, !.req = NULL]]
    BY <2>1 DEF Eth!TypeOK
  <2>6. cache' \in [Cpus -> Eth!Elements]
    BY <2>4, <2>5 DEF Eth!TypeOK
  <2>7. noted' \in [Cpus -> Requesters \cup {NULL}] /\ pointed' \in [Cpus -> Requesters \cup {NULL}]
    BY <2>1 DEF Eth!TypeOK
  <2>8. preempt' \in BOOLEAN
    BY <1>1 DEF Eth!KpEthnlDoit, Eth!TypeOK
  <2> QED
    BY <2>3, <2>6, <2>7, <2>8 DEF Eth!TypeOK
<1>2. ASSUME NEW t \in Requesters, Eth!OtherRequest(t) PROVE Eth!TypeOK'
  <2>1. PICK c \in Cpus, cmd \in Cmds :
          /\ on' = [on EXCEPT ![t] = c]
          /\ call' = [call EXCEPT ![t] = [pc |-> "begun", cmd |-> cmd, dev |-> NULL]]
    BY <1>2 DEF Eth!OtherRequest
  <2>2. on'[t] \in Cpus
    BY <2>1 DEF Eth!TypeOK
  <2>3. /\ call' \in [Requesters -> Eth!Requests] /\ on' \in [Requesters -> Cpus \cup {NULL}]
        /\ \A u \in Requesters : call'[u].pc # "idle" => on'[u] \in Cpus
    BY <2>1, <2>2, RequestType, CallType
  <2> QED
    BY <1>2, <2>3 DEF Eth!OtherRequest, Eth!TypeOK
<1>3. ASSUME NEW t \in Requesters, Eth!KpEthnlDev(t) PROVE Eth!TypeOK'
  <2>1. on[t] \in Cpus /\ UNCHANGED on
    BY <1>3 DEF Eth!KpEthnlDev, Eth!TypeOK
  <2>2. call[t] \in Eth!Requests /\ call' = [call EXCEPT ![t] = [call[t] EXCEPT !.pc = "parse"]]
    BY <1>3 DEF Eth!KpEthnlDev, Eth!Goto, Eth!TypeOK
  <2>3. /\ call' \in [Requesters -> Eth!Requests] /\ on' \in [Requesters -> Cpus \cup {NULL}]
        /\ \A u \in Requesters : call'[u].pc # "idle" => on'[u] \in Cpus
    BY <2>1, <2>2, RequestType, CallType
  <2>4. cache[on[t]] \in Eth!Elements /\ cache' = [cache EXCEPT ![on[t]] = [cache[on[t]] EXCEPT !.req = t]]
    BY <1>3, <2>1 DEF Eth!KpEthnlDev, Eth!Slot, Eth!TypeOK
  <2>5. cache' \in [Cpus -> Eth!Elements]
    BY <2>4, ElementType DEF Eth!TypeOK
  <2>6. pointed' \in [Cpus -> Requesters \cup {NULL}]
    BY <1>3 DEF Eth!KpEthnlDev, Eth!TypeOK
  <2> QED
    BY <1>3, <2>3, <2>5, <2>6 DEF Eth!KpEthnlDev, Eth!TypeOK
<1>4. ASSUME NEW t \in Requesters, Eth!FindDev(t) PROVE Eth!TypeOK'
  <2>1. PICK dev \in Devs : call' = [call EXCEPT ![t] = [pc |-> "found", cmd |-> @.cmd, dev |-> dev]]
    BY <1>4 DEF Eth!FindDev
  <2>2. on[t] \in Cpus /\ UNCHANGED on
    BY <1>4 DEF Eth!FindDev, Eth!TypeOK
  <2>3. /\ call[t] \in Eth!Requests
        /\ call' = [call EXCEPT ![t] = [pc |-> "found", cmd |-> call[t].cmd, dev |-> dev]]
    BY <2>1 DEF Eth!TypeOK
  <2>4. /\ call' \in [Requesters -> Eth!Requests] /\ on' \in [Requesters -> Cpus \cup {NULL}]
        /\ \A u \in Requesters : call'[u].pc # "idle" => on'[u] \in Cpus
    BY <2>2, <2>3, RequestType, CallType
  <2> QED
    BY <1>4, <2>4 DEF Eth!FindDev, Eth!TypeOK
<1>5. ASSUME NEW t \in Requesters, Eth!KrpEthnlDev(t) PROVE Eth!TypeOK'
  <2>1. on[t] \in Cpus /\ UNCHANGED on
    BY <1>5 DEF Eth!KrpEthnlDev, Eth!Inside, Eth!TypeOK
  <2>2. call[t] \in Eth!Requests /\ call' = [call EXCEPT ![t] = [call[t] EXCEPT !.pc = "after"]]
    BY <1>5 DEF Eth!KrpEthnlDev, Eth!Goto, Eth!TypeOK
  <2>3. /\ call' \in [Requesters -> Eth!Requests] /\ on' \in [Requesters -> Cpus \cup {NULL}]
        /\ \A u \in Requesters : call'[u].pc # "idle" => on'[u] \in Cpus
    BY <2>1, <2>2, RequestType, CallType
  <2>4. PICK name \in Eth!DevNames(cache[on[t]]) : cache' = [cache EXCEPT ![on[t]].ifname = name]
    BY <1>5 DEF Eth!KrpEthnlDev, Eth!Slot
  <2>5. cache[on[t]] \in Eth!Elements
    BY <2>1 DEF Eth!TypeOK
  <2>6. name \in Devs \cup {NULL}
    BY <2>4, <2>5 DEF Eth!DevNames, Eth!TypeOK, Eth!Elements, Eth!Requests
  <2>7. cache' = [cache EXCEPT ![on[t]] = [cache[on[t]] EXCEPT !.ifname = name]]
    BY <2>1, <2>4 DEF Eth!TypeOK
  <2>8. cache' \in [Cpus -> Eth!Elements]
    BY <2>5, <2>6, <2>7, ElementType DEF Eth!TypeOK
  <2> QED
    BY <1>5, <2>3, <2>8 DEF Eth!KrpEthnlDev, Eth!TypeOK
<1>6. ASSUME NEW t \in Requesters, Eth!EndRequest(t) PROVE Eth!TypeOK'
  <2>1. /\ call' \in [Requesters -> Eth!Requests] /\ on' \in [Requesters -> Cpus \cup {NULL}]
        /\ \A u \in Requesters : call'[u].pc # "idle" => on'[u] \in Cpus
    <3>1. Eth!NoCall \in Eth!Requests /\ Eth!NoCall.pc = "idle"
      BY RequestType DEF Eth!NoCall
    <3> QED
      BY <1>6, <3>1, CallType DEF Eth!EndRequest
  <2>2. cache' \in [Cpus -> Eth!Elements]
    <3>1. \A c \in Cpus : cache[c] \in Eth!Elements /\ [cache[c] EXCEPT !.req = Freed] \in Eth!Elements
      BY ElementType DEF Eth!TypeOK
    <3> QED
      BY <1>6, <3>1 DEF Eth!EndRequest
  <2>3. noted' \in [Cpus -> Requesters \cup {NULL}] /\ pointed' \in [Cpus -> Requesters \cup {NULL}]
    BY <1>6 DEF Eth!EndRequest, Eth!TypeOK
  <2> QED
    BY <1>6, <2>1, <2>2, <2>3 DEF Eth!EndRequest, Eth!TypeOK
<1>7. ASSUME NEW t \in Requesters, Eth!Migrate(t) PROVE Eth!TypeOK'
  <2>1. on' \in [Requesters -> Cpus \cup {NULL}] /\ \A u \in Requesters : on'[u] = on[u] \/ on'[u] \in Cpus
    BY <1>7 DEF Eth!Migrate, Eth!TypeOK
  <2> QED
    BY <1>7, <2>1 DEF Eth!Migrate, Eth!TypeOK
<1>8. CASE UNCHANGED Eth!vars
  BY <1>8 DEF Eth!vars, Eth!TypeOK
<1> QED
  BY <1>1, <1>2, <1>3, <1>4, <1>5, <1>6, <1>7, <1>8 DEF Eth!Next

LEMMA NotedStep == ASSUME Pointers PROVE Eth!IInv /\ [Eth!Next]_(Eth!vars) => Eth!NotedCommand'
<1> SUFFICES ASSUME Pointers, Eth!TypeOK, Eth!NotedCommand, [Eth!Next]_(Eth!vars)
             PROVE  Eth!NotedCommand'
  BY DEF Eth!IInv
<1> USE DEF Eth!TypeOK, Eth!Requests, Eth!Elements, Eth!NotedCommand, Eth!NoCall, Eth!Slot,
            Eth!Goto, Eth!Inside
<1>1. ASSUME NEW t \in Requesters, Eth!KpEthnlDoit(t) PROVE Eth!NotedCommand'
  BY <1>1 DEF Eth!KpEthnlDoit
<1>2. ASSUME NEW t \in Requesters, Eth!OtherRequest(t) PROVE Eth!NotedCommand'
  BY <1>2 DEF Eth!OtherRequest
<1>3. ASSUME NEW t \in Requesters, Eth!KpEthnlDev(t) PROVE Eth!NotedCommand'
  BY <1>3 DEF Eth!KpEthnlDev
<1>4. ASSUME NEW t \in Requesters, Eth!FindDev(t) PROVE Eth!NotedCommand'
  BY <1>4 DEF Eth!FindDev
<1>5. ASSUME NEW t \in Requesters, Eth!KrpEthnlDev(t) PROVE Eth!NotedCommand'
  BY <1>5 DEF Eth!KrpEthnlDev
<1>6. ASSUME NEW t \in Requesters, Eth!EndRequest(t) PROVE Eth!NotedCommand'
  BY <1>6 DEF Eth!EndRequest, Pointers
<1>7. ASSUME NEW t \in Requesters, Eth!Migrate(t) PROVE Eth!NotedCommand'
  BY <1>7 DEF Eth!Migrate
<1>8. CASE UNCHANGED Eth!vars
  BY <1>8 DEF Eth!vars
<1> QED
  BY <1>1, <1>2, <1>3, <1>4, <1>5, <1>6, <1>7, <1>8 DEF Eth!Next

LEMMA PointedStep == ASSUME Pointers PROVE Eth!IInv /\ [Eth!Next]_(Eth!vars) => Eth!PointedRequest'
<1> SUFFICES ASSUME Pointers, Eth!TypeOK, Eth!PointedRequest, [Eth!Next]_(Eth!vars)
             PROVE  Eth!PointedRequest'
  BY DEF Eth!IInv
<1> USE DEF Eth!TypeOK, Eth!Requests, Eth!Elements, Eth!PointedRequest, Eth!NoCall, Eth!Slot,
            Eth!Goto, Eth!Inside
<1>1. ASSUME NEW t \in Requesters, Eth!KpEthnlDoit(t) PROVE Eth!PointedRequest'
  BY <1>1 DEF Eth!KpEthnlDoit, Pointers
<1>2. ASSUME NEW t \in Requesters, Eth!OtherRequest(t) PROVE Eth!PointedRequest'
  BY <1>2 DEF Eth!OtherRequest
<1>3. ASSUME NEW t \in Requesters, Eth!KpEthnlDev(t) PROVE Eth!PointedRequest'
  BY <1>3 DEF Eth!KpEthnlDev
<1>4. ASSUME NEW t \in Requesters, Eth!FindDev(t) PROVE Eth!PointedRequest'
  BY <1>4 DEF Eth!FindDev
<1>5. ASSUME NEW t \in Requesters, Eth!KrpEthnlDev(t) PROVE Eth!PointedRequest'
  BY <1>5 DEF Eth!KrpEthnlDev
<1>6. ASSUME NEW t \in Requesters, Eth!EndRequest(t) PROVE Eth!PointedRequest'
  BY <1>6 DEF Eth!EndRequest, Pointers
<1>7. ASSUME NEW t \in Requesters, Eth!Migrate(t) PROVE Eth!PointedRequest'
  BY <1>7 DEF Eth!Migrate
<1>8. CASE UNCHANGED Eth!vars
  BY <1>8 DEF Eth!vars
<1> QED
  BY <1>1, <1>2, <1>3, <1>4, <1>5, <1>6, <1>7, <1>8 DEF Eth!Next

(* Without preemption no hook runs on the CPU of a task that is inside.    *)
LEMMA InsideStep == ASSUME Pointers PROVE Eth!IInv /\ [Eth!Next]_(Eth!vars) => Eth!InsideIsPointed'
<1> SUFFICES ASSUME Pointers, Eth!TypeOK, Eth!InsideIsPointed, [Eth!Next]_(Eth!vars), ~preempt,
                    preempt' = preempt,
                    NEW u \in Requesters, Eth!Inside(u)'
             PROVE  (pointed[on[u]] = u)'
  <2>1. ASSUME [Eth!Next]_(Eth!vars) PROVE preempt' = preempt
    BY <2>1 DEF Eth!Next, Eth!vars, Eth!KpEthnlDoit, Eth!OtherRequest, Eth!KpEthnlDev,
                Eth!FindDev, Eth!KrpEthnlDev,
                Eth!EndRequest, Eth!Migrate
  <2> QED
    BY <2>1 DEF Eth!IInv, Eth!InsideIsPointed
<1> USE DEF Eth!TypeOK, Eth!Requests, Eth!Elements, Eth!InsideIsPointed, Eth!NoCall, Eth!Slot,
            Eth!Goto, Eth!Inside, Eth!Runs, Eth!RunsOn
<1>1. ASSUME NEW t \in Requesters, Eth!KpEthnlDoit(t) PROVE (pointed[on[u]] = u)'
  BY <1>1 DEF Eth!KpEthnlDoit
<1>2. ASSUME NEW t \in Requesters, Eth!OtherRequest(t) PROVE (pointed[on[u]] = u)'
  BY <1>2 DEF Eth!OtherRequest
<1>3. ASSUME NEW t \in Requesters, Eth!KpEthnlDev(t) PROVE (pointed[on[u]] = u)'
  BY <1>3 DEF Eth!KpEthnlDev
<1>4. ASSUME NEW t \in Requesters, Eth!FindDev(t) PROVE (pointed[on[u]] = u)'
  BY <1>4 DEF Eth!FindDev
<1>5. ASSUME NEW t \in Requesters, Eth!KrpEthnlDev(t) PROVE (pointed[on[u]] = u)'
  BY <1>5 DEF Eth!KrpEthnlDev
<1>6. ASSUME NEW t \in Requesters, Eth!EndRequest(t) PROVE (pointed[on[u]] = u)'
  BY <1>6 DEF Eth!EndRequest
<1>7. ASSUME NEW t \in Requesters, Eth!Migrate(t) PROVE (pointed[on[u]] = u)'
  BY <1>7 DEF Eth!Migrate
<1>8. CASE UNCHANGED Eth!vars
  BY <1>8 DEF Eth!vars
<1> QED
  BY <1>1, <1>2, <1>3, <1>4, <1>5, <1>6, <1>7, <1>8 DEF Eth!Next

(* Where EthtoolTrace is the tracer, its inductive invariant holds.        *)
EthWhen == tracer = "ethtool" => Eth!IInv

LEMMA EthAlone ==
  ASSUME [TracersNext]_tracersVars, tracer = "ethtool" \/ (tracer = "ethtool")'
  PROVE  tracer = "ethtool" /\ [Eth!Next]_(Eth!vars)
BY DEF TracersNext, tracersVars, ethVars, Eth!vars

LEMMA EthInvariance == TracersSpec => []EthWhen
<1>1. TracersInit => EthWhen
  BY EthInit, PointerAssumption DEF TracersInit, EthWhen
<1>2. Eth!IInv /\ [Eth!Next]_(Eth!vars) => Eth!IInv'
  BY EthTypeStep, NotedStep, PointedStep, InsideStep, PointerAssumption DEF Eth!IInv
<1>3. EthWhen /\ [TracersNext]_tracersVars => EthWhen'
  BY <1>2, EthAlone DEF EthWhen
<1> QED
  BY <1>1, <1>3, PTL DEF TracersSpec

(* Only the kretprobe ends a task's stay in the function.                  *)
LEMMA SendsByKrp ==
  ASSUME Eth!TypeOK, [Eth!Next]_(Eth!vars), NEW t \in Requesters, Eth!Sends(t)
  PROVE  /\ on[t] \in Cpus
         /\ \E name \in Eth!DevNames(cache[on[t]]) : cache' = [cache EXCEPT ![on[t]].ifname = name]
<1> USE DEF Eth!TypeOK, Eth!Requests, Eth!Elements, Eth!Sends, Eth!Inside, Eth!NoCall, Eth!Goto,
            Eth!Slot
<1>1. ASSUME NEW u \in Requesters, Eth!KrpEthnlDev(u)
      PROVE  \E name \in Eth!DevNames(cache[on[t]]) : cache' = [cache EXCEPT ![on[t]].ifname = name]
  <2>1. u = t
    BY <1>1 DEF Eth!KrpEthnlDev
  <2> QED
    BY <1>1, <2>1 DEF Eth!KrpEthnlDev
<1>2. ASSUME NEW u \in Requesters, Eth!KpEthnlDoit(u) \/ Eth!OtherRequest(u) PROVE FALSE
  BY <1>2 DEF Eth!KpEthnlDoit, Eth!OtherRequest
<1>3. ASSUME NEW u \in Requesters, Eth!FindDev(u) PROVE FALSE
  BY <1>3 DEF Eth!FindDev
<1>4. ASSUME NEW u \in Requesters, Eth!KpEthnlDev(u) \/ Eth!EndRequest(u) \/ Eth!Migrate(u) PROVE FALSE
  BY <1>4 DEF Eth!KpEthnlDev, Eth!EndRequest, Eth!Migrate
<1>5. ~UNCHANGED Eth!vars
  BY DEF Eth!vars
<1> QED
  BY <1>1, <1>2, <1>3, <1>4, <1>5 DEF Eth!Next

(* DeviceIsOwn: an event names the device its own request found.           *)
THEOREM DeviceOwn == TracersSpec => DeviceIsOwn
<1>1. Eth!IInv /\ [Eth!Next]_(Eth!vars) => Eth!OwnDevice
  <2> SUFFICES ASSUME Eth!IInv, [Eth!Next]_(Eth!vars), NEW t \in Requesters, Eth!Sends(t),
                      call[t].dev # NULL,
                      ~preempt \/ pointed[on[t]] = t
               PROVE  Eth!Sent(t).ifname = call[t].dev
    BY DEF Eth!OwnDevice
  <2>1. on[t] \in Cpus
    BY SendsByKrp DEF Eth!IInv
  <2>2. PICK name \in Eth!DevNames(cache[on[t]]) : cache' = [cache EXCEPT ![on[t]].ifname = name]
    BY SendsByKrp DEF Eth!IInv
  <2>3. pointed[on[t]] = t
    BY DEF Eth!IInv, Eth!InsideIsPointed, Eth!Sends
  <2>4. cache[on[t]].req = t
    BY <2>1, <2>3 DEF Eth!IInv, Eth!PointedRequest
  <2>5. name = call[t].dev
    BY <2>2, <2>4, PointerAssumption DEF Eth!DevNames, Pointers
  <2> QED
    BY <2>1, <2>2, <2>5 DEF Eth!IInv, Eth!TypeOK, Eth!Elements, Eth!Sent, Eth!Slot
<1>2. EthWhen /\ [TracersNext]_tracersVars => [tracer = "ethtool" => Eth!OwnDevice]_ethVars
  BY <1>1, EthAlone DEF EthWhen
<1> QED
  BY <1>2, EthInvariance, PTL DEF TracersSpec, DeviceIsOwn

(* CommandIsOwn: an event carries the command of its own GET.              *)
THEOREM CommandOwn == TracersSpec => CommandIsOwn
<1>1. Eth!IInv /\ [Eth!Next]_(Eth!vars) => Eth!OwnCommand
  <2> SUFFICES ASSUME Eth!IInv, [Eth!Next]_(Eth!vars), NEW t \in Requesters, Eth!Sends(t),
                      noted[on[t]] = t
               PROVE  Eth!Sent(t).cmd = call[t].cmd
    BY DEF Eth!OwnCommand
  <2>1. on[t] \in Cpus
    BY SendsByKrp DEF Eth!IInv
  <2>2. PICK name \in Eth!DevNames(cache[on[t]]) : cache' = [cache EXCEPT ![on[t]].ifname = name]
    BY SendsByKrp DEF Eth!IInv
  <2>3. cache[on[t]].cmd = call[t].cmd
    BY <2>1 DEF Eth!IInv, Eth!NotedCommand
  <2> QED
    BY <2>1, <2>2, <2>3 DEF Eth!IInv, Eth!TypeOK, Eth!Elements, Eth!Sent, Eth!Slot
<1>2. EthWhen /\ [TracersNext]_tracersVars => [tracer = "ethtool" => Eth!OwnCommand]_ethVars
  BY <1>1, EthAlone DEF EthWhen
<1> QED
  BY <1>2, EthInvariance, PTL DEF TracersSpec, CommandIsOwn
=============================================================================
