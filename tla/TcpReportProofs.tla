-------------------------- MODULE TcpReportProofs --------------------------
(***************************************************************************)
(* What handlePerfEvent prints, TcpReport, for any sockets and any number  *)
(* of events and failing reads.                                            *)
(***************************************************************************)
EXTENDS TcpReport, TLAPS

(* The event an empty sample decodes to.                                   *)
NoEvent ==
  [role |-> "UNKNOWN", src_ip |-> Zero, dest_ip |-> Zero, src_port |-> 0, dest_port |-> 0]

LineType ==
  [of: Nat, ends: {Orient(set_conn_info(s)) : s \in Conns} \cup {Orient(NoEvent)}]

Typed ==
  /\ sent \in Seq(Conns) /\ taken \in 0..Len(sent)
  /\ lines \in Seq(LineType)

(* A line is of an event taken before, and the reader's view of it.        *)
LinesAreOf ==
  \A i \in DOMAIN lines :
    /\ lines[i].of <= taken
    /\ lines[i].of # 0 => lines[i].ends = Orient(set_conn_info(sent[lines[i].of]))

InOrder ==
  \A i, j \in DOMAIN lines : i < j /\ lines[j].of # 0 => lines[i].of < lines[j].of

Looped(s) == s.laddr = Lo /\ s.raddr = Lo

AllPrinted ==
  \A n \in 1..taken : (\E i \in DOMAIN lines : lines[i].of = n) \/ Looped(sent[n])

IInv == Typed /\ LinesAreOf /\ InOrder /\ AllPrinted

-----------------------------------------------------------------------------
(* The effect of a turn of the loop that prints.                           *)
LEMMA Printing ==
  ASSUME Typed, NEW line \in LineType, lines' = Append(lines, line)
  PROVE  /\ lines' \in Seq(LineType)
         /\ DOMAIN lines = 1..Len(lines) /\ Len(lines) \in Nat
         /\ DOMAIN lines' = 1..(Len(lines) + 1)
         /\ \A i \in DOMAIN lines : lines'[i] = lines[i]
         /\ lines'[Len(lines) + 1] = line
BY DEF Typed

LEMMA LinesTyped ==
  ASSUME Typed, LinesAreOf, NEW i \in DOMAIN lines
  PROVE  lines[i].of \in Nat /\ lines[i].of <= taken
<1>1. lines[i] \in LineType
  BY DEF Typed
<1>2. QED BY <1>1 DEF LineType, LinesAreOf

(* Only two loopback addresses are skipped, whichever field each went to.  *)
LEMMA SkipsLooped ==
  ASSUME NEW s \in Conns, Skip(set_conn_info(s))
  PROVE  Looped(s)
BY DEF Skip, set_conn_info, Looped

LEMMA InitIInv == Init => IInv
BY DEF Init, IInv, Typed, LinesAreOf, InOrder, AllPrinted

LEMMA SubmitStep == IInv /\ Submit => IInv'
<1> SUFFICES ASSUME IInv, Submit PROVE IInv'
  OBVIOUS
<1>1. PICK s \in Conns : sent' = Append(sent, s)
  BY DEF Submit
<1>2. UNCHANGED <<taken, lines>>
  BY DEF Submit
<1>3. /\ sent' \in Seq(Conns) /\ Len(sent') = Len(sent) + 1
      /\ \A n \in 1..Len(sent) : sent'[n] = sent[n]
  BY <1>1 DEF IInv, Typed
<1>4. \A n \in 1..taken : sent'[n] = sent[n]
  BY <1>3 DEF IInv, Typed
<1>5. Typed'
  BY <1>2, <1>3 DEF IInv, Typed
<1>6. LinesAreOf'
  <2> SUFFICES ASSUME NEW i \in DOMAIN lines
               PROVE  /\ lines[i].of <= taken
                      /\ lines[i].of # 0 => lines[i].ends = Orient(set_conn_info(sent'[lines[i].of]))
    BY <1>2 DEF LinesAreOf
  <2>1. /\ lines[i].of <= taken
        /\ lines[i].of # 0 => lines[i].ends = Orient(set_conn_info(sent[lines[i].of]))
    BY DEF IInv, LinesAreOf
  <2>2. lines[i].of # 0 => lines[i].of \in 1..taken
    BY LinesTyped DEF IInv, Typed
  <2>3. lines[i].of # 0 => sent'[lines[i].of] = sent[lines[i].of]
    BY <1>4, <2>2
  <2> QED
    BY <2>1, <2>3
<1>7. InOrder' /\ AllPrinted'
  BY <1>2, <1>4 DEF IInv, InOrder, AllPrinted, Looped
<1>8. QED BY <1>5, <1>6, <1>7 DEF IInv

LEMMA ReadStep == IInv /\ Read => IInv'
<1> SUFFICES ASSUME IInv, Read PROVE IInv'
  OBVIOUS
<1> DEFINE n == taken + 1
           ev == set_conn_info(sent[n])
<1>1. /\ n \in 1..Len(sent) /\ sent[n] \in Conns /\ taken' = n /\ UNCHANGED sent
      /\ taken \in Nat /\ n > taken
  BY DEF Read, IInv, Typed
<1>2. CASE Skip(ev)
  <2>1. UNCHANGED lines
    BY <1>2 DEF Read
  <2>2. Looped(sent[n])
    BY <1>1, <1>2, SkipsLooped
  <2>3. Typed' /\ InOrder'
    BY <1>1, <2>1 DEF IInv, Typed, InOrder
  <2>4. LinesAreOf'
    <3>1. \A i \in DOMAIN lines : lines[i].of <= n
      BY <1>1, LinesTyped DEF IInv
    <3>2. QED BY <1>1, <2>1, <3>1 DEF IInv, LinesAreOf, set_conn_info
  <2>5. AllPrinted'
    BY <1>1, <2>1, <2>2 DEF IInv, AllPrinted, Looped
  <2>6. QED BY <2>3, <2>4, <2>5 DEF IInv
<1>3. CASE ~Skip(ev)
  <2> DEFINE line == [of |-> n, ends |-> Orient(ev)]
  <2>1. line \in LineType /\ lines' = Append(lines, line)
    BY <1>1, <1>3 DEF Read, LogLine, LineType
  <2>2. line.of = n /\ line.ends = Orient(ev)
    OBVIOUS
  <2> HIDE DEF line
  <2>3. /\ lines' \in Seq(LineType)
        /\ DOMAIN lines = 1..Len(lines) /\ Len(lines) \in Nat
        /\ DOMAIN lines' = 1..(Len(lines) + 1)
        /\ \A i \in DOMAIN lines : lines'[i] = lines[i]
        /\ lines'[Len(lines) + 1] = line
    BY <2>1, Printing DEF IInv
  <2>4. Typed'
    BY <1>1, <2>3 DEF IInv, Typed
  <2>5. \A i \in DOMAIN lines : lines[i].of \in Nat /\ lines[i].of <= taken
    BY LinesTyped DEF IInv
  <2>6. LinesAreOf'
    <3>1. ASSUME NEW i \in DOMAIN lines'
          PROVE  /\ lines'[i].of <= n
                 /\ lines'[i].of # 0 => lines'[i].ends = Orient(set_conn_info(sent[lines'[i].of]))
      <4>1. CASE i \in DOMAIN lines
        BY <1>1, <2>3, <2>5, <4>1 DEF IInv, LinesAreOf
      <4>2. CASE i = Len(lines) + 1
        BY <1>1, <2>2, <2>3, <4>2
      <4>3. QED BY <2>3, <3>1, <4>1, <4>2
    <3>2. QED BY <1>1, <3>1 DEF LinesAreOf, set_conn_info
  <2>7. InOrder'
    BY <1>1, <2>2, <2>3, <2>5 DEF IInv, InOrder
  <2>8. AllPrinted'
    BY <1>1, <2>2, <2>3 DEF IInv, AllPrinted, Looped
  <2>9. QED BY <2>4, <2>6, <2>7, <2>8 DEF IInv
<1>4. QED BY <1>2, <1>3

LEMMA ReadFailsStep == IInv /\ ReadFails => IInv'
<1> SUFFICES ASSUME IInv, ReadFails PROVE IInv'
  OBVIOUS
<1> DEFINE line == [of |-> 0, ends |-> Orient(NoEvent)]
<1>1. line \in LineType /\ lines' = Append(lines, line) /\ UNCHANGED <<sent, taken>>
  BY DEF ReadFails, LogLine, LineType, NoEvent
<1>2. line.of = 0
  OBVIOUS
<1> HIDE DEF line
<1>3. /\ lines' \in Seq(LineType)
      /\ DOMAIN lines = 1..Len(lines) /\ Len(lines) \in Nat
      /\ DOMAIN lines' = 1..(Len(lines) + 1)
      /\ \A i \in DOMAIN lines : lines'[i] = lines[i]
      /\ lines'[Len(lines) + 1] = line
  BY <1>1, Printing DEF IInv
<1>4. Typed'
  BY <1>1, <1>3 DEF IInv, Typed
<1>5. LinesAreOf'
  BY <1>1, <1>2, <1>3 DEF IInv, Typed, LinesAreOf, set_conn_info
<1>6. InOrder'
  BY <1>2, <1>3 DEF IInv, InOrder
<1>7. AllPrinted'
  BY <1>1, <1>3 DEF IInv, AllPrinted, Looped
<1>8. QED BY <1>4, <1>5, <1>6, <1>7 DEF IInv

LEMMA Invariance == Spec => []IInv
<1>1. IInv /\ [Next]_vars => IInv'
  <2> SUFFICES ASSUME IInv, [Next]_vars PROVE IInv'
    OBVIOUS
  <2>1. CASE UNCHANGED <<sent, taken, lines>>
    BY <2>1 DEF IInv, Typed, LinesAreOf, InOrder, AllPrinted, Looped, set_conn_info
  <2>2. ReadClosed \/ Check \/ Signal \/ CloseReader \/ UNCHANGED vars => UNCHANGED <<sent, taken, lines>>
    BY DEF ReadClosed, Check, Signal, CloseReader, vars
  <2>3. QED BY <2>1, <2>2, SubmitStep, ReadStep, ReadFailsStep DEF Next
<1>2. Init /\ [][Next]_vars => []IInv
  BY <1>1, InitIInv, PTL
<1>3. QED BY <1>2, PTL DEF Spec

-----------------------------------------------------------------------------
(* PrintedInOrder: handlePerfEvent prints every event it takes once, and   *)
(* later ones later, however many reads fail and whatever the signal       *)
(* interrupts; only two loopback addresses are passed over.                *)
THEOREM InPlace == Spec => []PrintedInOrder
<1>1. IInv => PrintedInOrder
  <2> SUFFICES ASSUME IInv PROVE PrintedInOrder
    OBVIOUS
  <2>1. ASSUME NEW n \in 1..taken
        PROVE  n \in Printed \/ (sent[n].laddr = Lo /\ sent[n].raddr = Lo)
    BY DEF IInv, Typed, AllPrinted, Looped, Printed
  <2>2. QED BY <2>1 DEF IInv, InOrder, PrintedInOrder
<1>2. QED BY <1>1, Invariance, PTL

(* LinesPairEnds: the two sides of an IPv4 line are the socket's two ends, *)
(* an address with its own port, whatever the role made of their order.    *)
THEOREM EndsPaired == Spec => []LinesPairEnds
<1>1. IInv => LinesPairEnds
  <2> SUFFICES ASSUME IInv, NEW i \in DOMAIN lines, lines[i].of # 0, sent[lines[i].of].fam = 4
               PROVE  {lines[i].ends.left, lines[i].ends.right} = EndsOf(sent[lines[i].of])
    BY DEF LinesPairEnds
  <2> DEFINE s  == sent[lines[i].of]
             ev == set_conn_info(s)
  <2>1. lines[i].ends = Orient(ev)
    BY DEF IInv, LinesAreOf
  <2>2. Src(ev) = <<s.raddr, s.rport>> /\ Dest(ev) = <<s.laddr, s.lport>>
    BY DEF set_conn_info, Src, Dest
  <2> HIDE DEF ev, s
  <2>3. {Orient(ev).left, Orient(ev).right} = {Src(ev), Dest(ev)}
    BY DEF Orient
  <2>4. QED BY <2>1, <2>2, <2>3 DEF EndsOf, s
<1>2. QED BY <1>1, Invariance, PTL

=============================================================================
