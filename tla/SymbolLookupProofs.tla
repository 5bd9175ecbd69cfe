------------------------- MODULE SymbolLookupProofs -------------------------
(***************************************************************************)
(* Theorems about the symbol lookup for tables of any length and any       *)
(* addresses.  IInv has one part per phase: while the file is read, the    *)
(* slice is its beginning; once sorted, it holds the same symbols in       *)
(* order; and in the loop everything below i is at or below the address,   *)
(* everything from j on above it.                                          *)
(***************************************************************************)
EXTENDS SymbolLookup, TLAPS

Phases == {"scan", "failed", "sorted", "loop", "returned", "panicked"}

TypeInv ==
  /\ kallsyms \in Seq(Syms) /\ slice \in Seq(Syms)
  /\ all \in BOOLEAN
  /\ pc \in Phases
  /\ read \in Nat /\ ip \in Nat /\ i \in Nat /\ j \in Nat /\ result \in Nat

Scanned ==
  pc = "scan" =>
    /\ read <= Len(kallsyms)
    /\ all => Len(slice) = read /\ \A k \in 1..read : slice[k] = kallsyms[k]

Searching == {"sorted", "loop", "returned", "panicked"}

(* The slice has the symbols of the file, in order.                        *)
SameSymbols ==
  pc \in Searching =>
    /\ Sorted(slice)
    /\ all =>
         /\ \A k \in DOMAIN slice : \E m \in DOMAIN kallsyms : kallsyms[m] = slice[k]
         /\ \A m \in DOMAIN kallsyms : \E k \in DOMAIN slice : slice[k] = kallsyms[m]
    /\ ~all => slice = <<>>

Empty == pc = "scan" /\ ~all => slice = <<>>

Bracket ==
  pc = "loop" =>
    /\ i <= j /\ j <= Len(slice)
    /\ \A k \in 1..i : slice[k].addr <= ip
    /\ \A k \in (j + 1)..Len(slice) : slice[k].addr > ip

Found ==
  pc = "returned" =>
    /\ result + 1 \in DOMAIN slice
    /\ slice[result + 1].addr <= ip
    /\ \A k \in DOMAIN slice : slice[k].addr <= ip => slice[k].addr <= slice[result + 1].addr

NotFound == pc = "panicked" => \A k \in DOMAIN slice : slice[k].addr > ip

IInv == TypeInv /\ Scanned /\ Empty /\ SameSymbols /\ Bracket /\ Found /\ NotFound

LEMMA InitIInv == Init => IInv
<1> SUFFICES ASSUME Init PROVE IInv
  OBVIOUS
<1>1. PICK n \in 0..MaxLines : kallsyms \in [1..n -> Syms]
  BY DEF Init
<1>2. kallsyms \in Seq(Syms)
  BY <1>1, LinesAssumption
<1> QED
  BY <1>2 DEF Init, IInv, TypeInv, Phases, Scanned, Empty, SameSymbols, Searching, Bracket, Found,
     NotFound

(* Rearranging a sequence keeps its length and its elements.               *)
LEMMA Rearranged ==
  ASSUME NEW s \in Seq(Syms), NEW p \in Orders(s)
  PROVE  /\ [k \in DOMAIN s |-> s[p[k]]] \in Seq(Syms)
         /\ Len([k \in DOMAIN s |-> s[p[k]]]) = Len(s)
         /\ \A k \in DOMAIN s : \E m \in DOMAIN s : s[m] = s[p[k]]
         /\ \A m \in DOMAIN s : \E k \in DOMAIN s : s[p[k]] = s[m]
<1>1. DOMAIN s = 1..Len(s) /\ Len(s) \in Nat
  OBVIOUS
<1>2. /\ p \in [DOMAIN s -> DOMAIN s]
      /\ \A k \in DOMAIN s : \E m \in DOMAIN s : p[m] = k
  BY DEF Orders
<1>3. [k \in DOMAIN s |-> s[p[k]]] \in [1..Len(s) -> Syms]
  BY <1>1, <1>2
<1>4. /\ [k \in DOMAIN s |-> s[p[k]]] \in Seq(Syms)
      /\ Len([k \in DOMAIN s |-> s[p[k]]]) = Len(s)
  BY <1>1, <1>3
<1>5. \A k \in DOMAIN s : \E m \in DOMAIN s : s[m] = s[p[k]]
  BY <1>2
<1>6. \A m \in DOMAIN s : \E k \in DOMAIN s : s[p[k]] = s[m]
  BY <1>2
<1> QED
  BY <1>4, <1>5, <1>6

LEMMA StepIInv == IInv /\ [Next]_vars => IInv'
<1> SUFFICES ASSUME IInv, [Next]_vars PROVE IInv'
  OBVIOUS
<1> USE DEF IInv
<1>0. \A h \in DOMAIN slice : slice[h].addr \in Nat
  <2>1. \A h \in DOMAIN slice : slice[h] \in Syms
    BY DEF TypeInv
  <2>2. \A sym \in Syms : sym.addr \in Nat
    BY AddrAssumption DEF Syms
  <2> QED
    BY <2>1, <2>2
<1>1. CASE UNCHANGED vars
  BY <1>1 DEF vars, file, search, TypeInv, Scanned, Empty, SameSymbols, Sorted, Bracket, Found, NotFound
<1>2. CASE Scan
  <2>1. kallsyms[read + 1] \in Syms
    BY <1>2 DEF Scan, TypeInv, Scanned
  <2>2. slice' \in Seq(Syms) /\ read' \in Nat
    BY <1>2, <2>1 DEF Scan, TypeInv
  <2>3. TypeInv'
    BY <1>2, <2>2 DEF Scan, TypeInv, file, search
  <2>4. all => Len(slice') = read' /\ \A k \in 1..read' : slice'[k] = kallsyms[k]
    BY <1>2, <2>1 DEF Scan, TypeInv, Scanned
  <2>5. Scanned'
    BY <1>2, <2>4 DEF Scan, TypeInv, Scanned, file
  <2> QED
    BY <1>2, <2>3, <2>5 DEF Scan, TypeInv, Empty, SameSymbols, Searching, Bracket, Found, NotFound, file
<1>3. CASE ScanFails
  BY <1>3 DEF ScanFails, TypeInv, Phases, Scanned, Empty, SameSymbols, Searching, Bracket, Found,
     NotFound, file, search
<1>4. CASE Sort
  <2>1. TypeInv' /\ SameSymbols'
    <3>1. CASE all
      <4>1. PICK p \in Orders(slice) :
              slice' = [k \in DOMAIN slice |-> slice[p[k]]] /\ Sorted(slice')
        BY <1>4, <3>1 DEF Sort
      <4>2. /\ slice' \in Seq(Syms) /\ Len(slice') = Len(slice) /\ DOMAIN slice' = DOMAIN slice
            /\ \A k \in DOMAIN slice' : \E m \in DOMAIN slice : slice[m] = slice'[k]
            /\ \A m \in DOMAIN slice : \E k \in DOMAIN slice' : slice'[k] = slice[m]
        <5>1. slice \in Seq(Syms)
          BY DEF TypeInv
        <5>0. p \in Orders(slice)
          BY <4>1
        <5>2. /\ [k \in DOMAIN slice |-> slice[p[k]]] \in Seq(Syms)
              /\ Len([k \in DOMAIN slice |-> slice[p[k]]]) = Len(slice)
              /\ \A k \in DOMAIN slice : \E m \in DOMAIN slice : slice[m] = slice[p[k]]
              /\ \A m \in DOMAIN slice : \E k \in DOMAIN slice : slice[p[k]] = slice[m]
          BY <5>0, <5>1, Rearranged
        <5>3. DOMAIN slice' = DOMAIN slice /\ \A k \in DOMAIN slice : slice'[k] = slice[p[k]]
          BY <4>1
        <5> QED
          BY <4>1, <5>2, <5>3
      <4>3. DOMAIN slice = DOMAIN kallsyms /\ \A k \in DOMAIN slice : slice[k] = kallsyms[k]
        BY <1>4, <3>1 DEF Sort, TypeInv, Scanned
      <4>4. /\ \A k \in DOMAIN slice' : \E m \in DOMAIN kallsyms : kallsyms[m] = slice'[k]
            /\ \A m \in DOMAIN kallsyms : \E k \in DOMAIN slice' : slice'[k] = kallsyms[m]
        BY <4>2, <4>3
      <4> QED
        BY <1>4, <3>1, <4>1, <4>2, <4>4 DEF Sort, TypeInv, Phases, SameSymbols, file, search
    <3>2. CASE ~all
      <4>1. slice' = <<>>
        BY <1>4, <3>2 DEF Sort, Empty
      <4> QED
        BY <1>4, <3>2, <4>1 DEF Sort, TypeInv, Phases, SameSymbols, Sorted, file, search
    <3> QED
      BY <3>1, <3>2 DEF TypeInv
  <2> QED
    BY <1>4, <2>1 DEF Sort, Scanned, Empty, Bracket, Found, NotFound
<1>5. CASE Call
  <2>1. ip' \in Nat
    BY <1>5, AddrAssumption DEF Call
  <2>2. TypeInv'
    BY <1>5, <2>1 DEF Call, TypeInv, Phases, file
  <2>3. SameSymbols'
    BY <1>5 DEF Call, SameSymbols, Searching, Sorted, file
  <2> QED
    BY <1>5, <2>2, <2>3 DEF Call, TypeInv, Scanned, Empty, Bracket, Found, NotFound, file
<1>6. CASE Halve
  <2>0. /\ Middle \in Nat /\ i <= Middle /\ Middle < j /\ j <= Len(slice)
        /\ Middle + 1 \in DOMAIN slice /\ DOMAIN slice = 1..Len(slice)
    BY <1>6 DEF Halve, TypeInv, Bracket, Middle
  <2>a. \A k, m \in DOMAIN slice : k <= m => slice[k].addr <= slice[m].addr
    BY <1>6 DEF Halve, SameSymbols, Searching, Sorted
  <2>b. SameSymbols' /\ Scanned' /\ Empty' /\ NotFound'
    BY <1>6 DEF Halve, SameSymbols, Searching, Sorted, Scanned, Empty, NotFound, file
  <2>1. CASE Addr(Middle) > ip
    <3>1. \A k \in (Middle + 1)..Len(slice) : slice[k].addr > ip
      BY <1>0, <2>0, <2>a, <2>1 DEF Addr, TypeInv
    <3>2. j' = Middle /\ UNCHANGED <<pc, i, result, slice, ip>>
      BY <1>6, <2>1 DEF Halve
    <3>3. TypeInv'
      BY <1>6, <2>0, <3>2 DEF Halve, TypeInv, file
    <3>4. Bracket'
      BY <2>0, <3>1, <3>2 DEF Bracket
    <3> QED
      BY <1>6, <2>b, <3>2, <3>3, <3>4 DEF Halve, Found
  <2>2. CASE ~(Addr(Middle) > ip)
    <3>0. Addr(Middle) <= ip
      BY <1>0, <2>0, <2>2 DEF Addr, TypeInv
    <3>1. CASE Middle + 1 < Len(slice) /\ Addr(Middle + 1) > ip
      <4>1. pc' = "returned" /\ result' = Middle /\ UNCHANGED <<i, j, slice, ip>>
        BY <1>6, <2>2, <3>1 DEF Halve
      <4>2. Middle + 1 + 1 \in DOMAIN slice
        BY <2>0, <3>1
      <4>3. \A k \in DOMAIN slice : slice[k].addr <= ip => slice[k].addr <= slice[Middle + 1].addr
        <5> SUFFICES ASSUME NEW k \in DOMAIN slice, slice[k].addr <= ip
                     PROVE  slice[k].addr <= slice[Middle + 1].addr
          OBVIOUS
        <5>1. CASE k <= Middle + 1
          BY <2>0, <2>a, <5>1
        <5>2. CASE k > Middle + 1
          <6>1. slice[Middle + 1 + 1].addr <= slice[k].addr
            BY <2>0, <2>a, <4>2, <5>2
          <6> QED
            BY <1>0, <3>1, <4>2, <6>1 DEF Addr, TypeInv
        <5> QED
          BY <2>0, <5>1, <5>2
      <4>4. TypeInv'
        BY <1>6, <2>0, <4>1 DEF Halve, TypeInv, Phases, file
      <4>5. Found'
        BY <2>0, <3>0, <4>1, <4>3 DEF Found, Addr
      <4> QED
        BY <2>b, <4>1, <4>4, <4>5 DEF Bracket
    <3>2. CASE ~(Middle + 1 < Len(slice) /\ Addr(Middle + 1) > ip)
      <4>1. i' = Middle + 1 /\ UNCHANGED <<pc, j, result, slice, ip>>
        BY <1>6, <2>2, <3>2 DEF Halve
      <4>2. \A k \in 1..(Middle + 1) : slice[k].addr <= ip
        BY <1>0, <2>0, <2>a, <3>0 DEF Addr, TypeInv
      <4>3. TypeInv'
        BY <1>6, <2>0, <4>1 DEF Halve, TypeInv, file
      <4>4. Bracket'
        BY <2>0, <4>1, <4>2, <1>6 DEF Bracket, TypeInv
      <4> QED
        BY <1>6, <2>b, <4>1, <4>3, <4>4 DEF Halve, Found
    <3> QED
      BY <3>1, <3>2
  <2> QED
    BY <2>1, <2>2
<1>7. CASE LoopEnds
  <2>b. SameSymbols' /\ Scanned' /\ Empty' /\ Bracket'
    BY <1>7 DEF LoopEnds, SameSymbols, Searching, Sorted, Scanned, Empty, Bracket, file
  <2>a. /\ i = j /\ i <= Len(slice) /\ DOMAIN slice = 1..Len(slice)
        /\ \A k \in 1..i : slice[k].addr <= ip
        /\ \A k \in (i + 1)..Len(slice) : slice[k].addr > ip
        /\ \A k, m \in DOMAIN slice : k <= m => slice[k].addr <= slice[m].addr
    BY <1>7 DEF LoopEnds, TypeInv, Bracket, SameSymbols, Searching, Sorted
  <2>1. CASE i = 0
    BY <1>7, <2>1, <2>a, <2>b DEF LoopEnds, TypeInv, Phases, Found, NotFound, file
  <2>2. CASE i # 0
    <3>1. i - 1 \in Nat /\ i \in DOMAIN slice /\ (i - 1) + 1 = i
      BY <2>2, <2>a DEF TypeInv
    <3>2. pc' = "returned" /\ result' = i - 1 /\ UNCHANGED <<slice, ip, i, j>>
      BY <1>7, <2>2 DEF LoopEnds
    <3>3. \A k \in DOMAIN slice : slice[k].addr <= ip => slice[k].addr <= slice[i].addr
      BY <1>0, <2>a, <3>1 DEF TypeInv
    <3>4. Found'
      BY <2>a, <3>1, <3>2, <3>3 DEF Found
    <3>5. TypeInv'
      BY <1>7, <3>1, <3>2 DEF LoopEnds, TypeInv, Phases, file
    <3> QED
      BY <2>b, <3>2, <3>4, <3>5 DEF NotFound
  <2> QED
    BY <2>1, <2>2
<1> QED
  BY <1>1, <1>2, <1>3, <1>4, <1>5, <1>6, <1>7 DEF Next

(* FindNearestSym returns the nearest symbol at or below the address, for  *)
(* every file, every address and every outcome of the unstable sort.       *)
THEOREM LookupNearest == Spec => []NearestBelow
<1>1. IInv => NearestBelow
  <2> SUFFICES ASSUME IInv, pc = "returned"
               PROVE  /\ slice[result + 1].addr <= ip
                      /\ \E k \in DOMAIN kallsyms : kallsyms[k] = slice[result + 1]
                      /\ \A k \in DOMAIN kallsyms :
                           kallsyms[k].addr <= ip => kallsyms[k].addr <= slice[result + 1].addr
    BY DEF NearestBelow
  <2>1. /\ result + 1 \in DOMAIN slice
        /\ slice[result + 1].addr <= ip
        /\ \A k \in DOMAIN slice : slice[k].addr <= ip => slice[k].addr <= slice[result + 1].addr
    BY DEF IInv, Found
  <2>2. all
    BY <2>1 DEF IInv, TypeInv, SameSymbols, Searching
  <2>3. /\ \A k \in DOMAIN slice : \E m \in DOMAIN kallsyms : kallsyms[m] = slice[k]
        /\ \A m \in DOMAIN kallsyms : \E k \in DOMAIN slice : slice[k] = kallsyms[m]
    BY <2>2 DEF IInv, SameSymbols, Searching
  <2> QED
    BY <2>1, <2>3
<1> QED
  BY <1>1, InitIInv, StepIInv, PTL DEF Spec

(* It panics only where there is no symbol to return.                      *)
THEOREM PanicsBelow == Spec => []PanicsOnlyBelow
<1>1. IInv => PanicsOnlyBelow
  BY DEF IInv, NotFound, SameSymbols, Searching, PanicsOnlyBelow
<1> QED
  BY <1>1, InitIInv, StepIInv, PTL DEF Spec
=============================================================================
