---------------------------- MODULE SymbolLookup ----------------------------
(***************************************************************************)
(* From an address of the kernel to the name of its function:              *)
(* utils/trace/ksym.go, and the same text in utils/socketrace/ksym.go.     *)
(* GetAddrs reads /proc/kallsyms into a slice sorted by address, and       *)
(* FindNearestSym searches it for the last symbol at or below an address.  *)
(* Addr2NameMap and Name2AddrMap, which the search does not read, are left *)
(* out.                                                                    *)
(***************************************************************************)
EXTENDS Naturals, Sequences

CONSTANTS
  Addrs, Names,   \* of the symbols
  Ips,            \* addresses looked up
  MaxLines        \* bound on the lines of /proc/kallsyms

ASSUME AddrAssumption == Addrs \subseteq Nat /\ Ips \subseteq Nat
ASSUME LinesAssumption == MaxLines \in Nat

Syms == [addr: Addrs, name: Names]

VARIABLES
  kallsyms,    \* the lines of the file, in no particular order: aliases share
               \* an address, and without privilege all addresses read as 0
  all,         \* GetAddrs' argument
  pc,
  read,        \* lines read
  slice,       \* Addr2NameSlice
  ip, i, j,    \* FindNearestSym's
  result       \* the index of the symbol it returned the name of

file   == <<kallsyms, all>>
search == <<ip, i, j, result>>
vars   == <<file, pc, read, slice, search>>

-----------------------------------------------------------------------------
(* GetAddrs.                                                               *)
Scan ==
  LET sym == kallsyms[read + 1] IN
  /\ pc = "scan" /\ read < Len(kallsyms)
  /\ read' = read + 1
  /\ slice' = IF all THEN Append(slice, sym) ELSE slice
  /\ UNCHANGED <<file, pc, search>>

(* The scanner's error is returned: nobody searches what was read so far.  *)
ScanFails ==
  /\ pc = "scan"
  /\ pc' = "failed"
  /\ UNCHANGED <<file, read, slice, search>>

(* Rearrangements of the indices of s.                                     *)
Orders(s) ==
  {p \in [DOMAIN s -> DOMAIN s] : \A k \in DOMAIN s : \E m \in DOMAIN s : p[m] = k}

Sorted(s) == \A k, m \in DOMAIN s : k <= m => s[k].addr <= s[m].addr

(* Mutant: the slice is sorted for the callers that do not use it.         *)
SortOthers ==
  /\ pc = "scan" /\ read = Len(kallsyms)
  /\ pc' = "sorted"
  /\ UNCHANGED <<file, read, slice, search>>

(* sort.Sort is not stable: symbols of one address come in any order.      *)
Sort ==
  /\ pc = "scan" /\ read = Len(kallsyms)
  /\ pc' = "sorted"
  /\ IF all
     THEN \E p \in Orders(slice) :
            /\ slice' = [k \in DOMAIN slice |-> slice[p[k]]]
            /\ Sorted(slice')
     ELSE UNCHANGED slice
  /\ UNCHANGED <<file, read, search>>

-----------------------------------------------------------------------------
(* FindNearestSym.                                                         *)
Call ==
  /\ pc = "sorted"
  /\ pc' = "loop"
  /\ ip' \in Ips
  /\ i' = 0 /\ j' = Len(slice)
  /\ UNCHANGED <<file, read, slice, result>>

(* The slice is indexed from 0 in the code, from 1 here.                   *)
Addr(h) == slice[h + 1].addr

Middle == (i + j) \div 2

(* Mutant: the search goes on with h itself.                               *)
HalveAgain ==
  /\ pc = "loop" /\ i < j
  /\ IF Addr(Middle) > ip
     THEN j' = Middle /\ UNCHANGED <<pc, i, result>>
     ELSE IF Middle + 1 < Len(slice) /\ Addr(Middle + 1) > ip
          THEN pc' = "returned" /\ result' = Middle /\ UNCHANGED <<i, j>>
          ELSE i' = Middle /\ UNCHANGED <<pc, j, result>>
  /\ UNCHANGED <<file, read, slice, ip>>

(* Mutant: a symbol of exactly this address is above it.                   *)
HalveStrictly ==
  /\ pc = "loop" /\ i < j
  /\ IF Addr(Middle) >= ip
     THEN j' = Middle /\ UNCHANGED <<pc, i, result>>
     ELSE IF Middle + 1 < Len(slice) /\ Addr(Middle + 1) > ip
          THEN pc' = "returned" /\ result' = Middle /\ UNCHANGED <<i, j>>
          ELSE i' = Middle + 1 /\ UNCHANGED <<pc, j, result>>
  /\ UNCHANGED <<file, read, slice, ip>>

(* One turn of the loop.                                                   *)
Halve ==
  /\ pc = "loop" /\ i < j
  /\ IF Addr(Middle) > ip
     THEN j' = Middle /\ UNCHANGED <<pc, i, result>>
     ELSE IF Middle + 1 < Len(slice) /\ Addr(Middle + 1) > ip
          THEN pc' = "returned" /\ result' = Middle /\ UNCHANGED <<i, j>>
          ELSE i' = Middle + 1 /\ UNCHANGED <<pc, j, result>>
  /\ UNCHANGED <<file, read, slice, ip>>

(* After the loop the symbol before i; index -1 panics.                    *)
LoopEnds ==
  /\ pc = "loop" /\ i >= j
  /\ IF i = 0 THEN pc' = "panicked" /\ UNCHANGED result
              ELSE pc' = "returned" /\ result' = i - 1
  /\ UNCHANGED <<file, read, slice, ip, i, j>>

Init ==
  /\ kallsyms \in UNION {[1..n -> Syms] : n \in 0..MaxLines}
  /\ all \in BOOLEAN
  /\ pc = "scan" /\ read = 0 /\ slice = <<>>
  /\ ip = 0 /\ i = 0 /\ j = 0 /\ result = 0

Next == Scan \/ ScanFails \/ Sort \/ Call \/ Halve \/ LoopEnds

(* The function runs on until it returns.                                  *)
Spec == Init /\ [][Next]_vars /\ WF_vars(Next)

-----------------------------------------------------------------------------
(* What FindNearestSym's name says: the symbol it returns is one of the    *)
(* file, at or below the address, and none of the file is nearer, whatever *)
(* the order of the file and however many symbols share an address.        *)
NearestBelow ==
  pc = "returned" =>
    LET sym == slice[result + 1] IN
    /\ sym.addr <= ip
    /\ \E k \in DOMAIN kallsyms : kallsyms[k] = sym
    /\ \A k \in DOMAIN kallsyms : kallsyms[k].addr <= ip => kallsyms[k].addr <= sym.addr

(* The index -1 is reached only where there is no answer: below the first  *)
(* symbol, or when the table was read for some functions only and the      *)
(* slice is empty.                                                         *)
PanicsOnlyBelow ==
  pc = "panicked" /\ all => \A k \in DOMAIN kallsyms : kallsyms[k].addr > ip

(* The loop ends.                                                          *)
Terminates == <>(pc \in {"returned", "panicked", "failed"})
=============================================================================
