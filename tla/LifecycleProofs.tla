-------------------------- MODULE LifecycleProofs --------------------------
(***************************************************************************)
(* Theorems about the process that loads the tracers: what it leaves in    *)
(* the kernel and attaches there, however often and wherever it dies.      *)
(***************************************************************************)
EXTENDS Lifecycle, TLAPS

(* A table of an earlier process has one rule; the flush in Add makes it   *)
(* so again, whatever was found.                                           *)
OneTable == table \in {0, 1}

(* The map in nftables' collection is decided before its programs are      *)
(* attached, and they are detached before anything else becomes of it; a   *)
(* process that is gone has left nothing attached.                         *)
MapIsPassedOn ==
  /\ main = "down" => nft = "none"
  /\ nft = "create" => given = "tcp"
  /\ nft \in {"attach", "wait"} => nftMap = "tcp"
  /\ "nft" \in links => nft = "wait"

LEMMA ProcessInit == Init => OneTable /\ MapIsPassedOn
BY DEF Init, OneTable, MapIsPassedOn

LEMMA OneTableStep == OneTable /\ [Next]_vars => OneTable'
<1> SUFFICES ASSUME OneTable, [Next]_vars PROVE OneTable'
  OBVIOUS
<1>1. CASE NftAdd
  BY <1>1 DEF NftAdd, Exit, OneTable
<1>2. CASE NftRemove
  BY <1>2 DEF NftRemove, OneTable
<1>3. CASE UNCHANGED table
  BY <1>3 DEF OneTable
<1>4. CASE TcpNext \/ ReaderNext
  BY <1>3, <1>4 DEF TcpNext, TcpStart, TcpLoad, Handover,
     TcpAttach, TcpDetach, TcpClose, ReaderNext,
     ReaderStart, ReaderClose, Exit
<1>5. CASE NftModules \/ NftCreate \/ NftAttach \/ NftDetach
  BY <1>3, <1>5 DEF NftModules, NftCreate, NftAttach,
     NftDetach, Exit
<1>6. CASE \/ Boot \/ Signal \/ MainReturn \/ NftReaderFails
           \/ UNCHANGED vars
  BY <1>3, <1>6 DEF Boot, Signal, MainReturn,
     NftReaderFails, Exit, vars
<1> QED
  BY <1>1, <1>2, <1>4, <1>5, <1>6 DEF Next, NftNext

(* Only the steps of nftables.Run, and the end of the process, concern it. *)
LEMMA MapStep == MapIsPassedOn /\ [Next]_vars => MapIsPassedOn'
<1> SUFFICES ASSUME MapIsPassedOn, [Next]_vars PROVE MapIsPassedOn'
  OBVIOUS
<1>1. ASSUME Exit PROVE MapIsPassedOn'
  BY <1>1 DEF Exit, MapIsPassedOn
<1>2. ASSUME UNCHANGED <<main, nft, nftMap, given>>, links' \subseteq links \cup {"tcp"}
      PROVE  MapIsPassedOn'
  BY <1>2 DEF MapIsPassedOn
<1>3. CASE Boot \/ Signal \/ MainReturn \/ NftReaderFails
  BY <1>1, <1>2, <1>3 DEF Boot, Signal, MainReturn,
     NftReaderFails, MapIsPassedOn
<1>4. CASE Handover
  BY <1>4 DEF Handover, MapIsPassedOn
<1>5. CASE TcpStart \/ TcpLoad \/ TcpAttach \/ TcpDetach
           \/ TcpClose
  BY <1>1, <1>2, <1>5 DEF TcpStart, TcpLoad, TcpAttach,
     TcpDetach, TcpClose
<1>6. CASE NftAdd \/ NftModules
  BY <1>1, <1>6 DEF NftAdd, NftModules, MapIsPassedOn
<1>7. CASE NftCreate \/ NftAttach
  BY <1>1, <1>7 DEF NftCreate, NftAttach, MapIsPassedOn
<1>8. CASE NftDetach \/ NftRemove
  BY <1>8 DEF NftDetach, NftRemove, MapIsPassedOn
<1>9. CASE ReaderNext \/ UNCHANGED vars
  BY <1>2, <1>9 DEF ReaderNext, ReaderStart, ReaderClose, vars
<1> QED
  BY <1>3, <1>4, <1>5, <1>6, <1>7, <1>8, <1>9 DEF Next, TcpNext, NftNext

(* OneTraceRule: of all the processes that added the nftrace rule and died *)
(* with it in place, the chain never holds more than one rule.             *)
THEOREM OneRule == Spec => []OneTraceRule
<1>1. OneTable => OneTraceRule
  BY DEF OneTable, OneTraceRule
<1>2. QED
  BY <1>1, ProcessInit, OneTableStep, PTL DEF Spec

(* RolesAreShared: while the programs of the nftables collection are       *)
(* attached, they look roles up in the map tcp-link-trace writes, also in  *)
(* a process started after others.                                         *)
THEOREM MapShared == Spec => []RolesAreShared
<1>1. MapIsPassedOn => RolesAreShared
  BY DEF MapIsPassedOn, RolesAreShared
<1>2. QED
  BY <1>1, ProcessInit, MapStep, PTL DEF Spec
=============================================================================
