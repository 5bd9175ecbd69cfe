----------------------------- MODULE Lifecycle -----------------------------
(***************************************************************************)
(* The life of the tracer's process, cmd/ebpf/main.go: main starts         *)
(* tcp.Run and nftables.Run as goroutines and waits for a signal.  The     *)
(* first hands its conn_ctx_map to the second over an unbuffered channel;  *)
(* the second also keeps a table, Et_Table, in the kernel, which outlives  *)
(* the process.  Any log.Fatalf ends the process without deferred calls,   *)
(* and so does main when it returns before the goroutines have.            *)
(***************************************************************************)
EXTENDS Naturals

CONSTANT MaxBoots     \* how often the process is started

ASSUME MaxBootsAssumption == MaxBoots \in Nat

VARIABLES
  boots,      \* starts so far
  main,       \* "down", or "wait": at <-ctx.Done()
  signalled,  \* SIGINT or SIGTERM came: main's context is done
  tcp, nft,   \* where the two goroutines are
  tcpDone,    \* the context tcp.Run made for itself is done
  tcpMap,     \* the conn_ctx_map of tcp's collection: none, open, closed
  nftMap,     \* the conn_ctx_map of nftables' collection: none, own, tcp
  given,      \* what the options callback put into MapReplacements
  links,      \* collections whose programs are attached
  reader,     \* handlePerfEvent
  table       \* rules in Et_Table in the kernel, 0 when there is no table

vars == <<boots, main, signalled, tcp, nft, tcpDone, tcpMap, nftMap, given, links, reader, table>>

(* The process is gone: goroutines, maps and links with it, not the table. *)
Exit ==
  /\ main' = "down" /\ tcp' = "none" /\ nft' = "none" /\ reader' = "none"
  /\ tcpMap' = "none" /\ nftMap' = "none" /\ given' = "none" /\ links' = {}
  /\ UNCHANGED <<boots, signalled, tcpDone, table>>

Boot ==
  /\ main = "down" /\ boots < MaxBoots
  /\ boots' = boots + 1
  /\ main' = "wait" /\ tcp' = "start" /\ nft' = "add"
  /\ signalled' = FALSE /\ tcpDone' = FALSE
  /\ UNCHANGED <<tcpMap, nftMap, given, links, reader, table>>

(* NotifyContext of main, and the one tcp.Run puts in its place: a signal  *)
(* that comes before tcp.Run has called it is not seen there.              *)
Signal ==
  /\ main = "wait" /\ ~signalled
  /\ signalled' = TRUE
  /\ tcpDone' = (tcp # "start")
  /\ UNCHANGED <<boots, main, tcp, nft, tcpMap, nftMap, given, links, reader, table>>

(* Mutant: main waits for both goroutines.                                 *)
MainReturnWaits ==
  /\ main = "wait" /\ signalled
  /\ tcp = "done" /\ nft = "done"
  /\ Exit

MainReturn ==
  /\ main = "wait" /\ signalled
  /\ Exit

-----------------------------------------------------------------------------
(* tcp.Run.                                                                *)
TcpStart ==
  /\ tcp = "start"
  /\ \/ tcp' = "load" /\ UNCHANGED <<boots, main, signalled, nft, tcpDone, tcpMap, nftMap, given,
                                     links, reader, table>>
     \/ Exit

(* loadTcpconn and NewCollection, each followed by a Check.                *)
TcpLoad ==
  /\ tcp = "load"
  /\ \/ /\ tcp' = "send" /\ tcpMap' = "open"
        /\ UNCHANGED <<boots, main, signalled, nft, tcpDone, nftMap, given, links, reader, table>>
     \/ Exit

(* Mutant: the sender does not wait for the receiver.                      *)
HandoverDrops ==
  /\ tcp = "send"
  /\ tcp' = "attach"
  /\ IF nft = "receive" THEN nft' = "create" /\ given' = "tcp" ELSE UNCHANGED <<nft, given>>
  /\ UNCHANGED <<boots, main, signalled, tcpDone, tcpMap, nftMap, links, reader, table>>

(* `mapChan <-' meets `<-mapChan'.                                         *)
Handover ==
  /\ tcp = "send" /\ nft = "receive"
  /\ tcp' = "attach" /\ nft' = "create" /\ given' = "tcp"
  /\ UNCHANGED <<boots, main, signalled, tcpDone, tcpMap, nftMap, links, reader, table>>

(* AttachAll of all its programs, or the Check of one that fails.          *)
TcpAttach ==
  /\ tcp = "attach"
  /\ \/ /\ tcp' = "wait" /\ links' = links \cup {"tcp"} /\ reader' = "starting"
        /\ UNCHANGED <<boots, main, signalled, nft, tcpDone, tcpMap, nftMap, given, table>>
     \/ Exit

(* The deferred calls: the closers of AttachAll, then obj.Close.           *)
TcpDetach ==
  /\ tcp = "wait" /\ tcpDone
  /\ tcp' = "close" /\ links' = links \ {"tcp"}
  /\ UNCHANGED <<boots, main, signalled, nft, tcpDone, tcpMap, nftMap, given, reader, table>>

TcpClose ==
  /\ tcp = "close"
  /\ tcp' = "done" /\ tcpMap' = "closed"
  /\ UNCHANGED <<boots, main, signalled, nft, tcpDone, nftMap, given, links, reader, table>>

(* handlePerfEvent: without a reader it logs and returns, and nobody takes *)
(* events out of the ring; the signal closes the reader.                   *)
ReaderStart ==
  /\ reader = "starting"
  /\ reader' \in IF tcpMap = "open" THEN {"reading", "failed"} ELSE {"failed"}
  /\ UNCHANGED <<boots, main, signalled, tcp, nft, tcpDone, tcpMap, nftMap, given, links, table>>

ReaderClose ==
  /\ reader = "reading" /\ tcpDone
  /\ reader' = "closed"
  /\ UNCHANGED <<boots, main, signalled, tcp, nft, tcpDone, tcpMap, nftMap, given, links, table>>

-----------------------------------------------------------------------------
(* nftables.Run.                                                           *)

(* Mutant: the transaction adds a rule to what is there.                   *)
NftAddMore ==
  /\ nft = "add"
  /\ \/ /\ nft' = "modules"
        /\ table' \in {table, table + 1}
        /\ UNCHANGED <<boots, main, signalled, tcp, tcpDone, tcpMap, nftMap, given, links, reader>>
     \/ Exit

(* nft.Add: one transaction that adds the table and the chain, flushes     *)
(* them and adds the rule; its error is dropped.  A NotFound from New      *)
(* leaves a nil interface, and the call on it panics.                      *)
NftAdd ==
  /\ nft = "add"
  /\ \/ /\ nft' = "modules"
        /\ table' \in {table, 1}
        /\ UNCHANGED <<boots, main, signalled, tcp, tcpDone, tcpMap, nftMap, given, links, reader>>
     \/ Exit

(* Is nf_tables loaded?                                                    *)
NftModules ==
  /\ nft = "modules"
  /\ \/ nft' = "receive" /\ UNCHANGED <<boots, main, signalled, tcp, tcpDone, tcpMap, nftMap, given,
                                        links, reader, table>>
     \/ Exit

(* Mutant: the collection makes its own map.                               *)
NftCreateOwn ==
  /\ nft = "create"
  /\ \/ /\ nft' = "attach" /\ nftMap' = "own"
        /\ UNCHANGED <<boots, main, signalled, tcp, tcpDone, tcpMap, given, links, reader, table>>
     \/ Exit

(* The replacement is cloned; cloning a closed map fails, fatally.         *)
NftCreate ==
  /\ nft = "create"
  /\ \/ /\ tcpMap = "open"
        /\ nft' = "attach" /\ nftMap' = given
        /\ UNCHANGED <<boots, main, signalled, tcp, tcpDone, tcpMap, given, links, reader, table>>
     \/ Exit

NftAttach ==
  /\ nft = "attach"
  /\ \/ /\ nft' = "wait" /\ links' = links \cup {"nft"}
        /\ UNCHANGED <<boots, main, signalled, tcp, tcpDone, tcpMap, nftMap, given, reader, table>>
     \/ Exit

(* The reader goroutine ends the process when it cannot read.              *)
NftReaderFails ==
  /\ nft = "wait"
  /\ Exit

NftDetach ==
  /\ nft = "wait" /\ signalled
  /\ nft' = "remove" /\ links' = links \ {"nft"}
  /\ UNCHANGED <<boots, main, signalled, tcp, tcpDone, tcpMap, nftMap, given, reader, table>>

(* nft.Remove, its error dropped as well.                                  *)
NftRemove ==
  /\ nft = "remove"
  /\ nft' = "done"
  /\ table' \in {table, 0}
  /\ UNCHANGED <<boots, main, signalled, tcp, tcpDone, tcpMap, nftMap, given, links, reader>>

-----------------------------------------------------------------------------
Init ==
  /\ boots = 0 /\ main = "down" /\ signalled = FALSE /\ tcpDone = FALSE
  /\ tcp = "none" /\ nft = "none" /\ reader = "none"
  /\ tcpMap = "none" /\ nftMap = "none" /\ given = "none"
  /\ links = {} /\ table = 0

TcpNext == TcpStart \/ TcpLoad \/ Handover \/ TcpAttach \/ TcpDetach \/ TcpClose
NftNext == NftAdd \/ NftModules \/ NftCreate \/ NftAttach \/ NftDetach \/ NftRemove
ReaderNext == ReaderStart \/ ReaderClose

Next == Boot \/ Signal \/ MainReturn \/ TcpNext \/ NftNext \/ ReaderNext \/ NftReaderFails

(* A goroutine that can run does run; the user and the kernel's failures   *)
(* owe nothing.                                                            *)
Fairness ==
  /\ WF_vars(MainReturn)
  /\ WF_vars(TcpNext)
  /\ WF_vars(NftNext)
  /\ WF_vars(ReaderNext)

Spec == Init /\ [][Next]_vars /\ Fairness

-----------------------------------------------------------------------------
(* However often the process died with the table in place, the chain holds *)
(* the nftrace rule at most once: Add flushes what a dead process left.    *)
OneTraceRule == table <= 1

(* nftrace looks connections up in the map tcp-link-trace writes: no       *)
(* program of the nft collection is ever attached with a map of its own.   *)
RolesAreShared == "nft" \in links => nftMap = "tcp"

(* The handover never wedges the start: without a signal both collections  *)
(* get attached and a reader takes events, unless something fails.         *)
EventuallyTracing ==
  main = "wait" ~> \/ links = {"tcp", "nft"} /\ reader \in {"reading", "failed"}
                   \/ signalled
                   \/ main = "down"

(* A signal ends the process, whatever the goroutines wait for, also the   *)
(* one whose own context missed the signal.                                *)
SignalEnds == signalled /\ main = "wait" ~> main = "down"
=============================================================================
