------------------------------ MODULE Tracers ------------------------------
(***************************************************************************)
(* The tracers whose programs leave something for the next one: IptTrace   *)
(* under the id of the task, EthtoolTrace and UnixSock in an element of    *)
(* the CPU.  They are loaded by processes of their own and share nothing,  *)
(* so a behaviour is one of them.                                          *)
(***************************************************************************)
EXTENDS IptTrace

CONSTANTS
  Requesters, Cpus, Cmds, Devs, Freed,                      \* EthtoolTrace's
  Senders, Messages, SockPaths, WORD, PathMax, SegsPerMsg,  \* UnixSock's
  NULL

VARIABLES
  tracer,                                   \* the one of this behaviour
  call, on, cache, preempt, noted, pointed, \* EthtoolTrace's
  sockPath, send, pkt, output, clean        \* UnixSock's

ethVars == <<call, on, cache, preempt, noted, pointed>>
uskVars == <<sockPath, send, pkt, output, clean>>

Eth == INSTANCE EthtoolTrace WITH Tasks <- Requesters, None <- NULL
Usk == INSTANCE UnixSock WITH Tasks <- Senders, None <- NULL, event <- output

(* A task is no pointer to a request that is over, and not NULL.           *)
Pointers == NULL \notin Requesters /\ Freed \notin Requesters

(* A path has no zero bytes; sock_path fits into its array; an array of    *)
(* UNIX_PATH_MAX bytes is whole words and half a word, as                  *)
(* __is_path_matched takes it apart.                                       *)
Path(p) == p \in Seq(Nat \ {0})

MessageType ==
  [own: Seq(Nat \ {0}) \cup {NULL}, peer: Seq(Nat \ {0}) \cup {NULL}, segs: Nat, flat: BOOLEAN]

Sizes ==
  /\ WORD \in Nat \ {0} /\ PathMax \in Nat \ {0} /\ SegsPerMsg \in Nat
  /\ PathMax = (PathMax \div WORD) * WORD + WORD \div 2
  /\ \A p \in SockPaths : Path(p) /\ Len(p) <= PathMax
  /\ Messages \subseteq MessageType

ASSUME PointerAssumption == Pointers
ASSUME SizeAssumption == Sizes

-----------------------------------------------------------------------------
NoEth ==
  /\ call = NULL /\ on = NULL /\ cache = NULL
  /\ preempt = NULL /\ noted = NULL /\ pointed = NULL
NoUsk ==
  sockPath = NULL /\ send = NULL /\ pkt = NULL /\ output = NULL /\ clean = NULL

TracersInit ==
  \/ tracer = "iptables" /\ Init /\ NoEth /\ NoUsk
  \/ tracer = "ethtool" /\ Init /\ ~steals /\ Eth!Init /\ NoUsk
  \/ tracer = "unix" /\ Init /\ ~steals /\ NoEth /\ Usk!Init

TracersNext ==
  \/ tracer = "iptables" /\ Next /\ UNCHANGED <<tracer, ethVars, uskVars>>
  \/ tracer = "ethtool" /\ Eth!Next /\ UNCHANGED <<tracer, vars, uskVars>>
  \/ tracer = "unix" /\ Usk!Next /\ UNCHANGED <<tracer, vars, ethVars>>

tracersVars == <<tracer, vars, ethVars, uskVars>>

TracersSpec == TracersInit /\ [][TracersNext]_tracersVars

(* OwnDevice and OwnCommand of EthtoolTrace: an event of a request names   *)
(* the device that request found, and carries its command.                 *)
DeviceIsOwn     == [][tracer = "ethtool" => Eth!OwnDevice]_ethVars
CommandIsOwn    == [][tracer = "ethtool" => Eth!OwnCommand]_ethVars

(* What UnixSock states under these names: a packet is about one message,  *)
(* and every message of a watched path is reported, no other.              *)
PacketsTrue     == tracer = "unix" => Usk!PacketsTrue
WatchedReported == tracer = "unix" => Usk!WatchedReported
=============================================================================
