------------------------------ MODULE UnixSock ------------------------------
(***************************************************************************)
(* The unix socket tracer, ebpf/unix-sock-trace.c, on one CPU.  A message  *)
(* sent over a unix socket whose path, or whose peer's, begins with        *)
(* cfg.sock_path is reported segment by segment, once by a kprobe and once *)
(* by a fentry program.  Both build their packets in the CPU's element of  *)
(* `packets'.  A kprobe program runs to its end.  A fentry program stays   *)
(* on its CPU, but tasks that preempt it there send messages too, whose    *)
(* programs use the same element; the program that is interrupted is       *)
(* itself skipped for them (prog->active).                                 *)
(***************************************************************************)
EXTENDS Naturals, Sequences

CONSTANTS
  Tasks,
  Messages,    \* messages: `own' and `peer', the paths (sequences of non-zero
               \* bytes) of the sender's and the peer's socket, if they have one;
               \* `segs', the number of segments; and whether the iterator is
               \* `flat', ITER_IOVEC at offset 0, as collect_data needs it
  SockPaths,   \* what cfg.sock_path may be set to: such sequences
  WORD,        \* bytes of a __u64, an even number
  PathMax,     \* UNIX_PATH_MAX: whole words and half a word
  SegsPerMsg,  \* the smaller of cfg.segs_per_msg and SS_MAX_SEGS_PER_MSG
  None

VARIABLES
  sockPath,    \* cfg.sock_path
  send,        \* each task's call: its message, and where its programs are
  pkt,         \* the element of `packets'; the data of a message whose call
               \* is over is None
  event,       \* what a program sent in the last step, and for what message
  clean        \* tasks whose fentry program has had the element for itself
               \* since it began (auxiliary)

vars == <<sockPath, send, pkt, event, clean>>

Idle == [pc |-> "idle"]
Bytes == 1..PathMax
Words == 0..(PathMax \div WORD - 1)

-----------------------------------------------------------------------------
(* bpf_probe_read_kernel_str: at most PathMax bytes, the last one zero; the *)
(* bytes behind keep what they held.                                       *)
ReadStr(buf, path) ==
  [i \in Bytes |->
     IF i <= Len(path) /\ i < PathMax THEN path[i]
     ELSE IF i = Len(path) + 1 \/ i = PathMax THEN 0
     ELSE buf[i]]

(* cfg.sock_path in its array, zeros behind.                               *)
Cfg(i) == IF i <= Len(sockPath) THEN sockPath[i] ELSE 0

(* __is_str_prefix from byte `from' on.                                    *)
IsStrPrefix(buf, from, siz) ==
  \A i \in 1..siz : (\A j \in 1..i : Cfg(from + j) # 0) => buf[from + i] = Cfg(from + i)

(* Mutant: the remainder behind the last whole word is taken for equal.    *)
IsPathMatchedWhole(buf) ==
  LET Zero(w)    == \A j \in 1..WORD : Cfg(w * WORD + j) = 0
      Differs(w) == \E j \in 1..WORD : buf[w * WORD + j] # Cfg(w * WORD + j)
      stops      == {w \in Words : Zero(w) \/ Differs(w)}
  IN \A w \in stops : (\A v \in stops : w <= v) => Zero(w) \/ IsStrPrefix(buf, w * WORD, WORD)

(* __is_path_matched: word by word up to the first one that differs, or is *)
(* behind the end of sock_path; at the last byte wise.                     *)
IsPathMatched(buf) ==
  LET Zero(w)    == \A j \in 1..WORD : Cfg(w * WORD + j) = 0
      Differs(w) == \E j \in 1..WORD : buf[w * WORD + j] # Cfg(w * WORD + j)
      stops      == {w \in Words : Zero(w) \/ Differs(w)}
  IN IF stops = {}
     THEN IsStrPrefix(buf, (PathMax \div WORD) * WORD, WORD \div 2)
     ELSE \A w \in stops : (\A v \in stops : w <= v) => Zero(w) \/ IsStrPrefix(buf, w * WORD, WORD)

-----------------------------------------------------------------------------
(* What a program puts into the element, one function of usk_send_msg each. *)
FillProcess(p, t) == [p EXCEPT !.proc = t]

ErrPacket(p) == [p EXCEPT !.err = TRUE]

(* Mutant: the flag of an earlier packet stays.                            *)
CollectDataKeeps(p, t, seg) == [p EXCEPT !.data = [of |-> t, seg |-> seg]]
CollectData(p, t, seg) == [p EXCEPT !.err = FALSE, !.data = [of |-> t, seg |-> seg]]

Least(a, b) == IF a < b THEN a ELSE b
NumSegs(msg) == Least(msg.segs, SegsPerMsg)

(* The packet as user space reads it: the path ends at its first zero.     *)
Output(p) ==
  LET end == CHOOSE i \in Bytes : p.path[i] = 0 /\ \A j \in 1..(i - 1) : p.path[j] # 0
  IN [proc |-> p.proc, err |-> p.err, data |-> p.data, path |-> SubSeq(p.path, 1, end - 1)]

Silent == event' = None
Sends(t, packets, whole, own) ==
  event' = [by |-> t, msg |-> send[t].msg, seg |-> send[t].seg, packets |-> packets,
            whole |-> whole, own |-> own]

(* The path that decides: the socket's own, else its peer's.               *)
AfterMatch(p, msg) ==
  LET own == IF msg.own = None THEN p ELSE [p EXCEPT !.path = ReadStr(p.path, msg.own)] IN
  IF msg.own # None /\ IsPathMatched(own.path) THEN [pkt |-> own, matched |-> TRUE]
  ELSE IF msg.peer = None THEN [pkt |-> own, matched |-> FALSE]
  ELSE LET peer == [own EXCEPT !.path = ReadStr(own.path, msg.peer)]
       IN [pkt |-> peer, matched |-> IsPathMatched(peer.path)]

-----------------------------------------------------------------------------
(* A task calls unix_stream_sendmsg or unix_dgram_sendmsg.                 *)
Send(t) ==
  /\ send[t].pc = "idle"
  /\ \E prog \in {"stream", "dgram"}, msg \in Messages :
       send' = [send EXCEPT ![t] = [pc |-> "called", prog |-> prog, msg |-> msg,
                                    seg |-> 0, kprobe |-> FALSE]]
  /\ Silent
  /\ UNCHANGED <<sockPath, pkt, clean>>

Goto(t, label) == send' = [send EXCEPT ![t].pc = label]
Fentry == {"read", "match", "peer", "matchpeer", "fill", "copy", "output"}
Others(t) == clean' = clean \cap {t}

(* The kprobe program, before or after the fentry program.                 *)
Kprobe(t) ==
  /\ send[t].pc \in {"called", "traced"} /\ ~send[t].kprobe
  /\ send' = [send EXCEPT ![t].kprobe = TRUE]
  /\ LET m == AfterMatch(pkt, send[t].msg)
         n == IF m.matched /\ send[t].msg.flat THEN NumSegs(send[t].msg) ELSE 0
         head == FillProcess(m.pkt, t)
         Seg(i) == CollectData(head, t, i)
     IN IF ~m.matched
        THEN pkt' = m.pkt /\ Sends(t, <<>>, TRUE, TRUE)
        ELSE IF ~send[t].msg.flat
        THEN pkt' = ErrPacket(head) /\ Sends(t, <<Output(ErrPacket(head))>>, TRUE, TRUE)
        ELSE /\ pkt' = IF n = 0 THEN head ELSE Seg(n)
             /\ Sends(t, [i \in 1..n |-> Output(Seg(i))], TRUE, TRUE)
  /\ Others(t)
  /\ UNCHANGED sockPath

(* The fentry program, step by step, unless it is interrupted already.     *)
FentryBegin(t) ==
  /\ send[t].pc = "called"
  /\ IF \E u \in Tasks : send[u].pc \in Fentry /\ send[u].prog = send[t].prog
     THEN Goto(t, "traced") /\ UNCHANGED clean
     ELSE Goto(t, IF send[t].msg.own = None THEN "peer" ELSE "read") /\ clean' = {t}
  /\ Silent
  /\ UNCHANGED <<sockPath, pkt>>

ReadOwn(t) ==
  /\ send[t].pc = "read"
  /\ Goto(t, "match")
  /\ pkt' = [pkt EXCEPT !.path = ReadStr(pkt.path, send[t].msg.own)]
  /\ Others(t) /\ Silent
  /\ UNCHANGED sockPath

Match(t) ==
  /\ send[t].pc \in {"match", "matchpeer"}
  /\ Goto(t, IF IsPathMatched(pkt.path) THEN "fill"
             ELSE IF send[t].pc = "match" THEN "peer" ELSE "traced")
  /\ Silent
  /\ UNCHANGED <<sockPath, pkt, clean>>

ReadPeer(t) ==
  /\ send[t].pc = "peer"
  /\ IF send[t].msg.peer = None
     THEN Goto(t, "traced") /\ UNCHANGED <<pkt, clean>>
     ELSE /\ Goto(t, "matchpeer")
          /\ pkt' = [pkt EXCEPT !.path = ReadStr(pkt.path, send[t].msg.peer)]
          /\ Others(t)
  /\ Silent
  /\ UNCHANGED sockPath

Fill(t) ==
  /\ send[t].pc = "fill"
  /\ Goto(t, IF send[t].msg.flat /\ NumSegs(send[t].msg) = 0 THEN "traced" ELSE "copy")
  /\ pkt' = FillProcess(pkt, t)
  /\ Others(t) /\ Silent
  /\ UNCHANGED sockPath

Copy(t) ==
  /\ send[t].pc = "copy"
  /\ send' = [send EXCEPT ![t].pc = "output", ![t].seg = @ + 1]
  /\ pkt' = IF send[t].msg.flat THEN CollectData(pkt, t, send[t].seg + 1) ELSE ErrPacket(pkt)
  /\ Others(t) /\ Silent
  /\ UNCHANGED sockPath

OutputPkt(t) ==
  /\ send[t].pc = "output"
  /\ Goto(t, IF send[t].msg.flat /\ send[t].seg < NumSegs(send[t].msg) THEN "copy" ELSE "traced")
  /\ Sends(t, <<Output(pkt)>>, FALSE, t \in clean)
  /\ UNCHANGED <<sockPath, pkt, clean>>

Return(t) ==
  /\ send[t].pc = "traced" /\ send[t].kprobe
  /\ send' = [send EXCEPT ![t] = Idle]
  /\ pkt' = IF pkt.data # None /\ pkt.data.of = t THEN [pkt EXCEPT !.data = None] ELSE pkt
  /\ clean' = clean \ {t}
  /\ Silent
  /\ UNCHANGED sockPath

Init ==
  /\ sockPath \in SockPaths
  /\ send = [t \in Tasks |-> Idle]
  /\ pkt = [path |-> [i \in Bytes |-> 0], proc |-> None, err |-> FALSE, data |-> None]
  /\ event = None
  /\ clean = {}

Next ==
  \E t \in Tasks :
    \/ Send(t) \/ Kprobe(t) \/ FentryBegin(t) \/ ReadOwn(t) \/ Match(t) \/ ReadPeer(t)
    \/ Fill(t) \/ Copy(t) \/ OutputPkt(t) \/ Return(t)

Spec == Init /\ [][Next]_vars

-----------------------------------------------------------------------------
ReadAs(path) == SubSeq(path, 1, Least(Len(path), PathMax - 1))
Watched(path) ==
  path # None /\ Len(ReadAs(path)) >= Len(sockPath) /\ SubSeq(path, 1, Len(sockPath)) = sockPath

TruePacket(t, msg, seg, packet) ==
  /\ packet.proc = t
  /\ IF Watched(msg.own) THEN packet.path = ReadAs(msg.own)
     ELSE Watched(msg.peer) /\ packet.path = ReadAs(msg.peer)
  /\ packet.err = ~msg.flat
  /\ msg.flat => packet.data = [of |-> t, seg |-> seg]

(* Every packet of a kprobe program, whatever fentry program it interrupts, *)
(* and of a fentry program no other program came between, is about one     *)
(* message: the process that sends it, the watched path, and the bytes of  *)
(* one of its segments or the mark that they could not be read.  Nothing   *)
(* in it is left over from the messages before in the same element.        *)
PacketsTrue ==
  event # None /\ event.own =>
    \A i \in DOMAIN event.packets :
      TruePacket(event.by, event.msg, IF event.whole THEN i ELSE event.seg, event.packets[i])

(* No message of a watched socket goes unreported, though a fentry program *)
(* may be skipped or misled: its kprobe program sends one packet for each  *)
(* of its first segments, and none for a message that nobody watches.      *)
(* Comparing words instead of bytes, with anything behind the path's end,  *)
(* makes no difference.                                                    *)
WatchedReported ==
  event # None /\ event.whole =>
    Len(event.packets) =
      IF ~(Watched(event.msg.own) \/ Watched(event.msg.peer)) THEN 0
      ELSE IF event.msg.flat THEN NumSegs(event.msg) ELSE 1
=============================================================================
