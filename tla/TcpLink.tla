------------------------------ MODULE TcpLink ------------------------------
(***************************************************************************)
(* The connection tracer, ebpf/tcp-link-trace.c: the hooks it attaches to  *)
(* connect, accept, tcp_set_state and the destruction of a socket, the two *)
(* maps that remember a connection's role (conn_tracing_map by socket,     *)
(* conn_ctx_map by address tuple), the hand-over slot fd_info_map and the  *)
(* ring buffer `events'.                                                   *)
(*                                                                         *)
(* The kernel is the environment: sockets of the TCP slab (Socks, whose    *)
(* addresses are reused), other sockets (Others), the TCP state machine,   *)
(* port selection and release, the socket lock.  Hooks that run under the  *)
(* socket lock are split where another CPU can see them half done; the     *)
(* fexit hook of connect runs without it, one map operation a step.        *)
(***************************************************************************)
EXTENDS Integers, FiniteSets, Sequences

CONSTANTS
  Tasks,         \* threads that call connect and accept
  Frame,         \* the frame pointer of each task's tracer
  Socks,         \* addresses of the TCP socket slab
  Others,        \* sockets that are not TCP (unix, udp): connect takes them too
  ListenPorts,   \* ports servers listen on
  EphPorts,      \* ports connect picks from
  BoundPorts,    \* ports a client may bind before it connects
  Remotes,       \* remote endpoints (address and port)
  Fams,          \* address families of the TCP sockets: 4 (AF_INET), 6
  Residues,      \* what the bytes get_conn_key leaves unset may hold
  MaxTracing,    \* max_entries of conn_tracing_map
  MaxCtx,        \* max_entries of conn_ctx_map
  RingSlots,     \* events the ring buffer holds
  NULL, Absent

EFAULT == -14

ASSUME FrameAssumption == Frame \in [Tasks -> Nat \ {0}]
ASSUME PtrAssumption ==
  /\ NULL \notin Socks \cup Others
  /\ Socks \cap Others = {}
ASSUME PortAssumption ==
  /\ ListenPorts \subseteq Nat \ {0}
  /\ EphPorts \subseteq Nat \ {0}
  /\ BoundPorts \subseteq EphPorts
  /\ ListenPorts \cap EphPorts = {}
ASSUME RemoteAssumption == NULL \notin Remotes
ASSUME FamAssumption == Fams \subseteq {4, 6} /\ Fams # {}
ASSUME ResidueAssumption == Residues # {}
ASSUME AbsentAssumption == Absent \notin {"UNKNOWN", "CLIENT", "SERVER"}
ASSUME BoundAssumption == MaxTracing \in Nat /\ MaxCtx \in Nat /\ RingSlots \in Nat

INSTANCE BpfMap

Roles  == {"UNKNOWN", "CLIENT", "SERVER"}     \* enum link_role
States == {"CLOSE", "LISTEN", "SYN_SENT", "SYN_RECV", "ESTABLISHED", "CLOSING"}
Kinds  == {"free", "active", "listener", "child"}
Ptrs   == Socks \cup Others \cup {NULL}

VARIABLES
  sk,        \* the kernel's sockets
  pc, at,    \* where each task is, and the socket its system call works on
  target,    \* the file, then the socket, fexit___sys_connect works on
  fdInfo,    \* fd_info_map (cur_state and role are never read)
  tracing,   \* conn_tracing_map
  ctx,       \* conn_ctx_map (the id of a value is left out)
  ring       \* submitted events user space has not read

vars == <<sk, pc, at, target, fdInfo, tracing, ctx, ring>>

-----------------------------------------------------------------------------
(* Sockets.  `open': a file refers to it; `hook' and `to': progress of     *)
(* k_set_state; `res': the residue in the key that run computed; `auto':   *)
(* the port is the kernel's choice and is given back when it closes;       *)
(* `dying': the destroy hooks; `learned' is auxiliary: k_set_state stored  *)
(* the role of this connection.                                            *)
FreeSock ==
  [kind |-> "free", st |-> "CLOSE", fam |-> CHOOSE f \in Fams : TRUE,
   lport |-> 0, raddr |-> NULL, auto |-> TRUE, open |-> FALSE, hook |-> 0, to |-> "CLOSE",
   res |-> CHOOSE r \in Residues : TRUE, dying |-> FALSE, learned |-> FALSE]

SockType ==
  [kind: Kinds, st: States, fam: Fams,
   lport: {0} \cup ListenPorts \cup EphPorts, raddr: Remotes \cup {NULL},
   auto: BOOLEAN, open: BOOLEAN, hook: 0..2, to: States, res: Residues,
   dying: BOOLEAN, learned: BOOLEAN]

TrueRoles(kind) ==
  CASE kind = "active" -> {"CLIENT"}
    [] kind \in {"listener", "child"} -> {"SERVER"}
    [] OTHER -> {}

(* struct trace_conn_key, as get_conn_key fills it in from a pointer.      *)
Keys ==
  [fam: Fams \cup {0, 1}, lport: {0} \cup ListenPorts \cup EphPorts,
   raddr: Remotes \cup {NULL}, res: Residues]

(* A family other than AF_INET reads as IPv6; unix sockets share one key,  *)
(* and probe reads through NULL leave zeros.                               *)
KeyOf(p, r) ==
  IF p \in Socks
  THEN [fam |-> sk[p].fam, lport |-> sk[p].lport, raddr |-> sk[p].raddr, res |-> r]
  ELSE [fam |-> IF p = NULL THEN 0 ELSE 1, lport |-> 0, raddr |-> NULL, res |-> r]

(* The kernel never has two sockets out of CLOSE with one address tuple.   *)
TupleFree(s, port, raddr) ==
  \A u \in Socks \ {s} :
    sk[u].st # "CLOSE" => sk[u].lport # port \/ sk[u].raddr # raddr

(* Tasks between lock_sock and release_sock in connect.                    *)
Locking == {"locked", "synsent", "picked"}
Locked(s) == sk[s].hook > 0 \/ \E t \in Tasks : at[t] = s /\ pc[t] \in Locking
InUse(p)  == \E t \in Tasks : at[t] = p

-----------------------------------------------------------------------------
(* handle_new_connection: reserve, fill, submit or discard.  set_conn_info *)
(* rejects an IPv4 socket whose local or remote address is zero.  Of an    *)
(* event the socket and the role are kept, and what the socket really was. *)
ZeroAddress(s) == sk[s].fam = 4 /\ sk[s].raddr = NULL

Event(s, role) == [sock |-> s, role |-> role, kind |-> sk[s].kind]

EventType == [sock: Socks, role: Roles, kind: Kinds]

HandleNewConnection(s, role) ==
  ring' = IF Len(ring) >= RingSlots \/ ZeroAddress(s)
          THEN ring
          ELSE Append(ring, Event(s, role))

-----------------------------------------------------------------------------
(* k_set_state, in the three stretches other CPUs can interleave with.     *)

(* The kernel is about to move s to state new: the two NOEXIST inserts.    *)
Enter(s, new, changed) ==
  \E r \in Residues :
    /\ sk' = [sk EXCEPT ![s] = [changed EXCEPT !.hook = 1, !.to = new, !.res = r]]
    /\ tracing' = UpdateNoExist(tracing, s, "UNKNOWN", MaxTracing)
    /\ ctx' = UpdateNoExist(ctx,
                 [fam |-> changed.fam, lport |-> changed.lport,
                  raddr |-> changed.raddr, res |-> r], "UNKNOWN", MaxCtx)

(* Mutant: the two ends of the handshake taken for each other.             *)
DirectRoleSwapped(old, new) ==
  IF \/ old = "CLOSE" /\ new = "SYN_SENT"
     \/ old = "SYN_SENT" /\ new = "ESTABLISHED"
  THEN "SERVER"
  ELSE IF old = "SYN_RECV" /\ new = "ESTABLISHED" THEN "CLIENT" ELSE Absent

(* The role the transition itself proves; Absent for all the others.       *)
DirectRole(old, new) ==
  IF \/ old = "CLOSE" /\ new = "SYN_SENT"
     \/ old = "SYN_SENT" /\ new = "ESTABLISHED"
  THEN "CLIENT"
  ELSE IF old = "SYN_RECV" /\ new = "ESTABLISHED" THEN "SERVER" ELSE Absent

(* Mutant: the branches run for transitions that prove no role as well.    *)
SetStateDirectAlways(s) ==
  LET role == DirectRole(sk[s].st, sk[s].to) IN
  /\ sk[s].hook = 1
  /\ tracing' = UpdateAny(tracing, s, role, MaxTracing)
  /\ sk' = [sk EXCEPT ![s].hook = 2, ![s].learned = tracing'[s] # Absent]
  /\ HandleNewConnection(s, role)
  /\ UNCHANGED <<pc, at, target, fdInfo, ctx>>

SetStateDirect(s) ==
  LET role == DirectRole(sk[s].st, sk[s].to) IN
  /\ sk[s].hook = 1
  /\ role # Absent
  /\ tracing' = UpdateAny(tracing, s, role, MaxTracing)
  /\ sk' = [sk EXCEPT ![s].hook = 2, ![s].learned = tracing'[s] # Absent]
  /\ HandleNewConnection(s, role)
  /\ UNCHANGED <<pc, at, target, fdInfo, ctx>>

SetStateOther(s) ==
  /\ sk[s].hook = 1
  /\ DirectRole(sk[s].st, sk[s].to) = Absent
  /\ sk' = [sk EXCEPT ![s].hook = 2]
  /\ IF tracing[s] # Absent
     THEN /\ ctx' = UpdateAny(ctx, KeyOf(s, sk[s].res), tracing[s], MaxCtx)
          /\ HandleNewConnection(s, tracing[s])
     ELSE UNCHANGED <<ctx, ring>>
  /\ UNCHANGED <<pc, at, target, fdInfo, tracing>>

(* The last map operation, and the transition itself: a socket that closes *)
(* gives an automatically chosen port back.                                *)
SetStateExit(s) ==
  /\ sk[s].hook = 2
  /\ tracing' = IF sk[s].to = "CLOSE" THEN Delete(tracing, s) ELSE tracing
  /\ sk' = [sk EXCEPT ![s] =
              [sk[s] EXCEPT !.hook = 0, !.st = sk[s].to,
                 !.learned = sk[s].learned /\ sk[s].to # "CLOSE",
                 !.lport = IF sk[s].to = "CLOSE" /\ sk[s].auto THEN 0 ELSE sk[s].lport]]
  /\ UNCHANGED <<pc, at, target, fdInfo, ctx, ring>>

(* Transitions the kernel makes by itself: answers, resets, shutdown.      *)
KernelNext(st) ==
  CASE st = "LISTEN"      -> {"CLOSE"}
    [] st = "SYN_SENT"    -> {"ESTABLISHED", "CLOSE"}
    [] st = "SYN_RECV"    -> {"ESTABLISHED", "CLOSE"}
    [] st = "ESTABLISHED" -> {"CLOSING", "CLOSE"}
    [] st = "CLOSING"     -> {"CLOSING", "CLOSE"}
    [] OTHER -> {}

KernelSetState(s) ==
  /\ sk[s].kind # "free"
  /\ ~Locked(s)
  /\ \E new \in KernelNext(sk[s].st) : Enter(s, new, sk[s])
  /\ UNCHANGED <<pc, at, target, fdInfo, ring>>

-----------------------------------------------------------------------------
(* Sockets come and go.                                                    *)
NewSocket(s) ==
  /\ sk[s].kind = "free"
  /\ \E fam \in Fams :
       \/ sk' = [sk EXCEPT ![s] = [FreeSock EXCEPT !.kind = "active", !.fam = fam, !.open = TRUE]]
       \/ \E port \in BoundPorts :
            sk' = [sk EXCEPT ![s] = [FreeSock EXCEPT !.kind = "active", !.fam = fam,
                                       !.open = TRUE, !.lport = port, !.auto = FALSE]]
       \/ \E port \in ListenPorts :
            sk' = [sk EXCEPT ![s] = [FreeSock EXCEPT !.kind = "listener", !.fam = fam,
                                       !.open = TRUE, !.lport = port, !.auto = FALSE]]
  /\ UNCHANGED <<pc, at, target, fdInfo, tracing, ctx, ring>>

(* listen: the state is set by inet_sk_state_store, which is not hooked.   *)
Listen(s) ==
  /\ sk[s].kind = "listener" /\ sk[s].st = "CLOSE" /\ sk[s].open /\ ~Locked(s)
  /\ TupleFree(s, sk[s].lport, NULL)
  /\ sk' = [sk EXCEPT ![s].st = "LISTEN"]
  /\ UNCHANGED <<pc, at, target, fdInfo, tracing, ctx, ring>>

(* The handshake's last ACK: a child in SYN_RECV, cloned without a hook.   *)
NewChild(s, l) ==
  /\ sk[s].kind = "free"
  /\ sk[l].kind = "listener" /\ sk[l].st = "LISTEN"
  /\ \E r \in Remotes :
       /\ TupleFree(s, sk[l].lport, r)
       /\ sk' = [sk EXCEPT ![s] = [FreeSock EXCEPT !.kind = "child", !.st = "SYN_RECV",
                                      !.fam = sk[l].fam, !.lport = sk[l].lport, !.raddr = r]]
  /\ UNCHANGED <<pc, at, target, fdInfo, tracing, ctx, ring>>

(* Mutant: the hook gets the socket it wants, and cleans up at once.       *)
TcpCloseCleans(s) ==
  /\ sk[s].open /\ ~InUse(s)
  /\ sk' = [sk EXCEPT ![s].open = FALSE]
  /\ \E r \in Residues : ctx' = Delete(ctx, KeyOf(s, r))
  /\ tracing' = Delete(tracing, s)
  /\ UNCHANGED <<pc, at, target, fdInfo, ring>>

(* The last close of the file.  fexit_tcp_close takes its first argument   *)
(* for a pt_regs and the second, the linger time, for a return value: with *)
(* linger it reads a pointer out of the socket's bytes, which is no socket *)
(* of the maps; reads through it give zeros.                               *)
TcpClose(s) ==
  /\ sk[s].open /\ ~InUse(s)
  /\ sk' = [sk EXCEPT ![s].open = FALSE]
  /\ \/ UNCHANGED <<tracing, ctx>>
     \/ \E r \in Residues :
          /\ ctx' = Delete(ctx, KeyOf(NULL, r))
          /\ tracing' \in {tracing, Delete(tracing, NULL)}
  /\ UNCHANGED <<pc, at, target, fdInfo, ring>>

Closed(s) == sk[s].kind # "free" /\ sk[s].st = "CLOSE" /\ ~sk[s].open /\ sk[s].hook = 0

(* kprobe/tcp_v4_destroy_sock.                                             *)
KDestroySock(s) ==
  /\ Closed(s) /\ ~sk[s].dying
  /\ \E r \in Residues : ctx' = Delete(ctx, KeyOf(s, r))
  /\ tracing' = Delete(tracing, s)
  /\ sk' = [sk EXCEPT ![s].dying = TRUE]
  /\ UNCHANGED <<pc, at, target, fdInfo, ring>>

(* raw_tracepoint and tracepoint tcp_destroy_sock, fired one after the     *)
(* other inside that function; then the memory returns to the slab.        *)
TpDestroySock(s) ==
  /\ Closed(s) /\ sk[s].dying
  /\ \E r, q \in Residues : ctx' = Delete(Delete(ctx, KeyOf(s, r)), KeyOf(s, q))
  /\ tracing' = Delete(tracing, s)
  /\ sk' = [sk EXCEPT ![s] = FreeSock]
  /\ UNCHANGED <<pc, at, target, fdInfo, ring>>

-----------------------------------------------------------------------------
(* fd_info_map.  get_stack_id overwrites the frame pointer it reads with   *)
(* the return code of the read, so its second read is from address 0 and   *)
(* fails; find_fd_info's retries repeat the failure from there.            *)
ProbeRead(addr) == IF addr \in {0, EFAULT} THEN EFAULT ELSE 0
StackId(fp) == ProbeRead(ProbeRead(fp))
Id(t) == StackId(Frame[t])

NoFdInfo == [has |-> FALSE, file |-> NULL]
(* Mutant: the entry is found or made, its file left as it was.            *)
ResetFdInfoKeeps(t) == fdInfo' = [fdInfo EXCEPT ![Id(t)].has = TRUE]
ResetFdInfo(t) == fdInfo' = [fdInfo EXCEPT ![Id(t)] = [has |-> TRUE, file |-> NULL]]
SetFile(t, f)  == fdInfo' = [fdInfo EXCEPT ![Id(t)].file = f]
DropFdInfo(t)  == fdInfo' = [fdInfo EXCEPT ![Id(t)].has = FALSE]

(* sock_from_file of a file that is still open; a closed file's memory may *)
(* by now belong to any other file.                                        *)
SockFromFile(f) ==
  IF f \in Socks /\ ~sk[f].open THEN Ptrs ELSE {f}

Goto(t, label) == pc' = [pc EXCEPT ![t] = label]

(* connect.                                                                *)
FentrySysConnect(t) ==
  /\ pc[t] = "idle"
  /\ Goto(t, "connect")
  /\ ResetFdInfo(t)
  /\ UNCHANGED <<sk, at, target, tracing, ctx, ring>>

(* Skipped when the descriptor is bad.                                     *)
FentrySysConnectFile(t) ==
  /\ pc[t] = "connect"
  /\ \E f \in {s \in Socks : sk[s].open /\ sk[s].kind = "active"} \cup Others :
       /\ at' = [at EXCEPT ![t] = f]
       /\ Goto(t, "file")
       /\ IF fdInfo[Id(t)].has
          THEN /\ SetFile(t, f)
               /\ \E r \in Residues : ctx' = LookupOrTryInit(ctx, KeyOf(f, r), "CLIENT", MaxCtx)
          ELSE UNCHANGED <<fdInfo, ctx>>
  /\ UNCHANGED <<sk, target, tracing, ring>>

(* inet_stream_connect takes the socket lock and calls tcp_v4_connect or   *)
(* tcp_v6_connect only on a closed socket; other calls return an error.    *)
LockSock(t) ==
  /\ pc[t] = "file" /\ at[t] \in Socks
  /\ sk[at[t]].st = "CLOSE" /\ ~Locked(at[t])
  /\ Goto(t, "locked")
  /\ IF sk[at[t]].fam = 6
     THEN /\ tracing' = LookupOrTryInit(tracing, at[t], "CLIENT", MaxTracing)
          /\ \E r \in Residues : ctx' = LookupOrTryInit(ctx, KeyOf(at[t], r), "CLIENT", MaxCtx)
     ELSE UNCHANGED <<tracing, ctx>>
  /\ UNCHANGED <<sk, at, target, fdInfo, ring>>

(* The destination is stored, then the state set; the port comes after.    *)
ConnectSynSent(t) ==
  /\ pc[t] = "locked"
  /\ Goto(t, "synsent")
  /\ \E r \in Remotes :
       /\ TupleFree(at[t], sk[at[t]].lport, r)
       /\ Enter(at[t], "SYN_SENT", [sk[at[t]] EXCEPT !.raddr = r])
  /\ UNCHANGED <<at, target, fdInfo, ring>>

ConnectPortPicked(t) ==
  /\ pc[t] = "synsent" /\ sk[at[t]].hook = 0 /\ sk[at[t]].st = "SYN_SENT"
  /\ Goto(t, "picked")
  /\ IF sk[at[t]].lport # 0
     THEN UNCHANGED sk
     ELSE \E port \in EphPorts :
            /\ TupleFree(at[t], port, sk[at[t]].raddr)
            /\ sk' = [sk EXCEPT ![at[t]].lport = port]
  /\ UNCHANGED <<at, target, fdInfo, tracing, ctx, ring>>

(* No port, no route: tcp_v4_connect sets the state back and fails; its    *)
(* fexit hook then does nothing.                                           *)
ConnectFails(t) ==
  /\ pc[t] \in {"synsent", "picked"}
  /\ sk[at[t]].hook = 0 /\ sk[at[t]].st = "SYN_SENT"
  /\ Goto(t, "failed")
  /\ Enter(at[t], "CLOSE", sk[at[t]])
  /\ UNCHANGED <<at, target, fdInfo, ring>>

(* fexit/tcp_v4_connect with retval 0, then release_sock.                  *)
FexitTcpV4Connect(t) ==
  /\ pc[t] = "picked"
  /\ Goto(t, "returned")
  /\ IF sk[at[t]].fam = 4
     THEN /\ tracing' = LookupOrTryInit(tracing, at[t], "CLIENT", MaxTracing)
          /\ \E r \in Residues : ctx' = LookupOrTryInit(ctx, KeyOf(at[t], r), "CLIENT", MaxCtx)
     ELSE UNCHANGED <<tracing, ctx>>
  /\ UNCHANGED <<sk, at, target, fdInfo, ring>>

(* fexit/__sys_connect, whatever the call returned: the lookup of the fd   *)
(* info, ...                                                               *)
FexitSysConnect(t) ==
  /\ pc[t] \in {"connect", "file", "failed", "returned"}
  /\ IF fdInfo[Id(t)].has
     THEN Goto(t, "found") /\ UNCHANGED at
     ELSE Goto(t, "idle") /\ at' = [at EXCEPT ![t] = NULL]
  /\ UNCHANGED <<sk, target, fdInfo, tracing, ctx, ring>>

(* ... its deletion, ...                                                   *)
FexitSysConnectDelete(t) ==
  /\ pc[t] = "found"
  /\ Goto(t, "deleted")
  /\ target' = [target EXCEPT ![t] = fdInfo[Id(t)].file]
  /\ DropFdInfo(t)
  /\ UNCHANGED <<sk, at, tracing, ctx, ring>>

(* ... the read of the file from the deleted entry, whose memory another   *)
(* update may have taken meanwhile, and the lookup of its socket's role;   *)
FexitSysConnectLookup(t) ==
  /\ pc[t] = "deleted"
  /\ \E f \in {target[t], fdInfo[Id(t)].file} : \E p \in SockFromFile(f) :
       /\ target' = [target EXCEPT ![t] = p]
       /\ Goto(t, IF tracing[p] = Absent THEN "absent" ELSE "present")
  /\ UNCHANGED <<sk, at, fdInfo, tracing, ctx, ring>>

(* Mutant: a role that is still open.                                      *)
FexitSysConnectUpdateUnknown(t) ==
  /\ pc[t] = "absent"
  /\ Goto(t, "present")
  /\ tracing' = UpdateAny(tracing, target[t], "UNKNOWN", MaxTracing)
  /\ UNCHANGED <<sk, at, target, fdInfo, ctx, ring>>

(* the update, BPF_ANY, of what the lookup did not find;                   *)
FexitSysConnectUpdate(t) ==
  /\ pc[t] = "absent"
  /\ Goto(t, "present")
  /\ tracing' = UpdateAny(tracing, target[t], "CLIENT", MaxTracing)
  /\ UNCHANGED <<sk, at, target, fdInfo, ctx, ring>>

(* and the tuple's entry.                                                  *)
FexitSysConnectCtx(t) ==
  /\ pc[t] = "present"
  /\ Goto(t, "idle")
  /\ at' = [at EXCEPT ![t] = NULL]
  /\ target' = [target EXCEPT ![t] = NULL]
  /\ \E r \in Residues : ctx' = LookupOrTryInit(ctx, KeyOf(target[t], r), "CLIENT", MaxCtx)
  /\ UNCHANGED <<sk, fdInfo, tracing, ring>>

-----------------------------------------------------------------------------
(* accept.                                                                 *)
FentrySysAccept4(t) ==
  /\ pc[t] = "idle"
  /\ Goto(t, "accept")
  /\ ResetFdInfo(t)
  /\ UNCHANGED <<sk, at, target, tracing, ctx, ring>>

(* Mutant: the role of the connect hooks.                                  *)
InetCskAcceptClient(t) ==
  /\ pc[t] = "accept"
  /\ \E l \in Socks :
       /\ sk[l].kind = "listener" /\ sk[l].open
       /\ at' = [at EXCEPT ![t] = l]
       /\ tracing' = LookupOrTryInit(tracing, l, "CLIENT", MaxTracing)
       /\ \E r \in Residues : ctx' = LookupOrTryInit(ctx, KeyOf(l, r), "CLIENT", MaxCtx)
  /\ Goto(t, "accepting")
  /\ UNCHANGED <<sk, target, fdInfo, ring>>

(* "fentry/inet_csk_accept": it runs on entry, on the listener, before the *)
(* kernel looks at its state.                                              *)
InetCskAccept(t) ==
  /\ pc[t] = "accept"
  /\ \E l \in Socks :
       /\ sk[l].kind = "listener" /\ sk[l].open
       /\ at' = [at EXCEPT ![t] = l]
       /\ tracing' = LookupOrTryInit(tracing, l, "SERVER", MaxTracing)
       /\ \E r \in Residues : ctx' = LookupOrTryInit(ctx, KeyOf(l, r), "SERVER", MaxCtx)
  /\ Goto(t, "accepting")
  /\ UNCHANGED <<sk, target, fdInfo, ring>>

(* do_accept returns a child's file, or an error; new_file is never read.  *)
FexitDoAccept(t) ==
  /\ pc[t] = "accepting"
  /\ Goto(t, "accepted")
  /\ \/ UNCHANGED sk
     \/ \E c \in Socks :
          /\ sk[c].kind = "child" /\ ~sk[c].open /\ ~sk[c].dying /\ sk[c].st # "SYN_RECV"
          /\ sk[at[t]].st = "LISTEN" /\ sk[c].lport \in {0, sk[at[t]].lport}
          /\ sk' = [sk EXCEPT ![c].open = TRUE]
  /\ IF fdInfo[Id(t)].has THEN SetFile(t, at[t]) ELSE UNCHANGED fdInfo
  /\ UNCHANGED <<at, target, tracing, ctx, ring>>

(* The entry is looked up and deleted; nothing of it is used.              *)
FexitSysAccept4(t) ==
  /\ pc[t] \in {"accept", "accepted"}
  /\ Goto(t, "idle")
  /\ at' = [at EXCEPT ![t] = NULL]
  /\ IF fdInfo[Id(t)].has THEN DropFdInfo(t) ELSE UNCHANGED fdInfo
  /\ UNCHANGED <<sk, target, tracing, ctx, ring>>

-----------------------------------------------------------------------------
(* handlePerfEvent takes one event out of the ring.                        *)
Consume ==
  /\ ring # <<>>
  /\ ring' = Tail(ring)
  /\ UNCHANGED <<sk, pc, at, target, fdInfo, tracing, ctx>>

(* The tracer may be attached while connections are up.                    *)
Established(kind, port, raddr) ==
  [FreeSock EXCEPT !.kind = kind, !.st = "ESTABLISHED", !.open = TRUE,
                   !.lport = port, !.raddr = raddr]

Init ==
  /\ \/ sk = [s \in Socks |-> FreeSock]
     \/ \E s \in Socks, r \in Remotes :
          \/ \E port \in EphPorts :
               sk = [u \in Socks |-> IF u = s THEN Established("active", port, r) ELSE FreeSock]
          \/ \E port \in ListenPorts :
               sk = [u \in Socks |-> IF u = s THEN Established("child", port, r) ELSE FreeSock]
  /\ pc = [t \in Tasks |-> "idle"]
  /\ at = [t \in Tasks |-> NULL]
  /\ target = [t \in Tasks |-> NULL]
  /\ fdInfo = [id \in {Id(t) : t \in Tasks} |-> NoFdInfo]
  /\ tracing = [p \in Ptrs |-> Absent]
  /\ ctx = [k \in Keys |-> Absent]
  /\ ring = <<>>

SockNext(s) ==
  \/ NewSocket(s) \/ Listen(s) \/ \E l \in Socks : NewChild(s, l)
  \/ KernelSetState(s) \/ SetStateDirect(s) \/ SetStateOther(s) \/ SetStateExit(s)
  \/ TcpClose(s) \/ KDestroySock(s) \/ TpDestroySock(s)

ConnectNext(t) ==
  \/ FentrySysConnect(t) \/ FentrySysConnectFile(t)
  \/ LockSock(t) \/ ConnectSynSent(t) \/ ConnectPortPicked(t) \/ ConnectFails(t)
  \/ FexitTcpV4Connect(t)
  \/ FexitSysConnect(t) \/ FexitSysConnectDelete(t) \/ FexitSysConnectLookup(t)
  \/ FexitSysConnectUpdate(t) \/ FexitSysConnectCtx(t)

AcceptNext(t) ==
  \/ FentrySysAccept4(t) \/ InetCskAccept(t) \/ FexitDoAccept(t) \/ FexitSysAccept4(t)

Next ==
  \/ \E s \in Socks : SockNext(s)
  \/ \E t \in Tasks : ConnectNext(t) \/ AcceptNext(t)
  \/ Consume

Spec == Init /\ [][Next]_vars

-----------------------------------------------------------------------------
Labels ==
  {"idle", "connect", "file", "locked", "synsent", "picked", "failed", "returned",
   "found", "deleted", "absent", "present", "accept", "accepting", "accepted"}

(* Every variable, maps and ring included, holds a value of its kind.      *)
TypeOK ==
  /\ sk \in [Socks -> SockType]
  /\ pc \in [Tasks -> Labels]
  /\ at \in [Tasks -> Ptrs]
  /\ target \in [Tasks -> Ptrs]
  /\ fdInfo \in [{Id(t) : t \in Tasks} -> [has: BOOLEAN, file: Ptrs]]
  /\ tracing \in [Ptrs -> Roles \cup {Absent}]
  /\ ctx \in [Keys -> Roles \cup {Absent}]
  /\ ring \in Seq(EventType)

(* However connect calls mix up their files, conn_tracing_map never says   *)
(* SERVER, or UNKNOWN, of a socket that is gone: only entries written by   *)
(* the connect hooks outlive their socket.                                 *)
NonClientEntriesLive ==
  \A p \in Ptrs : tracing[p] \in {"UNKNOWN", "SERVER"} => p \in Socks /\ sk[p].kind # "free"

(* No connection this host opened is reported as one it accepted: SERVER   *)
(* in the map or in an event of the ring is always the truth.              *)
ServerRoleIsTrue ==
  /\ \A s \in Socks : tracing[s] = "SERVER" => sk[s].kind \in {"listener", "child"}
  /\ \A i \in DOMAIN ring : ring[i].role = "SERVER" => ring[i].kind \in {"listener", "child"}

(* A role learned from a handshake stays until the hook of the transition  *)
(* to CLOSE has used it (the comment on fexit/tcp_close: other hooks       *)
(* "would delete it early").                                               *)
LearnedRoleKept ==
  \A s \in Socks : sk[s].learned => tracing[s] \in {"CLIENT", "SERVER"}

(* With one system call at a time in the window of fd_info_map nothing     *)
(* mixes files up, and the role in conn_tracing_map, which every event     *)
(* copies, is the true one, whatever socket used the address before and    *)
(* however far a connection got.                                           *)
RoleTruthful ==
  \A s \in Socks : tracing[s] \in {Absent, "UNKNOWN"} \cup TrueRoles(sk[s].kind)

(* ... and no TCP socket leaves an entry of conn_tracing_map behind.       *)
NoTracingLeak == \A s \in Socks : sk[s].kind = "free" => tracing[s] = Absent

(* ... and a context entry names the side its local port proves: nftrace   *)
(* looks the entries up by the tuple of a packet's socket.                 *)
CtxRoleMatchesPort ==
  \A k \in Keys :
    /\ ctx[k] = "SERVER" => k.lport \in ListenPorts
    /\ ctx[k] = "CLIENT" => k.lport \notin ListenPorts

(* While a connection whose handshake was traced is up, its tuple is in    *)
(* conn_ctx_map: closing and destroying other sockets, on other tuples or  *)
(* earlier on this one, does not take the entry away.                      *)
CtxOfEstablishedKept ==
  \A s \in Socks :
    sk[s].learned /\ sk[s].st = "ESTABLISHED" =>
      \E r \in Residues : ctx[KeyOf(s, r)] # Absent

(* With one system call at a time the tracer implements ConnRoles for each *)
(* socket: however its hooks interleave, conn_tracing_map never holds the  *)
(* wrong side of a connection, and a side once learned is neither lost nor *)
(* changed until the connection is over, nor passed on to the address's    *)
(* next socket.                                                            *)
Promise(s) ==
  INSTANCE ConnRoles WITH
    None <- NULL,
    side <- CASE sk[s].kind = "active" -> "CLIENT"
              [] sk[s].kind \in {"listener", "child"} -> "SERVER"
              [] OTHER -> NULL,
    up <- sk[s].st # "CLOSE",
    known <- IF tracing[s] \in {"CLIENT", "SERVER"} THEN tracing[s] ELSE NULL

KeepsRoles ==
  /\ \A s \in Socks : Promise(s)!Init
  /\ [][\A s \in Socks : UNCHANGED Promise(s)!promise \/ Promise(s)!Next]_vars

(* What get_stack_id is for (its comments: "FP of tracee's caller"): from  *)
(* its file hook to its exit hook, a connect finds its own file.           *)
FdInfoIsOwn ==
  \A t \in Tasks :
    pc[t] \in {"file", "locked", "synsent", "picked", "failed", "returned", "found"} /\ at[t] # NULL =>
      fdInfo[Id(t)].has /\ fdInfo[Id(t)].file = at[t]

-----------------------------------------------------------------------------
(* The inductive invariant behind the theorems of TcpLinkProofs.  From its *)
(* file hook to the end of the call a connect works on an open client.     *)
OwnSocket ==
  \A t \in Tasks :
    /\ pc[t] \in Locking => at[t] \in Socks
    /\ pc[t] \in {"file", "failed", "returned"} \cup Locking /\ at[t] \in Socks =>
         sk[at[t]].open /\ sk[at[t]].kind = "active"

(* An open or hooked socket exists, SYN_RECV is a child's state only, and  *)
(* a learned role is that of a socket that is not closed.                  *)
SockFacts ==
  \A s \in Socks :
    /\ sk[s].hook # 0 \/ sk[s].open => sk[s].kind # "free"
    /\ sk[s].st = "SYN_RECV" => sk[s].kind = "child"
    /\ sk[s].to # "SYN_RECV"
    /\ sk[s].learned /\ sk[s].hook = 0 => sk[s].st # "CLOSE"

IInv ==
  /\ TypeOK
  /\ OwnSocket
  /\ SockFacts
  /\ NonClientEntriesLive
  /\ ServerRoleIsTrue
  /\ LearnedRoleKept
=============================================================================
