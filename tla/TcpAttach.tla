----------------------------- MODULE TcpAttach -----------------------------
(***************************************************************************)
(* The connection tracer while it is being attached.  AttachAll of         *)
(* utils/attach/bpf_all.go walks the programs of ebpf/tcp-link-trace.c     *)
(* group by group, and each group in the order of a Go map, while the      *)
(* host's connections and calls go on.  Where the hook of a step is not    *)
(* attached yet, the kernel takes the step and no map changes.  An error   *)
(* ends the process, so attaching never stops half way.                    *)
(***************************************************************************)
EXTENDS TcpLink

VARIABLES
  hooks,    \* attached programs
  missed,   \* exit hooks that a task's call entered its function without
  old,      \* tasks in a call begun before all were attached (auxiliary)
  healed    \* addresses a socket was destroyed at since then, no such call
            \* being under way (auxiliary)

attachVars == <<vars, hooks, missed, old, healed>>

(* fentry and fexit, kprobes, tracepoints, raw tracepoints.  The hook of a *)
(* family no socket of the host has never runs, and is left out.           *)
Groups ==
  <<{"FentrySysConnect", "FentrySysConnectFile", "FexitSysConnect", "FentrySysAccept4",
     "FexitDoAccept", "FexitSysAccept4", "InetCskAccept", "TcpClose"}
      \cup (IF 6 \in Fams THEN {"FentryTcpV6Connect"} ELSE {})
      \cup (IF 4 \in Fams THEN {"FexitTcpV4Connect"} ELSE {}),
    {"SetState", "KDestroySock"}, {"TpDestroySock"}, {"RtpDestroySock"}>>

Programs == UNION {Groups[g] : g \in 1..4}
On(h) == h \in hooks
(* An fexit program runs only in the calls that entered the function with  *)
(* it: the others return through the trampoline they came by.              *)
Exits(t, h) == h \notin missed[t]
AllOn == hooks = Programs

(* One turn of one of the four loops.                                      *)
AttachOne ==
  /\ \E g \in 1..4 :
       /\ \A f \in 1..(g - 1) : Groups[f] \subseteq hooks
       /\ \E h \in Groups[g] \ hooks : hooks' = hooks \cup {h}
  /\ UNCHANGED vars

-----------------------------------------------------------------------------
(* The kernel's steps without their hooks.                                 *)
NoMapChanges == UNCHANGED <<target, fdInfo, tracing, ctx, ring>>

Moved(sock, new) ==
  [sock EXCEPT !.st = new, !.learned = sock.learned /\ new # "CLOSE",
               !.lport = IF new = "CLOSE" /\ sock.auto THEN 0 ELSE sock.lport]

BareSetState(s) ==
  /\ sk[s].kind # "free" /\ ~Locked(s)
  /\ \E new \in KernelNext(sk[s].st) : sk' = [sk EXCEPT ![s] = Moved(sk[s], new)]
  /\ UNCHANGED <<pc, at>> /\ NoMapChanges

BareConnectSynSent(t) ==
  /\ pc[t] = "locked"
  /\ Goto(t, "synsent")
  /\ \E r \in Remotes :
       /\ TupleFree(at[t], sk[at[t]].lport, r)
       /\ sk' = [sk EXCEPT ![at[t]] = Moved([sk[at[t]] EXCEPT !.raddr = r], "SYN_SENT")]
  /\ UNCHANGED at /\ NoMapChanges

BareConnectFails(t) ==
  /\ pc[t] \in {"synsent", "picked"} /\ sk[at[t]].hook = 0 /\ sk[at[t]].st = "SYN_SENT"
  /\ Goto(t, "failed")
  /\ sk' = [sk EXCEPT ![at[t]] = Moved(sk[at[t]], "CLOSE")]
  /\ UNCHANGED at /\ NoMapChanges

BareSysConnect(t) ==
  /\ pc[t] = "idle"
  /\ Goto(t, "connect")
  /\ UNCHANGED <<sk, at>> /\ NoMapChanges

BareSysConnectFile(t) ==
  /\ pc[t] = "connect"
  /\ \E f \in {s \in Socks : sk[s].open /\ sk[s].kind = "active"} \cup Others :
       at' = [at EXCEPT ![t] = f]
  /\ Goto(t, "file")
  /\ UNCHANGED sk /\ NoMapChanges

BareLockSock(t) ==
  /\ pc[t] = "file" /\ at[t] \in Socks
  /\ sk[at[t]].st = "CLOSE" /\ ~Locked(at[t])
  /\ Goto(t, "locked")
  /\ UNCHANGED <<sk, at>> /\ NoMapChanges

BareTcpConnected(t) ==
  /\ pc[t] = "picked"
  /\ Goto(t, "returned")
  /\ UNCHANGED <<sk, at>> /\ NoMapChanges

BareSysConnectExit(t) ==
  /\ pc[t] \in {"connect", "file", "failed", "returned"}
  /\ Goto(t, "idle")
  /\ at' = [at EXCEPT ![t] = NULL]
  /\ UNCHANGED sk /\ NoMapChanges

BareSysAccept4(t) ==
  /\ pc[t] = "idle"
  /\ Goto(t, "accept")
  /\ UNCHANGED <<sk, at>> /\ NoMapChanges

BareInetCskAccept(t) ==
  /\ pc[t] = "accept"
  /\ \E l \in Socks : sk[l].kind = "listener" /\ sk[l].open /\ at' = [at EXCEPT ![t] = l]
  /\ Goto(t, "accepting")
  /\ UNCHANGED sk /\ NoMapChanges

BareDoAccept(t) ==
  /\ pc[t] = "accepting"
  /\ Goto(t, "accepted")
  /\ \/ UNCHANGED sk
     \/ \E c \in Socks :
          /\ sk[c].kind = "child" /\ ~sk[c].open /\ ~sk[c].dying /\ sk[c].st # "SYN_RECV"
          /\ sk[at[t]].st = "LISTEN" /\ sk[c].lport \in {0, sk[at[t]].lport}
          /\ sk' = [sk EXCEPT ![c].open = TRUE]
  /\ UNCHANGED at /\ NoMapChanges

BareSysAccept4Exit(t) ==
  /\ pc[t] \in {"accept", "accepted"}
  /\ Goto(t, "idle")
  /\ at' = [at EXCEPT ![t] = NULL]
  /\ UNCHANGED sk /\ NoMapChanges

BareClose(s) ==
  /\ sk[s].open /\ ~InUse(s)
  /\ sk' = [sk EXCEPT ![s].open = FALSE]
  /\ UNCHANGED <<pc, at>> /\ NoMapChanges

BareDestroySock(s) ==
  /\ Closed(s) /\ ~sk[s].dying
  /\ sk' = [sk EXCEPT ![s].dying = TRUE]
  /\ UNCHANGED <<pc, at>> /\ NoMapChanges

(* With one tracepoint attached there is one deletion.                     *)
SomeDestroyed(s) ==
  /\ Closed(s) /\ sk[s].dying
  /\ sk' = [sk EXCEPT ![s] = FreeSock]
  /\ IF On("TpDestroySock") \/ On("RtpDestroySock")
     THEN /\ \E r \in Residues : ctx' = Delete(ctx, KeyOf(s, r))
          /\ tracing' = Delete(tracing, s)
     ELSE UNCHANGED <<tracing, ctx>>
  /\ UNCHANGED <<pc, at, target, fdInfo, ring>>

-----------------------------------------------------------------------------
(* Each step with its hook if that is attached.                            *)
HostSockNext(s) ==
  \/ NewSocket(s) \/ Listen(s) \/ \E l \in Socks : NewChild(s, l)
  \/ On("SetState") /\ KernelSetState(s)
  \/ ~On("SetState") /\ BareSetState(s)
  \/ SetStateDirect(s) \/ SetStateOther(s) \/ SetStateExit(s)
  \/ On("TcpClose") /\ TcpClose(s)
  \/ ~On("TcpClose") /\ BareClose(s)
  \/ On("KDestroySock") /\ KDestroySock(s)
  \/ ~On("KDestroySock") /\ BareDestroySock(s)
  \/ On("TpDestroySock") /\ On("RtpDestroySock") /\ TpDestroySock(s)
  \/ ~(On("TpDestroySock") /\ On("RtpDestroySock")) /\ SomeDestroyed(s)

HostConnectNext(t) ==
  \/ On("FentrySysConnect") /\ FentrySysConnect(t)
  \/ ~On("FentrySysConnect") /\ BareSysConnect(t)
  \/ On("FentrySysConnectFile") /\ FentrySysConnectFile(t)
  \/ ~On("FentrySysConnectFile") /\ BareSysConnectFile(t)
  \/ On("FentryTcpV6Connect") /\ LockSock(t)
  \/ ~On("FentryTcpV6Connect") /\ BareLockSock(t)
  \/ On("SetState") /\ (ConnectSynSent(t) \/ ConnectFails(t))
  \/ ~On("SetState") /\ (BareConnectSynSent(t) \/ BareConnectFails(t))
  \/ ConnectPortPicked(t)
  \/ Exits(t, "FexitTcpV4Connect") /\ FexitTcpV4Connect(t)
  \/ ~Exits(t, "FexitTcpV4Connect") /\ BareTcpConnected(t)
  \/ Exits(t, "FexitSysConnect") /\ FexitSysConnect(t)
  \/ ~Exits(t, "FexitSysConnect") /\ BareSysConnectExit(t)
  \/ FexitSysConnectDelete(t) \/ FexitSysConnectLookup(t)
  \/ FexitSysConnectUpdate(t) \/ FexitSysConnectCtx(t)

HostAcceptNext(t) ==
  \/ On("FentrySysAccept4") /\ FentrySysAccept4(t)
  \/ ~On("FentrySysAccept4") /\ BareSysAccept4(t)
  \/ On("InetCskAccept") /\ InetCskAccept(t)
  \/ ~On("InetCskAccept") /\ BareInetCskAccept(t)
  \/ Exits(t, "FexitDoAccept") /\ FexitDoAccept(t)
  \/ ~Exits(t, "FexitDoAccept") /\ BareDoAccept(t)
  \/ Exits(t, "FexitSysAccept4") /\ FexitSysAccept4(t)
  \/ ~Exits(t, "FexitSysAccept4") /\ BareSysAccept4Exit(t)

HostNext ==
  \/ \E s \in Socks : HostSockNext(s)
  \/ \E t \in Tasks : HostConnectNext(t) \/ HostAcceptNext(t)
  \/ Consume

(* The functions task t enters in a step, do_accept at some time between   *)
(* __sys_accept4 and inet_csk_accept.                                      *)
Entered(t) ==
  CASE pc'[t] = "connect" -> {"FexitSysConnect"}
    [] pc'[t] = "locked"  -> {"FexitTcpV4Connect"}
    [] pc'[t] = "accept"  -> {"FexitSysAccept4", "FexitDoAccept"}
    [] OTHER -> {}

MissedNext(late) ==
  missed' = [t \in Tasks |->
    IF pc'[t] = pc[t] THEN missed[t]
    ELSE IF pc'[t] = "idle" THEN {}
    ELSE (missed[t] \cup (Entered(t) \ hooks))
           \ (IF late /\ pc'[t] = "accepting" THEN hooks \cap {"FexitDoAccept"} ELSE {})]

(* What the auxiliary variables see of a step.                             *)
Watch ==
  /\ old' = {t \in Tasks : pc'[t] # "idle" /\ (t \in old \/ ~AllOn)}
  /\ healed' = IF AllOn /\ old = {}
               THEN healed \cup {s \in Socks : sk[s].kind # "free" /\ sk'[s].kind = "free"}
               ELSE healed

AttachInit ==
  Init /\ hooks = {} /\ missed = [t \in Tasks |-> {}] /\ old = {} /\ healed = {}

AttachNext ==
  /\ AttachOne \/ (HostNext /\ UNCHANGED hooks)
  /\ \E late \in IF \E t \in Tasks : pc[t] = "accept" /\ pc'[t] = "accepting"
                  THEN BOOLEAN ELSE {FALSE} : MissedNext(late)
  /\ Watch

AttachSpec == AttachInit /\ [][AttachNext]_attachVars
-----------------------------------------------------------------------------
(* A hook that is still missing leaves wrong entries behind: a listener's  *)
(* SERVER outlives it where the destroy hooks are not yet attached, and    *)
(* the next socket of the address inherits it.  They do not stay: once all *)
(* hooks are on, and the calls then under way have returned, the first     *)
(* destruction at an address leaves it without a role, and from then on    *)
(* the role in conn_tracing_map is the true one.                           *)
HealedRoleTrue ==
  \A s \in healed :
    /\ tracing[s] \in {Absent, "UNKNOWN"} \cup TrueRoles(sk[s].kind)
    /\ sk[s].kind = "free" => tracing[s] = Absent
=============================================================================
