--------------------------- MODULE TcpLinkProofs ---------------------------
(***************************************************************************)
(* Theorems about TcpLink and TcpAttach, for any number of tasks, sockets, *)
(* ports and remotes, any capacity of the maps and of the ring: first      *)
(* those that hold for system calls in any interleaving, then those that   *)
(* need room in conn_ctx_map, then those that need one system call at a    *)
(* time, and last those about the tracer while it is being attached.       *)
(***************************************************************************)
EXTENDS TcpAttach, FiniteSetTheorems, TLAPS

-----------------------------------------------------------------------------
(* The map operations: the type of the result, and what a key then holds.  *)
LEMMA UpdateAnyType ==
  ASSUME NEW D, NEW V, NEW m \in [D -> V], NEW k \in D, NEW v \in V, NEW max
  PROVE  /\ UpdateAny(m, k, v, max) \in [D -> V]
         /\ \A x \in D \ {k} : UpdateAny(m, k, v, max)[x] = m[x]
         /\ \/ UpdateAny(m, k, v, max)[k] = v
            \/ UpdateAny(m, k, v, max)[k] = m[k] /\ m[k] = Absent
BY DEF UpdateAny

LEMMA UpdateNoExistType ==
  ASSUME NEW D, NEW V, NEW m \in [D -> V], NEW k \in D, NEW v \in V, NEW max
  PROVE  /\ UpdateNoExist(m, k, v, max) \in [D -> V]
         /\ \A x \in D \ {k} : UpdateNoExist(m, k, v, max)[x] = m[x]
         /\ \/ UpdateNoExist(m, k, v, max)[k] = v /\ m[k] = Absent
            \/ UpdateNoExist(m, k, v, max)[k] = m[k]
BY DEF UpdateNoExist

LEMMA LookupOrTryInitType ==
  ASSUME NEW D, NEW V, NEW m \in [D -> V], NEW k \in D, NEW v \in V, NEW max
  PROVE  /\ LookupOrTryInit(m, k, v, max) \in [D -> V]
         /\ \A x \in D \ {k} : LookupOrTryInit(m, k, v, max)[x] = m[x]
         /\ \/ LookupOrTryInit(m, k, v, max)[k] = v /\ m[k] = Absent
            \/ LookupOrTryInit(m, k, v, max)[k] = m[k]
BY DEF LookupOrTryInit, UpdateAny

LEMMA DeleteType ==
  ASSUME NEW D, NEW V, Absent \in V, NEW m \in [D -> V], NEW k \in D
  PROVE  /\ Delete(m, k) \in [D -> V]
         /\ \A x \in D \ {k} : Delete(m, k)[x] = m[x]
         /\ Delete(m, k)[k] = Absent
BY DEF Delete

(* DirectRole proves a client or a server, or nothing.                     *)
LEMMA DirectRoleCases ==
  ASSUME NEW from \in States, NEW new \in States
  PROVE  /\ DirectRole(from, new) \in {"CLIENT", "SERVER", Absent}
         /\ DirectRole(from, new) = "SERVER" => from = "SYN_RECV"
BY AbsentAssumption DEF DirectRole, States

LEMMA KeyOfType ==
  ASSUME TypeOK, NEW p \in Ptrs, NEW r \in Residues
  PROVE  KeyOf(p, r) \in Keys
BY DEF TypeOK, Ptrs, KeyOf, Keys, SockType

(* Changing one field of a socket keeps its type; steps that change more   *)
(* are chains of these.                                                    *)
LEMMA KindType ==
  ASSUME NEW c \in SockType, NEW v \in Kinds PROVE [c EXCEPT !.kind = v] \in SockType
BY DEF SockType

LEMMA StType ==
  ASSUME NEW c \in SockType, NEW v \in States PROVE [c EXCEPT !.st = v] \in SockType
BY DEF SockType

LEMMA FamType ==
  ASSUME NEW c \in SockType, NEW v \in Fams PROVE [c EXCEPT !.fam = v] \in SockType
BY DEF SockType

LEMMA LportType ==
  ASSUME NEW c \in SockType, NEW v \in {0} \cup ListenPorts \cup EphPorts PROVE [c EXCEPT !.lport = v] \in SockType
BY DEF SockType

LEMMA RaddrType ==
  ASSUME NEW c \in SockType, NEW v \in Remotes \cup {NULL} PROVE [c EXCEPT !.raddr = v] \in SockType
BY DEF SockType

LEMMA AutoType ==
  ASSUME NEW c \in SockType, NEW v \in BOOLEAN PROVE [c EXCEPT !.auto = v] \in SockType
BY DEF SockType

LEMMA OpenType ==
  ASSUME NEW c \in SockType, NEW v \in BOOLEAN PROVE [c EXCEPT !.open = v] \in SockType
BY DEF SockType

LEMMA HookType ==
  ASSUME NEW c \in SockType, NEW v \in 0..2 PROVE [c EXCEPT !.hook = v] \in SockType
BY DEF SockType

LEMMA ToType ==
  ASSUME NEW c \in SockType, NEW v \in States PROVE [c EXCEPT !.to = v] \in SockType
BY DEF SockType

LEMMA ResType ==
  ASSUME NEW c \in SockType, NEW v \in Residues PROVE [c EXCEPT !.res = v] \in SockType
BY DEF SockType

LEMMA DyingType ==
  ASSUME NEW c \in SockType, NEW v \in BOOLEAN PROVE [c EXCEPT !.dying = v] \in SockType
BY DEF SockType

LEMMA LearnedType ==
  ASSUME NEW c \in SockType, NEW v \in BOOLEAN PROVE [c EXCEPT !.learned = v] \in SockType
BY DEF SockType

LEMMA FreeSockType == FreeSock \in SockType
<1>1. (CHOOSE r \in Residues : TRUE) \in Residues
  BY ResidueAssumption
<1>2. (CHOOSE f \in Fams : TRUE) \in Fams
  BY FamAssumption
<1>3. QED BY <1>1, <1>2 DEF FreeSock, SockType, Kinds, States

-----------------------------------------------------------------------------
(* The two operators that Next's actions share.                            *)
LEMMA EnterType ==
  ASSUME TypeOK, NEW s \in Socks, NEW new \in States, NEW c \in SockType,
         Enter(s, new, c)
  PROVE  /\ sk' \in [Socks -> SockType]
         /\ tracing' \in [Ptrs -> Roles \cup {Absent}]
         /\ ctx' \in [Keys -> Roles \cup {Absent}]
<1>1. PICK r \in Residues :
        /\ sk' = [sk EXCEPT ![s] = [c EXCEPT !.hook = 1, !.to = new, !.res = r]]
        /\ tracing' = UpdateNoExist(tracing, s, "UNKNOWN", MaxTracing)
        /\ ctx' = UpdateNoExist(ctx,
                    [fam |-> c.fam, lport |-> c.lport, raddr |-> c.raddr, res |-> r],
                    "UNKNOWN", MaxCtx)
  BY DEF Enter
<1>2. [c EXCEPT !.hook = 1, !.to = new, !.res = r] \in SockType
  <2>0. 1 \in 0..2
    OBVIOUS
  <2>1. [c EXCEPT !.hook = 1] \in SockType
    BY <2>0, HookType
  <2>2. [[c EXCEPT !.hook = 1] EXCEPT !.to = new] \in SockType
    BY <2>1, ToType
  <2>3. [[[c EXCEPT !.hook = 1] EXCEPT !.to = new] EXCEPT !.res = r] \in SockType
    BY <2>2, ResType
  <2>4. QED BY <2>3
<1>3. [fam |-> c.fam, lport |-> c.lport, raddr |-> c.raddr, res |-> r] \in Keys
  BY DEF SockType, Keys
<1>4. tracing \in [Ptrs -> Roles \cup {Absent}] /\ ctx \in [Keys -> Roles \cup {Absent}]
      /\ sk \in [Socks -> SockType] /\ s \in Ptrs /\ "UNKNOWN" \in Roles
  BY DEF TypeOK, Ptrs, Roles
<1>5. tracing' \in [Ptrs -> Roles \cup {Absent}]
  BY <1>1, <1>4, UpdateNoExistType
<1>6. ctx' \in [Keys -> Roles \cup {Absent}]
  BY <1>1, <1>3, <1>4, UpdateNoExistType
<1>7. sk' \in [Socks -> SockType]
  BY <1>1, <1>2, <1>4
<1>8. QED BY <1>5, <1>6, <1>7

LEMMA HandleType ==
  ASSUME TypeOK, NEW s \in Socks, NEW role \in Roles, HandleNewConnection(s, role)
  PROVE  ring' \in Seq(EventType)
<1>1. Event(s, role) \in EventType
  BY DEF TypeOK, Event, EventType, SockType
<1>2. QED BY <1>1 DEF TypeOK, HandleNewConnection

LEMMA CtxInitType ==
  ASSUME TypeOK, NEW p \in Ptrs, NEW role \in Roles,
         \E r \in Residues : ctx' = LookupOrTryInit(ctx, KeyOf(p, r), role, MaxCtx)
  PROVE  ctx' \in [Keys -> Roles \cup {Absent}]
<1>1. PICK r \in Residues : ctx' = LookupOrTryInit(ctx, KeyOf(p, r), role, MaxCtx)
  OBVIOUS
<1>2. KeyOf(p, r) \in Keys
  BY KeyOfType
<1>3. ctx \in [Keys -> Roles \cup {Absent}]
  BY DEF TypeOK
<1>4. QED BY <1>1, <1>2, <1>3, LookupOrTryInitType

LEMMA CtxDeleteType ==
  ASSUME NEW c \in [Keys -> Roles \cup {Absent}], TypeOK, NEW p \in Ptrs, NEW r \in Residues
  PROVE  Delete(c, KeyOf(p, r)) \in [Keys -> Roles \cup {Absent}]
<1>1. KeyOf(p, r) \in Keys
  BY KeyOfType
<1>2. QED BY <1>1, DeleteType

(* conn_tracing_map after each operation a hook does on it.                *)
LEMMA TracingOps ==
  ASSUME TypeOK, NEW p \in Ptrs, NEW role \in Roles
  PROVE  /\ LookupOrTryInit(tracing, p, role, MaxTracing) \in [Ptrs -> Roles \cup {Absent}]
         /\ UpdateAny(tracing, p, role, MaxTracing) \in [Ptrs -> Roles \cup {Absent}]
         /\ Delete(tracing, p) \in [Ptrs -> Roles \cup {Absent}]
<1>1. tracing \in [Ptrs -> Roles \cup {Absent}] /\ role \in Roles \cup {Absent}
  BY DEF TypeOK
<1>2. QED BY <1>1, LookupOrTryInitType, UpdateAnyType, DeleteType

LEMMA InPtrs == Socks \subseteq Ptrs /\ Others \subseteq Ptrs /\ NULL \in Ptrs
BY DEF Ptrs

-----------------------------------------------------------------------------
(* Type correctness, one lemma per group of actions.                       *)
LEMMA SockTypeStep ==
  ASSUME TypeOK, NEW s \in Socks, SockNext(s)
  PROVE  TypeOK'
<1> USE DEF TypeOK
<1>0. sk[s] \in SockType /\ FreeSock \in SockType /\ s \in Ptrs /\ NULL \in Ptrs
  BY FreeSockType, InPtrs
<1>1. CASE NewSocket(s)
  <2>1. sk' \in [Socks -> SockType]
    <3>1. PICK fam \in Fams :
            \/ sk' = [sk EXCEPT ![s] = [FreeSock EXCEPT !.kind = "active", !.fam = fam, !.open = TRUE]]
            \/ \E port \in BoundPorts :
                 sk' = [sk EXCEPT ![s] = [FreeSock EXCEPT !.kind = "active", !.fam = fam,
                                            !.open = TRUE, !.lport = port, !.auto = FALSE]]
            \/ \E port \in ListenPorts :
                 sk' = [sk EXCEPT ![s] = [FreeSock EXCEPT !.kind = "listener", !.fam = fam,
                                            !.open = TRUE, !.lport = port, !.auto = FALSE]]
      BY <1>1 DEF NewSocket
    <3>2. ASSUME NEW kind \in Kinds
          PROVE  /\ [FreeSock EXCEPT !.kind = kind, !.fam = fam, !.open = TRUE] \in SockType
                 /\ \A port \in BoundPorts \cup ListenPorts :
                      [FreeSock EXCEPT !.kind = kind, !.fam = fam, !.open = TRUE,
                                       !.lport = port, !.auto = FALSE] \in SockType
      <4>1. [FreeSock EXCEPT !.kind = kind] \in SockType
        BY <1>0, KindType
      <4>2. [[FreeSock EXCEPT !.kind = kind] EXCEPT !.fam = fam] \in SockType
        BY <4>1, FamType
      <4>3. [FreeSock EXCEPT !.kind = kind, !.fam = fam, !.open = TRUE] \in SockType
        BY <4>2, OpenType
      <4>4. ASSUME NEW port \in BoundPorts \cup ListenPorts
            PROVE  [FreeSock EXCEPT !.kind = kind, !.fam = fam, !.open = TRUE,
                                    !.lport = port, !.auto = FALSE] \in SockType
        <5>1. port \in {0} \cup ListenPorts \cup EphPorts
          BY PortAssumption
        <5>2. [FreeSock EXCEPT !.kind = kind, !.fam = fam, !.open = TRUE, !.lport = port] \in SockType
          BY <4>3, <5>1, LportType
        <5>3. QED BY <5>2, AutoType
      <4>5. QED BY <4>3, <4>4
    <3>3. "active" \in Kinds /\ "listener" \in Kinds
      BY DEF Kinds
    <3>4. \E c \in SockType : sk' = [sk EXCEPT ![s] = c]
      <4>1. CASE sk' = [sk EXCEPT ![s] = [FreeSock EXCEPT !.kind = "active", !.fam = fam, !.open = TRUE]]
        BY <3>2, <3>3, <4>1
      <4>2. CASE \E port \in BoundPorts :
                   sk' = [sk EXCEPT ![s] = [FreeSock EXCEPT !.kind = "active", !.fam = fam,
                                              !.open = TRUE, !.lport = port, !.auto = FALSE]]
        BY <3>2, <3>3, <4>2
      <4>3. CASE \E port \in ListenPorts :
                   sk' = [sk EXCEPT ![s] = [FreeSock EXCEPT !.kind = "listener", !.fam = fam,
                                              !.open = TRUE, !.lport = port, !.auto = FALSE]]
        BY <3>2, <3>3, <4>3
      <4>4. QED BY <3>1, <4>1, <4>2, <4>3
    <3>5. QED BY <3>4
  <2>2. QED BY <1>1, <2>1 DEF NewSocket
<1>2. CASE Listen(s)
  <2>1. [sk[s] EXCEPT !.st = "LISTEN"] \in SockType
    BY <1>0, StType DEF States
  <2>2. QED BY <1>2, <2>1 DEF Listen
<1>3. CASE \E l \in Socks : NewChild(s, l)
  <2>1. PICK l \in Socks, r \in Remotes :
          sk' = [sk EXCEPT ![s] = [FreeSock EXCEPT !.kind = "child", !.st = "SYN_RECV",
                                     !.fam = sk[l].fam, !.lport = sk[l].lport, !.raddr = r]]
    BY <1>3 DEF NewChild
  <2>2. sk[l].fam \in Fams /\ sk[l].lport \in {0} \cup ListenPorts \cup EphPorts
    BY DEF SockType
  <2>3. [FreeSock EXCEPT !.kind = "child"] \in SockType
    BY <1>0, KindType DEF Kinds
  <2>4. [FreeSock EXCEPT !.kind = "child", !.st = "SYN_RECV"] \in SockType
    BY <2>3, StType DEF States
  <2>5. [FreeSock EXCEPT !.kind = "child", !.st = "SYN_RECV", !.fam = sk[l].fam] \in SockType
    BY <2>2, <2>4, FamType
  <2>6. [FreeSock EXCEPT !.kind = "child", !.st = "SYN_RECV", !.fam = sk[l].fam,
                         !.lport = sk[l].lport] \in SockType
    BY <2>2, <2>5, LportType
  <2>7. [FreeSock EXCEPT !.kind = "child", !.st = "SYN_RECV", !.fam = sk[l].fam,
                         !.lport = sk[l].lport, !.raddr = r] \in SockType
    BY <2>6, RaddrType
  <2>8. QED BY <1>3, <2>1, <2>7 DEF NewChild
<1>4. CASE KernelSetState(s)
  <2>1. PICK new \in KernelNext(sk[s].st) : Enter(s, new, sk[s])
    BY <1>4 DEF KernelSetState
  <2>2. new \in States
    BY <2>1 DEF KernelNext, States
  <2>3. QED BY <1>0, <1>4, <2>1, <2>2, EnterType DEF KernelSetState
<1>5. CASE SetStateDirect(s)
  <2> DEFINE role == DirectRole(sk[s].st, sk[s].to)
  <2>1. role \in Roles
    BY <1>0, <1>5, DirectRoleCases DEF SetStateDirect, Roles, SockType
  <2>2. tracing' \in [Ptrs -> Roles \cup {Absent}]
    BY <1>0, <1>5, <2>1, TracingOps DEF SetStateDirect
  <2>3. ring' \in Seq(EventType)
    BY <1>5, <2>1, HandleType DEF SetStateDirect
  <2>4. [sk[s] EXCEPT !.hook = 2] \in SockType
    <3>1. 2 \in 0..2
      OBVIOUS
    <3>2. QED BY <1>0, <3>1, HookType
  <2>5. [sk[s] EXCEPT !.hook = 2, !.learned = tracing'[s] # Absent] \in SockType
    BY <2>4, LearnedType
  <2>6. sk' = [sk EXCEPT ![s] = [sk[s] EXCEPT !.hook = 2, !.learned = tracing'[s] # Absent]]
    BY <1>5 DEF SetStateDirect
  <2>7. sk' \in [Socks -> SockType]
    BY <2>5, <2>6
  <2>8. QED BY <1>5, <2>2, <2>3, <2>7 DEF SetStateDirect
<1>6. CASE SetStateOther(s)
  <2>1. [sk[s] EXCEPT !.hook = 2] \in SockType
    <3>1. 2 \in 0..2
      OBVIOUS
    <3>2. QED BY <1>0, <3>1, HookType
  <2>2. sk' \in [Socks -> SockType]
    BY <1>6, <2>1 DEF SetStateOther
  <2>3. CASE tracing[s] = Absent
    BY <1>6, <2>2, <2>3 DEF SetStateOther
  <2>4. CASE tracing[s] # Absent
    <3>1. tracing[s] \in Roles
      BY <1>0, <2>4
    <3>2. KeyOf(s, sk[s].res) \in Keys
      BY <1>0, KeyOfType DEF SockType
    <3>3. ctx' \in [Keys -> Roles \cup {Absent}]
      <4>1. ctx' = UpdateAny(ctx, KeyOf(s, sk[s].res), tracing[s], MaxCtx)
        BY <1>6, <2>4 DEF SetStateOther
      <4>2. tracing[s] \in Roles \cup {Absent} /\ ctx \in [Keys -> Roles \cup {Absent}]
        BY <3>1
      <4>3. QED BY <3>2, <4>1, <4>2, UpdateAnyType
    <3>4. ring' \in Seq(EventType)
      BY <1>6, <2>4, <3>1, HandleType DEF SetStateOther
    <3>5. QED BY <1>6, <2>2, <3>3, <3>4 DEF SetStateOther
  <2>5. QED BY <2>3, <2>4
<1>7. CASE SetStateExit(s)
  <2>1. tracing' \in [Ptrs -> Roles \cup {Absent}]
    <3>1. "UNKNOWN" \in Roles
      BY DEF Roles
    <3>2. QED BY <1>0, <1>7, <3>1, TracingOps DEF SetStateExit
  <2>2. [sk[s] EXCEPT !.hook = 0] \in SockType
    <3>1. 0 \in 0..2
      OBVIOUS
    <3>2. QED BY <1>0, <3>1, HookType
  <2>3. [sk[s] EXCEPT !.hook = 0, !.st = sk[s].to] \in SockType
    BY <1>0, <2>2, StType DEF SockType
  <2>4. ASSUME NEW b \in BOOLEAN
        PROVE  [sk[s] EXCEPT !.hook = 0, !.st = sk[s].to, !.learned = b] \in SockType
    BY <2>3, LearnedType
  <2>5. ASSUME NEW b \in BOOLEAN, NEW v \in {0} \cup ListenPorts \cup EphPorts
        PROVE  [sk[s] EXCEPT !.hook = 0, !.st = sk[s].to, !.learned = b, !.lport = v] \in SockType
    BY <2>4, LportType
  <2>6. (sk[s].learned /\ sk[s].to # "CLOSE") \in BOOLEAN
    OBVIOUS
  <2>7. (IF sk[s].to = "CLOSE" /\ sk[s].auto THEN 0 ELSE sk[s].lport)
          \in {0} \cup ListenPorts \cup EphPorts
    BY <1>0 DEF SockType
  <2>8. sk' = [sk EXCEPT ![s] =
                [sk[s] EXCEPT !.hook = 0, !.st = sk[s].to,
                   !.learned = sk[s].learned /\ sk[s].to # "CLOSE",
                   !.lport = IF sk[s].to = "CLOSE" /\ sk[s].auto THEN 0 ELSE sk[s].lport]]
    BY <1>7 DEF SetStateExit
  <2>9. sk' \in [Socks -> SockType]
    BY <2>5, <2>6, <2>7, <2>8
  <2>10. QED BY <1>7, <2>1, <2>9 DEF SetStateExit
<1>8. CASE TcpClose(s)
  <2>1. [sk[s] EXCEPT !.open = FALSE] \in SockType
    BY <1>0, OpenType
  <2>2. sk' \in [Socks -> SockType]
    BY <1>8, <2>1 DEF TcpClose
  <2>3. Delete(tracing, NULL) \in [Ptrs -> Roles \cup {Absent}]
    <3>1. "UNKNOWN" \in Roles
      BY DEF Roles
    <3>2. QED BY <1>0, <3>1, TracingOps
  <2>4. \A r \in Residues : Delete(ctx, KeyOf(NULL, r)) \in [Keys -> Roles \cup {Absent}]
    BY <1>0, CtxDeleteType
  <2>5. tracing' \in [Ptrs -> Roles \cup {Absent}] /\ ctx' \in [Keys -> Roles \cup {Absent}]
    BY <1>8, <2>3, <2>4 DEF TcpClose
  <2>6. QED BY <1>8, <2>2, <2>5 DEF TcpClose
<1>9. CASE KDestroySock(s)
  <2>1. [sk[s] EXCEPT !.dying = TRUE] \in SockType
    BY <1>0, DyingType
  <2>2. tracing' \in [Ptrs -> Roles \cup {Absent}]
    <3>1. "UNKNOWN" \in Roles
      BY DEF Roles
    <3>2. QED BY <1>0, <1>9, <3>1, TracingOps DEF KDestroySock
  <2>3. ctx' \in [Keys -> Roles \cup {Absent}]
    BY <1>0, <1>9, CtxDeleteType DEF KDestroySock
  <2>4. QED BY <1>9, <2>1, <2>2, <2>3 DEF KDestroySock
<1>10. CASE TpDestroySock(s)
  <2>1. tracing' \in [Ptrs -> Roles \cup {Absent}]
    <3>1. "UNKNOWN" \in Roles
      BY DEF Roles
    <3>2. QED BY <1>0, <1>10, <3>1, TracingOps DEF TpDestroySock
  <2>2. ctx' \in [Keys -> Roles \cup {Absent}]
    <3>1. PICK r \in Residues, q \in Residues : ctx' = Delete(Delete(ctx, KeyOf(s, r)), KeyOf(s, q))
      BY <1>10 DEF TpDestroySock
    <3>2. Delete(ctx, KeyOf(s, r)) \in [Keys -> Roles \cup {Absent}]
      BY <1>0, CtxDeleteType
    <3>3. QED BY <1>0, <3>1, <3>2, CtxDeleteType
  <2>3. QED BY <1>0, <1>10, <2>1, <2>2 DEF TpDestroySock
<1>11. QED
  BY <1>1, <1>2, <1>3, <1>4, <1>5, <1>6, <1>7, <1>8, <1>9, <1>10 DEF SockNext

LEMMA ConnectTypeStep ==
  ASSUME TypeOK, OwnSocket, NEW t \in Tasks, ConnectNext(t)
  PROVE  TypeOK'
<1> USE DEF TypeOK
<1>0. /\ NULL \in Ptrs /\ Socks \subseteq Ptrs /\ Others \subseteq Ptrs
      /\ "CLIENT" \in Roles /\ Id(t) \in {Id(u) : u \in Tasks}
  BY InPtrs DEF Roles
<1>1. CASE FentrySysConnect(t)
  BY <1>0, <1>1 DEF FentrySysConnect, ResetFdInfo, Goto, Labels
<1>2. CASE FentrySysConnectFile(t)
  <2>1. PICK f \in {s \in Socks : sk[s].open /\ sk[s].kind = "active"} \cup Others :
          /\ at' = [at EXCEPT ![t] = f]
          /\ IF fdInfo[Id(t)].has
             THEN /\ SetFile(t, f)
                  /\ \E r \in Residues : ctx' = LookupOrTryInit(ctx, KeyOf(f, r), "CLIENT", MaxCtx)
             ELSE UNCHANGED <<fdInfo, ctx>>
    BY <1>2 DEF FentrySysConnectFile
  <2>2. f \in Ptrs
    BY <1>0
  <2>3. ctx' \in [Keys -> Roles \cup {Absent}]
    BY <1>0, <2>1, <2>2, CtxInitType
  <2>4. fdInfo' \in [{Id(u) : u \in Tasks} -> [has: BOOLEAN, file: Ptrs]]
    BY <1>0, <2>1, <2>2 DEF SetFile
  <2>5. QED BY <1>2, <2>1, <2>2, <2>3, <2>4 DEF FentrySysConnectFile, Goto, Labels
<1>3. CASE LockSock(t)
  <2>1. at[t] \in Ptrs
    BY <1>0, <1>3 DEF LockSock
  <2>2. tracing' \in [Ptrs -> Roles \cup {Absent}] /\ ctx' \in [Keys -> Roles \cup {Absent}]
    <3>1. CASE sk[at[t]].fam = 6
      BY <1>0, <1>3, <2>1, <3>1, TracingOps, CtxInitType DEF LockSock
    <3>2. CASE sk[at[t]].fam # 6
      BY <1>3, <3>2 DEF LockSock
    <3>3. QED BY <3>1, <3>2
  <2>3. QED BY <1>3, <2>2 DEF LockSock, Goto, Labels
<1>4. CASE ConnectSynSent(t)
  <2>1. PICK r \in Remotes : Enter(at[t], "SYN_SENT", [sk[at[t]] EXCEPT !.raddr = r])
    BY <1>4 DEF ConnectSynSent
  <2>2. at[t] \in Socks
    BY <1>4 DEF ConnectSynSent, OwnSocket, Locking
  <2>3. [sk[at[t]] EXCEPT !.raddr = r] \in SockType
    BY <2>2, RaddrType
  <2>4. "SYN_SENT" \in States
    BY DEF States
  <2>5. QED BY <1>4, <2>1, <2>2, <2>3, <2>4, EnterType DEF ConnectSynSent, Goto, Labels
<1>5. CASE ConnectPortPicked(t)
  <2>1. at[t] \in Socks
    BY <1>5 DEF ConnectPortPicked, OwnSocket, Locking
  <2>2. sk' \in [Socks -> SockType]
    <3>1. CASE sk[at[t]].lport # 0
      BY <1>5, <3>1 DEF ConnectPortPicked
    <3>2. CASE sk[at[t]].lport = 0
      <4>1. PICK port \in EphPorts : sk' = [sk EXCEPT ![at[t]].lport = port]
        BY <1>5, <3>2 DEF ConnectPortPicked
      <4>2. [sk[at[t]] EXCEPT !.lport = port] \in SockType
        BY <2>1, LportType
      <4>3. QED BY <2>1, <4>1, <4>2
    <3>3. QED BY <3>1, <3>2
  <2>3. QED BY <1>5, <2>2 DEF ConnectPortPicked, Goto, Labels
<1>6. CASE ConnectFails(t)
  <2>1. at[t] \in Socks
    BY <1>6 DEF ConnectFails, OwnSocket, Locking
  <2>2. sk[at[t]] \in SockType /\ "CLOSE" \in States
    BY <2>1 DEF States
  <2>3. QED BY <1>6, <2>1, <2>2, EnterType DEF ConnectFails, Goto, Labels
<1>7. CASE FexitTcpV4Connect(t)
  <2>1. at[t] \in Ptrs
    BY <1>0, <1>7 DEF FexitTcpV4Connect
  <2>2. tracing' \in [Ptrs -> Roles \cup {Absent}] /\ ctx' \in [Keys -> Roles \cup {Absent}]
    <3>1. CASE sk[at[t]].fam = 4
      BY <1>0, <1>7, <2>1, <3>1, TracingOps, CtxInitType DEF FexitTcpV4Connect
    <3>2. CASE sk[at[t]].fam # 4
      BY <1>7, <3>2 DEF FexitTcpV4Connect
    <3>3. QED BY <3>1, <3>2
  <2>3. QED BY <1>7, <2>2 DEF FexitTcpV4Connect, Goto, Labels
<1>8. CASE FexitSysConnect(t)
  BY <1>0, <1>8 DEF FexitSysConnect, Goto, Labels
<1>9. CASE FexitSysConnectDelete(t)
  BY <1>0, <1>9 DEF FexitSysConnectDelete, DropFdInfo, Goto, Labels
<1>10. CASE FexitSysConnectLookup(t)
  <2>1. PICK f \in {target[t], fdInfo[Id(t)].file} : \E p \in SockFromFile(f) :
          /\ target' = [target EXCEPT ![t] = p]
          /\ Goto(t, IF tracing[p] = Absent THEN "absent" ELSE "present")
    BY <1>10 DEF FexitSysConnectLookup
  <2>2. SockFromFile(f) \subseteq Ptrs
    BY <1>0, <2>1 DEF SockFromFile
  <2>3. QED BY <1>10, <2>1, <2>2 DEF FexitSysConnectLookup, Goto, Labels
<1>11. CASE FexitSysConnectUpdate(t)
  <2>1. target[t] \in Ptrs
    OBVIOUS
  <2>2. tracing' \in [Ptrs -> Roles \cup {Absent}]
    BY <1>0, <1>11, <2>1, TracingOps DEF FexitSysConnectUpdate
  <2>3. QED BY <1>11, <2>2 DEF FexitSysConnectUpdate, Goto, Labels
<1>12. CASE FexitSysConnectCtx(t)
  <2>1. target[t] \in Ptrs
    OBVIOUS
  <2>2. ctx' \in [Keys -> Roles \cup {Absent}]
    BY <1>0, <1>12, <2>1, CtxInitType DEF FexitSysConnectCtx
  <2>3. QED BY <1>0, <1>12, <2>2 DEF FexitSysConnectCtx, Goto, Labels
<1>13. QED
  BY <1>1, <1>2, <1>3, <1>4, <1>5, <1>6, <1>7, <1>8, <1>9, <1>10, <1>11, <1>12 DEF ConnectNext

LEMMA DropFdInfoType ==
  ASSUME TypeOK, NEW t \in Tasks, DropFdInfo(t) \/ UNCHANGED fdInfo
  PROVE  fdInfo' \in [{Id(u) : u \in Tasks} -> [has: BOOLEAN, file: Ptrs]]
<1> DEFINE Ids == {Id(u) : u \in Tasks}
           Info == [has: BOOLEAN, file: Ptrs]
<1>1. fdInfo \in [Ids -> Info] /\ Id(t) \in Ids
  BY DEF TypeOK
<1>2. \A i \in Info : [i EXCEPT !.has = FALSE] \in Info
  OBVIOUS
<1>3. fdInfo' = [fdInfo EXCEPT ![Id(t)] = [fdInfo[Id(t)] EXCEPT !.has = FALSE]] \/ fdInfo' = fdInfo
  BY DEF DropFdInfo
<1> HIDE DEF Ids, Info
<1>4. [fdInfo[Id(t)] EXCEPT !.has = FALSE] \in Info
  BY <1>1, <1>2
<1>5. fdInfo' \in [Ids -> Info]
  BY <1>1, <1>3, <1>4
<1> QED
  BY <1>5 DEF Ids, Info

LEMMA AcceptTypeStep ==
  ASSUME TypeOK, NEW t \in Tasks, AcceptNext(t)
  PROVE  TypeOK'
<1> USE DEF TypeOK
<1>0. NULL \in Ptrs /\ Socks \subseteq Ptrs /\ "SERVER" \in Roles /\ Id(t) \in {Id(u) : u \in Tasks}
  BY InPtrs DEF Roles
<1>1. CASE FentrySysAccept4(t)
  BY <1>0, <1>1 DEF FentrySysAccept4, ResetFdInfo, Goto, Labels
<1>2. CASE InetCskAccept(t)
  <2>1. PICK l \in Socks :
          /\ at' = [at EXCEPT ![t] = l]
          /\ tracing' = LookupOrTryInit(tracing, l, "SERVER", MaxTracing)
          /\ \E r \in Residues : ctx' = LookupOrTryInit(ctx, KeyOf(l, r), "SERVER", MaxCtx)
    BY <1>2 DEF InetCskAccept
  <2>2. tracing' \in [Ptrs -> Roles \cup {Absent}] /\ ctx' \in [Keys -> Roles \cup {Absent}]
    BY <1>0, <2>1, TracingOps, CtxInitType
  <2>3. QED BY <1>0, <1>2, <2>1, <2>2 DEF InetCskAccept, Goto, Labels
<1>3. CASE FexitDoAccept(t)
  <2>1. sk' \in [Socks -> SockType]
    <3>1. \A c \in Socks : [sk[c] EXCEPT !.open = TRUE] \in SockType
      BY OpenType
    <3>2. QED BY <1>3, <3>1 DEF FexitDoAccept
  <2>2. fdInfo' \in [{Id(u) : u \in Tasks} -> [has: BOOLEAN, file: Ptrs]]
    BY <1>0, <1>3 DEF FexitDoAccept, SetFile
  <2>3. pc' \in [Tasks -> Labels]
    BY <1>3 DEF FexitDoAccept, Goto, Labels
  <2>4. QED BY <1>3, <2>1, <2>2, <2>3 DEF FexitDoAccept
<1>4. CASE FexitSysAccept4(t)
  <2>1. fdInfo' \in [{Id(u) : u \in Tasks} -> [has: BOOLEAN, file: Ptrs]]
    BY <1>4, DropFdInfoType DEF FexitSysAccept4
  <2>2. QED BY <1>0, <1>4, <2>1 DEF FexitSysAccept4, Goto, Labels
<1>5. QED BY <1>1, <1>2, <1>3, <1>4 DEF AcceptNext

-----------------------------------------------------------------------------
LEMMA InitIInv == Init => IInv
<1> SUFFICES ASSUME Init PROVE IInv
  OBVIOUS
<1>1. sk \in [Socks -> SockType]
  <2>1. \A kind \in Kinds, port \in {0} \cup ListenPorts \cup EphPorts, r \in Remotes :
          Established(kind, port, r) \in SockType
    <3> SUFFICES ASSUME NEW kind \in Kinds, NEW port \in {0} \cup ListenPorts \cup EphPorts,
                        NEW r \in Remotes
                 PROVE  Established(kind, port, r) \in SockType
      OBVIOUS
    <3>1. [FreeSock EXCEPT !.kind = kind] \in SockType
      BY FreeSockType, KindType
    <3>2. [FreeSock EXCEPT !.kind = kind, !.st = "ESTABLISHED"] \in SockType
      BY <3>1, StType DEF States
    <3>3. [FreeSock EXCEPT !.kind = kind, !.st = "ESTABLISHED", !.open = TRUE] \in SockType
      BY <3>2, OpenType
    <3>4. [FreeSock EXCEPT !.kind = kind, !.st = "ESTABLISHED", !.open = TRUE, !.lport = port] \in SockType
      BY <3>3, LportType
    <3>5. QED BY <3>4, RaddrType DEF Established
  <2>2. QED BY <2>1, FreeSockType DEF Init, Kinds
<1>2. TypeOK
  BY <1>1, InPtrs DEF Init, TypeOK, Labels, NoFdInfo
<1>3. \A s \in Socks :
        \/ sk[s] = FreeSock
        \/ \E kind \in {"active", "child"}, port \in ListenPorts \cup EphPorts, r \in Remotes :
             sk[s] = Established(kind, port, r)
  BY DEF Init
<1>4. \A s \in Socks :
        /\ sk[s].hook = 0 /\ sk[s].to = "CLOSE" /\ ~sk[s].learned
        /\ sk[s].st \in {"CLOSE", "ESTABLISHED"}
        /\ sk[s].open => sk[s].kind # "free"
  <2>1. /\ FreeSock.hook = 0 /\ FreeSock.to = "CLOSE" /\ ~FreeSock.learned
        /\ FreeSock.st = "CLOSE" /\ ~FreeSock.open
    BY DEF FreeSock
  <2>2. ASSUME NEW kind \in {"active", "child"}, NEW port, NEW r
        PROVE  LET e == Established(kind, port, r) IN
               /\ e.hook = 0 /\ e.to = "CLOSE" /\ ~e.learned
               /\ e.st = "ESTABLISHED" /\ e.kind = kind
    BY DEF FreeSock, Established
  <2>3. QED BY <1>3, <2>1, <2>2
<1>5. SockFacts /\ LearnedRoleKept
  BY <1>4 DEF SockFacts, LearnedRoleKept
<1>6. OwnSocket /\ NonClientEntriesLive /\ ServerRoleIsTrue
  BY AbsentAssumption, InPtrs DEF Init, OwnSocket, Locking, NonClientEntriesLive, ServerRoleIsTrue
<1>7. QED BY <1>2, <1>5, <1>6 DEF IInv

-----------------------------------------------------------------------------
(* What a step does to the fields of a socket the facts speak of.          *)
LEMMA EnterEffect ==
  ASSUME TypeOK, NEW s \in Socks, NEW new \in States, NEW c \in SockType, Enter(s, new, c)
  PROVE  /\ sk'[s].hook = 1 /\ sk'[s].to = new
         /\ sk'[s].kind = c.kind /\ sk'[s].st = c.st /\ sk'[s].open = c.open
         /\ sk'[s].learned = c.learned
         /\ \A u \in Socks \ {s} : sk'[u] = sk[u]
         /\ \A p \in Ptrs \ {s} : tracing'[p] = tracing[p]
         /\ \/ tracing'[s] = tracing[s]
            \/ tracing[s] = Absent /\ tracing'[s] = "UNKNOWN"
<1>1. PICK r \in Residues : sk' = [sk EXCEPT ![s] = [c EXCEPT !.hook = 1, !.to = new, !.res = r]]
  BY DEF Enter
<1>2. sk'[s] = [c EXCEPT !.hook = 1, !.to = new, !.res = r]
  BY <1>1 DEF TypeOK
<1>3. /\ sk'[s].hook = 1 /\ sk'[s].to = new
      /\ sk'[s].kind = c.kind /\ sk'[s].st = c.st /\ sk'[s].open = c.open
      /\ sk'[s].learned = c.learned
  BY <1>2 DEF SockType
<1>4. \A u \in Socks \ {s} : sk'[u] = sk[u]
  BY <1>1 DEF TypeOK
<1>5. /\ \A p \in Ptrs \ {s} : tracing'[p] = tracing[p]
      /\ \/ tracing'[s] = tracing[s]
         \/ tracing[s] = Absent /\ tracing'[s] = "UNKNOWN"
  <2>1. tracing' = UpdateNoExist(tracing, s, "UNKNOWN", MaxTracing)
    BY DEF Enter
  <2>2. tracing \in [Ptrs -> Roles \cup {Absent}] /\ s \in Ptrs /\ "UNKNOWN" \in Roles \cup {Absent}
    BY InPtrs DEF TypeOK, Roles
  <2>3. QED BY <2>1, <2>2 DEF UpdateNoExist
<1>6. QED BY <1>3, <1>4, <1>5

(* The facts of IInv that hold while the hooks are being attached as well: *)
(* they need no hook to run.  The other two are about the entries the      *)
(* hooks write.                                                            *)
TInv == TypeOK /\ OwnSocket /\ SockFacts /\ LearnedRoleKept

EntriesTrue == NonClientEntriesLive /\ ServerRoleIsTrue

(* Enter preserves the facts, whoever takes the step.                      *)
LEMMA EnterFacts ==
  ASSUME TInv, NEW s \in Socks, NEW new \in States, NEW c \in SockType, Enter(s, new, c),
         new # "SYN_RECV", sk[s].kind # "free",
         c.kind = sk[s].kind, c.st = sk[s].st, c.open = sk[s].open, c.learned = sk[s].learned,
         ring' = ring
  PROVE  /\ SockFacts'
         /\ LearnedRoleKept'
         /\ EntriesTrue => EntriesTrue'
         /\ \A u \in Socks : sk'[u].kind = sk[u].kind /\ sk'[u].open = sk[u].open
<1>0. TypeOK /\ SockFacts /\ LearnedRoleKept
  BY DEF TInv
<1>1. SockFacts'
  BY <1>0, EnterEffect DEF SockFacts
<1>2. NonClientEntriesLive => NonClientEntriesLive'
  BY <1>0, EnterEffect, AbsentAssumption DEF NonClientEntriesLive
<1>3. ServerRoleIsTrue => ServerRoleIsTrue'
  BY <1>0, EnterEffect, InPtrs DEF ServerRoleIsTrue
<1>4. LearnedRoleKept'
  BY <1>0, EnterEffect, InPtrs, AbsentAssumption DEF LearnedRoleKept
<1>5. QED BY <1>0, <1>1, <1>2, <1>3, <1>4, EnterEffect DEF EntriesTrue

LEMMA RingFacts ==
  ASSUME TypeOK, ServerRoleIsTrue, NEW s \in Socks, NEW role \in Roles,
         HandleNewConnection(s, role), role = "SERVER" => sk[s].kind \in {"listener", "child"}
  PROVE  \A i \in DOMAIN ring' : ring'[i].role = "SERVER" => ring'[i].kind \in {"listener", "child"}
<1>1. ring \in Seq(EventType) /\ Event(s, role) \in EventType
  BY DEF TypeOK, Event, EventType, SockType
<1>2. \A i \in DOMAIN ring : ring[i].role = "SERVER" => ring[i].kind \in {"listener", "child"}
  BY DEF ServerRoleIsTrue
<1>3. Event(s, role).role = "SERVER" => Event(s, role).kind \in {"listener", "child"}
  BY DEF Event
<1>4. CASE ring' = ring
  BY <1>2, <1>4
<1>5. CASE ring' = Append(ring, Event(s, role))
  <2>1. /\ Len(ring') = Len(ring) + 1 /\ DOMAIN ring' = 1..(Len(ring) + 1)
        /\ \A i \in 1..Len(ring) : ring'[i] = ring[i]
        /\ ring'[Len(ring) + 1] = Event(s, role)
    BY <1>1, <1>5
  <2>2. DOMAIN ring = 1..Len(ring)
    BY <1>1
  <2>3. QED BY <1>2, <1>3, <2>1, <2>2
<1>6. QED BY <1>4, <1>5 DEF HandleNewConnection

LEMMA SockFactsStep ==
  ASSUME TInv, NEW s \in Socks, SockNext(s)
  PROVE  /\ OwnSocket'
         /\ SockFacts'
         /\ LearnedRoleKept'
         /\ EntriesTrue => EntriesTrue'
<1>0. TypeOK /\ OwnSocket /\ SockFacts /\ LearnedRoleKept
  BY DEF TInv
<1>a. sk \in [Socks -> SockType] /\ tracing \in [Ptrs -> Roles \cup {Absent}]
      /\ Socks \subseteq Ptrs /\ NULL \in Ptrs /\ NULL \notin Socks /\ sk[s] \in SockType
  BY <1>0, InPtrs, PtrAssumption DEF TypeOK
<1>1. CASE NewSocket(s)
  <2>1. /\ sk[s].kind = "free"
        /\ sk'[s].kind \in {"active", "listener"} /\ sk'[s].st = "CLOSE" /\ sk'[s].open
        /\ sk'[s].hook = 0 /\ sk'[s].to = "CLOSE" /\ ~sk'[s].learned
        /\ \A u \in Socks \ {s} : sk'[u] = sk[u]
        /\ UNCHANGED <<pc, at, tracing, ring>>
    <3>1. PICK fam \in Fams :
            \/ sk' = [sk EXCEPT ![s] = [FreeSock EXCEPT !.kind = "active", !.fam = fam, !.open = TRUE]]
            \/ \E port \in BoundPorts :
                 sk' = [sk EXCEPT ![s] = [FreeSock EXCEPT !.kind = "active", !.fam = fam,
                                            !.open = TRUE, !.lport = port, !.auto = FALSE]]
            \/ \E port \in ListenPorts :
                 sk' = [sk EXCEPT ![s] = [FreeSock EXCEPT !.kind = "listener", !.fam = fam,
                                            !.open = TRUE, !.lport = port, !.auto = FALSE]]
      BY <1>1 DEF NewSocket
    <3>2. sk[s].kind = "free" /\ UNCHANGED <<pc, at, tracing, ring>>
      BY <1>1 DEF NewSocket
    <3>3. CASE sk' = [sk EXCEPT ![s] = [FreeSock EXCEPT !.kind = "active", !.fam = fam, !.open = TRUE]]
      BY <1>a, <3>2, <3>3 DEF FreeSock
    <3>4. CASE \E port \in BoundPorts :
                 sk' = [sk EXCEPT ![s] = [FreeSock EXCEPT !.kind = "active", !.fam = fam,
                                            !.open = TRUE, !.lport = port, !.auto = FALSE]]
      BY <1>a, <3>2, <3>4 DEF FreeSock
    <3>5. CASE \E port \in ListenPorts :
                 sk' = [sk EXCEPT ![s] = [FreeSock EXCEPT !.kind = "listener", !.fam = fam,
                                            !.open = TRUE, !.lport = port, !.auto = FALSE]]
      BY <1>a, <3>2, <3>5 DEF FreeSock
    <3>6. QED BY <3>1, <3>3, <3>4, <3>5
  <2>2. \A t \in Tasks : at[t] = s => pc[t] \notin {"file", "failed", "returned"} \cup Locking
    BY <1>0, <2>1 DEF OwnSocket, SockFacts
  <2>3. OwnSocket' /\ SockFacts' /\ LearnedRoleKept'
    BY <1>0, <1>a, <2>1, <2>2 DEF OwnSocket, SockFacts, LearnedRoleKept
  <2>4. EntriesTrue => EntriesTrue'
    BY <1>a, <2>1 DEF EntriesTrue, NonClientEntriesLive, ServerRoleIsTrue
  <2>5. QED BY <2>3, <2>4
<1>2. CASE Listen(s)
  <2>1. /\ sk[s].kind = "listener"
        /\ sk'[s].kind = sk[s].kind /\ sk'[s].st = "LISTEN" /\ sk'[s].open = sk[s].open
        /\ sk'[s].hook = sk[s].hook /\ sk'[s].to = sk[s].to /\ sk'[s].learned = sk[s].learned
        /\ \A u \in Socks \ {s} : sk'[u] = sk[u]
        /\ UNCHANGED <<pc, at, tracing, ring>>
    BY <1>2, <1>a DEF Listen, SockType
  <2>2. OwnSocket' /\ SockFacts' /\ LearnedRoleKept'
    BY <1>0, <1>a, <2>1 DEF OwnSocket, SockFacts, LearnedRoleKept
  <2>3. EntriesTrue => EntriesTrue'
    BY <1>a, <2>1 DEF EntriesTrue, NonClientEntriesLive, ServerRoleIsTrue
  <2>4. QED BY <2>2, <2>3
<1>3. CASE \E l \in Socks : NewChild(s, l)
  <2>1. /\ sk[s].kind = "free"
        /\ sk'[s].kind = "child" /\ sk'[s].st = "SYN_RECV" /\ ~sk'[s].open
        /\ sk'[s].hook = 0 /\ sk'[s].to = "CLOSE" /\ ~sk'[s].learned
        /\ \A u \in Socks \ {s} : sk'[u] = sk[u]
        /\ UNCHANGED <<pc, at, tracing, ring>>
    BY <1>3, <1>a DEF NewChild, FreeSock
  <2>2. \A t \in Tasks : at[t] = s => pc[t] \notin {"file", "failed", "returned"} \cup Locking
    BY <1>0, <2>1 DEF OwnSocket, SockFacts
  <2>3. OwnSocket' /\ SockFacts' /\ LearnedRoleKept'
    BY <1>0, <1>a, <2>1, <2>2 DEF OwnSocket, SockFacts, LearnedRoleKept
  <2>4. EntriesTrue => EntriesTrue'
    BY <1>a, <2>1 DEF EntriesTrue, NonClientEntriesLive, ServerRoleIsTrue
  <2>5. QED BY <2>3, <2>4
<1>4. CASE KernelSetState(s)
  <2>1. PICK new \in KernelNext(sk[s].st) : Enter(s, new, sk[s])
    BY <1>4 DEF KernelSetState
  <2>2. new \in States /\ new # "SYN_RECV"
    BY <2>1 DEF KernelNext, States
  <2>3. sk[s].kind # "free" /\ UNCHANGED <<pc, at, ring>>
    BY <1>4 DEF KernelSetState
  <2>4. QED BY <1>0, <1>a, <2>1, <2>2, <2>3, EnterFacts DEF OwnSocket
<1>5. CASE SetStateDirect(s)
  <2> DEFINE role == DirectRole(sk[s].st, sk[s].to)
  <2>1. role \in {"CLIENT", "SERVER"} /\ role \in Roles /\ (role = "SERVER" => sk[s].kind = "child")
    BY <1>0, <1>5, <1>a, DirectRoleCases DEF SetStateDirect, SockFacts, SockType, Roles
  <2>2. /\ sk'[s].kind = sk[s].kind /\ sk'[s].st = sk[s].st /\ sk'[s].open = sk[s].open
        /\ sk'[s].hook = 2 /\ sk'[s].to = sk[s].to /\ sk'[s].learned = (tracing'[s] # Absent)
        /\ \A u \in Socks \ {s} : sk'[u] = sk[u]
        /\ UNCHANGED <<pc, at>>
    BY <1>5, <1>a DEF SetStateDirect, SockType
  <2>3. /\ \A p \in Ptrs \ {s} : tracing'[p] = tracing[p]
        /\ \/ tracing'[s] = role
           \/ tracing'[s] = tracing[s] /\ tracing[s] = Absent
    BY <1>5, <1>a, <2>1 DEF SetStateDirect, UpdateAny
  <2>4. sk[s].kind # "free"
    BY <1>0, <1>5 DEF SetStateDirect, SockFacts
  <2>5. OwnSocket' /\ SockFacts'
    BY <1>0, <1>a, <2>2, <2>4 DEF OwnSocket, SockFacts
  <2>6. LearnedRoleKept'
    BY <1>0, <1>a, <2>1, <2>2, <2>3, AbsentAssumption DEF LearnedRoleKept
  <2>7. NonClientEntriesLive => NonClientEntriesLive'
    BY <1>a, <2>1, <2>2, <2>3, <2>4, AbsentAssumption DEF NonClientEntriesLive
  <2>8. ASSUME ServerRoleIsTrue PROVE ServerRoleIsTrue'
    <3>1. \A i \in DOMAIN ring' : ring'[i].role = "SERVER" => ring'[i].kind \in {"listener", "child"}
      BY <1>0, <1>5, <2>1, <2>8, RingFacts DEF SetStateDirect
    <3>2. \A u \in Socks : tracing'[u] = "SERVER" => sk'[u].kind \in {"listener", "child"}
      BY <1>a, <2>1, <2>2, <2>3, <2>8, AbsentAssumption DEF ServerRoleIsTrue
    <3>3. QED BY <3>1, <3>2 DEF ServerRoleIsTrue
  <2>9. QED BY <2>5, <2>6, <2>7, <2>8 DEF EntriesTrue
<1>6. CASE SetStateOther(s)
  <2>1. /\ sk'[s].kind = sk[s].kind /\ sk'[s].st = sk[s].st /\ sk'[s].open = sk[s].open
        /\ sk'[s].hook = 2 /\ sk'[s].to = sk[s].to /\ sk'[s].learned = sk[s].learned
        /\ \A u \in Socks \ {s} : sk'[u] = sk[u]
        /\ sk[s].hook = 1
        /\ UNCHANGED <<pc, at, tracing>>
    BY <1>6, <1>a DEF SetStateOther, SockType
  <2>2. OwnSocket' /\ SockFacts' /\ LearnedRoleKept'
    BY <1>0, <1>a, <2>1 DEF OwnSocket, SockFacts, LearnedRoleKept
  <2>3. ASSUME ServerRoleIsTrue
        PROVE  \A i \in DOMAIN ring' : ring'[i].role = "SERVER" => ring'[i].kind \in {"listener", "child"}
    <3>1. CASE tracing[s] = Absent
      BY <1>6, <2>3, <3>1 DEF SetStateOther, ServerRoleIsTrue
    <3>2. CASE tracing[s] # Absent
      <4>1. tracing[s] \in Roles /\ HandleNewConnection(s, tracing[s])
        BY <1>6, <1>a, <3>2 DEF SetStateOther
      <4>2. tracing[s] = "SERVER" => sk[s].kind \in {"listener", "child"}
        BY <2>3 DEF ServerRoleIsTrue
      <4>3. QED BY <1>0, <2>3, <4>1, <4>2, RingFacts
    <3>3. QED BY <3>1, <3>2
  <2>4. ServerRoleIsTrue => ServerRoleIsTrue'
    BY <2>1, <2>3 DEF ServerRoleIsTrue
  <2>5. NonClientEntriesLive => NonClientEntriesLive'
    BY <1>a, <2>1 DEF NonClientEntriesLive
  <2>6. QED BY <2>2, <2>4, <2>5 DEF EntriesTrue
<1>7. CASE SetStateExit(s)
  <2>1. /\ sk[s].hook = 2
        /\ sk'[s].kind = sk[s].kind /\ sk'[s].st = sk[s].to /\ sk'[s].open = sk[s].open
        /\ sk'[s].hook = 0 /\ sk'[s].to = sk[s].to
        /\ sk'[s].learned = (sk[s].learned /\ sk[s].to # "CLOSE")
        /\ \A u \in Socks \ {s} : sk'[u] = sk[u]
        /\ UNCHANGED <<pc, at, ring>>
    BY <1>7, <1>a DEF SetStateExit, SockType
  <2>2. /\ \A p \in Ptrs \ {s} : tracing'[p] = tracing[p]
        /\ tracing'[s] = IF sk[s].to = "CLOSE" THEN Absent ELSE tracing[s]
    BY <1>7, <1>a DEF SetStateExit, Delete
  <2>3. OwnSocket' /\ SockFacts'
    <3>1. SockFacts'
      <4> SUFFICES ASSUME NEW u \in Socks
                   PROVE  /\ sk'[u].hook # 0 \/ sk'[u].open => sk'[u].kind # "free"
                          /\ sk'[u].st = "SYN_RECV" => sk'[u].kind = "child"
                          /\ sk'[u].to # "SYN_RECV"
                          /\ sk'[u].learned /\ sk'[u].hook = 0 => sk'[u].st # "CLOSE"
        BY DEF SockFacts
      <4>1. CASE u = s
        BY <1>0, <2>1, <4>1 DEF SockFacts
      <4>2. CASE u # s
        BY <1>0, <2>1, <4>2 DEF SockFacts
      <4>3. QED BY <4>1, <4>2
    <3>2. OwnSocket'
      BY <1>0, <2>1 DEF OwnSocket
    <3>3. QED BY <3>1, <3>2
  <2>4. LearnedRoleKept'
    BY <1>0, <1>a, <2>1, <2>2, AbsentAssumption DEF LearnedRoleKept
  <2>5. EntriesTrue => EntriesTrue'
    <3>1. NonClientEntriesLive => NonClientEntriesLive'
      BY <1>a, <2>1, <2>2, AbsentAssumption DEF NonClientEntriesLive
    <3>2. ServerRoleIsTrue => ServerRoleIsTrue'
      BY <1>a, <2>1, <2>2, AbsentAssumption DEF ServerRoleIsTrue
    <3>3. QED BY <3>1, <3>2 DEF EntriesTrue
  <2>6. QED BY <2>3, <2>4, <2>5
<1>8. CASE TcpClose(s)
  <2>1. /\ sk'[s].kind = sk[s].kind /\ sk'[s].st = sk[s].st /\ ~sk'[s].open
        /\ sk'[s].hook = sk[s].hook /\ sk'[s].to = sk[s].to /\ sk'[s].learned = sk[s].learned
        /\ \A u \in Socks \ {s} : sk'[u] = sk[u]
        /\ UNCHANGED <<pc, at, ring>>
        /\ \A t \in Tasks : at[t] # s
    BY <1>8, <1>a DEF TcpClose, InUse, SockType
  <2>2. \A p \in Ptrs : tracing'[p] = tracing[p] \/ (p = NULL /\ tracing'[p] = Absent)
    BY <1>8, <1>a DEF TcpClose, Delete
  <2>3. OwnSocket' /\ SockFacts'
    <3>1. SockFacts'
      BY <1>0, <1>a, <2>1 DEF SockFacts
    <3>2. \A t \in Tasks : at[t] \in Socks => sk'[at[t]] = sk[at[t]]
      BY <2>1
    <3>3. OwnSocket'
      BY <1>0, <2>1, <3>2 DEF OwnSocket
    <3>4. QED BY <3>1, <3>3
  <2>4. LearnedRoleKept'
    BY <1>0, <1>a, <2>1, <2>2 DEF LearnedRoleKept
  <2>5. EntriesTrue => EntriesTrue'
    BY <1>a, <2>1, <2>2, AbsentAssumption DEF EntriesTrue, NonClientEntriesLive, ServerRoleIsTrue
  <2>6. QED BY <2>3, <2>4, <2>5
<1>9. CASE KDestroySock(s)
  <2>1. /\ sk'[s].kind = sk[s].kind /\ sk'[s].st = sk[s].st /\ sk'[s].open = sk[s].open
        /\ sk'[s].hook = sk[s].hook /\ sk'[s].to = sk[s].to /\ sk'[s].learned = sk[s].learned
        /\ \A u \in Socks \ {s} : sk'[u] = sk[u]
        /\ UNCHANGED <<pc, at, ring>>
    BY <1>9, <1>a DEF KDestroySock, SockType
  <2>2. \A p \in Ptrs : tracing'[p] = tracing[p] \/ (p = s /\ tracing'[p] = Absent)
    BY <1>9, <1>a DEF KDestroySock, Delete
  <2>3. ~sk[s].learned
    BY <1>0, <1>9 DEF KDestroySock, Closed, SockFacts
  <2>4. OwnSocket' /\ SockFacts'
    BY <1>0, <1>a, <2>1 DEF OwnSocket, SockFacts
  <2>5. LearnedRoleKept'
    BY <1>0, <1>a, <2>1, <2>2, <2>3 DEF LearnedRoleKept
  <2>6. EntriesTrue => EntriesTrue'
    BY <1>a, <2>1, <2>2, AbsentAssumption DEF EntriesTrue, NonClientEntriesLive, ServerRoleIsTrue
  <2>7. QED BY <2>4, <2>5, <2>6
<1>10. CASE TpDestroySock(s)
  <2>1. /\ sk[s].kind # "free" /\ ~sk[s].open
        /\ ~sk'[s].open /\ sk'[s].hook = 0 /\ sk'[s].st = "CLOSE" /\ sk'[s].to = "CLOSE"
        /\ ~sk'[s].learned /\ sk'[s].kind = "free"
        /\ \A u \in Socks \ {s} : sk'[u] = sk[u]
        /\ UNCHANGED <<pc, at, ring>>
    BY <1>10, <1>a DEF TpDestroySock, Closed, FreeSock
  <2>2. \A p \in Ptrs : IF p = s THEN tracing'[p] = Absent ELSE tracing'[p] = tracing[p]
    BY <1>10, <1>a DEF TpDestroySock, Delete
  <2>3. OwnSocket' /\ SockFacts'
    BY <1>0, <1>a, <2>1 DEF OwnSocket, SockFacts
  <2>4. LearnedRoleKept'
    BY <1>0, <1>a, <2>1, <2>2 DEF LearnedRoleKept
  <2>5. EntriesTrue => EntriesTrue'
    BY <1>a, <2>1, <2>2, AbsentAssumption DEF EntriesTrue, NonClientEntriesLive, ServerRoleIsTrue
  <2>6. QED BY <2>3, <2>4, <2>5
<1>11. QED
  BY <1>1, <1>2, <1>3, <1>4, <1>5, <1>6, <1>7, <1>8, <1>9, <1>10 DEF SockNext

(* A lookup-or-init of conn_tracing_map writes a role only where there was *)
(* none.                                                                   *)
LEMMA InitEffect ==
  ASSUME TypeOK, NEW p \in Ptrs, NEW role \in Roles,
         tracing' = LookupOrTryInit(tracing, p, role, MaxTracing)
  PROVE  /\ \A q \in Ptrs \ {p} : tracing'[q] = tracing[q]
         /\ \/ tracing'[p] = tracing[p]
            \/ tracing[p] = Absent /\ tracing'[p] = role
BY DEF TypeOK, LookupOrTryInit, UpdateAny

(* The connect hooks write CLIENT only, under whatever pointer they have:  *)
(* that breaks none of the facts about SERVER and UNKNOWN entries.         *)
LEMMA ClientWrite ==
  ASSUME TInv, NEW p \in Ptrs, UNCHANGED <<sk, ring>>,
         \A q \in Ptrs \ {p} : tracing'[q] = tracing[q],
         \/ tracing'[p] = tracing[p]
         \/ tracing[p] = Absent /\ tracing'[p] = "CLIENT"
         \/ tracing'[p] = "CLIENT"
  PROVE  SockFacts' /\ LearnedRoleKept' /\ (EntriesTrue => EntriesTrue')
<1>1. SockFacts' /\ LearnedRoleKept'
  BY InPtrs DEF TInv, SockFacts, LearnedRoleKept
<1>2. EntriesTrue => EntriesTrue'
  BY InPtrs DEF EntriesTrue, NonClientEntriesLive, ServerRoleIsTrue
<1>3. QED BY <1>1, <1>2

(* A step that leaves sockets, roles and the ring alone keeps the facts.   *)
LEMMA FactsUnchanged ==
  ASSUME TInv, UNCHANGED <<sk, tracing, ring>>
  PROVE  SockFacts' /\ LearnedRoleKept' /\ (EntriesTrue => EntriesTrue')
BY DEF TInv, SockFacts, LearnedRoleKept, EntriesTrue, NonClientEntriesLive, ServerRoleIsTrue

(* A task that moves to a label outside connect's window, on a socket that *)
(* does not change, keeps OwnSocket.                                       *)
LEMMA OwnSocketStep ==
  ASSUME TypeOK, OwnSocket, NEW t \in Tasks, NEW label \in Labels,
         Goto(t, label),
         \A u \in Tasks \ {t} : at'[u] = at[u],
         \A u \in Socks : sk[u].open /\ sk[u].kind = "active" =>
                              sk'[u].open /\ sk'[u].kind = "active",
         label \in Locking => at'[t] \in Socks,
         label \in {"file", "failed", "returned"} \cup Locking /\ at'[t] \in Socks =>
           sk'[at'[t]].open /\ sk'[at'[t]].kind = "active"
  PROVE  OwnSocket'
<1>1. pc'[t] = label /\ \A u \in Tasks \ {t} : pc'[u] = pc[u]
  BY DEF TypeOK, Goto
<1>2. ASSUME NEW u \in Tasks
      PROVE  /\ pc'[u] \in Locking => at'[u] \in Socks
             /\ pc'[u] \in {"file", "failed", "returned"} \cup Locking /\ at'[u] \in Socks =>
                  sk'[at'[u]].open /\ sk'[at'[u]].kind = "active"
  <2>1. CASE u = t
    BY <1>1, <2>1
  <2>2. CASE u # t
    BY <1>1, <2>2 DEF OwnSocket
  <2>3. QED BY <2>1, <2>2
<1>3. QED BY <1>2 DEF OwnSocket

LEMMA ConnectFactsStep ==
  ASSUME TInv, NEW t \in Tasks, ConnectNext(t)
  PROVE  /\ OwnSocket'
         /\ SockFacts'
         /\ LearnedRoleKept'
         /\ EntriesTrue => EntriesTrue'
<1>0. TypeOK /\ OwnSocket /\ SockFacts
  BY DEF TInv
<1>a. /\ sk \in [Socks -> SockType] /\ at \in [Tasks -> Ptrs] /\ target \in [Tasks -> Ptrs]
      /\ tracing \in [Ptrs -> Roles \cup {Absent}]
      /\ Socks \subseteq Ptrs /\ NULL \in Ptrs /\ NULL \notin Socks /\ "CLIENT" \in Roles
  BY <1>0, InPtrs, PtrAssumption DEF TypeOK, Roles
<1>b. /\ pc[t] \in Locking => at[t] \in Socks
      /\ pc[t] \in {"file", "failed", "returned"} \cup Locking /\ at[t] \in Socks =>
           sk[at[t]].open /\ sk[at[t]].kind = "active"
  BY <1>0 DEF OwnSocket
<1>1. CASE FentrySysConnect(t)
  <2>1. UNCHANGED <<sk, at, tracing, ring>> /\ Goto(t, "connect")
    BY <1>1 DEF FentrySysConnect
  <2>2. OwnSocket'
    BY <1>0, <2>1, OwnSocketStep DEF Labels, Locking
  <2>3. QED BY <2>1, <2>2, FactsUnchanged
<1>2. CASE FentrySysConnectFile(t)
  <2>1. PICK f \in {s \in Socks : sk[s].open /\ sk[s].kind = "active"} \cup Others :
          at' = [at EXCEPT ![t] = f] /\ Goto(t, "file")
    BY <1>2 DEF FentrySysConnectFile
  <2>2. UNCHANGED <<sk, tracing, ring>>
    BY <1>2 DEF FentrySysConnectFile
  <2>3. at'[t] = f /\ \A u \in Tasks \ {t} : at'[u] = at[u]
    BY <1>a, <2>1
  <2>4. at'[t] \in Socks => sk'[at'[t]].open /\ sk'[at'[t]].kind = "active"
    BY <2>1, <2>2, <2>3, PtrAssumption
  <2>5. OwnSocket'
    BY <1>0, <2>1, <2>2, <2>3, <2>4, OwnSocketStep DEF Labels, Locking
  <2>6. QED BY <2>2, <2>5, FactsUnchanged
<1>3. CASE LockSock(t)
  <2>1. /\ pc[t] = "file" /\ at[t] \in Socks /\ Goto(t, "locked") /\ UNCHANGED <<sk, at, ring>>
        /\ \/ tracing' = LookupOrTryInit(tracing, at[t], "CLIENT", MaxTracing)
           \/ tracing' = tracing
    BY <1>3 DEF LockSock
  <2>2. OwnSocket'
    BY <1>0, <1>b, <2>1, OwnSocketStep DEF Labels, Locking
  <2>3. /\ \A q \in Ptrs \ {at[t]} : tracing'[q] = tracing[q]
        /\ \/ tracing'[at[t]] = tracing[at[t]]
           \/ tracing[at[t]] = Absent /\ tracing'[at[t]] = "CLIENT"
    BY <1>0, <1>a, <2>1, InitEffect
  <2>4. QED BY <1>a, <2>1, <2>2, <2>3, ClientWrite
<1>4. CASE ConnectSynSent(t)
  <2>1. PICK r \in Remotes : Enter(at[t], "SYN_SENT", [sk[at[t]] EXCEPT !.raddr = r])
    BY <1>4 DEF ConnectSynSent
  <2>2. pc[t] = "locked" /\ Goto(t, "synsent") /\ UNCHANGED <<at, ring>>
    BY <1>4 DEF ConnectSynSent
  <2>3. at[t] \in Socks /\ sk[at[t]].open /\ sk[at[t]].kind = "active"
    BY <1>b, <2>2 DEF Locking
  <2> DEFINE c == [sk[at[t]] EXCEPT !.raddr = r]
  <2>4. /\ c \in SockType /\ c.kind = sk[at[t]].kind /\ c.st = sk[at[t]].st
        /\ c.open = sk[at[t]].open /\ c.learned = sk[at[t]].learned
    <3>1. sk[at[t]] \in SockType
      BY <1>a, <2>3
    <3>2. c \in SockType
      BY <3>1, RaddrType
    <3>3. QED BY <3>1, <3>2 DEF SockType
  <2>5. "SYN_SENT" \in States /\ Enter(at[t], "SYN_SENT", c) /\ sk[at[t]].kind # "free"
    BY <2>1, <2>3 DEF States
  <2> HIDE DEF c
  <2>6. /\ SockFacts' /\ LearnedRoleKept' /\ (EntriesTrue => EntriesTrue')
        /\ \A u \in Socks : sk'[u].kind = sk[u].kind /\ sk'[u].open = sk[u].open
    BY <2>2, <2>3, <2>4, <2>5, EnterFacts
  <2>7. OwnSocket'
    BY <1>0, <2>2, <2>3, <2>6, OwnSocketStep DEF Labels, Locking
  <2>8. QED BY <2>6, <2>7
<1>5. CASE ConnectPortPicked(t)
  <2>1. /\ pc[t] = "synsent" /\ Goto(t, "picked") /\ UNCHANGED <<at, tracing, ring>>
        /\ \/ UNCHANGED sk
           \/ \E port \in EphPorts : sk' = [sk EXCEPT ![at[t]].lport = port]
    BY <1>5 DEF ConnectPortPicked
  <2>2. at[t] \in Socks /\ sk[at[t]].open /\ sk[at[t]].kind = "active" /\ sk[at[t]] \in SockType
    BY <1>a, <1>b, <2>1 DEF Locking
  <2>3. \A u \in Socks :
          /\ sk'[u].kind = sk[u].kind /\ sk'[u].open = sk[u].open /\ sk'[u].st = sk[u].st
          /\ sk'[u].to = sk[u].to /\ sk'[u].hook = sk[u].hook /\ sk'[u].learned = sk[u].learned
    BY <1>a, <2>1, <2>2 DEF SockType
  <2>4. SockFacts' /\ LearnedRoleKept' /\ (EntriesTrue => EntriesTrue')
    <3>1. UNCHANGED <<tracing, ring>>
      BY <2>1
    <3>2. QED BY <2>3, <3>1
              DEF TInv, SockFacts, LearnedRoleKept, EntriesTrue, NonClientEntriesLive, ServerRoleIsTrue
  <2>5. OwnSocket'
    BY <1>0, <2>1, <2>2, <2>3, OwnSocketStep DEF Labels, Locking
  <2>6. QED BY <2>4, <2>5
<1>6. CASE ConnectFails(t)
  <2>1. /\ pc[t] \in {"synsent", "picked"} /\ Goto(t, "failed") /\ UNCHANGED <<at, ring>>
        /\ Enter(at[t], "CLOSE", sk[at[t]])
    BY <1>6 DEF ConnectFails
  <2>2. at[t] \in Socks /\ sk[at[t]].open /\ sk[at[t]].kind = "active" /\ sk[at[t]] \in SockType
    BY <1>a, <1>b, <2>1 DEF Locking
  <2>3. "CLOSE" \in States /\ sk[at[t]].kind # "free"
    BY <2>2 DEF States
  <2>4. /\ SockFacts' /\ LearnedRoleKept' /\ (EntriesTrue => EntriesTrue')
        /\ \A u \in Socks : sk'[u].kind = sk[u].kind /\ sk'[u].open = sk[u].open
    BY <2>1, <2>2, <2>3, EnterFacts
  <2>5. OwnSocket'
    BY <1>0, <2>1, <2>2, <2>4, OwnSocketStep DEF Labels, Locking
  <2>6. QED BY <2>4, <2>5
<1>7. CASE FexitTcpV4Connect(t)
  <2>1. /\ pc[t] = "picked" /\ Goto(t, "returned") /\ UNCHANGED <<sk, at, ring>>
        /\ \/ tracing' = LookupOrTryInit(tracing, at[t], "CLIENT", MaxTracing)
           \/ tracing' = tracing
    BY <1>7 DEF FexitTcpV4Connect
  <2>2. at[t] \in Socks /\ sk[at[t]].open /\ sk[at[t]].kind = "active"
    BY <1>b, <2>1 DEF Locking
  <2>3. OwnSocket'
    BY <1>0, <2>1, <2>2, OwnSocketStep DEF Labels, Locking
  <2>4. /\ \A q \in Ptrs \ {at[t]} : tracing'[q] = tracing[q]
        /\ \/ tracing'[at[t]] = tracing[at[t]]
           \/ tracing[at[t]] = Absent /\ tracing'[at[t]] = "CLIENT"
    BY <1>0, <1>a, <2>1, InitEffect
  <2>5. QED BY <1>a, <2>1, <2>3, <2>4, ClientWrite
<1>8. CASE FexitSysConnect(t)
  <2>1. /\ UNCHANGED <<sk, tracing, ring>>
        /\ \A u \in Tasks \ {t} : at'[u] = at[u]
        /\ Goto(t, "found") \/ Goto(t, "idle")
    BY <1>8, <1>a DEF FexitSysConnect
  <2>2. OwnSocket'
    BY <1>0, <2>1, OwnSocketStep DEF Labels, Locking
  <2>3. QED BY <2>1, <2>2, FactsUnchanged
<1>9. CASE FexitSysConnectDelete(t)
  <2>1. UNCHANGED <<sk, at, tracing, ring>> /\ Goto(t, "deleted")
    BY <1>9 DEF FexitSysConnectDelete
  <2>2. OwnSocket'
    BY <1>0, <2>1, OwnSocketStep DEF Labels, Locking
  <2>3. QED BY <2>1, <2>2, FactsUnchanged
<1>10. CASE FexitSysConnectLookup(t)
  <2>1. UNCHANGED <<sk, at, tracing, ring>> /\ (Goto(t, "absent") \/ Goto(t, "present"))
    BY <1>10 DEF FexitSysConnectLookup
  <2>2. OwnSocket'
    BY <1>0, <2>1, OwnSocketStep DEF Labels, Locking
  <2>3. QED BY <2>1, <2>2, FactsUnchanged
<1>11. CASE FexitSysConnectUpdate(t)
  <2>1. /\ Goto(t, "present") /\ UNCHANGED <<sk, at, ring>>
        /\ tracing' = UpdateAny(tracing, target[t], "CLIENT", MaxTracing)
    BY <1>11 DEF FexitSysConnectUpdate
  <2>2. OwnSocket'
    BY <1>0, <2>1, OwnSocketStep DEF Labels, Locking
  <2>3. /\ \A q \in Ptrs \ {target[t]} : tracing'[q] = tracing[q]
        /\ \/ tracing'[target[t]] = tracing[target[t]]
           \/ tracing'[target[t]] = "CLIENT"
    BY <1>a, <2>1 DEF UpdateAny
  <2>4. target[t] \in Ptrs
    BY <1>a
  <2>5. QED BY <2>1, <2>2, <2>3, <2>4, ClientWrite
<1>12. CASE FexitSysConnectCtx(t)
  <2>1. /\ UNCHANGED <<sk, tracing, ring>> /\ Goto(t, "idle")
        /\ \A u \in Tasks \ {t} : at'[u] = at[u]
    BY <1>12, <1>a DEF FexitSysConnectCtx
  <2>2. OwnSocket'
    BY <1>0, <2>1, OwnSocketStep DEF Labels, Locking
  <2>3. QED BY <2>1, <2>2, FactsUnchanged
<1>13. QED
  BY <1>1, <1>2, <1>3, <1>4, <1>5, <1>6, <1>7, <1>8, <1>9, <1>10, <1>11, <1>12 DEF ConnectNext

LEMMA AcceptFactsStep ==
  ASSUME TInv, NEW t \in Tasks, AcceptNext(t)
  PROVE  /\ OwnSocket'
         /\ SockFacts'
         /\ LearnedRoleKept'
         /\ EntriesTrue => EntriesTrue'
<1>0. TypeOK /\ OwnSocket /\ SockFacts /\ LearnedRoleKept
  BY DEF TInv
<1>a. /\ sk \in [Socks -> SockType] /\ at \in [Tasks -> Ptrs]
      /\ tracing \in [Ptrs -> Roles \cup {Absent}]
      /\ Socks \subseteq Ptrs /\ "SERVER" \in Roles
  BY <1>0, InPtrs DEF TypeOK, Roles
<1>1. CASE FentrySysAccept4(t)
  <2>1. UNCHANGED <<sk, at, tracing, ring>> /\ Goto(t, "accept")
    BY <1>1 DEF FentrySysAccept4
  <2>2. OwnSocket'
    BY <1>0, <2>1, OwnSocketStep DEF Labels, Locking
  <2>3. QED BY <2>1, <2>2, FactsUnchanged
<1>2. CASE InetCskAccept(t)
  <2>1. PICK l \in Socks :
          /\ sk[l].kind = "listener" /\ at' = [at EXCEPT ![t] = l]
          /\ tracing' = LookupOrTryInit(tracing, l, "SERVER", MaxTracing)
    BY <1>2 DEF InetCskAccept
  <2>2. UNCHANGED <<sk, ring>> /\ Goto(t, "accepting")
    BY <1>2 DEF InetCskAccept
  <2>3. \A u \in Tasks \ {t} : at'[u] = at[u]
    BY <1>a, <2>1
  <2>4. OwnSocket'
    BY <1>0, <2>2, <2>3, OwnSocketStep DEF Labels, Locking
  <2>5. /\ \A q \in Ptrs \ {l} : tracing'[q] = tracing[q]
        /\ \/ tracing'[l] = tracing[l]
           \/ tracing[l] = Absent /\ tracing'[l] = "SERVER"
    BY <1>0, <1>a, <2>1, InitEffect
  <2>6. SockFacts' /\ LearnedRoleKept'
    BY <1>0, <1>a, <2>1, <2>2, <2>5 DEF SockFacts, LearnedRoleKept
  <2>7. EntriesTrue => EntriesTrue'
    BY <1>a, <2>1, <2>2, <2>5 DEF EntriesTrue, NonClientEntriesLive, ServerRoleIsTrue
  <2>8. QED BY <2>4, <2>6, <2>7
<1>3. CASE FexitDoAccept(t)
  <2>1. /\ Goto(t, "accepted") /\ UNCHANGED <<at, tracing, ring>>
        /\ \/ UNCHANGED sk
           \/ \E c \in Socks : sk[c].kind = "child" /\ sk' = [sk EXCEPT ![c].open = TRUE]
    BY <1>3 DEF FexitDoAccept
  <2>2. \A u \in Socks :
          /\ sk'[u].kind = sk[u].kind /\ sk'[u].st = sk[u].st
          /\ sk'[u].to = sk[u].to /\ sk'[u].hook = sk[u].hook /\ sk'[u].learned = sk[u].learned
          /\ sk'[u].open = sk[u].open \/ (sk'[u].open /\ sk[u].kind = "child")
    <3>1. CASE UNCHANGED sk
      BY <3>1
    <3>2. CASE \E c \in Socks : sk[c].kind = "child" /\ sk' = [sk EXCEPT ![c].open = TRUE]
      <4>1. PICK c \in Socks : sk[c].kind = "child" /\ sk' = [sk EXCEPT ![c].open = TRUE]
        BY <3>2
      <4>2. sk[c] \in SockType /\ sk'[c] = [sk[c] EXCEPT !.open = TRUE]
        BY <1>a, <4>1
      <4>3. /\ sk'[c].kind = sk[c].kind /\ sk'[c].st = sk[c].st
            /\ sk'[c].to = sk[c].to /\ sk'[c].hook = sk[c].hook /\ sk'[c].learned = sk[c].learned
            /\ sk'[c].open
        BY <4>2 DEF SockType
      <4>4. \A u \in Socks \ {c} : sk'[u] = sk[u]
        BY <1>a, <4>1
      <4>5. QED BY <4>1, <4>3, <4>4
    <3>3. QED BY <2>1, <3>1, <3>2
  <2>3. OwnSocket'
    BY <1>0, <2>1, <2>2, OwnSocketStep DEF Labels, Locking
  <2>4. SockFacts' /\ LearnedRoleKept'
    BY <1>0, <1>a, <2>1, <2>2 DEF SockFacts, LearnedRoleKept
  <2>5. EntriesTrue => EntriesTrue'
    BY <1>a, <2>1, <2>2 DEF EntriesTrue, NonClientEntriesLive, ServerRoleIsTrue
  <2>6. QED BY <2>3, <2>4, <2>5
<1>4. CASE FexitSysAccept4(t)
  <2>1. /\ UNCHANGED <<sk, tracing, ring>> /\ Goto(t, "idle")
        /\ \A u \in Tasks \ {t} : at'[u] = at[u]
    BY <1>4, <1>a DEF FexitSysAccept4
  <2>2. OwnSocket'
    BY <1>0, <2>1, OwnSocketStep DEF Labels, Locking
  <2>3. QED BY <2>1, <2>2, FactsUnchanged
<1>5. QED BY <1>1, <1>2, <1>3, <1>4 DEF AcceptNext

-----------------------------------------------------------------------------
LEMMA NextTInv ==
  ASSUME TInv, [Next]_vars
  PROVE  TInv' /\ (EntriesTrue => EntriesTrue')
<1>0. TypeOK
  BY DEF TInv
<1>1. ASSUME NEW s \in Socks, SockNext(s)
      PROVE  TInv' /\ (EntriesTrue => EntriesTrue')
  BY <1>0, <1>1, SockTypeStep, SockFactsStep DEF TInv
<1>2. ASSUME NEW t \in Tasks, ConnectNext(t)
      PROVE  TInv' /\ (EntriesTrue => EntriesTrue')
  <2>1. TypeOK'
    BY <1>2, ConnectTypeStep DEF TInv
  <2>2. QED BY <1>2, <2>1, ConnectFactsStep DEF TInv
<1>3. ASSUME NEW t \in Tasks, AcceptNext(t)
      PROVE  TInv' /\ (EntriesTrue => EntriesTrue')
  <2>1. TypeOK'
    BY <1>0, <1>3, AcceptTypeStep
  <2>2. QED BY <1>3, <2>1, AcceptFactsStep DEF TInv
<1>4. CASE Consume
  <2>1. ring \in Seq(EventType) /\ ring # <<>> /\ ring' = Tail(ring)
    BY <1>0, <1>4 DEF TypeOK, Consume
  <2>2. /\ ring' \in Seq(EventType)
        /\ \A i \in DOMAIN ring' : i + 1 \in DOMAIN ring /\ ring'[i] = ring[i + 1]
    BY <2>1
  <2>3. UNCHANGED <<sk, pc, at, target, fdInfo, tracing, ctx>>
    BY <1>4 DEF Consume
  <2>4. TypeOK'
    BY <1>0, <2>2, <2>3 DEF TypeOK
  <2>5. OwnSocket' /\ SockFacts' /\ LearnedRoleKept'
    BY <2>3 DEF TInv, OwnSocket, SockFacts, LearnedRoleKept
  <2>6. EntriesTrue => EntriesTrue'
    BY <2>2, <2>3 DEF EntriesTrue, NonClientEntriesLive, ServerRoleIsTrue
  <2>7. QED BY <2>4, <2>5, <2>6 DEF TInv
<1>5. CASE UNCHANGED vars
  <2>1. UNCHANGED <<sk, pc, at, target, fdInfo, tracing, ctx, ring>>
    BY <1>5 DEF vars
  <2>2. TypeOK'
    BY <1>0, <2>1 DEF TypeOK
  <2>3. OwnSocket'
    BY <2>1 DEF TInv, OwnSocket
  <2>4. QED BY <2>1, <2>2, <2>3, FactsUnchanged DEF TInv
<1>6. QED BY <1>1, <1>2, <1>3, <1>4, <1>5 DEF Next

LEMMA Parts == IInv <=> TInv /\ EntriesTrue
BY DEF IInv, TInv, EntriesTrue

LEMMA NextIInv == IInv /\ [Next]_vars => IInv'
<1>1. IInv' <=> TInv' /\ EntriesTrue'
  BY DEF IInv, TInv, EntriesTrue
<1>2. QED BY <1>1, Parts, NextTInv

(* Each invariant of every behaviour of the tracer.                        *)
LEMMA Invariance == Spec => []IInv
<1>1. QED BY InitIInv, NextIInv, PTL DEF Spec

(* Maps, ring, sockets and call states always hold values of their kinds.  *)
THEOREM TypeCorrect == Spec => []TypeOK
<1>1. IInv => TypeOK
  BY DEF IInv
<1>2. QED BY <1>1, Invariance, PTL

(* conn_tracing_map never says SERVER or UNKNOWN of a destroyed socket, of *)
(* a unix or udp socket or of NULL, with any number of connect calls       *)
(* racing over one fd_info slot and any capacity of the map.               *)
THEOREM NonClientLive == Spec => []NonClientEntriesLive
<1>1. IInv => NonClientEntriesLive
  BY DEF IInv
<1>2. QED BY <1>1, Invariance, PTL

(* SERVER, in the map and in every event of the ring, is never said of a   *)
(* connection this host opened.                                            *)
THEOREM ServerTrue == Spec => []ServerRoleIsTrue
<1>1. IInv => ServerRoleIsTrue
  BY DEF IInv
<1>2. QED BY <1>1, Invariance, PTL

(* A role k_set_state learned stays in the map until the transition to     *)
(* CLOSE has been hooked.                                                  *)
THEOREM LearnedKept == Spec => []LearnedRoleKept
<1>1. IInv => LearnedRoleKept
  BY DEF IInv
<1>2. QED BY <1>1, Invariance, PTL
-----------------------------------------------------------------------------
(* Theorems for any number of tasks when conn_ctx_map has room for every   *)
(* tuple and clients do not bind ports: then the tuple of a traced         *)
(* connection stays in the map while the connection is up.                 *)
RoomForAll == BoundPorts = {} /\ IsFiniteSet(Keys) /\ MaxCtx >= Cardinality(Keys)

Here(s) == \E r \in Residues : ctx[KeyOf(s, r)] # Absent

BeforePort(s) == \E t \in Tasks : at[t] = s /\ pc[t] = "synsent"

(* What a socket's state says of its tuple: it is complete from the        *)
(* handshake's end on, and a closed socket has given its port back.  Until *)
(* connect has picked the port the tuple is not, but connect holds the     *)
(* lock.                                                                   *)
Tupled(s) ==
  /\ sk[s].kind = "free" => sk[s].st = "CLOSE"
  /\ sk[s].kind # "listener" => sk[s].auto
  /\ sk[s].kind = "listener" => ~sk[s].auto /\ sk[s].lport # 0 /\ sk[s].raddr = NULL
  /\ sk[s].st = "CLOSE" /\ sk[s].auto => sk[s].lport = 0
  /\ \/ sk[s].st \in {"SYN_RECV", "ESTABLISHED"}
     \/ sk[s].hook # 0 /\ sk[s].to = "ESTABLISHED"
     => sk[s].lport # 0 /\ sk[s].raddr # NULL
  /\ \/ sk[s].st = "SYN_SENT"
     \/ sk[s].hook # 0 /\ sk[s].to = "SYN_SENT"
     => sk[s].raddr # NULL
  /\ \/ sk[s].hook # 0 /\ sk[s].to = "SYN_SENT"
     \/ sk[s].hook = 0 /\ sk[s].st = "SYN_SENT" /\ sk[s].lport = 0
     => BeforePort(s)

CtxOf(s) ==
  \/ sk[s].hook # 0 /\ sk[s].to = "ESTABLISHED"
  \/ sk[s].learned /\ sk[s].st = "ESTABLISHED"
  => Here(s)

(* The task that has just taken a socket's lock is the only one that holds *)
(* it, and the socket is closed.                                           *)
LockIsOwn ==
  \A t \in Tasks : pc[t] = "locked" =>
    /\ sk[at[t]].st = "CLOSE" /\ sk[at[t]].hook = 0
    /\ \A u \in Tasks \ {t} : at[u] = at[t] => pc[u] \notin Locking

CInv ==
  /\ LockIsOwn
  /\ \A s \in Socks : Tupled(s) /\ CtxOf(s)

(* No key of a complete tuple leaves conn_ctx_map.                         *)
CtxKeeps ==
  \A k \in Keys :
    k.fam \in Fams /\ k.lport # 0 /\ k.raddr # NULL /\ ctx[k] # Absent => ctx'[k] # Absent

(* A key that is not in the map finds it not full.                         *)
LEMMA Room ==
  ASSUME RoomForAll, TypeOK, NEW k \in Keys, ctx[k] = Absent
  PROVE  ~Full(ctx, MaxCtx)
<1> DEFINE E == Entries(ctx)
<1>1. E \subseteq Keys /\ k \notin E
  BY DEF Entries, TypeOK
<1>2. E \subseteq Keys \ {k}
  BY <1>1
<1>3. IsFiniteSet(Keys \ {k}) /\ Cardinality(Keys \ {k}) = Cardinality(Keys) - 1
  BY FS_RemoveElement DEF RoomForAll
<1>4. IsFiniteSet(E) /\ Cardinality(E) <= Cardinality(Keys \ {k})
  BY <1>2, <1>3, FS_Subset
<1>5. Cardinality(E) \in Nat /\ Cardinality(Keys) \in Nat /\ MaxCtx \in Nat
  BY <1>4, FS_CardinalityType, BoundAssumption DEF RoomForAll
<1>6. Cardinality(E) < MaxCtx
  BY <1>3, <1>4, <1>5 DEF RoomForAll
<1> QED
  BY <1>5, <1>6 DEF Full

LEMMA CtxWritten ==
  ASSUME TypeOK, NEW k \in Keys, NEW v \in Roles,
         \/ ctx' = LookupOrTryInit(ctx, k, v, MaxCtx)
         \/ ctx' = UpdateNoExist(ctx, k, v, MaxCtx)
         \/ ctx' = UpdateAny(ctx, k, v, MaxCtx)
  PROVE  CtxKeeps
<1>1. ctx \in [Keys -> Roles \cup {Absent}] /\ v # Absent
  BY AbsentAssumption DEF TypeOK, Roles
<1>2. \/ ctx' = ctx
      \/ ctx' = [ctx EXCEPT ![k] = v]
  BY DEF LookupOrTryInit, UpdateNoExist, UpdateAny
<1> QED
  BY <1>1, <1>2 DEF CtxKeeps

LEMMA CtxDeleted ==
  ASSUME TypeOK, NEW k \in Keys, NEW j \in Keys,
         ctx' = Delete(ctx, k) \/ ctx' = Delete(Delete(ctx, k), j),
         k.fam \notin Fams \/ k.lport = 0 \/ k.raddr = NULL,
         j.fam \notin Fams \/ j.lport = 0 \/ j.raddr = NULL
  PROVE  CtxKeeps
<1>1. ctx \in [Keys -> Roles \cup {Absent}]
  BY DEF TypeOK
<1>2. ASSUME NEW x \in Keys, x # k, x # j
      PROVE  ctx'[x] = ctx[x]
  BY <1>1, <1>2 DEF Delete
<1> QED
  BY <1>2 DEF CtxKeeps

(* A socket whose tuple is complete and does not change keeps its entry.   *)
LEMMA HereKept ==
  ASSUME TypeOK, TypeOK', CtxKeeps, NEW s \in Socks, Here(s),
         sk[s].lport # 0, sk[s].raddr # NULL,
         sk'[s].fam = sk[s].fam, sk'[s].lport = sk[s].lport, sk'[s].raddr = sk[s].raddr
  PROVE  Here(s)'
<1>1. PICK r \in Residues : ctx[KeyOf(s, r)] # Absent
  BY DEF Here
<1>2. KeyOf(s, r) \in Keys
  BY KeyOfType, InPtrs
<1>3. KeyOf(s, r).fam \in Fams /\ KeyOf(s, r).lport # 0 /\ KeyOf(s, r).raddr # NULL
  BY DEF KeyOf, TypeOK, SockType
<1>4. ctx'[KeyOf(s, r)] # Absent
  BY <1>1, <1>2, <1>3 DEF CtxKeeps
<1>5. KeyOf(s, r)' = KeyOf(s, r)
  BY DEF KeyOf
<1> QED
  BY <1>4, <1>5 DEF Here

LEMMA SameSocket ==
  ASSUME TypeOK, TypeOK', CtxKeeps, NEW s \in Socks, Tupled(s), CtxOf(s),
         /\ sk'[s].kind = sk[s].kind /\ sk'[s].st = sk[s].st /\ sk'[s].fam = sk[s].fam
         /\ sk'[s].lport = sk[s].lport /\ sk'[s].raddr = sk[s].raddr /\ sk'[s].auto = sk[s].auto
         /\ sk'[s].hook = sk[s].hook /\ sk'[s].to = sk[s].to /\ sk'[s].learned = sk[s].learned,
         BeforePort(s) => BeforePort(s)'
  PROVE  Tupled(s)' /\ CtxOf(s)'
<1>1. Tupled(s)'
  BY DEF Tupled
<1>2. ASSUME \/ sk[s].hook # 0 /\ sk[s].to = "ESTABLISHED"
             \/ sk[s].learned /\ sk[s].st = "ESTABLISHED"
      PROVE  Here(s)'
  <2>1. Here(s) /\ sk[s].lport # 0 /\ sk[s].raddr # NULL
    BY <1>2 DEF CtxOf, Tupled
  <2> QED
    BY <2>1, HereKept
<1>3. CtxOf(s)'
  BY <1>2 DEF CtxOf
<1> QED
  BY <1>1, <1>3

(* A step of one socket that no task has just locked.                      *)
LEMMA SocketAlone ==
  ASSUME IInv, TypeOK', CInv, NEW s \in Socks, UNCHANGED <<pc, at>>,
         \A u \in Socks \ {s} : sk'[u] = sk[u],
         \A t \in Tasks : ~(pc[t] = "locked" /\ at[t] = s),
         CtxKeeps, Tupled(s)', CtxOf(s)'
  PROVE  CInv'
<1>1. ASSUME NEW u \in Socks, u # s
      PROVE  Tupled(u)' /\ CtxOf(u)'
  <2>1. Tupled(u) /\ CtxOf(u) /\ sk'[u] = sk[u] /\ TypeOK
    BY <1>1 DEF CInv, IInv
  <2>2. BeforePort(u) => BeforePort(u)'
    BY DEF BeforePort
  <2> QED
    BY <2>1, <2>2, SameSocket
<1>2. LockIsOwn'
  <2>1. ASSUME NEW t \in Tasks, pc[t] = "locked"
        PROVE  sk'[at[t]] = sk[at[t]]
    BY <2>1 DEF IInv, OwnSocket, Locking
  <2> QED
    BY <2>1 DEF CInv, LockIsOwn
<1> QED
  BY <1>1, <1>2 DEF CInv

(* What Enter writes, and that it puts the tuple in the map.               *)
LEMMA EnterTuple ==
  ASSUME RoomForAll, TypeOK, NEW s \in Socks, NEW new \in States, NEW c \in SockType,
         Enter(s, new, c)
  PROVE  /\ sk'[s].fam = c.fam /\ sk'[s].lport = c.lport /\ sk'[s].raddr = c.raddr
         /\ sk'[s].auto = c.auto
         /\ CtxKeeps
         /\ Here(s)'
<1>1. PICK r \in Residues :
        /\ sk' = [sk EXCEPT ![s] = [c EXCEPT !.hook = 1, !.to = new, !.res = r]]
        /\ ctx' = UpdateNoExist(ctx,
                    [fam |-> c.fam, lport |-> c.lport, raddr |-> c.raddr, res |-> r],
                    "UNKNOWN", MaxCtx)
  BY DEF Enter
<1> DEFINE k == [fam |-> c.fam, lport |-> c.lport, raddr |-> c.raddr, res |-> r]
<1>2. /\ sk'[s].fam = c.fam /\ sk'[s].lport = c.lport /\ sk'[s].raddr = c.raddr
      /\ sk'[s].auto = c.auto
  <2>1. sk'[s] = [c EXCEPT !.hook = 1, !.to = new, !.res = r]
    BY <1>1 DEF TypeOK
  <2> QED
    BY <2>1 DEF SockType
<1>3. k \in Keys /\ "UNKNOWN" \in Roles /\ ctx \in [Keys -> Roles \cup {Absent}]
  BY DEF SockType, Keys, Roles, TypeOK
<1>4. CtxKeeps
  BY <1>1, <1>3, CtxWritten
<1>5. ctx'[k] # Absent
  <2> HIDE DEF k
  <2>1. CASE ctx[k] = Absent
    <3>1. ~Full(ctx, MaxCtx)
      BY <1>3, <2>1, Room
    <3> QED
      BY <1>1, <1>3, <2>1, <3>1, AbsentAssumption DEF UpdateNoExist, k
  <2>2. CASE ctx[k] # Absent
    BY <1>1, <2>2 DEF UpdateNoExist, k
  <2> QED
    BY <2>1, <2>2
<1>6. KeyOf(s, r)' = k
  BY <1>2 DEF KeyOf
<1> QED
  BY <1>2, <1>4, <1>5, <1>6 DEF Here

(* A hook's key that a destruction deletes is not a complete tuple.        *)
LEMMA ClosedTuple ==
  ASSUME TypeOK, NEW s \in Socks, Tupled(s), Closed(s), NEW r \in Residues
  PROVE  /\ KeyOf(s, r) \in Keys
         /\ KeyOf(s, r).lport = 0 \/ KeyOf(s, r).raddr = NULL
<1>1. KeyOf(s, r) \in Keys
  BY KeyOfType, InPtrs
<1>2. sk[s].lport = 0 \/ sk[s].raddr = NULL
  BY DEF Tupled, Closed
<1> QED
  BY <1>1, <1>2 DEF KeyOf

LEMMA SockCStep ==
  ASSUME RoomForAll, IInv, TypeOK', CInv, NEW s \in Socks, SockNext(s)
  PROVE  CInv'
<1>0. /\ TypeOK /\ OwnSocket /\ SockFacts /\ LockIsOwn /\ Tupled(s) /\ CtxOf(s)
      /\ sk \in [Socks -> SockType] /\ sk[s] \in SockType
  BY DEF IInv, CInv, TypeOK
<1>a. ASSUME sk' = sk \/ (\E c : sk' = [sk EXCEPT ![s] = c]), UNCHANGED <<pc, at>>,
             \/ sk[s].kind \in {"free", "listener"} \/ ~sk[s].open
             \/ sk[s].hook # 0 \/ sk[s].st # "CLOSE" \/ ~InUse(s),
             CtxKeeps, Tupled(s)', CtxOf(s)'
      PROVE  CInv'
  <2>1. \A t \in Tasks : ~(pc[t] = "locked" /\ at[t] = s)
    BY <1>0, <1>a DEF OwnSocket, LockIsOwn, Locking, InUse
  <2>2. \A u \in Socks \ {s} : sk'[u] = sk[u]
    BY <1>0, <1>a
  <2> QED
    BY <1>a, <2>1, <2>2, SocketAlone
<1>b. UNCHANGED ctx => CtxKeeps
  BY DEF CtxKeeps
<1>1. CASE NewSocket(s)
  <2>1. /\ sk[s].kind = "free" /\ UNCHANGED <<pc, at, ctx>>
        /\ \E c : sk' = [sk EXCEPT ![s] = c]
    BY <1>1 DEF NewSocket
  <2>2. /\ sk'[s].st = "CLOSE" /\ sk'[s].raddr = NULL /\ sk'[s].hook = 0 /\ ~sk'[s].learned
        /\ \/ sk'[s].kind = "active" /\ sk'[s].lport = 0 /\ sk'[s].auto
           \/ sk'[s].kind = "listener" /\ ~sk'[s].auto /\ sk'[s].lport # 0
    <3>1. PICK fam \in Fams :
            \/ sk' = [sk EXCEPT ![s] = [FreeSock EXCEPT !.kind = "active", !.fam = fam, !.open = TRUE]]
            \/ \E port \in ListenPorts :
                 sk' = [sk EXCEPT ![s] = [FreeSock EXCEPT !.kind = "listener", !.fam = fam,
                                            !.open = TRUE, !.lport = port, !.auto = FALSE]]
      BY <1>1 DEF NewSocket, RoomForAll
    <3>2. CASE sk' = [sk EXCEPT ![s] = [FreeSock EXCEPT !.kind = "active", !.fam = fam, !.open = TRUE]]
      <4>1. sk'[s] = [FreeSock EXCEPT !.kind = "active", !.fam = fam, !.open = TRUE]
        BY <1>0, <3>2
      <4> QED
        BY <4>1 DEF FreeSock
    <3>3. CASE \E port \in ListenPorts :
                 sk' = [sk EXCEPT ![s] = [FreeSock EXCEPT !.kind = "listener", !.fam = fam,
                                            !.open = TRUE, !.lport = port, !.auto = FALSE]]
      <4>1. PICK port \in ListenPorts :
              sk' = [sk EXCEPT ![s] = [FreeSock EXCEPT !.kind = "listener", !.fam = fam,
                                            !.open = TRUE, !.lport = port, !.auto = FALSE]]
        BY <3>3
      <4>2. sk'[s] = [FreeSock EXCEPT !.kind = "listener", !.fam = fam,
                                            !.open = TRUE, !.lport = port, !.auto = FALSE]
        BY <1>0, <4>1
      <4> QED
        BY <4>2, PortAssumption DEF FreeSock
    <3> QED
      BY <3>1, <3>2, <3>3
  <2>3. Tupled(s)' /\ CtxOf(s)'
    BY <2>2 DEF Tupled, CtxOf
  <2> QED
    BY <1>a, <1>b, <2>1, <2>3
<1>2. CASE Listen(s)
  <2>1. /\ sk[s].kind = "listener" /\ UNCHANGED <<pc, at, ctx>>
        /\ sk' = [sk EXCEPT ![s] = [sk[s] EXCEPT !.st = "LISTEN"]]
    BY <1>2 DEF Listen
  <2>2. sk'[s] = [sk[s] EXCEPT !.st = "LISTEN"]
    BY <1>0, <2>1
  <2>3. /\ sk'[s].kind = "listener" /\ sk'[s].st = "LISTEN" /\ sk'[s].raddr = sk[s].raddr
        /\ sk'[s].hook = sk[s].hook /\ sk'[s].auto = sk[s].auto /\ sk'[s].lport = sk[s].lport
    BY <1>0, <2>1, <2>2 DEF SockType
  <2>4. sk[s].hook = 0
    <3>1. sk[s].hook \in 0..2 /\ ~(sk[s].hook > 0)
      BY <1>0, <1>2 DEF SockType, Listen, Locked
    <3> QED
      BY <3>1
  <2>5. Tupled(s)' /\ CtxOf(s)'
    BY <1>0, <2>3, <2>4, <2>1 DEF Tupled, CtxOf
  <2> QED
    BY <1>a, <1>b, <2>1, <2>5
<1>3. CASE \E l \in Socks : NewChild(s, l)
  <2>1. PICK l \in Socks, r \in Remotes :
          /\ sk[s].kind = "free" /\ UNCHANGED <<pc, at, ctx>>
          /\ sk[l].kind = "listener"
          /\ sk' = [sk EXCEPT ![s] = [FreeSock EXCEPT !.kind = "child", !.st = "SYN_RECV",
                                     !.fam = sk[l].fam, !.lport = sk[l].lport, !.raddr = r]]
          /\ sk[l].st = "LISTEN"
    BY <1>3 DEF NewChild
  <2>2. sk'[s] = [FreeSock EXCEPT !.kind = "child", !.st = "SYN_RECV",
                                     !.fam = sk[l].fam, !.lport = sk[l].lport, !.raddr = r]
    BY <1>0, <2>1
  <2>3. /\ sk'[s].kind = "child" /\ sk'[s].st = "SYN_RECV" /\ sk'[s].lport = sk[l].lport
        /\ sk'[s].raddr = r /\ sk'[s].auto /\ sk'[s].hook = 0
    BY <2>2 DEF FreeSock
  <2>4. sk[l].lport # 0
    BY <2>1 DEF CInv, Tupled
  <2>5. Tupled(s)' /\ CtxOf(s)'
    BY <2>3, <2>4, RemoteAssumption DEF Tupled, CtxOf
  <2> QED
    BY <1>a, <1>b, <2>1, <2>5
<1>4. CASE KernelSetState(s)
  <2>1. PICK new \in KernelNext(sk[s].st) : Enter(s, new, sk[s])
    BY <1>4 DEF KernelSetState
  <2>2. /\ new \in States /\ new \notin {"SYN_SENT", "SYN_RECV"} /\ sk[s].kind # "free"
        /\ new = "ESTABLISHED" => sk[s].st \in {"SYN_SENT", "SYN_RECV"}
        /\ sk[s].st # "CLOSE" /\ UNCHANGED <<pc, at>> /\ ~Locked(s)
    BY <1>4, <2>1 DEF KernelSetState, KernelNext, States
  <2>3. /\ sk'[s].hook = 1 /\ sk'[s].to = new /\ sk'[s].kind = sk[s].kind /\ sk'[s].st = sk[s].st
        /\ sk'[s].lport = sk[s].lport /\ sk'[s].raddr = sk[s].raddr /\ sk'[s].auto = sk[s].auto
        /\ CtxKeeps /\ Here(s)'
    BY <1>0, <2>1, <2>2, EnterEffect, EnterTuple
  <2>4. sk[s].hook = 0
    <3>1. sk[s].hook \in 0..2 /\ ~(sk[s].hook > 0)
      BY <1>0, <2>2 DEF SockType, Locked
    <3> QED
      BY <3>1
  <2>5. sk[s].st = "SYN_SENT" => sk[s].lport # 0
    BY <1>0, <2>2, <2>4 DEF Tupled, BeforePort, Locked, Locking
  <2>6. Tupled(s)'
    BY <1>0, <2>2, <2>3, <2>5 DEF Tupled
  <2>7. CtxOf(s)'
    BY <2>3 DEF CtxOf
  <2>8. \E c : sk' = [sk EXCEPT ![s] = c]
    BY <2>1 DEF Enter
  <2> QED
    BY <1>a, <2>2, <2>3, <2>6, <2>7, <2>8
<1>5. CASE SetStateDirect(s)
  <2> DEFINE role == DirectRole(sk[s].st, sk[s].to)
  <2>1. /\ sk' = [sk EXCEPT ![s] = [sk[s] EXCEPT !.hook = 2, !.learned = tracing'[s] # Absent]]
        /\ sk[s].hook = 1 /\ UNCHANGED <<pc, at, ctx>> /\ role # Absent
    BY <1>5 DEF SetStateDirect
  <2>2. sk'[s] = [sk[s] EXCEPT !.hook = 2, !.learned = tracing'[s] # Absent]
    BY <1>0, <2>1
  <2>3. /\ sk'[s].kind = sk[s].kind /\ sk'[s].st = sk[s].st /\ sk'[s].fam = sk[s].fam
        /\ sk'[s].lport = sk[s].lport /\ sk'[s].raddr = sk[s].raddr /\ sk'[s].auto = sk[s].auto
        /\ sk'[s].hook = 2 /\ sk'[s].to = sk[s].to
    BY <1>0, <2>2 DEF SockType
  <2>4. sk[s].st # "ESTABLISHED"
    BY <2>1 DEF DirectRole
  <2>5. BeforePort(s) => BeforePort(s)'
    BY <2>1 DEF BeforePort
  <2>6. Tupled(s)'
    BY <1>0, <2>1, <2>3, <2>5 DEF Tupled
  <2>7. CtxOf(s)'
    <3>1. CASE sk[s].to = "ESTABLISHED"
      <4>1. Here(s) /\ sk[s].lport # 0 /\ sk[s].raddr # NULL
        BY <1>0, <2>1, <3>1 DEF CtxOf, Tupled
      <4>2. Here(s)'
        BY <1>0, <1>b, <2>1, <2>3, <4>1, HereKept
      <4> QED
        BY <4>2 DEF CtxOf
    <3>2. CASE sk[s].to # "ESTABLISHED"
      BY <2>3, <2>4, <3>2 DEF CtxOf
    <3> QED
      BY <3>1, <3>2
  <2>8. CtxKeeps
    BY <1>b, <2>1
  <2>9. \E c : sk' = [sk EXCEPT ![s] = c]
    BY <2>1
  <2>10. sk[s].hook # 0 /\ UNCHANGED <<pc, at>>
    BY <2>1
  <2> QED
    BY <1>a, <2>6, <2>7, <2>8, <2>9, <2>10
<1>6. CASE SetStateOther(s)
  <2>1. /\ sk' = [sk EXCEPT ![s] = [sk[s] EXCEPT !.hook = 2]]
        /\ sk[s].hook = 1 /\ UNCHANGED <<pc, at>>
        /\ \/ ctx' = ctx
           \/ tracing[s] # Absent /\ ctx' = UpdateAny(ctx, KeyOf(s, sk[s].res), tracing[s], MaxCtx)
    BY <1>6 DEF SetStateOther
  <2>2. sk'[s] = [sk[s] EXCEPT !.hook = 2]
    BY <1>0, <2>1
  <2>3. /\ sk'[s].kind = sk[s].kind /\ sk'[s].st = sk[s].st /\ sk'[s].fam = sk[s].fam
        /\ sk'[s].lport = sk[s].lport /\ sk'[s].raddr = sk[s].raddr /\ sk'[s].auto = sk[s].auto
        /\ sk'[s].hook = 2 /\ sk'[s].to = sk[s].to /\ sk'[s].learned = sk[s].learned
    BY <1>0, <2>2 DEF SockType
  <2>4. CtxKeeps
    <3>1. s \in Ptrs /\ sk[s].res \in Residues
      BY <1>0, InPtrs DEF SockType
    <3>2. KeyOf(s, sk[s].res) \in Keys
      BY <1>0, <3>1, KeyOfType
    <3>3. tracing[s] # Absent => tracing[s] \in Roles
      BY <1>0, <3>1 DEF TypeOK
    <3> QED
      BY <1>0, <1>b, <2>1, <3>2, <3>3, CtxWritten
  <2>5. BeforePort(s) => BeforePort(s)'
    BY <2>1 DEF BeforePort
  <2>6. Tupled(s)'
    BY <1>0, <2>1, <2>3, <2>5 DEF Tupled
  <2>7. CtxOf(s)'
    <3>1. ASSUME \/ sk[s].to = "ESTABLISHED"
                 \/ sk[s].learned /\ sk[s].st = "ESTABLISHED"
          PROVE  Here(s)'
      <4>1. Here(s) /\ sk[s].lport # 0 /\ sk[s].raddr # NULL
        BY <1>0, <2>1, <3>1 DEF CtxOf, Tupled
      <4> QED
        BY <1>0, <2>3, <2>4, <4>1, HereKept
    <3> QED
      BY <2>3, <3>1 DEF CtxOf
  <2>8. \E c : sk' = [sk EXCEPT ![s] = c]
    BY <2>1
  <2>9. sk[s].hook # 0 /\ UNCHANGED <<pc, at>>
    BY <2>1
  <2> QED
    BY <1>a, <2>4, <2>6, <2>7, <2>8, <2>9
<1>7. CASE SetStateExit(s)
  <2> DEFINE port == IF sk[s].to = "CLOSE" /\ sk[s].auto THEN 0 ELSE sk[s].lport
  <2>1. /\ sk' = [sk EXCEPT ![s] =
              [sk[s] EXCEPT !.hook = 0, !.st = sk[s].to,
                 !.learned = sk[s].learned /\ sk[s].to # "CLOSE", !.lport = port]]
        /\ sk[s].hook = 2 /\ UNCHANGED <<pc, at, ctx>>
    BY <1>7 DEF SetStateExit
  <2>2. sk'[s] = [sk[s] EXCEPT !.hook = 0, !.st = sk[s].to,
                 !.learned = sk[s].learned /\ sk[s].to # "CLOSE", !.lport = port]
    BY <1>0, <2>1
  <2>3. /\ sk'[s].kind = sk[s].kind /\ sk'[s].st = sk[s].to /\ sk'[s].fam = sk[s].fam
        /\ sk'[s].raddr = sk[s].raddr /\ sk'[s].auto = sk[s].auto
        /\ sk'[s].lport = port /\ sk'[s].hook = 0
    <3> HIDE DEF port
    <3> QED
      BY <1>0, <2>2 DEF SockType
  <2>4. sk[s].to # "SYN_RECV" /\ sk[s].kind # "free"
    BY <1>0, <2>1 DEF SockFacts
  <2>5. BeforePort(s) => BeforePort(s)'
    BY <2>1 DEF BeforePort
  <2>6. Tupled(s)'
    BY <1>0, <2>1, <2>3, <2>4, <2>5 DEF Tupled
  <2>7. CtxOf(s)'
    <3>1. CASE sk[s].to = "ESTABLISHED"
      <4>1. Here(s) /\ sk[s].lport # 0 /\ sk[s].raddr # NULL
        BY <1>0, <2>1, <3>1 DEF CtxOf, Tupled
      <4>2. Here(s)'
        BY <1>0, <1>b, <2>1, <2>3, <3>1, <4>1, HereKept
      <4> QED
        BY <4>2 DEF CtxOf
    <3>2. CASE sk[s].to # "ESTABLISHED"
      BY <2>3, <3>2 DEF CtxOf
    <3> QED
      BY <3>1, <3>2
  <2>8. CtxKeeps
    BY <1>b, <2>1
  <2>9. \E c : sk' = [sk EXCEPT ![s] = c]
    BY <2>1
  <2>10. sk[s].hook # 0 /\ UNCHANGED <<pc, at>>
    BY <2>1
  <2> QED
    BY <1>a, <2>6, <2>7, <2>8, <2>9, <2>10
<1>8. CASE TcpClose(s)
  <2>1. /\ sk' = [sk EXCEPT ![s] = [sk[s] EXCEPT !.open = FALSE]]
        /\ ~InUse(s) /\ UNCHANGED <<pc, at>>
        /\ \/ ctx' = ctx
           \/ \E r \in Residues : ctx' = Delete(ctx, KeyOf(NULL, r))
    BY <1>8 DEF TcpClose
  <2>2. sk'[s] = [sk[s] EXCEPT !.open = FALSE]
    BY <1>0, <2>1
  <2>3. /\ sk'[s].kind = sk[s].kind /\ sk'[s].st = sk[s].st /\ sk'[s].fam = sk[s].fam
        /\ sk'[s].lport = sk[s].lport /\ sk'[s].raddr = sk[s].raddr /\ sk'[s].auto = sk[s].auto
        /\ sk'[s].hook = sk[s].hook /\ sk'[s].to = sk[s].to /\ sk'[s].learned = sk[s].learned
    BY <1>0, <2>2 DEF SockType
  <2>4. CtxKeeps
    <3>1. CASE \E r \in Residues : ctx' = Delete(ctx, KeyOf(NULL, r))
      <4>1. PICK r \in Residues : ctx' = Delete(ctx, KeyOf(NULL, r))
        BY <3>1
      <4>2. KeyOf(NULL, r) \in Keys /\ KeyOf(NULL, r).lport = 0
        BY <1>0, KeyOfType, InPtrs, PtrAssumption DEF KeyOf
      <4> QED
        BY <1>0, <4>1, <4>2, CtxDeleted
    <3> QED
      BY <1>b, <2>1, <3>1
  <2>5. BeforePort(s) => BeforePort(s)'
    BY <2>1 DEF BeforePort
  <2>6. Tupled(s)' /\ CtxOf(s)'
    BY <1>0, <2>3, <2>4, <2>5, SameSocket
  <2> QED
    BY <1>a, <2>1, <2>4, <2>6
<1>9. CASE KDestroySock(s)
  <2>1. /\ sk' = [sk EXCEPT ![s] = [sk[s] EXCEPT !.dying = TRUE]]
        /\ Closed(s) /\ UNCHANGED <<pc, at>>
    BY <1>9 DEF KDestroySock
  <2>2. sk'[s] = [sk[s] EXCEPT !.dying = TRUE]
    BY <1>0, <2>1
  <2>3. /\ sk'[s].kind = sk[s].kind /\ sk'[s].st = sk[s].st /\ sk'[s].fam = sk[s].fam
        /\ sk'[s].lport = sk[s].lport /\ sk'[s].raddr = sk[s].raddr /\ sk'[s].auto = sk[s].auto
        /\ sk'[s].hook = sk[s].hook /\ sk'[s].to = sk[s].to /\ sk'[s].learned = sk[s].learned
    BY <1>0, <2>2 DEF SockType
  <2>4. CtxKeeps
    <3>1. PICK r \in Residues : ctx' = Delete(ctx, KeyOf(s, r))
      BY <1>9 DEF KDestroySock
    <3>2. KeyOf(s, r) \in Keys /\ (KeyOf(s, r).lport = 0 \/ KeyOf(s, r).raddr = NULL)
      BY <1>0, <2>1, ClosedTuple
    <3> QED
      BY <1>0, <3>1, <3>2, CtxDeleted
  <2>5. BeforePort(s) => BeforePort(s)'
    BY <2>1 DEF BeforePort
  <2>6. Tupled(s)' /\ CtxOf(s)'
    BY <1>0, <2>3, <2>4, <2>5, SameSocket
  <2> QED
    BY <1>a, <2>1, <2>4, <2>6 DEF Closed
<1>10. CASE TpDestroySock(s)
  <2>1. sk' = [sk EXCEPT ![s] = FreeSock] /\ Closed(s) /\ UNCHANGED <<pc, at>>
    BY <1>10 DEF TpDestroySock
  <2>2. sk'[s] = FreeSock
    BY <1>0, <2>1
  <2>3. CtxKeeps
    <3>1. PICK r \in Residues, q \in Residues : ctx' = Delete(Delete(ctx, KeyOf(s, r)), KeyOf(s, q))
      BY <1>10 DEF TpDestroySock
    <3>2. \A x \in {r, q} : KeyOf(s, x) \in Keys /\ (KeyOf(s, x).lport = 0 \/ KeyOf(s, x).raddr = NULL)
      BY <1>0, <2>1, ClosedTuple
    <3> QED
      BY <1>0, <3>1, <3>2, CtxDeleted
  <2>4. Tupled(s)' /\ CtxOf(s)'
    BY <2>2 DEF Tupled, CtxOf, FreeSock
  <2> QED
    BY <1>a, <2>1, <2>3, <2>4 DEF Closed
<1> QED
  BY <1>1, <1>2, <1>3, <1>4, <1>5, <1>6, <1>7, <1>8, <1>9, <1>10 DEF SockNext

(* A task that does not hold, take or wait for the lock, and sockets that  *)
(* keep all the invariant speaks of.                                       *)
LEMMA TaskAlone ==
  ASSUME IInv, TypeOK', CInv, CtxKeeps, NEW t \in Tasks, NEW label \in Labels \ Locking,
         pc[t] # "synsent", Goto(t, label), \A u \in Tasks \ {t} : at'[u] = at[u],
         \A s \in Socks :
           /\ sk'[s].kind = sk[s].kind /\ sk'[s].st = sk[s].st /\ sk'[s].fam = sk[s].fam
           /\ sk'[s].lport = sk[s].lport /\ sk'[s].raddr = sk[s].raddr /\ sk'[s].auto = sk[s].auto
           /\ sk'[s].hook = sk[s].hook /\ sk'[s].to = sk[s].to /\ sk'[s].learned = sk[s].learned
  PROVE  CInv'
<1>0. TypeOK /\ OwnSocket /\ LockIsOwn /\ \A s \in Socks : Tupled(s) /\ CtxOf(s)
  BY DEF IInv, CInv
<1>1. pc'[t] = label /\ \A u \in Tasks \ {t} : pc'[u] = pc[u]
  BY <1>0 DEF TypeOK, Goto
<1>2. \A s \in Socks : BeforePort(s) => BeforePort(s)'
  BY <1>1 DEF BeforePort
<1>3. \A s \in Socks : Tupled(s)' /\ CtxOf(s)'
  BY <1>0, <1>2, SameSocket
<1>4. LockIsOwn'
  <2> SUFFICES ASSUME NEW u \in Tasks, pc'[u] = "locked"
               PROVE  /\ sk'[at'[u]].st = "CLOSE" /\ sk'[at'[u]].hook = 0
                      /\ \A v \in Tasks \ {u} : at'[v] = at'[u] => pc'[v] \notin Locking
    BY DEF LockIsOwn
  <2>1. u # t /\ pc[u] = "locked" /\ at'[u] = at[u] /\ at[u] \in Socks
    BY <1>0, <1>1 DEF Locking, OwnSocket
  <2>2. /\ sk[at[u]].st = "CLOSE" /\ sk[at[u]].hook = 0
        /\ \A v \in Tasks \ {u} : at[v] = at[u] => pc[v] \notin Locking
    BY <1>0, <2>1 DEF LockIsOwn
  <2>3. \A v \in Tasks \ {u} : at'[v] = at'[u] => pc'[v] \notin Locking
    BY <1>1, <2>1, <2>2
  <2> QED
    BY <2>1, <2>2, <2>3
<1> QED
  BY <1>3, <1>4 DEF CInv

LEMMA CtxInitKeeps ==
  ASSUME TypeOK, NEW p \in Ptrs, NEW role \in Roles,
         \/ ctx' = ctx
         \/ \E r \in Residues : ctx' = LookupOrTryInit(ctx, KeyOf(p, r), role, MaxCtx)
  PROVE  CtxKeeps
<1>1. CASE ctx' = ctx
  BY <1>1 DEF CtxKeeps
<1>2. CASE \E r \in Residues : ctx' = LookupOrTryInit(ctx, KeyOf(p, r), role, MaxCtx)
  <2>1. PICK r \in Residues : ctx' = LookupOrTryInit(ctx, KeyOf(p, r), role, MaxCtx)
    BY <1>2
  <2> QED
    BY <2>1, KeyOfType, CtxWritten
<1> QED
  BY <1>1, <1>2

(* A step of connect on the socket whose lock it has.                      *)
LEMMA LockHolder ==
  ASSUME IInv, TypeOK', CInv, CtxKeeps, NEW t \in Tasks, NEW label \in Labels,
         pc[t] \in Locking, label # "locked", Goto(t, label), UNCHANGED at,
         \A u \in Socks \ {at[t]} : sk'[u] = sk[u],
         Tupled(at[t])', CtxOf(at[t])'
  PROVE  CInv'
<1>0. TypeOK /\ OwnSocket /\ LockIsOwn /\ at[t] \in Socks
  BY DEF IInv, CInv, OwnSocket
<1>1. pc'[t] = label /\ \A u \in Tasks \ {t} : pc'[u] = pc[u]
  BY <1>0 DEF TypeOK, Goto
<1>2. ASSUME NEW s \in Socks, s # at[t]
      PROVE  Tupled(s)' /\ CtxOf(s)'
  <2>1. BeforePort(s) => BeforePort(s)'
    BY <1>1, <1>2 DEF BeforePort
  <2>2. Tupled(s) /\ CtxOf(s) /\ sk'[s] = sk[s]
    BY <1>2 DEF CInv
  <2> QED
    BY <1>0, <2>1, <2>2, SameSocket
<1>3. LockIsOwn'
  <2> SUFFICES ASSUME NEW u \in Tasks, pc'[u] = "locked"
               PROVE  /\ sk'[at'[u]].st = "CLOSE" /\ sk'[at'[u]].hook = 0
                      /\ \A v \in Tasks \ {u} : at'[v] = at'[u] => pc'[v] \notin Locking
    BY DEF LockIsOwn
  <2>1. u # t /\ pc[u] = "locked" /\ at[u] \in Socks
    BY <1>0, <1>1 DEF Locking, OwnSocket
  <2>2. /\ sk[at[u]].st = "CLOSE" /\ sk[at[u]].hook = 0
        /\ \A v \in Tasks \ {u} : at[v] = at[u] => pc[v] \notin Locking
    BY <1>0, <2>1 DEF LockIsOwn
  <2>3. at[t] # at[u]
    BY <2>1, <2>2
  <2> QED
    BY <1>1, <2>1, <2>2, <2>3
<1> QED
  BY <1>2, <1>3 DEF CInv

LEMMA ConnectCStep ==
  ASSUME RoomForAll, IInv, TypeOK', CInv, NEW t \in Tasks, ConnectNext(t)
  PROVE  CInv'
<1>0. /\ TypeOK /\ OwnSocket /\ SockFacts /\ LockIsOwn /\ \A s \in Socks : Tupled(s) /\ CtxOf(s)
      /\ sk \in [Socks -> SockType] /\ at \in [Tasks -> Ptrs] /\ target \in [Tasks -> Ptrs]
      /\ "CLIENT" \in Roles /\ Socks \subseteq Ptrs
  BY InPtrs DEF IInv, CInv, TypeOK, Roles
<1>a. /\ pc[t] \in Locking => at[t] \in Socks /\ sk[at[t]].kind = "active"
      /\ UNCHANGED ctx => CtxKeeps
  BY <1>0 DEF OwnSocket, CtxKeeps
<1>b. ASSUME NEW label \in Labels \ Locking, pc[t] # "synsent", Goto(t, label), UNCHANGED sk, CtxKeeps,
             UNCHANGED at \/ \E x : at' = [at EXCEPT ![t] = x]
      PROVE  CInv'
  <2>1. \A u \in Tasks \ {t} : at'[u] = at[u]
    BY <1>0, <1>b
  <2> QED
    BY <1>b, <2>1, TaskAlone
<1>1. CASE FentrySysConnect(t)
  <2>1. pc[t] = "idle" /\ Goto(t, "connect") /\ UNCHANGED <<sk, at, ctx>>
    BY <1>1 DEF FentrySysConnect
  <2> QED
    BY <1>a, <1>b, <2>1 DEF Labels, Locking
<1>2. CASE FentrySysConnectFile(t)
  <2>1. PICK f \in Socks \cup Others :
          /\ at' = [at EXCEPT ![t] = f]
          /\ Goto(t, "file")
          /\ \/ ctx' = ctx
             \/ \E r \in Residues : ctx' = LookupOrTryInit(ctx, KeyOf(f, r), "CLIENT", MaxCtx)
    BY <1>2 DEF FentrySysConnectFile
  <2>2. CtxKeeps
    BY <1>0, <2>1, InPtrs, CtxInitKeeps
  <2>3. pc[t] = "connect" /\ UNCHANGED sk
    BY <1>2 DEF FentrySysConnectFile
  <2>4. \E x : at' = [at EXCEPT ![t] = x]
    BY <2>1
  <2> QED
    BY <1>b, <2>1, <2>2, <2>3, <2>4 DEF Labels, Locking
<1>3. CASE LockSock(t)
  <2>1. /\ pc[t] = "file" /\ at[t] \in Socks /\ sk[at[t]].st = "CLOSE" /\ ~Locked(at[t])
        /\ Goto(t, "locked") /\ UNCHANGED <<sk, at>>
        /\ \/ ctx' = ctx
           \/ \E r \in Residues : ctx' = LookupOrTryInit(ctx, KeyOf(at[t], r), "CLIENT", MaxCtx)
    BY <1>3 DEF LockSock
  <2>2. CtxKeeps
    BY <1>0, <2>1, CtxInitKeeps
  <2>3. pc'[t] = "locked" /\ \A u \in Tasks \ {t} : pc'[u] = pc[u]
    BY <1>0, <2>1 DEF TypeOK, Goto
  <2>4. ASSUME NEW s \in Socks
        PROVE  Tupled(s)' /\ CtxOf(s)'
    <3>1. BeforePort(s) => BeforePort(s)'
      BY <2>1, <2>3 DEF BeforePort
    <3> QED
      BY <1>0, <2>1, <2>2, <3>1, SameSocket
  <2>5. sk[at[t]].hook = 0 /\ \A u \in Tasks : at[u] = at[t] => pc[u] \notin Locking
    <3>1. sk[at[t]].hook \in 0..2 /\ ~(sk[at[t]].hook > 0)
      BY <1>0, <2>1 DEF SockType, Locked
    <3>2. sk[at[t]].hook = 0
      BY <3>1
    <3> QED
      BY <2>1, <3>2 DEF Locked
  <2>6. LockIsOwn'
    <3> SUFFICES ASSUME NEW u \in Tasks, pc'[u] = "locked"
                 PROVE  /\ sk'[at'[u]].st = "CLOSE" /\ sk'[at'[u]].hook = 0
                        /\ \A v \in Tasks \ {u} : at'[v] = at'[u] => pc'[v] \notin Locking
      BY DEF LockIsOwn
    <3>1. CASE u = t
      BY <2>1, <2>3, <2>5, <3>1
    <3>2. CASE u # t
      <4>1. pc[u] = "locked" /\ at[u] # at[t]
        BY <2>3, <2>5, <3>2 DEF Locking
      <4> QED
        BY <1>0, <2>1, <2>3, <3>2, <4>1 DEF LockIsOwn
    <3> QED
      BY <3>1, <3>2
  <2> QED
    BY <2>4, <2>6 DEF CInv
<1>4. CASE ConnectSynSent(t)
  <2>1. PICK r \in Remotes : Enter(at[t], "SYN_SENT", [sk[at[t]] EXCEPT !.raddr = r])
    BY <1>4 DEF ConnectSynSent
  <2>2. pc[t] = "locked" /\ Goto(t, "synsent") /\ UNCHANGED at
    BY <1>4 DEF ConnectSynSent
  <2> DEFINE s == at[t]  c == [sk[s] EXCEPT !.raddr = r]
  <2>3. s \in Socks /\ sk[s].kind = "active" /\ sk[s].st = "CLOSE" /\ sk[s] \in SockType
    BY <1>0, <1>a, <2>2 DEF Locking, LockIsOwn
  <2>4. /\ c \in SockType /\ c.kind = sk[s].kind /\ c.st = sk[s].st /\ c.auto = sk[s].auto
        /\ c.raddr = r /\ c.lport = sk[s].lport
    <3>1. c \in SockType
      BY <2>3, RaddrType
    <3> QED
      BY <2>3, <3>1 DEF SockType
  <2>5. "SYN_SENT" \in States /\ Enter(s, "SYN_SENT", c)
    BY <2>1 DEF States
  <2> HIDE DEF c
  <2>6. /\ sk'[s].hook = 1 /\ sk'[s].to = "SYN_SENT" /\ sk'[s].kind = c.kind /\ sk'[s].st = c.st
        /\ sk'[s].lport = c.lport /\ sk'[s].raddr = c.raddr /\ sk'[s].auto = c.auto
        /\ CtxKeeps /\ \A u \in Socks \ {s} : sk'[u] = sk[u]
    BY <1>0, <2>3, <2>4, <2>5, EnterEffect, EnterTuple
  <2>7. BeforePort(s)'
    BY <1>0, <2>2 DEF BeforePort, TypeOK, Goto
  <2>8. Tupled(s)'
    BY <1>0, <2>2, <2>3, <2>4, <2>6, <2>7, RemoteAssumption DEF Tupled
  <2>9. CtxOf(s)'
    BY <2>2, <2>3, <2>4, <2>6 DEF CtxOf
  <2> QED
    BY <2>2, <2>6, <2>8, <2>9, LockHolder DEF Labels, Locking
<1>5. CASE ConnectPortPicked(t)
  <2> DEFINE s == at[t]
  <2>1. /\ pc[t] = "synsent" /\ sk[s].hook = 0 /\ sk[s].st = "SYN_SENT" /\ Goto(t, "picked")
        /\ UNCHANGED <<at, ctx>>
        /\ \/ sk[s].lport # 0 /\ sk' = sk
           \/ \E port \in EphPorts : sk' = [sk EXCEPT ![s] = [sk[s] EXCEPT !.lport = port]]
    BY <1>5 DEF ConnectPortPicked
  <2>2. s \in Socks /\ sk[s] \in SockType
    BY <1>0, <1>a, <2>1 DEF Locking
  <2>3. /\ sk'[s].kind = sk[s].kind /\ sk'[s].st = sk[s].st /\ sk'[s].raddr = sk[s].raddr
        /\ sk'[s].auto = sk[s].auto /\ sk'[s].hook = 0 /\ sk'[s].lport # 0
        /\ \A u \in Socks \ {s} : sk'[u] = sk[u]
    <3>1. CASE sk[s].lport # 0 /\ sk' = sk
      BY <2>1, <3>1
    <3>2. CASE \E port \in EphPorts : sk' = [sk EXCEPT ![s] = [sk[s] EXCEPT !.lport = port]]
      <4>1. PICK port \in EphPorts : sk' = [sk EXCEPT ![s] = [sk[s] EXCEPT !.lport = port]]
        BY <3>2
      <4>2. sk'[s] = [sk[s] EXCEPT !.lport = port] /\ \A u \in Socks \ {s} : sk'[u] = sk[u]
        BY <1>0, <2>2, <4>1
      <4> QED
        BY <2>1, <2>2, <4>2, PortAssumption DEF SockType
    <3> QED
      BY <2>1, <3>1, <3>2
  <2>4. Tupled(s)'
    BY <1>0, <2>1, <2>2, <2>3 DEF Tupled
  <2>5. CtxOf(s)'
    BY <2>1, <2>3 DEF CtxOf
  <2> QED
    BY <1>a, <2>1, <2>3, <2>4, <2>5, LockHolder DEF Labels, Locking
<1>6. CASE ConnectFails(t)
  <2> DEFINE s == at[t]
  <2>1. /\ pc[t] \in {"synsent", "picked"} /\ sk[s].hook = 0 /\ sk[s].st = "SYN_SENT"
        /\ Goto(t, "failed") /\ UNCHANGED at
    BY <1>6 DEF ConnectFails
  <2>2. Enter(s, "CLOSE", sk[s])
    BY <1>6 DEF ConnectFails
  <2>3. s \in Socks /\ sk[s] \in SockType /\ "CLOSE" \in States
    BY <1>0, <1>a, <2>1 DEF Locking, States
  <2>4. /\ sk'[s].hook = 1 /\ sk'[s].to = "CLOSE" /\ sk'[s].kind = sk[s].kind /\ sk'[s].st = sk[s].st
        /\ sk'[s].lport = sk[s].lport /\ sk'[s].raddr = sk[s].raddr /\ sk'[s].auto = sk[s].auto
        /\ CtxKeeps /\ \A u \in Socks \ {s} : sk'[u] = sk[u]
    BY <1>0, <2>3, <2>2, EnterEffect, EnterTuple
  <2>5. sk[s].raddr # NULL /\ sk[s].auto /\ at' = at
    BY <1>0, <1>a, <2>1, <2>3 DEF Tupled, Locking
  <2>6. sk[s].kind = "active"
    BY <1>a, <2>1 DEF Locking
  <2>7. Tupled(s)'
    BY <2>1, <2>4, <2>5, <2>6 DEF Tupled
  <2>8. CtxOf(s)'
    BY <2>1, <2>4, <2>5 DEF CtxOf
  <2> QED
    BY <2>1, <2>4, <2>7, <2>8, LockHolder DEF Labels, Locking
<1>7. CASE FexitTcpV4Connect(t)
  <2>1. /\ pc[t] = "picked" /\ Goto(t, "returned") /\ UNCHANGED <<sk, at>>
        /\ \/ ctx' = ctx
           \/ \E r \in Residues : ctx' = LookupOrTryInit(ctx, KeyOf(at[t], r), "CLIENT", MaxCtx)
    BY <1>7 DEF FexitTcpV4Connect
  <2>2. CtxKeeps
    BY <1>0, <2>1, CtxInitKeeps
  <2> QED
    BY <1>b, <2>1, <2>2 DEF Labels, Locking
<1>8. CASE FexitSysConnect(t)
  <2>1. /\ pc[t] \in {"connect", "file", "failed", "returned"} /\ UNCHANGED <<sk, ctx>>
        /\ \/ Goto(t, "found") /\ UNCHANGED at
           \/ Goto(t, "idle") /\ at' = [at EXCEPT ![t] = NULL]
    BY <1>8 DEF FexitSysConnect
  <2> QED
    BY <1>a, <1>b, <2>1 DEF Labels, Locking
<1>9. CASE FexitSysConnectDelete(t)
  <2>1. pc[t] = "found" /\ Goto(t, "deleted") /\ UNCHANGED <<sk, at, ctx>>
    BY <1>9 DEF FexitSysConnectDelete
  <2> QED
    BY <1>a, <1>b, <2>1 DEF Labels, Locking
<1>10. CASE FexitSysConnectLookup(t)
  <2>1. /\ pc[t] = "deleted" /\ UNCHANGED <<sk, at, ctx>>
        /\ Goto(t, "absent") \/ Goto(t, "present")
    BY <1>10 DEF FexitSysConnectLookup
  <2> QED
    BY <1>a, <1>b, <2>1 DEF Labels, Locking
<1>11. CASE FexitSysConnectUpdate(t)
  <2>1. pc[t] = "absent" /\ Goto(t, "present") /\ UNCHANGED <<sk, at, ctx>>
    BY <1>11 DEF FexitSysConnectUpdate
  <2> QED
    BY <1>a, <1>b, <2>1 DEF Labels, Locking
<1>12. CASE FexitSysConnectCtx(t)
  <2>1. /\ pc[t] = "present" /\ Goto(t, "idle") /\ at' = [at EXCEPT ![t] = NULL] /\ UNCHANGED sk
        /\ \E r \in Residues : ctx' = LookupOrTryInit(ctx, KeyOf(target[t], r), "CLIENT", MaxCtx)
    BY <1>12 DEF FexitSysConnectCtx
  <2>2. CtxKeeps
    BY <1>0, <2>1, CtxInitKeeps
  <2> QED
    BY <1>b, <2>1, <2>2 DEF Labels, Locking
<1> QED
  BY <1>1, <1>2, <1>3, <1>4, <1>5, <1>6, <1>7, <1>8, <1>9, <1>10, <1>11, <1>12 DEF ConnectNext

LEMMA AcceptCStep ==
  ASSUME IInv, TypeOK', CInv, NEW t \in Tasks, AcceptNext(t)
  PROVE  CInv'
<1>0. /\ TypeOK /\ sk \in [Socks -> SockType] /\ at \in [Tasks -> Ptrs]
      /\ "SERVER" \in Roles /\ Socks \subseteq Ptrs
  BY InPtrs DEF IInv, TypeOK, Roles
<1>a. UNCHANGED ctx => CtxKeeps
  BY DEF CtxKeeps
<1>1. CASE FentrySysAccept4(t)
  <2>1. pc[t] = "idle" /\ Goto(t, "accept") /\ UNCHANGED <<sk, at, ctx>>
    BY <1>1 DEF FentrySysAccept4
  <2> QED
    BY <1>a, <2>1, TaskAlone DEF Labels, Locking
<1>2. CASE InetCskAccept(t)
  <2>1. PICK l \in Socks :
          /\ at' = [at EXCEPT ![t] = l]
          /\ \E r \in Residues : ctx' = LookupOrTryInit(ctx, KeyOf(l, r), "SERVER", MaxCtx)
    BY <1>2 DEF InetCskAccept
  <2>2. pc[t] = "accept" /\ Goto(t, "accepting") /\ UNCHANGED sk
    BY <1>2 DEF InetCskAccept
  <2>3. CtxKeeps
    BY <1>0, <2>1, CtxInitKeeps
  <2>4. \A u \in Tasks \ {t} : at'[u] = at[u]
    BY <1>0, <2>1
  <2> QED
    BY <2>2, <2>3, <2>4, TaskAlone DEF Labels, Locking
<1>3. CASE FexitDoAccept(t)
  <2>1. /\ pc[t] = "accepting" /\ Goto(t, "accepted") /\ UNCHANGED <<at, ctx>>
        /\ \/ UNCHANGED sk
           \/ \E c \in Socks : sk' = [sk EXCEPT ![c] = [sk[c] EXCEPT !.open = TRUE]]
    BY <1>3 DEF FexitDoAccept
  <2>2. ASSUME NEW s \in Socks
        PROVE  /\ sk'[s].kind = sk[s].kind /\ sk'[s].st = sk[s].st /\ sk'[s].fam = sk[s].fam
               /\ sk'[s].lport = sk[s].lport /\ sk'[s].raddr = sk[s].raddr
               /\ sk'[s].auto = sk[s].auto /\ sk'[s].hook = sk[s].hook /\ sk'[s].to = sk[s].to
               /\ sk'[s].learned = sk[s].learned
    <3>1. sk'[s] = sk[s] \/ sk'[s] = [sk[s] EXCEPT !.open = TRUE]
      BY <1>0, <2>1
    <3>2. sk[s] \in SockType
      BY <1>0
    <3> QED
      BY <3>1, <3>2 DEF SockType
  <2> QED
    BY <1>a, <2>1, <2>2, TaskAlone DEF Labels, Locking
<1>4. CASE FexitSysAccept4(t)
  <2>1. /\ pc[t] \in {"accept", "accepted"} /\ Goto(t, "idle") /\ at' = [at EXCEPT ![t] = NULL]
        /\ UNCHANGED <<sk, ctx>>
    BY <1>4 DEF FexitSysAccept4
  <2>2. \A u \in Tasks \ {t} : at'[u] = at[u]
    BY <1>0, <2>1
  <2> QED
    BY <1>a, <2>1, <2>2, TaskAlone DEF Labels, Locking
<1> QED
  BY <1>1, <1>2, <1>3, <1>4 DEF AcceptNext

LEMMA InitCInv == ASSUME RoomForAll PROVE Init => CInv
<1> SUFFICES ASSUME Init
             PROVE  CInv
  OBVIOUS
<1>1. LockIsOwn
  BY DEF Init, LockIsOwn
<1>2. ASSUME NEW s \in Socks
      PROVE  /\ sk[s].hook = 0 /\ ~sk[s].learned /\ sk[s].auto /\ sk[s].kind # "listener"
             /\ \/ sk[s].kind = "free" /\ sk[s].st = "CLOSE" /\ sk[s].lport = 0
                \/ /\ sk[s].kind # "free" /\ sk[s].st = "ESTABLISHED"
                   /\ sk[s].lport # 0 /\ sk[s].raddr # NULL
  <2>1. \/ sk[s] = FreeSock
        \/ \E kind \in {"active", "child"}, port \in EphPorts \cup ListenPorts, r \in Remotes :
             sk[s] = Established(kind, port, r)
    BY DEF Init
  <2>2. CASE sk[s] = FreeSock
    BY <2>2 DEF FreeSock
  <2>3. CASE \E kind \in {"active", "child"}, port \in EphPorts \cup ListenPorts, r \in Remotes :
               sk[s] = Established(kind, port, r)
    <3>1. PICK kind \in {"active", "child"}, port \in EphPorts \cup ListenPorts, r \in Remotes :
            sk[s] = Established(kind, port, r)
      BY <2>3
    <3>2. port # 0 /\ r # NULL
      BY PortAssumption, RemoteAssumption
    <3> QED
      BY <3>1, <3>2 DEF Established, FreeSock
  <2> QED
    BY <2>1, <2>2, <2>3
<1>3. \A s \in Socks : Tupled(s) /\ CtxOf(s)
  BY <1>2 DEF Tupled, CtxOf
<1> QED
  BY <1>1, <1>3 DEF CInv

LEMMA NextCInv ==
  ASSUME RoomForAll, IInv, TypeOK', CInv, [Next]_vars
  PROVE  CInv'
<1>1. ASSUME UNCHANGED <<sk, pc, at, ctx>>
      PROVE  CInv'
  <2>1. CtxKeeps /\ TypeOK /\ LockIsOwn /\ \A s \in Socks : Tupled(s) /\ CtxOf(s)
    BY <1>1 DEF CtxKeeps, IInv, CInv
  <2>2. \A s \in Socks : Tupled(s)' /\ CtxOf(s)'
    BY <1>1, <2>1, SameSocket DEF BeforePort
  <2>3. LockIsOwn'
    BY <1>1, <2>1 DEF LockIsOwn
  <2> QED
    BY <2>2, <2>3 DEF CInv
<1>2. CASE Consume
  BY <1>1, <1>2 DEF Consume
<1>3. CASE UNCHANGED vars
  BY <1>1, <1>3 DEF vars
<1> QED
  BY <1>2, <1>3, SockCStep, ConnectCStep, AcceptCStep DEF Next

(* With room for every tuple, and ports that connect picks, the tuple of a *)
(* connection whose handshake was traced is in conn_ctx_map as long as it  *)
(* is up, however many calls and destructions of other sockets race.       *)
THEOREM CtxKept == ASSUME RoomForAll PROVE Spec => []CtxOfEstablishedKept
<1>1. Init => CInv
  BY InitCInv
<1>2. IInv /\ IInv' /\ CInv /\ [Next]_vars => CInv'
  BY NextCInv DEF IInv
<1>3. CInv => CtxOfEstablishedKept
  BY DEF CInv, CtxOf, Here, CtxOfEstablishedKept
<1> QED
  BY <1>1, <1>2, <1>3, Invariance, PTL DEF Spec

-----------------------------------------------------------------------------
(* Theorems for one task, so one system call at a time in the window of    *)
(* fd_info_map: then the roles of TcpLink are the true ones, for any       *)
(* sockets, ports, remotes and families, any residues, any capacity of the *)
(* maps and of the ring.                                                   *)
OneTask == \A t, u \in Tasks : t = u

(* The entry a connect makes, fills and takes out again is its own, and it *)
(* leads to an open client or to no TCP socket.                            *)
InConnect ==
  {"file", "failed", "returned", "found", "deleted", "absent", "present"} \cup Locking

FileIsOwn(t) ==
  /\ pc[t] \in {"idle", "connect", "accept"} => at[t] = NULL
  /\ pc[t] = "connect" => fdInfo[Id(t)].has
  /\ pc[t] \in {"connect"} \cup (InConnect \ {"absent", "present"}) => fdInfo[Id(t)].file = at[t]
  /\ pc[t] \in {"deleted", "absent", "present"} => target[t] = at[t]
  /\ pc[t] \in InConnect /\ at[t] \in Socks => sk[at[t]].open /\ sk[at[t]].kind = "active"

(* The state and the port of a socket go with the side it is on, and so    *)
(* does its role; a socket that is gone has none.                          *)
SideShows(s) ==
  /\ "SYN_SENT" \in {sk[s].st, sk[s].to} => sk[s].kind = "active"
  /\ sk[s].kind = "active" => sk[s].lport \notin ListenPorts
  /\ sk[s].kind = "listener" => ~sk[s].auto /\ sk[s].lport \in ListenPorts
  /\ sk[s].kind = "child" /\ sk[s].st # "CLOSE" => sk[s].lport \in ListenPorts
  /\ sk[s].kind = "child" /\ sk[s].hook # 0 => sk[s].st # "CLOSE"

RoleShows(s) ==
  /\ tracing[s] \in {Absent, "UNKNOWN"} \cup TrueRoles(sk[s].kind)
  /\ sk[s].kind = "free" => tracing[s] = Absent

(* The sides of all sockets, and the roles of those in S.                  *)
Shown(S) ==
  /\ \A s \in Socks : SideShows(s)
  /\ \A s \in S : RoleShows(s)

JInv ==
  /\ \A t \in Tasks : FileIsOwn(t)
  /\ Shown(Socks)
  /\ CtxRoleMatchesPort

-----------------------------------------------------------------------------
(* conn_ctx_map: what may be written under a key, and what no write hurts. *)
Fits(role, port) ==
  /\ role = "SERVER" => port \in ListenPorts
  /\ role = "CLIENT" => port \notin ListenPorts

LEMMA CtxWrite ==
  ASSUME TypeOK, CtxRoleMatchesPort, NEW k \in Keys, NEW v, Fits(v, k.lport),
         \/ ctx' = UpdateAny(ctx, k, v, MaxCtx)
         \/ ctx' = UpdateNoExist(ctx, k, v, MaxCtx)
         \/ ctx' = LookupOrTryInit(ctx, k, v, MaxCtx)
  PROVE  CtxRoleMatchesPort'
<1>1. ctx' = ctx \/ ctx' = [ctx EXCEPT ![k] = v]
  BY DEF UpdateAny, UpdateNoExist, LookupOrTryInit
<1>2. ctx \in [Keys -> Roles \cup {Absent}]
  BY DEF TypeOK
<1>3. \A j \in Keys : ctx'[j] = ctx[j] \/ (j = k /\ ctx'[j] = v)
  BY <1>1, <1>2
<1> QED
  BY <1>3 DEF CtxRoleMatchesPort, Fits

LEMMA CtxDelete ==
  ASSUME TypeOK, CtxRoleMatchesPort, NEW k \in Keys, NEW j \in Keys,
         ctx' = Delete(ctx, k) \/ ctx' = Delete(Delete(ctx, k), j)
  PROVE  CtxRoleMatchesPort'
<1>1. \A i \in Keys : ctx'[i] = ctx[i] \/ ctx'[i] = Absent
  BY DEF TypeOK, Delete
<1> QED
  BY <1>1, AbsentAssumption DEF CtxRoleMatchesPort

LEMMA KeyPort ==
  ASSUME TypeOK, NEW p \in Ptrs, NEW r \in Residues
  PROVE  /\ p \in Socks => KeyOf(p, r).lport = sk[p].lport
         /\ p \notin Socks => KeyOf(p, r).lport = 0 /\ Fits("CLIENT", 0)
  BY PortAssumption DEF KeyOf, Fits

LEMMA Sides ==
  /\ TrueRoles("active") = {"CLIENT"}
  /\ TrueRoles("listener") = {"SERVER"} /\ TrueRoles("child") = {"SERVER"}
  /\ TrueRoles("free") = {}
  BY DEF TrueRoles

-----------------------------------------------------------------------------
(* A step of one socket: the sides, and the roles of a set of addresses.   *)
LEMMA OneSocket ==
  ASSUME NEW S \in SUBSET Socks, Shown(S), NEW s \in Socks,
         \A u \in Socks \ {s} : sk'[u] = sk[u] /\ tracing'[u] = tracing[u],
         SideShows(s)', s \in S => RoleShows(s)'
  PROVE  Shown(S)'
<1>1. ASSUME NEW u \in Socks PROVE SideShows(u)' /\ (u \in S => RoleShows(u)')
  <2>1. CASE u = s
    BY <2>1
  <2>2. CASE u # s
    BY <2>2 DEF Shown, SideShows, RoleShows
  <2> QED
    BY <2>1, <2>2
<1> QED
  BY <1>1 DEF Shown

LEMMA EnterShown ==
  ASSUME TypeOK, NEW S \in SUBSET Socks, Shown(S),
         NEW s \in Socks, NEW new \in States, NEW c \in SockType, Enter(s, new, c),
         c.kind = sk[s].kind, c.st = sk[s].st, c.open = sk[s].open, c.lport = sk[s].lport,
         c.auto = sk[s].auto,
         sk[s].kind # "free",
         new = "SYN_SENT" => sk[s].kind = "active",
         sk[s].kind = "child" => sk[s].st # "CLOSE"
  PROVE  Shown(S)'
<1>0. SideShows(s) /\ (s \in S => RoleShows(s))
  BY DEF Shown
<1>1. /\ sk'[s].hook = 1 /\ sk'[s].to = new
      /\ sk'[s].kind = c.kind /\ sk'[s].st = c.st /\ sk'[s].open = c.open
      /\ \A u \in Socks \ {s} : sk'[u] = sk[u]
      /\ \A p \in Ptrs \ {s} : tracing'[p] = tracing[p]
      /\ \/ tracing'[s] = tracing[s]
         \/ tracing[s] = Absent /\ tracing'[s] = "UNKNOWN"
  BY EnterEffect
<1>2. sk'[s].lport = c.lport /\ sk'[s].auto = c.auto
  <2>1. PICK r \in Residues : sk' = [sk EXCEPT ![s] = [c EXCEPT !.hook = 1, !.to = new, !.res = r]]
    BY DEF Enter
  <2>2. sk'[s] = [c EXCEPT !.hook = 1, !.to = new, !.res = r]
    BY <2>1 DEF TypeOK
  <2> QED
    BY <2>2 DEF SockType
<1>3. SideShows(s)'
  BY <1>0, <1>1, <1>2 DEF SideShows
<1>4. s \in S => RoleShows(s)'
  BY <1>0, <1>1 DEF RoleShows
<1> QED
  BY <1>1, <1>3, <1>4, InPtrs, OneSocket

(* The entry of the tuple a socket enters k_set_state with says UNKNOWN.   *)
LEMMA EnterCtx ==
  ASSUME TypeOK, CtxRoleMatchesPort, NEW s, NEW new, NEW c \in SockType, Enter(s, new, c)
  PROVE  CtxRoleMatchesPort'
<1>1. PICK r \in Residues :
        ctx' = UpdateNoExist(ctx,
                 [fam |-> c.fam, lport |-> c.lport, raddr |-> c.raddr, res |-> r],
                 "UNKNOWN", MaxCtx)
  BY DEF Enter
<1>2. [fam |-> c.fam, lport |-> c.lport, raddr |-> c.raddr, res |-> r] \in Keys
  BY DEF SockType, Keys
<1>3. Fits("UNKNOWN", c.lport)
  BY DEF Fits
<1> QED
  BY <1>1, <1>2, <1>3, CtxWrite

LEMMA SockShownStep ==
  ASSUME TInv, NEW S \in SUBSET Socks, Shown(S), NEW s \in Socks, SockNext(s)
  PROVE  Shown(S)'
<1>0. /\ TypeOK /\ SideShows(s) /\ (s \in S => RoleShows(s)) /\ SockFacts
  BY DEF TInv, Shown
<1>a. /\ sk \in [Socks -> SockType] /\ tracing \in [Ptrs -> Roles \cup {Absent}]
      /\ s \in Ptrs /\ Socks \subseteq Ptrs /\ NULL \in Ptrs /\ NULL \notin Socks
      /\ sk[s] \in SockType
  BY <1>0, InPtrs, PtrAssumption DEF TypeOK
<1>b. /\ sk[s].hook # 0 \/ sk[s].open => sk[s].kind # "free"
      /\ sk[s].st = "SYN_RECV" => sk[s].kind = "child"
  BY <1>0 DEF SockFacts
<1>1. CASE NewSocket(s)
  <2>1. sk[s].kind = "free" /\ UNCHANGED tracing
    BY <1>1 DEF NewSocket
  <2>2. s \in S => tracing[s] = Absent
    BY <1>0, <2>1 DEF RoleShows
  <2>3. /\ \A u \in Socks \ {s} : sk'[u] = sk[u]
        /\ sk'[s].st = "CLOSE" /\ sk'[s].to = "CLOSE" /\ sk'[s].hook = 0
        /\ \/ sk'[s].kind = "active" /\ sk'[s].lport \in {0} \cup BoundPorts
           \/ sk'[s].kind = "listener" /\ ~sk'[s].auto /\ sk'[s].lport \in ListenPorts
    <3>1. PICK fam \in Fams :
            \/ sk' = [sk EXCEPT ![s] = [FreeSock EXCEPT !.kind = "active", !.fam = fam, !.open = TRUE]]
            \/ \E port \in BoundPorts :
                 sk' = [sk EXCEPT ![s] = [FreeSock EXCEPT !.kind = "active", !.fam = fam,
                                            !.open = TRUE, !.lport = port, !.auto = FALSE]]
            \/ \E port \in ListenPorts :
                 sk' = [sk EXCEPT ![s] = [FreeSock EXCEPT !.kind = "listener", !.fam = fam,
                                            !.open = TRUE, !.lport = port, !.auto = FALSE]]
      BY <1>1 DEF NewSocket
    <3>2. CASE sk' = [sk EXCEPT ![s] = [FreeSock EXCEPT !.kind = "active", !.fam = fam, !.open = TRUE]]
      BY <1>a, <3>2 DEF FreeSock
    <3>3. ASSUME NEW port \in BoundPorts,
                 sk' = [sk EXCEPT ![s] = [FreeSock EXCEPT !.kind = "active", !.fam = fam,
                                            !.open = TRUE, !.lport = port, !.auto = FALSE]]
          PROVE  /\ \A u \in Socks \ {s} : sk'[u] = sk[u]
                 /\ sk'[s].st = "CLOSE" /\ sk'[s].to = "CLOSE" /\ sk'[s].hook = 0
                 /\ sk'[s].kind = "active" /\ sk'[s].lport = port
      BY <1>a, <3>3 DEF FreeSock
    <3>4. ASSUME NEW port \in ListenPorts,
                 sk' = [sk EXCEPT ![s] = [FreeSock EXCEPT !.kind = "listener", !.fam = fam,
                                            !.open = TRUE, !.lport = port, !.auto = FALSE]]
          PROVE  /\ \A u \in Socks \ {s} : sk'[u] = sk[u]
                 /\ sk'[s].st = "CLOSE" /\ sk'[s].to = "CLOSE" /\ sk'[s].hook = 0
                 /\ sk'[s].kind = "listener" /\ ~sk'[s].auto /\ sk'[s].lport = port
      BY <1>a, <3>4 DEF FreeSock
    <3> QED
      BY <3>1, <3>2, <3>3, <3>4
  <2>4. SideShows(s)'
    <3>1. \A port \in {0} \cup BoundPorts : port \notin ListenPorts
      BY PortAssumption
    <3> QED
      BY <2>3, <3>1 DEF SideShows
  <2>5. s \in S => RoleShows(s)'
    BY <2>1, <2>2, <2>3 DEF RoleShows
  <2> QED
    BY <2>1, <2>3, <2>4, <2>5, OneSocket
<1>2. CASE Listen(s)
  <2>1. /\ sk[s].kind = "listener"
        /\ sk'[s].kind = sk[s].kind /\ sk'[s].st = "LISTEN" /\ sk'[s].open = sk[s].open
        /\ sk'[s].lport = sk[s].lport /\ sk'[s].auto = sk[s].auto /\ sk'[s].to = sk[s].to
        /\ \A u \in Socks \ {s} : sk'[u] = sk[u]
        /\ UNCHANGED tracing
    BY <1>2, <1>a DEF Listen, SockType
  <2>2. SideShows(s)' /\ (s \in S => RoleShows(s)')
    BY <1>0, <2>1 DEF SideShows, RoleShows
  <2> QED
    BY <2>1, <2>2, OneSocket
<1>3. CASE \E l \in Socks : NewChild(s, l)
  <2>1. PICK l \in Socks : NewChild(s, l)
    BY <1>3
  <2>2. sk[s].kind = "free" /\ UNCHANGED tracing
    BY <2>1 DEF NewChild
  <2>3. s \in S => tracing[s] = Absent
    BY <1>0, <2>2 DEF RoleShows
  <2>4. /\ sk'[s].kind = "child" /\ sk'[s].st = "SYN_RECV" /\ sk'[s].to = "CLOSE"
        /\ sk'[s].lport = sk[l].lport
        /\ \A u \in Socks \ {s} : sk'[u] = sk[u]
    BY <2>1, <1>a DEF NewChild, FreeSock
  <2>5. sk[l].lport \in ListenPorts
    BY <2>1 DEF NewChild, Shown, SideShows
  <2>6. SideShows(s)' /\ (s \in S => RoleShows(s)')
    BY <1>0, <2>2, <2>3, <2>4, <2>5 DEF SideShows, RoleShows
  <2> QED
    BY <2>2, <2>4, <2>6, OneSocket
<1>4. CASE KernelSetState(s)
  <2>1. PICK new \in KernelNext(sk[s].st) : Enter(s, new, sk[s])
    BY <1>4 DEF KernelSetState
  <2>2. new \in States /\ new # "SYN_SENT" /\ sk[s].st # "CLOSE"
    BY <2>1 DEF KernelNext, States
  <2>3. sk[s].kind # "free"
    BY <1>4 DEF KernelSetState
  <2> QED
    BY <1>0, <1>a, <2>1, <2>2, <2>3, EnterShown
<1>5. CASE SetStateDirect(s)
  <2> DEFINE role == DirectRole(sk[s].st, sk[s].to)
  <2>1. /\ role \in {"CLIENT", "SERVER"}
        /\ role = "SERVER" => sk[s].kind = "child"
        /\ role = "CLIENT" => sk[s].kind = "active"
    <3>1. sk[s].st \in States /\ sk[s].to \in States /\ role # Absent
      BY <1>5, <1>a DEF SetStateDirect, SockType
    <3>2. role = "CLIENT" => "SYN_SENT" \in {sk[s].st, sk[s].to}
      BY AbsentAssumption DEF DirectRole
    <3> QED
      BY <1>0, <1>b, <3>1, <3>2, DirectRoleCases DEF SideShows
  <2>2. /\ sk'[s].kind = sk[s].kind /\ sk'[s].st = sk[s].st /\ sk'[s].open = sk[s].open
        /\ sk'[s].lport = sk[s].lport /\ sk'[s].auto = sk[s].auto /\ sk'[s].to = sk[s].to
        /\ sk[s].hook # 0
        /\ \A u \in Socks \ {s} : sk'[u] = sk[u]
    BY <1>5, <1>a DEF SetStateDirect, SockType
  <2>3. /\ \A p \in Ptrs \ {s} : tracing'[p] = tracing[p]
        /\ tracing'[s] = role \/ tracing'[s] = tracing[s]
    BY <1>5, <1>a DEF SetStateDirect, UpdateAny
  <2> HIDE DEF role
  <2>4. SideShows(s)'
    BY <1>0, <2>2 DEF SideShows
  <2>5. s \in S => RoleShows(s)'
    BY <1>0, <1>b, <2>1, <2>2, <2>3, Sides DEF RoleShows
  <2> QED
    BY <1>a, <2>2, <2>3, <2>4, <2>5, OneSocket
<1>6. CASE SetStateOther(s)
  <2>1. /\ sk'[s].kind = sk[s].kind /\ sk'[s].st = sk[s].st /\ sk'[s].open = sk[s].open
        /\ sk'[s].lport = sk[s].lport /\ sk'[s].auto = sk[s].auto /\ sk'[s].to = sk[s].to
        /\ sk[s].hook # 0
        /\ \A u \in Socks \ {s} : sk'[u] = sk[u]
        /\ UNCHANGED tracing
    BY <1>6, <1>a DEF SetStateOther, SockType
  <2>2. SideShows(s)' /\ (s \in S => RoleShows(s)')
    BY <1>0, <2>1 DEF SideShows, RoleShows
  <2> QED
    BY <2>1, <2>2, OneSocket
<1>7. CASE SetStateExit(s)
  <2>1. /\ sk[s].hook = 2
        /\ sk'[s].kind = sk[s].kind /\ sk'[s].st = sk[s].to /\ sk'[s].open = sk[s].open
        /\ sk'[s].hook = 0 /\ sk'[s].to = sk[s].to /\ sk'[s].auto = sk[s].auto
        /\ sk'[s].lport = IF sk[s].to = "CLOSE" /\ sk[s].auto THEN 0 ELSE sk[s].lport
        /\ \A u \in Socks \ {s} : sk'[u] = sk[u]
    BY <1>7, <1>a DEF SetStateExit, SockType
  <2>2. /\ \A p \in Ptrs \ {s} : tracing'[p] = tracing[p]
        /\ tracing'[s] = IF sk[s].to = "CLOSE" THEN Absent ELSE tracing[s]
    BY <1>7, <1>a DEF SetStateExit, Delete
  <2>3. SideShows(s)'
    <3>1. 0 \notin ListenPorts
      BY PortAssumption
    <3> QED
      BY <1>0, <2>1, <3>1 DEF SideShows
  <2>4. s \in S => RoleShows(s)'
    BY <1>0, <2>1, <2>2 DEF RoleShows
  <2> QED
    BY <1>a, <2>1, <2>2, <2>3, <2>4, OneSocket
<1>8. CASE TcpClose(s)
  <2>1. /\ sk'[s].kind = sk[s].kind /\ sk'[s].st = sk[s].st
        /\ sk'[s].lport = sk[s].lport /\ sk'[s].auto = sk[s].auto /\ sk'[s].to = sk[s].to
        /\ sk'[s].hook = sk[s].hook
        /\ \A u \in Socks \ {s} : sk'[u] = sk[u]
    BY <1>8, <1>a DEF TcpClose, SockType
  <2>2. \A p \in Ptrs : tracing'[p] = tracing[p] \/ (p = NULL /\ tracing'[p] = Absent)
    BY <1>8, <1>a DEF TcpClose, Delete
  <2>3. SideShows(s)' /\ (s \in S => RoleShows(s)')
    BY <1>0, <1>a, <2>1, <2>2 DEF SideShows, RoleShows
  <2> QED
    BY <1>a, <2>1, <2>2, <2>3, OneSocket
<1>9. CASE KDestroySock(s)
  <2>1. /\ sk'[s].kind = sk[s].kind /\ sk'[s].st = sk[s].st /\ sk'[s].open = sk[s].open
        /\ sk'[s].lport = sk[s].lport /\ sk'[s].auto = sk[s].auto /\ sk'[s].to = sk[s].to
        /\ sk'[s].hook = sk[s].hook
        /\ \A u \in Socks \ {s} : sk'[u] = sk[u]
    BY <1>9, <1>a DEF KDestroySock, SockType
  <2>2. \A p \in Ptrs : tracing'[p] = tracing[p] \/ (p = s /\ tracing'[p] = Absent)
    BY <1>9, <1>a DEF KDestroySock, Delete
  <2>3. SideShows(s)' /\ (s \in S => RoleShows(s)')
    BY <1>0, <1>a, <2>1, <2>2 DEF SideShows, RoleShows
  <2> QED
    BY <1>a, <2>1, <2>2, <2>3, OneSocket
<1>10. CASE TpDestroySock(s)
  <2>1. /\ ~sk[s].open
        /\ sk'[s].kind = "free" /\ sk'[s].st = "CLOSE" /\ sk'[s].to = "CLOSE" /\ ~sk'[s].open
        /\ \A u \in Socks \ {s} : sk'[u] = sk[u]
    BY <1>10, <1>a DEF TpDestroySock, Closed, FreeSock
  <2>2. \A p \in Ptrs : IF p = s THEN tracing'[p] = Absent ELSE tracing'[p] = tracing[p]
    BY <1>10, <1>a DEF TpDestroySock, Delete
  <2>3. SideShows(s)' /\ (s \in S => RoleShows(s)')
    BY <1>a, <2>1, <2>2 DEF SideShows, RoleShows
  <2> QED
    BY <1>a, <2>1, <2>2, <2>3, OneSocket
<1> QED
  BY <1>1, <1>2, <1>3, <1>4, <1>5, <1>6, <1>7, <1>8, <1>9, <1>10 DEF SockNext

(* A step of the kernel leaves the calls alone, and open a socket in use.  *)
LEMMA SockFilesStep ==
  ASSUME TInv, \A t \in Tasks : FileIsOwn(t), NEW s \in Socks, SockNext(s)
  PROVE  \A t \in Tasks : FileIsOwn(t)'
<1>0. /\ sk \in [Socks -> SockType] /\ sk[s] \in SockType
      /\ sk[s].hook # 0 \/ sk[s].open => sk[s].kind # "free"
  BY DEF TInv, TypeOK, SockFacts
<1>1. UNCHANGED <<pc, at, target, fdInfo>>
  BY DEF SockNext, NewSocket, Listen, NewChild, KernelSetState, SetStateDirect, SetStateOther,
         SetStateExit, TcpClose, KDestroySock, TpDestroySock
<1>2. \A u \in Socks \ {s} : sk'[u] = sk[u]
  BY <1>0 DEF SockNext, NewSocket, Listen, NewChild, KernelSetState, Enter, SetStateDirect,
              SetStateOther, SetStateExit, TcpClose, KDestroySock, TpDestroySock
<1>3. \/ sk[s].open => sk'[s].open /\ sk'[s].kind = sk[s].kind
      \/ \A t \in Tasks : at[t] # s
  <2>1. CASE NewSocket(s) \/ \E l \in Socks : NewChild(s, l)
    BY <1>0, <2>1 DEF NewSocket, NewChild
  <2>2. CASE \E new \in KernelNext(sk[s].st) : Enter(s, new, sk[s])
    <3>1. \E new, r : sk' = [sk EXCEPT ![s] = [sk[s] EXCEPT !.hook = 1, !.to = new, !.res = r]]
      BY <2>2 DEF Enter
    <3> QED
      BY <1>0, <3>1 DEF SockType
  <2>3. CASE Listen(s) \/ SetStateDirect(s) \/ SetStateOther(s) \/ SetStateExit(s) \/ KDestroySock(s)
    <3>1. CASE Listen(s)
      BY <1>0, <3>1 DEF Listen, SockType
    <3>2. CASE SetStateDirect(s)
      BY <1>0, <3>2 DEF SetStateDirect, SockType
    <3>3. CASE SetStateOther(s)
      BY <1>0, <3>3 DEF SetStateOther, SockType
    <3>4. CASE SetStateExit(s)
      BY <1>0, <3>4 DEF SetStateExit, SockType
    <3>5. CASE KDestroySock(s)
      BY <1>0, <3>5 DEF KDestroySock, SockType
    <3> QED
      BY <2>3, <3>1, <3>2, <3>3, <3>4, <3>5
  <2>4. CASE TcpClose(s)
    BY <2>4 DEF TcpClose, InUse
  <2>5. CASE TpDestroySock(s)
    BY <2>5 DEF TpDestroySock, Closed
  <2> QED
    BY <2>1, <2>2, <2>3, <2>4, <2>5 DEF SockNext, KernelSetState
<1> SUFFICES ASSUME NEW t \in Tasks PROVE FileIsOwn(t)'
  OBVIOUS
<1>4. at[t] \in Socks /\ sk[at[t]].open /\ sk[at[t]].kind = "active" =>
        sk'[at[t]].open /\ sk'[at[t]].kind = "active"
  <2>1. CASE at[t] = s
    BY <1>3, <2>1
  <2>2. CASE at[t] # s
    BY <1>2, <2>2
  <2> QED
    BY <2>1, <2>2
<1>5. FileIsOwn(t)
  OBVIOUS
<1> QED
  BY <1>1, <1>4, <1>5 DEF FileIsOwn

(* What a socket's own steps write to conn_ctx_map.                        *)
LEMMA SockCtxStep ==
  ASSUME IInv, JInv, NEW s \in Socks, SockNext(s)
  PROVE  CtxRoleMatchesPort'
<1>0. /\ TypeOK /\ SideShows(s) /\ RoleShows(s) /\ CtxRoleMatchesPort
      /\ tracing[s] = "SERVER" => sk[s].kind \in {"listener", "child"}
  BY DEF IInv, JInv, Shown, ServerRoleIsTrue
<1>a. sk[s] \in SockType /\ s \in Ptrs /\ NULL \in Ptrs /\ tracing[s] \in Roles \cup {Absent}
  BY <1>0, InPtrs DEF TypeOK
<1>1. ASSUME UNCHANGED ctx PROVE CtxRoleMatchesPort'
  BY <1>0, <1>1 DEF CtxRoleMatchesPort
<1>2. CASE \/ NewSocket(s) \/ Listen(s) \/ \E l \in Socks : NewChild(s, l)
           \/ SetStateDirect(s) \/ SetStateExit(s)
  BY <1>1, <1>2 DEF NewSocket, Listen, NewChild, SetStateDirect, SetStateExit
<1>3. CASE KernelSetState(s)
  BY <1>0, <1>3, <1>a, EnterCtx DEF KernelSetState
<1>4. CASE SetStateOther(s)
  <2>1. CASE ctx' = UpdateAny(ctx, KeyOf(s, sk[s].res), tracing[s], MaxCtx)
    <3>1. sk[s].res \in Residues
      BY <1>a DEF SockType
    <3>2. KeyOf(s, sk[s].res) \in Keys /\ KeyOf(s, sk[s].res).lport = sk[s].lport
      BY <1>0, <1>a, <3>1, KeyOfType, KeyPort
    <3>3. Fits(tracing[s], sk[s].lport)
      <4>1. sk[s].hook # 0
        BY <1>4 DEF SetStateOther
      <4>2. tracing[s] = "SERVER" => sk[s].lport \in ListenPorts
        BY <1>0, <4>1 DEF SideShows
      <4>3. tracing[s] = "CLIENT" => sk[s].kind = "active"
        BY <1>0, <1>a, Sides, AbsentAssumption DEF RoleShows, SockType, Kinds
      <4> QED
        BY <1>0, <4>2, <4>3 DEF Fits, SideShows
    <3> QED
      BY <1>0, <2>1, <3>2, <3>3, CtxWrite
  <2> QED
    BY <1>1, <1>4, <2>1 DEF SetStateOther
<1>5. CASE TcpClose(s)
  <2>1. CASE \E r \in Residues : ctx' = Delete(ctx, KeyOf(NULL, r))
    BY <1>0, <1>a, <2>1, KeyOfType, CtxDelete
  <2> QED
    BY <1>1, <1>5, <2>1 DEF TcpClose
<1>6. CASE KDestroySock(s)
  BY <1>0, <1>6, <1>a, KeyOfType, CtxDelete DEF KDestroySock
<1>7. CASE TpDestroySock(s)
  BY <1>0, <1>7, <1>a, KeyOfType, CtxDelete DEF TpDestroySock
<1> QED
  BY <1>2, <1>3, <1>4, <1>5, <1>6, <1>7 DEF SockNext

-----------------------------------------------------------------------------
(* The connect hooks: what they write under a pointer is true of it.       *)
LEMMA ClientRole ==
  ASSUME NEW S \in SUBSET Socks, Shown(S), UNCHANGED sk, NEW p \in Ptrs,
         p \in S => sk[p].kind = "active",
         \A q \in Ptrs \ {p} : tracing'[q] = tracing[q],
         tracing'[p] \in {tracing[p], "CLIENT"}
  PROVE  Shown(S)'
<1>1. ASSUME NEW u \in S PROVE RoleShows(u)'
  <2>1. RoleShows(u)
    BY DEF Shown
  <2>2. CASE u = p
    BY <2>1, <2>2, Sides DEF RoleShows
  <2>3. CASE u # p
    BY <2>1, <2>3, InPtrs DEF RoleShows
  <2> QED
    BY <2>2, <2>3
<1> QED
  BY <1>1 DEF Shown, SideShows

LEMMA ClientCtx ==
  ASSUME TypeOK, Shown({}), CtxRoleMatchesPort, NEW p \in Ptrs, p \in Socks => sk[p].kind = "active",
         \E r \in Residues : ctx' = LookupOrTryInit(ctx, KeyOf(p, r), "CLIENT", MaxCtx)
  PROVE  CtxRoleMatchesPort'
<1>1. PICK r \in Residues : ctx' = LookupOrTryInit(ctx, KeyOf(p, r), "CLIENT", MaxCtx)
  OBVIOUS
<1>2. KeyOf(p, r) \in Keys
  BY KeyOfType
<1>3. Fits("CLIENT", KeyOf(p, r).lport)
  BY KeyPort DEF Shown, SideShows, Fits
<1> QED
  BY <1>1, <1>2, <1>3, CtxWrite

(* Only the update at the end of the exit hook depends on the entry's file *)
(* being the call's own: the others work under the socket lock.            *)
LEMMA ConnectShownStep ==
  ASSUME TInv, NEW S \in SUBSET Socks, Shown(S), NEW t \in Tasks, ConnectNext(t),
         S = {} \/ FileIsOwn(t)
  PROVE  Shown(S)'
<1>0. TypeOK /\ OwnSocket
  BY DEF TInv
<1>a. /\ sk \in [Socks -> SockType] /\ at \in [Tasks -> Ptrs] /\ target \in [Tasks -> Ptrs]
      /\ tracing \in [Ptrs -> Roles \cup {Absent}]
      /\ Socks \subseteq Ptrs /\ "CLIENT" \in Roles
      /\ at[t] \in Ptrs /\ target[t] \in Ptrs
  BY <1>0, InPtrs DEF TypeOK, Roles
<1>b. /\ pc[t] \in Locking => at[t] \in Socks
      /\ pc[t] \in {"file"} \cup Locking /\ at[t] \in Socks => sk[at[t]].open /\ sk[at[t]].kind = "active"
  BY <1>0 DEF OwnSocket
<1>c. ASSUME UNCHANGED <<sk, tracing>> PROVE Shown(S)'
  BY <1>c DEF Shown, SideShows, RoleShows
<1>d. ASSUME tracing' = LookupOrTryInit(tracing, at[t], "CLIENT", MaxTracing), UNCHANGED sk,
             sk[at[t]].kind = "active"
      PROVE  Shown(S)'
  BY <1>0, <1>a, <1>d, InitEffect, ClientRole
<1>1. CASE \/ FentrySysConnect(t) \/ FentrySysConnectFile(t) \/ FexitSysConnect(t)
           \/ FexitSysConnectDelete(t) \/ FexitSysConnectLookup(t) \/ FexitSysConnectCtx(t)
  BY <1>c, <1>1 DEF FentrySysConnect, FentrySysConnectFile, FexitSysConnect,
                    FexitSysConnectDelete, FexitSysConnectLookup, FexitSysConnectCtx
<1>2. CASE LockSock(t)
  <2>1. sk[at[t]].kind = "active"
    BY <1>b, <1>2 DEF LockSock
  <2> QED
    BY <1>c, <1>d, <1>2, <2>1 DEF LockSock
<1>3. CASE ConnectSynSent(t)
  <2>1. PICK r \in Remotes : Enter(at[t], "SYN_SENT", [sk[at[t]] EXCEPT !.raddr = r])
    BY <1>3 DEF ConnectSynSent
  <2>2. at[t] \in Socks /\ sk[at[t]].kind = "active"
    BY <1>b, <1>3 DEF ConnectSynSent, Locking
  <2> DEFINE c == [sk[at[t]] EXCEPT !.raddr = r]
  <2>3. /\ c \in SockType /\ c.kind = sk[at[t]].kind /\ c.st = sk[at[t]].st
        /\ c.open = sk[at[t]].open /\ c.lport = sk[at[t]].lport /\ c.auto = sk[at[t]].auto
    <3>1. sk[at[t]] \in SockType
      BY <1>a, <2>2
    <3>2. c \in SockType
      BY <3>1, RaddrType
    <3> QED
      BY <3>1, <3>2 DEF SockType
  <2>4. "SYN_SENT" \in States /\ Enter(at[t], "SYN_SENT", c)
    BY <2>1 DEF States
  <2> HIDE DEF c
  <2> QED
    BY <1>0, <2>2, <2>3, <2>4, EnterShown
<1>4. CASE ConnectPortPicked(t)
  <2>1. /\ pc[t] = "synsent" /\ UNCHANGED tracing
        /\ \/ UNCHANGED sk
           \/ \E port \in EphPorts : sk' = [sk EXCEPT ![at[t]].lport = port]
    BY <1>4 DEF ConnectPortPicked
  <2>2. PICK s \in Socks : s = at[t] /\ sk[s].kind = "active" /\ sk[s] \in SockType
    BY <1>a, <1>b, <2>1 DEF Locking
  <2>3. /\ \A u \in Socks \ {s} : sk'[u] = sk[u] /\ tracing'[u] = tracing[u]
        /\ sk'[s].kind = "active" /\ tracing'[s] = tracing[s]
        /\ sk'[s].st = sk[s].st /\ sk'[s].to = sk[s].to
        /\ sk'[s].lport = sk[s].lport \/ sk'[s].lport \in EphPorts
    BY <1>a, <2>1, <2>2 DEF SockType
  <2>4. SideShows(s)' /\ (s \in S => RoleShows(s)')
    <3>1. SideShows(s) /\ (s \in S => RoleShows(s))
      BY DEF Shown
    <3>2. sk'[s].lport \notin ListenPorts
      BY <2>2, <2>3, <3>1, PortAssumption DEF SideShows
    <3> QED
      BY <2>2, <2>3, <3>1, <3>2 DEF SideShows, RoleShows
  <2> QED
    BY <2>2, <2>3, <2>4, OneSocket
<1>5. CASE ConnectFails(t)
  <2>1. pc[t] \in {"synsent", "picked"} /\ Enter(at[t], "CLOSE", sk[at[t]])
    BY <1>5 DEF ConnectFails
  <2>2. at[t] \in Socks /\ sk[at[t]].kind = "active" /\ sk[at[t]] \in SockType /\ "CLOSE" \in States
    BY <1>a, <1>b, <2>1 DEF Locking, States
  <2> QED
    BY <1>0, <2>1, <2>2, EnterShown
<1>6. CASE FexitTcpV4Connect(t)
  <2>1. sk[at[t]].kind = "active"
    BY <1>b, <1>6 DEF FexitTcpV4Connect, Locking
  <2> QED
    BY <1>c, <1>d, <1>6, <2>1 DEF FexitTcpV4Connect
<1>7. CASE FexitSysConnectUpdate(t)
  <2>1. /\ UNCHANGED sk /\ pc[t] = "absent"
        /\ tracing' = UpdateAny(tracing, target[t], "CLIENT", MaxTracing)
    BY <1>7 DEF FexitSysConnectUpdate
  <2>2. target[t] \in S => sk[target[t]].kind = "active"
    BY <2>1 DEF FileIsOwn, InConnect
  <2>3. /\ \A q \in Ptrs \ {target[t]} : tracing'[q] = tracing[q]
        /\ tracing'[target[t]] \in {tracing[target[t]], "CLIENT"}
    BY <1>a, <2>1 DEF UpdateAny
  <2> QED
    BY <1>a, <2>1, <2>2, <2>3, ClientRole
<1> QED
  BY <1>1, <1>2, <1>3, <1>4, <1>5, <1>6, <1>7 DEF ConnectNext

(* The entry a connect finds stays its own.                                *)
LEMMA ConnectFileStep ==
  ASSUME TInv, NEW t \in Tasks, FileIsOwn(t), ConnectNext(t)
  PROVE  FileIsOwn(t)'
<1>0. TypeOK /\ OwnSocket
  BY DEF TInv
<1>a. /\ sk \in [Socks -> SockType] /\ at \in [Tasks -> Ptrs] /\ target \in [Tasks -> Ptrs]
      /\ pc \in [Tasks -> Labels]
      /\ fdInfo \in [{Id(u) : u \in Tasks} -> [has: BOOLEAN, file: Ptrs]]
      /\ Id(t) \in {Id(u) : u \in Tasks}
  BY <1>0 DEF TypeOK
<1>b. ASSUME pc[t] \in InConnect, at[t] \in Socks
      PROVE  sk[at[t]].open /\ sk[at[t]].kind = "active"
  BY <1>b DEF FileIsOwn
<1>c. ASSUME UNCHANGED <<at, target, fdInfo>>,
             pc[t] \in {"file"} \cup Locking, pc'[t] \in {"failed", "returned"} \cup Locking,
             at[t] \in Socks => sk'[at[t]].open = sk[at[t]].open /\ sk'[at[t]].kind = sk[at[t]].kind
      PROVE  FileIsOwn(t)'
  BY <1>c DEF FileIsOwn, InConnect, Locking, Id
<1>d. pc[t] \in Locking => at[t] \in Socks /\ sk[at[t]] \in SockType
  BY <1>0, <1>a DEF OwnSocket
<1>1. CASE FentrySysConnect(t)
  <2>1. UNCHANGED <<sk, at, target>> /\ pc[t] = "idle" /\ pc'[t] = "connect"
    BY <1>1, <1>a DEF FentrySysConnect, Goto
  <2>2. fdInfo'[Id(t)] = [has |-> TRUE, file |-> NULL]
    BY <1>1, <1>a DEF FentrySysConnect, ResetFdInfo
  <2> QED
    BY <2>1, <2>2 DEF FileIsOwn, InConnect, Locking, Id
<1>2. CASE FentrySysConnectFile(t)
  <2>1. PICK f \in {s \in Socks : sk[s].open /\ sk[s].kind = "active"} \cup Others :
          /\ at' = [at EXCEPT ![t] = f]
          /\ fdInfo[Id(t)].has => SetFile(t, f)
    BY <1>2 DEF FentrySysConnectFile
  <2>2. UNCHANGED <<sk, target>> /\ pc[t] = "connect" /\ pc'[t] = "file"
    BY <1>2, <1>a DEF FentrySysConnectFile, Goto
  <2>3. f \in Socks => sk[f].open /\ sk[f].kind = "active"
    BY <2>1, PtrAssumption
  <2>4. at'[t] = f /\ fdInfo'[Id(t)].file = f
    BY <1>a, <2>1, <2>2 DEF SetFile, FileIsOwn
  <2> QED
    BY <2>2, <2>3, <2>4 DEF FileIsOwn, InConnect, Locking, Id
<1>3. CASE LockSock(t)
  <2>1. pc[t] = "file" /\ pc'[t] = "locked" /\ UNCHANGED <<sk, at, target, fdInfo>>
    BY <1>3, <1>a DEF LockSock, Goto
  <2> QED
    BY <1>c, <2>1 DEF Locking
<1>4. CASE ConnectSynSent(t)
  <2>1. PICK r \in Remotes : Enter(at[t], "SYN_SENT", [sk[at[t]] EXCEPT !.raddr = r])
    BY <1>4 DEF ConnectSynSent
  <2>2. pc[t] = "locked" /\ pc'[t] = "synsent" /\ UNCHANGED <<at, target, fdInfo>>
    BY <1>4, <1>a DEF ConnectSynSent, Goto
  <2>3. at[t] \in Socks /\ sk[at[t]] \in SockType /\ "SYN_SENT" \in States
    BY <1>d, <2>2 DEF Locking, States
  <2> DEFINE c == [sk[at[t]] EXCEPT !.raddr = r]
  <2>4. c \in SockType /\ c.open = sk[at[t]].open /\ c.kind = sk[at[t]].kind
    <3>1. c \in SockType
      BY <2>3, RaddrType
    <3> QED
      BY <2>3, <3>1 DEF SockType
  <2>5. Enter(at[t], "SYN_SENT", c)
    BY <2>1
  <2> HIDE DEF c
  <2>6. sk'[at[t]].open = sk[at[t]].open /\ sk'[at[t]].kind = sk[at[t]].kind
    BY <1>0, <2>3, <2>4, <2>5, EnterEffect
  <2> QED
    BY <1>c, <2>2, <2>6 DEF Locking
<1>5. CASE ConnectPortPicked(t)
  <2>1. /\ pc[t] = "synsent" /\ pc'[t] = "picked" /\ UNCHANGED <<at, target, fdInfo>>
        /\ \/ UNCHANGED sk
           \/ \E port \in EphPorts : sk' = [sk EXCEPT ![at[t]].lport = port]
    BY <1>5, <1>a DEF ConnectPortPicked, Goto
  <2>2. at[t] \in Socks /\ sk[at[t]] \in SockType
    BY <1>d, <2>1 DEF Locking
  <2>3. sk'[at[t]].open = sk[at[t]].open /\ sk'[at[t]].kind = sk[at[t]].kind
    BY <1>a, <2>1, <2>2 DEF SockType
  <2> QED
    BY <1>c, <2>1, <2>3 DEF Locking
<1>6. CASE ConnectFails(t)
  <2>1. /\ pc[t] \in {"synsent", "picked"} /\ pc'[t] = "failed" /\ UNCHANGED <<at, target, fdInfo>>
        /\ Enter(at[t], "CLOSE", sk[at[t]])
    BY <1>6, <1>a DEF ConnectFails, Goto
  <2>2. at[t] \in Socks /\ sk[at[t]] \in SockType /\ "CLOSE" \in States
    BY <1>d, <2>1 DEF Locking, States
  <2>3. sk'[at[t]].open = sk[at[t]].open /\ sk'[at[t]].kind = sk[at[t]].kind
    BY <1>0, <2>1, <2>2, EnterEffect
  <2> QED
    BY <1>c, <2>1, <2>3 DEF Locking
<1>7. CASE FexitTcpV4Connect(t)
  <2>1. pc[t] = "picked" /\ pc'[t] = "returned" /\ UNCHANGED <<sk, at, target, fdInfo>>
    BY <1>7, <1>a DEF FexitTcpV4Connect, Goto
  <2> QED
    BY <1>c, <2>1 DEF Locking
<1>8. CASE FexitSysConnect(t)
  <2>1. UNCHANGED <<sk, target, fdInfo>> /\ pc[t] \in {"connect", "file", "failed", "returned"}
    BY <1>8 DEF FexitSysConnect
  <2>2. \/ pc'[t] = "found" /\ at' = at
        \/ pc'[t] = "idle" /\ at'[t] = NULL
    BY <1>8, <1>a DEF FexitSysConnect, Goto
  <2>3. at[t] = NULL => at[t] \notin Socks
    BY PtrAssumption
  <2> QED
    BY <2>1, <2>2, <2>3 DEF FileIsOwn, InConnect, Locking, Id
<1>9. CASE FexitSysConnectDelete(t)
  <2>1. UNCHANGED <<sk, at>> /\ pc[t] = "found" /\ pc'[t] = "deleted"
    BY <1>9, <1>a DEF FexitSysConnectDelete, Goto
  <2>2. target'[t] = fdInfo[Id(t)].file /\ fdInfo'[Id(t)].file = fdInfo[Id(t)].file
    BY <1>9, <1>a DEF FexitSysConnectDelete, DropFdInfo
  <2> QED
    BY <2>1, <2>2 DEF FileIsOwn, InConnect, Locking, Id
<1>10. CASE FexitSysConnectLookup(t)
  <2>1. UNCHANGED <<sk, at, fdInfo>> /\ pc[t] = "deleted" /\ pc'[t] \in {"absent", "present"}
    BY <1>10, <1>a DEF FexitSysConnectLookup, Goto
  <2>2. PICK f \in {target[t], fdInfo[Id(t)].file} :
          \E p \in SockFromFile(f) : target' = [target EXCEPT ![t] = p]
    BY <1>10 DEF FexitSysConnectLookup
  <2>3. f = at[t]
    BY <2>1, <2>2 DEF FileIsOwn, InConnect
  <2>4. SockFromFile(f) = {f}
    BY <1>b, <2>1, <2>3 DEF SockFromFile, InConnect
  <2>5. target'[t] = at[t]
    BY <1>a, <2>2, <2>3, <2>4
  <2> QED
    BY <2>1, <2>5 DEF FileIsOwn, InConnect, Locking, Id
<1>11. CASE FexitSysConnectUpdate(t)
  <2>1. UNCHANGED <<sk, at, target, fdInfo>> /\ pc[t] = "absent" /\ pc'[t] = "present"
    BY <1>11, <1>a DEF FexitSysConnectUpdate, Goto
  <2> QED
    BY <2>1 DEF FileIsOwn, InConnect, Locking, Id
<1>12. CASE FexitSysConnectCtx(t)
  <2>1. pc'[t] = "idle" /\ at'[t] = NULL
    BY <1>12, <1>a DEF FexitSysConnectCtx, Goto
  <2> QED
    BY <2>1 DEF FileIsOwn, InConnect, Locking
<1> QED
  BY <1>1, <1>2, <1>3, <1>4, <1>5, <1>6, <1>7, <1>8, <1>9, <1>10, <1>11, <1>12 DEF ConnectNext

LEMMA ConnectCtxStep ==
  ASSUME IInv, JInv, NEW t \in Tasks, ConnectNext(t)
  PROVE  CtxRoleMatchesPort'
<1>0. TypeOK /\ OwnSocket /\ FileIsOwn(t) /\ CtxRoleMatchesPort /\ Shown({})
  BY DEF IInv, JInv, Shown
<1>a. at[t] \in Ptrs /\ target[t] \in Ptrs /\ sk \in [Socks -> SockType]
  BY <1>0 DEF TypeOK
<1>b. /\ pc[t] \in InConnect /\ at[t] \in Socks => sk[at[t]].kind = "active"
      /\ pc[t] \in {"locked", "synsent", "picked"} => at[t] \in Socks
  BY <1>0 DEF FileIsOwn, OwnSocket, Locking
<1>1. ASSUME UNCHANGED ctx PROVE CtxRoleMatchesPort'
  BY <1>0, <1>1 DEF CtxRoleMatchesPort
<1>2. CASE \/ FentrySysConnect(t) \/ ConnectPortPicked(t) \/ FexitSysConnect(t)
           \/ FexitSysConnectDelete(t) \/ FexitSysConnectLookup(t) \/ FexitSysConnectUpdate(t)
  BY <1>1, <1>2 DEF FentrySysConnect, ConnectPortPicked, FexitSysConnect, FexitSysConnectDelete,
                    FexitSysConnectLookup, FexitSysConnectUpdate
<1>3. CASE FentrySysConnectFile(t)
  <2>1. PICK f \in {s \in Socks : sk[s].open /\ sk[s].kind = "active"} \cup Others :
          \/ \E r \in Residues : ctx' = LookupOrTryInit(ctx, KeyOf(f, r), "CLIENT", MaxCtx)
          \/ UNCHANGED ctx
    BY <1>3 DEF FentrySysConnectFile
  <2>2. f \in Ptrs /\ (f \in Socks => sk[f].kind = "active")
    BY <2>1, InPtrs, PtrAssumption
  <2> QED
    BY <1>0, <1>1, <2>1, <2>2, ClientCtx
<1>4. CASE LockSock(t)
  <2>1. at[t] \in Socks => sk[at[t]].kind = "active"
    BY <1>4, <1>b DEF LockSock, InConnect
  <2> QED
    BY <1>0, <1>1, <1>4, <1>a, <2>1, ClientCtx DEF LockSock
<1>5. CASE ConnectSynSent(t)
  <2>1. PICK r \in Remotes : Enter(at[t], "SYN_SENT", [sk[at[t]] EXCEPT !.raddr = r])
    BY <1>5 DEF ConnectSynSent
  <2>2. sk[at[t]] \in SockType
    BY <1>5, <1>a, <1>b DEF ConnectSynSent
  <2>3. [sk[at[t]] EXCEPT !.raddr = r] \in SockType
    BY <2>2, RaddrType
  <2> QED
    BY <1>0, <2>1, <2>3, EnterCtx
<1>6. CASE ConnectFails(t)
  <2>1. sk[at[t]] \in SockType /\ Enter(at[t], "CLOSE", sk[at[t]])
    BY <1>6, <1>a, <1>b DEF ConnectFails
  <2> QED
    BY <1>0, <2>1, EnterCtx
<1>7. CASE FexitTcpV4Connect(t)
  <2>1. at[t] \in Socks => sk[at[t]].kind = "active"
    BY <1>7, <1>b DEF FexitTcpV4Connect, InConnect, Locking
  <2> QED
    BY <1>0, <1>1, <1>7, <1>a, <2>1, ClientCtx DEF FexitTcpV4Connect
<1>8. CASE FexitSysConnectCtx(t)
  <2>1. target[t] \in Socks => sk[target[t]].kind = "active"
    BY <1>0, <1>8, <1>b DEF FexitSysConnectCtx, FileIsOwn, InConnect
  <2> QED
    BY <1>0, <1>8, <1>a, <2>1, ClientCtx DEF FexitSysConnectCtx
<1> QED
  BY <1>2, <1>3, <1>4, <1>5, <1>6, <1>7, <1>8 DEF ConnectNext

-----------------------------------------------------------------------------
(* The accept hooks.                                                       *)
LEMMA AcceptShownStep ==
  ASSUME TInv, NEW S \in SUBSET Socks, Shown(S), NEW t \in Tasks, AcceptNext(t)
  PROVE  Shown(S)'
<1>0. TypeOK
  BY DEF TInv
<1>a. /\ sk \in [Socks -> SockType] /\ tracing \in [Ptrs -> Roles \cup {Absent}]
      /\ Socks \subseteq Ptrs /\ "SERVER" \in Roles
  BY <1>0, InPtrs DEF TypeOK, Roles
<1>1. CASE FentrySysAccept4(t) \/ FexitSysAccept4(t)
  BY <1>1 DEF FentrySysAccept4, FexitSysAccept4, Shown, SideShows, RoleShows
<1>2. CASE InetCskAccept(t)
  <2>1. PICK l \in Socks :
          /\ sk[l].kind = "listener"
          /\ tracing' = LookupOrTryInit(tracing, l, "SERVER", MaxTracing)
    BY <1>2 DEF InetCskAccept
  <2>2. UNCHANGED sk
    BY <1>2 DEF InetCskAccept
  <2>3. /\ \A q \in Ptrs \ {l} : tracing'[q] = tracing[q]
        /\ tracing'[l] \in {tracing[l], "SERVER"}
    BY <1>0, <1>a, <2>1, InitEffect
  <2>4. SideShows(l) /\ (l \in S => RoleShows(l))
    BY DEF Shown
  <2>5. SideShows(l)' /\ (l \in S => RoleShows(l)')
    BY <2>1, <2>2, <2>3, <2>4, Sides DEF SideShows, RoleShows
  <2> QED
    BY <1>a, <2>2, <2>3, <2>5, OneSocket
<1>3. CASE FexitDoAccept(t)
  <2>1. /\ UNCHANGED tracing
        /\ \/ UNCHANGED sk
           \/ \E c \in Socks : sk' = [sk EXCEPT ![c].open = TRUE]
    BY <1>3 DEF FexitDoAccept
  <2>2. CASE UNCHANGED sk
    BY <2>1, <2>2 DEF Shown, SideShows, RoleShows
  <2>3. CASE \E c \in Socks : sk' = [sk EXCEPT ![c].open = TRUE]
    <3>1. PICK c \in Socks : sk' = [sk EXCEPT ![c].open = TRUE]
      BY <2>3
    <3>2. sk[c] \in SockType /\ sk'[c] = [sk[c] EXCEPT !.open = TRUE]
      BY <1>a, <3>1
    <3>3. /\ sk'[c].kind = sk[c].kind /\ sk'[c].st = sk[c].st /\ sk'[c].to = sk[c].to
          /\ sk'[c].hook = sk[c].hook /\ sk'[c].lport = sk[c].lport /\ sk'[c].auto = sk[c].auto
      BY <3>2 DEF SockType
    <3>4. SideShows(c)' /\ (c \in S => RoleShows(c)')
      BY <2>1, <3>3 DEF Shown, SideShows, RoleShows
    <3> QED
      BY <1>a, <2>1, <3>1, <3>4, OneSocket
  <2> QED
    BY <2>1, <2>2, <2>3
<1> QED
  BY <1>1, <1>2, <1>3 DEF AcceptNext

LEMMA AcceptFileStep ==
  ASSUME TInv, NEW t \in Tasks, FileIsOwn(t), AcceptNext(t)
  PROVE  FileIsOwn(t)'
<1>1. \/ pc[t] = "idle" /\ pc'[t] = "accept" /\ UNCHANGED at
      \/ pc'[t] \in {"accepting", "accepted"}
      \/ pc'[t] = "idle" /\ at'[t] = NULL
  BY DEF TInv, TypeOK, AcceptNext, FentrySysAccept4, InetCskAccept, FexitDoAccept, FexitSysAccept4, Goto
<1> QED
  BY <1>1 DEF FileIsOwn, InConnect, Locking

LEMMA AcceptCtxStep ==
  ASSUME IInv, JInv, NEW t \in Tasks, AcceptNext(t)
  PROVE  CtxRoleMatchesPort'
<1>0. TypeOK /\ CtxRoleMatchesPort /\ \A u \in Socks : SideShows(u)
  BY DEF IInv, JInv, Shown
<1>1. ASSUME UNCHANGED ctx PROVE CtxRoleMatchesPort'
  BY <1>0, <1>1 DEF CtxRoleMatchesPort
<1>2. CASE InetCskAccept(t)
  <2>1. PICK l \in Socks, r \in Residues :
          sk[l].kind = "listener" /\ ctx' = LookupOrTryInit(ctx, KeyOf(l, r), "SERVER", MaxCtx)
    BY <1>2 DEF InetCskAccept
  <2>2. KeyOf(l, r) \in Keys /\ KeyOf(l, r).lport = sk[l].lport
    BY <1>0, InPtrs, KeyOfType, KeyPort
  <2>3. Fits("SERVER", sk[l].lport)
    BY <1>0, <2>1 DEF SideShows, Fits
  <2> QED
    BY <1>0, <2>1, <2>2, <2>3, CtxWrite
<1> QED
  BY <1>1, <1>2 DEF AcceptNext, FentrySysAccept4, FexitDoAccept, FexitSysAccept4

-----------------------------------------------------------------------------
(* A step of the attached tracer, one system call at a time.               *)
LEMMA NextShown ==
  ASSUME OneTask, TInv, NEW S \in SUBSET Socks, Shown(S), \A t \in Tasks : FileIsOwn(t), [Next]_vars
  PROVE  Shown(S)' /\ \A t \in Tasks : FileIsOwn(t)'
<1>1. ASSUME UNCHANGED <<sk, pc, at, target, fdInfo, tracing>>
      PROVE  Shown(S)' /\ \A t \in Tasks : FileIsOwn(t)'
  BY <1>1 DEF Shown, FileIsOwn, SideShows, RoleShows
<1>2. CASE Consume \/ UNCHANGED vars
  BY <1>1, <1>2 DEF Consume, vars
<1>3. CASE \E s \in Socks : SockNext(s)
  BY <1>3, SockShownStep, SockFilesStep
<1>4. ASSUME NEW t \in Tasks, ConnectNext(t) \/ AcceptNext(t)
      PROVE  Shown(S)' /\ \A u \in Tasks : FileIsOwn(u)'
  <2>1. Shown(S)' /\ FileIsOwn(t)'
    BY <1>4, ConnectShownStep, ConnectFileStep, AcceptShownStep, AcceptFileStep
  <2> QED
    BY <2>1 DEF OneTask
<1> QED
  BY <1>2, <1>3, <1>4 DEF Next

-----------------------------------------------------------------------------
(* Connections that were up before the tracer have their side's port and   *)
(* no role yet.                                                            *)
LEMMA InitJInv == Init => JInv
<1> SUFFICES ASSUME Init PROVE JInv
  OBVIOUS
<1>1. \A t \in Tasks : FileIsOwn(t)
  BY DEF Init, FileIsOwn, InConnect, Locking
<1>2. \A s \in Socks :
        \/ sk[s] = FreeSock
        \/ \E port \in EphPorts, r \in Remotes : sk[s] = Established("active", port, r)
        \/ \E port \in ListenPorts, r \in Remotes : sk[s] = Established("child", port, r)
  BY DEF Init
<1>3. ASSUME NEW s \in Socks
      PROVE  SideShows(s) /\ RoleShows(s)
  <2>1. tracing[s] = Absent
    BY InPtrs DEF Init
  <2>2. CASE sk[s] = FreeSock
    BY <2>1, <2>2 DEF FreeSock, SideShows, RoleShows
  <2>3. ASSUME NEW port \in EphPorts, NEW r \in Remotes, sk[s] = Established("active", port, r)
        PROVE  SideShows(s) /\ RoleShows(s)
    <3>1. /\ sk[s].kind = "active" /\ sk[s].st = "ESTABLISHED" /\ sk[s].to = "CLOSE"
          /\ sk[s].lport = port
      BY <2>3 DEF FreeSock, Established
    <3>2. port \notin ListenPorts
      BY PortAssumption
    <3> QED
      BY <2>1, <3>1, <3>2 DEF SideShows, RoleShows
  <2>4. ASSUME NEW port \in ListenPorts, NEW r \in Remotes, sk[s] = Established("child", port, r)
        PROVE  SideShows(s) /\ RoleShows(s)
    <3>1. /\ sk[s].kind = "child" /\ sk[s].st = "ESTABLISHED" /\ sk[s].to = "CLOSE"
          /\ sk[s].lport = port
      BY <2>4 DEF FreeSock, Established
    <3> QED
      BY <2>1, <3>1 DEF SideShows, RoleShows
  <2> QED
    BY <1>2, <2>2, <2>3, <2>4
<1>4. CtxRoleMatchesPort
  BY AbsentAssumption DEF Init, CtxRoleMatchesPort
<1> QED
  BY <1>1, <1>3, <1>4 DEF JInv, Shown

LEMMA NextJInv == ASSUME OneTask, IInv, JInv, [Next]_vars PROVE JInv'
<1>1. Shown(Socks)' /\ \A t \in Tasks : FileIsOwn(t)'
  BY NextShown, Parts DEF JInv
<1>2. CtxRoleMatchesPort'
  <2>1. CASE Consume \/ UNCHANGED vars
    BY <2>1 DEF Consume, vars, JInv, CtxRoleMatchesPort
  <2> QED
    BY <2>1, SockCtxStep, ConnectCtxStep, AcceptCtxStep DEF Next
<1> QED
  BY <1>1, <1>2 DEF JInv

LEMMA OneTaskInvariance == ASSUME OneTask PROVE Spec => []JInv
<1>1. Spec => []IInv
  BY Invariance
<1>2. Init => JInv
  BY InitJInv
<1>3. IInv /\ JInv /\ [Next]_vars => JInv'
  BY NextJInv
<1> QED
  BY <1>1, <1>2, <1>3, PTL DEF Spec

(* With one task conn_tracing_map holds of every socket its true side, or  *)
(* UNKNOWN, or nothing, through reuse of addresses, failed connects, ends  *)
(* of connections no hook saw begin, and a map that is full.               *)
THEOREM RolesTrue == ASSUME OneTask PROVE Spec => []RoleTruthful
<1>1. JInv => RoleTruthful
  BY DEF JInv, Shown, RoleShows, RoleTruthful
<1> QED
  BY <1>1, OneTaskInvariance, PTL

(* ... and nothing of a socket that is gone.                               *)
THEOREM NothingLeft == ASSUME OneTask PROVE Spec => []NoTracingLeak
<1>1. JInv => NoTracingLeak
  BY DEF JInv, Shown, RoleShows, NoTracingLeak
<1> QED
  BY <1>1, OneTaskInvariance, PTL

(* ... and conn_ctx_map names, under every tuple, the side its local port  *)
(* shows, whatever bytes the key left unset.                               *)
THEOREM CtxTrue == ASSUME OneTask PROVE Spec => []CtxRoleMatchesPort
<1>1. JInv => CtxRoleMatchesPort
  BY DEF JInv
<1> QED
  BY <1>1, OneTaskInvariance, PTL

-----------------------------------------------------------------------------
(* ConnRoles, socket by socket.  Its three variables, by their names, and  *)
(* its steps in terms of the socket and of conn_tracing_map.               *)
SideOf(s) ==
  CASE sk[s].kind = "active" -> "CLIENT"
    [] sk[s].kind \in {"listener", "child"} -> "SERVER"
    [] OTHER -> NULL

UpOf(s) == sk[s].st # "CLOSE"

KnownOf(s) == IF tracing[s] \in {"CLIENT", "SERVER"} THEN tracing[s] ELSE NULL

NoSide == NULL \notin {"CLIENT", "SERVER"}

Promised(s) == UNCHANGED Promise(s)!promise \/ Promise(s)!Next

LEMMA SideCases ==
  ASSUME NEW s \in Socks
  PROVE  /\ sk[s].kind = "active" => SideOf(s) = "CLIENT"
         /\ sk[s].kind \in {"listener", "child"} => SideOf(s) = "SERVER"
         /\ sk[s].kind = "free" => SideOf(s) = NULL
  BY DEF SideOf

LEMMA Keep ==
  ASSUME NEW s \in Socks, SideOf(s)' = SideOf(s), UpOf(s)' = UpOf(s), KnownOf(s)' = KnownOf(s)
  PROVE  Promised(s)
  BY DEF Promised, Promise!promise, SideOf, UpOf, KnownOf

LEMMA Open ==
  ASSUME NEW s \in Socks, SideOf(s) = NULL, SideOf(s)' \in {"CLIENT", "SERVER"},
         KnownOf(s)' = KnownOf(s)
  PROVE  Promised(s)
  BY DEF Promised, Promise!Next, Promise!Open, Promise!Sides, SideOf, UpOf, KnownOf

LEMMA Rise ==
  ASSUME NEW s \in Socks, SideOf(s) # NULL, SideOf(s)' = SideOf(s), ~UpOf(s), UpOf(s)',
         KnownOf(s)' = KnownOf(s)
  PROVE  Promised(s)
<1>1. Promise(s)!Rise
  BY DEF Promise!Rise, SideOf, UpOf, KnownOf
<1> QED
  BY <1>1 DEF Promised, Promise!Next

LEMMA Learn ==
  ASSUME NEW s \in Socks, SideOf(s) # NULL, SideOf(s)' = SideOf(s), UpOf(s)' = UpOf(s),
         KnownOf(s) = NULL, KnownOf(s)' = SideOf(s)
  PROVE  Promised(s)
<1>1. Promise(s)!Learn
  BY DEF Promise!Learn, SideOf, UpOf, KnownOf
<1> QED
  BY <1>1 DEF Promised, Promise!Next

LEMMA Fall ==
  ASSUME NEW s \in Socks, SideOf(s)' = SideOf(s), UpOf(s), ~UpOf(s)', KnownOf(s)' = NULL
  PROVE  Promised(s)
<1>1. Promise(s)!Fall
  BY DEF Promise!Fall, SideOf, UpOf, KnownOf
<1> QED
  BY <1>1 DEF Promised, Promise!Next

LEMMA Forget ==
  ASSUME NEW s \in Socks, SideOf(s)' \in {SideOf(s), NULL}, ~UpOf(s), ~UpOf(s)', KnownOf(s)' = NULL
  PROVE  Promised(s)
<1>1. UpOf(s)' = UpOf(s)
  BY DEF UpOf
<1>2. Promise(s)!Forget
  BY <1>1 DEF Promise!Forget, SideOf, UpOf, KnownOf
<1> QED
  BY <1>2 DEF Promised, Promise!Next

(* A step that leaves a socket's kind and state, and takes no side back,   *)
(* learns its side or nothing.                                             *)
Quiet(s) ==
  /\ sk'[s].kind = sk[s].kind /\ sk'[s].st = sk[s].st
  /\ tracing[s] \in {"CLIENT", "SERVER"} => tracing'[s] \in {"CLIENT", "SERVER"}

LEMMA QuietStep ==
  ASSUME NoSide, TypeOK, NEW s \in Socks, RoleShows(s), RoleShows(s)', Quiet(s)
  PROVE  Promised(s)
<1>1. sk[s].kind \in Kinds
  BY DEF TypeOK, SockType
<1>2. SideOf(s)' = SideOf(s) /\ UpOf(s)' = UpOf(s)
  BY DEF Quiet, SideOf, UpOf
<1>3. /\ tracing[s] \in {"CLIENT", "SERVER"} => tracing[s] = SideOf(s) /\ SideOf(s) # NULL
      /\ tracing'[s] \in {"CLIENT", "SERVER"} => tracing'[s] = SideOf(s) /\ SideOf(s) # NULL
  <2>1. TrueRoles(sk'[s].kind) = TrueRoles(sk[s].kind)
    BY DEF Quiet
  <2>2. \/ sk[s].kind = "active" /\ TrueRoles(sk[s].kind) = {"CLIENT"} /\ SideOf(s) = "CLIENT"
        \/ sk[s].kind \in {"listener", "child"} /\ TrueRoles(sk[s].kind) = {"SERVER"} /\ SideOf(s) = "SERVER"
        \/ sk[s].kind = "free" /\ TrueRoles(sk[s].kind) = {} /\ SideOf(s) = NULL
    BY <1>1, Sides, SideCases DEF Kinds
  <2> QED
    BY <2>1, <2>2, AbsentAssumption DEF RoleShows, NoSide
<1>4. CASE tracing[s] \in {"CLIENT", "SERVER"}
  <2>1. KnownOf(s)' = KnownOf(s)
    BY <1>3, <1>4 DEF Quiet, KnownOf
  <2> QED
    BY <1>2, <2>1, Keep
<1>5. CASE tracing[s] \notin {"CLIENT", "SERVER"} /\ tracing'[s] \in {"CLIENT", "SERVER"}
  <2>1. KnownOf(s) = NULL /\ KnownOf(s)' = SideOf(s)
    BY <1>3, <1>5 DEF KnownOf
  <2> QED
    BY <1>2, <1>3, <1>5, <2>1, Learn
<1>6. CASE tracing[s] \notin {"CLIENT", "SERVER"} /\ tracing'[s] \notin {"CLIENT", "SERVER"}
  <2>1. KnownOf(s)' = KnownOf(s)
    BY <1>6 DEF KnownOf
  <2> QED
    BY <1>2, <2>1, Keep
<1> QED
  BY <1>4, <1>5, <1>6

LEMMA EnterQuiet ==
  ASSUME TypeOK, NEW s \in Socks, NEW new \in States, NEW c \in SockType, Enter(s, new, c),
         c.kind = sk[s].kind, c.st = sk[s].st
  PROVE  \A u \in Socks : Quiet(u)
<1>1. /\ sk'[s].kind = c.kind /\ sk'[s].st = c.st
      /\ \A u \in Socks \ {s} : sk'[u] = sk[u]
      /\ \A p \in Ptrs \ {s} : tracing'[p] = tracing[p]
      /\ \/ tracing'[s] = tracing[s]
         \/ tracing[s] = Absent /\ tracing'[s] = "UNKNOWN"
  BY EnterEffect
<1> QED
  BY <1>1, InPtrs, AbsentAssumption DEF Quiet

LEMMA ConnectQuiet ==
  ASSUME TInv, NEW t \in Tasks, ConnectNext(t)
  PROVE  \A u \in Socks : Quiet(u)
<1>a. /\ TypeOK /\ sk \in [Socks -> SockType] /\ at[t] \in Ptrs /\ target[t] \in Ptrs
      /\ tracing \in [Ptrs -> Roles \cup {Absent}]
      /\ Socks \subseteq Ptrs /\ "CLIENT" \in Roles
      /\ pc[t] \in Locking => at[t] \in Socks
  BY InPtrs DEF TInv, OwnSocket, TypeOK, Roles
<1>b. ASSUME UNCHANGED <<sk, tracing>> PROVE \A u \in Socks : Quiet(u)
  BY <1>b DEF Quiet
<1>c. ASSUME UNCHANGED sk, NEW p \in Ptrs, tracing' = LookupOrTryInit(tracing, p, "CLIENT", MaxTracing)
      PROVE  \A u \in Socks : Quiet(u)
  BY <1>a, <1>c, InitEffect, AbsentAssumption DEF Quiet
<1>1. CASE FentrySysConnect(t)
  BY <1>b, <1>1 DEF FentrySysConnect
<1>2. CASE FentrySysConnectFile(t)
  BY <1>b, <1>2 DEF FentrySysConnectFile
<1>3. CASE LockSock(t)
  BY <1>a, <1>b, <1>c, <1>3 DEF LockSock
<1>4. CASE ConnectSynSent(t)
  <2>1. PICK r \in Remotes : Enter(at[t], "SYN_SENT", [sk[at[t]] EXCEPT !.raddr = r])
    BY <1>4 DEF ConnectSynSent
  <2>2. at[t] \in Socks /\ "SYN_SENT" \in States
    BY <1>4, <1>a DEF ConnectSynSent, Locking, States
  <2> DEFINE c == [sk[at[t]] EXCEPT !.raddr = r]
  <2>3. sk[at[t]] \in SockType
    BY <1>a, <2>2
  <2>4. c \in SockType
    BY <2>3, RaddrType
  <2>5. c.kind = sk[at[t]].kind /\ c.st = sk[at[t]].st
    BY <2>3, <2>4 DEF SockType
  <2> QED
    BY <1>a, <2>1, <2>2, <2>4, <2>5, EnterQuiet
<1>5. CASE ConnectPortPicked(t)
  <2>1. /\ at[t] \in Socks /\ UNCHANGED tracing
        /\ \/ UNCHANGED sk
           \/ \E port \in EphPorts : sk' = [sk EXCEPT ![at[t]].lport = port]
    BY <1>5, <1>a DEF ConnectPortPicked, Locking
  <2>2. \A u \in Socks : sk'[u].kind = sk[u].kind /\ sk'[u].st = sk[u].st
    <3>1. CASE UNCHANGED sk
      BY <3>1
    <3>2. ASSUME NEW port \in EphPorts, sk' = [sk EXCEPT ![at[t]].lport = port]
          PROVE  \A u \in Socks : sk'[u].kind = sk[u].kind /\ sk'[u].st = sk[u].st
      <4>1. /\ sk[at[t]] \in SockType /\ sk'[at[t]] = [sk[at[t]] EXCEPT !.lport = port]
            /\ \A u \in Socks \ {at[t]} : sk'[u] = sk[u]
        BY <1>a, <2>1, <3>2
      <4>2. sk'[at[t]].kind = sk[at[t]].kind /\ sk'[at[t]].st = sk[at[t]].st
        BY <4>1 DEF SockType
      <4> QED
        BY <4>1, <4>2
    <3> QED
      BY <2>1, <3>1, <3>2
  <2> QED
    BY <2>1, <2>2 DEF Quiet
<1>6. CASE ConnectFails(t)
  <2>1. at[t] \in Socks /\ Enter(at[t], "CLOSE", sk[at[t]]) /\ "CLOSE" \in States
    BY <1>6, <1>a DEF ConnectFails, Locking, States
  <2> QED
    BY <1>a, <2>1, EnterQuiet
<1>7. CASE FexitTcpV4Connect(t)
  BY <1>a, <1>b, <1>c, <1>7 DEF FexitTcpV4Connect
<1>8. CASE FexitSysConnect(t)
  BY <1>b, <1>8 DEF FexitSysConnect
<1>9. CASE FexitSysConnectDelete(t)
  BY <1>b, <1>9 DEF FexitSysConnectDelete
<1>10. CASE FexitSysConnectLookup(t)
  BY <1>b, <1>10 DEF FexitSysConnectLookup
<1>11. CASE FexitSysConnectUpdate(t)
  <2>1. UNCHANGED sk /\ tracing' = UpdateAny(tracing, target[t], "CLIENT", MaxTracing)
    BY <1>11 DEF FexitSysConnectUpdate
  <2>2. \A q \in Ptrs : tracing'[q] \in {tracing[q], "CLIENT"}
    BY <1>a, <2>1 DEF UpdateAny
  <2> QED
    BY <1>a, <2>1, <2>2 DEF Quiet
<1>12. CASE FexitSysConnectCtx(t)
  BY <1>b, <1>12 DEF FexitSysConnectCtx
<1> QED
  BY <1>1, <1>2, <1>3, <1>4, <1>5, <1>6, <1>7, <1>8, <1>9, <1>10, <1>11, <1>12 DEF ConnectNext

LEMMA AcceptQuiet ==
  ASSUME TInv, NEW t \in Tasks, AcceptNext(t)
  PROVE  \A u \in Socks : Quiet(u)
<1>a. /\ TypeOK /\ sk \in [Socks -> SockType] /\ Socks \subseteq Ptrs /\ "SERVER" \in Roles
  BY InPtrs DEF TInv, TypeOK, Roles
<1>b. ASSUME UNCHANGED <<sk, tracing>> PROVE \A u \in Socks : Quiet(u)
  BY <1>b DEF Quiet
<1>1. CASE FentrySysAccept4(t)
  BY <1>b, <1>1 DEF FentrySysAccept4
<1>2. CASE InetCskAccept(t)
  <2>1. PICK l \in Socks : tracing' = LookupOrTryInit(tracing, l, "SERVER", MaxTracing)
    BY <1>2 DEF InetCskAccept
  <2>2. UNCHANGED sk
    BY <1>2 DEF InetCskAccept
  <2> QED
    BY <1>a, <2>1, <2>2, InitEffect, AbsentAssumption DEF Quiet
<1>3. CASE FexitDoAccept(t)
  <2>1. UNCHANGED tracing
    BY <1>3 DEF FexitDoAccept
  <2>2. CASE UNCHANGED sk
    BY <1>b, <2>1, <2>2
  <2>3. ASSUME NEW c \in Socks, sk' = [sk EXCEPT ![c].open = TRUE]
        PROVE  \A u \in Socks : Quiet(u)
    <3>1. sk[c] \in SockType /\ sk'[c] = [sk[c] EXCEPT !.open = TRUE]
          /\ \A u \in Socks \ {c} : sk'[u] = sk[u]
      BY <1>a, <2>3
    <3>2. sk'[c].kind = sk[c].kind /\ sk'[c].st = sk[c].st
      BY <3>1 DEF SockType
    <3> QED
      BY <2>1, <3>1, <3>2 DEF Quiet
  <2> QED
    BY <1>3, <2>2, <2>3 DEF FexitDoAccept
<1>4. CASE FexitSysAccept4(t)
  BY <1>b, <1>4 DEF FexitSysAccept4
<1> QED
  BY <1>1, <1>2, <1>3, <1>4 DEF AcceptNext

(* What the kernel, k_set_state and the destroy hooks do to a socket.      *)
LEMMA SockPromise ==
  ASSUME NoSide, IInv, JInv, JInv', NEW s \in Socks, SockNext(s)
  PROVE  \A u \in Socks : Promised(u)
<1>0. TypeOK /\ \A u \in Socks : RoleShows(u) /\ RoleShows(u)'
  BY DEF IInv, JInv, Shown
<1>a. /\ sk \in [Socks -> SockType] /\ tracing \in [Ptrs -> Roles \cup {Absent}]
      /\ s \in Ptrs /\ Socks \subseteq Ptrs /\ NULL \notin Socks
      /\ sk[s] \in SockType /\ sk[s].kind \in Kinds
  BY <1>0, InPtrs, PtrAssumption DEF TypeOK, SockType
<1>b. ASSUME \A u \in Socks : Quiet(u) PROVE \A u \in Socks : Promised(u)
  BY <1>0, <1>b, QuietStep
<1>c. ASSUME \A u \in Socks \ {s} : sk'[u] = sk[u] /\ tracing'[u] = tracing[u], Promised(s)
      PROVE  \A u \in Socks : Promised(u)
  <2>1. \A u \in Socks \ {s} : Quiet(u)
    BY <1>c DEF Quiet
  <2> QED
    BY <1>0, <1>c, <2>1, QuietStep
<1>d. /\ sk[s].kind # "free" => SideOf(s) # NULL
      /\ sk'[s].kind = sk[s].kind => SideOf(s)' = SideOf(s)
      /\ tracing'[s] = tracing[s] => KnownOf(s)' = KnownOf(s)
      /\ tracing'[s] = Absent => KnownOf(s)' = NULL
  BY <1>a, SideCases, AbsentAssumption DEF NoSide, Kinds, SideOf, KnownOf
<1>1. CASE NewSocket(s) \/ \E l \in Socks : NewChild(s, l)
  <2>1. /\ sk[s].kind = "free" /\ UNCHANGED tracing
        /\ sk'[s].kind \in {"active", "listener", "child"}
        /\ \A u \in Socks \ {s} : sk'[u] = sk[u]
    <3>1. CASE NewSocket(s)
      <4>1. PICK fam \in Fams :
              \/ sk' = [sk EXCEPT ![s] = [FreeSock EXCEPT !.kind = "active", !.fam = fam, !.open = TRUE]]
              \/ \E port \in BoundPorts :
                   sk' = [sk EXCEPT ![s] = [FreeSock EXCEPT !.kind = "active", !.fam = fam,
                                              !.open = TRUE, !.lport = port, !.auto = FALSE]]
              \/ \E port \in ListenPorts :
                   sk' = [sk EXCEPT ![s] = [FreeSock EXCEPT !.kind = "listener", !.fam = fam,
                                              !.open = TRUE, !.lport = port, !.auto = FALSE]]
        BY <3>1 DEF NewSocket
      <4>2. sk'[s].kind \in {"active", "listener"} /\ \A u \in Socks \ {s} : sk'[u] = sk[u]
        <5>1. /\ FreeSock.kind = "free" /\ "kind" \in DOMAIN FreeSock
              /\ \A u \in Socks \ {s} : sk'[u] = sk[u]
          BY <1>a, <4>1 DEF FreeSock
        <5>2. ASSUME NEW c, sk' = [sk EXCEPT ![s] = c]
              PROVE  sk'[s] = c
          BY <1>a, <5>2
        <5>3. CASE sk' = [sk EXCEPT ![s] = [FreeSock EXCEPT !.kind = "active", !.fam = fam, !.open = TRUE]]
          <6>1. [FreeSock EXCEPT !.kind = "active", !.fam = fam, !.open = TRUE].kind = "active"
            BY DEF FreeSock
          <6> QED
            BY <5>1, <5>2, <5>3, <6>1
        <5>4. ASSUME NEW port, NEW kind \in {"active", "listener"},
                     sk' = [sk EXCEPT ![s] = [FreeSock EXCEPT !.kind = kind, !.fam = fam,
                                                !.open = TRUE, !.lport = port, !.auto = FALSE]]
              PROVE  sk'[s].kind \in {"active", "listener"}
          <6>1. [FreeSock EXCEPT !.kind = kind, !.fam = fam,
                                 !.open = TRUE, !.lport = port, !.auto = FALSE].kind = kind
            BY DEF FreeSock
          <6> QED
            BY <5>2, <5>4, <6>1
        <5> HIDE DEF FreeSock
        <5> QED
          BY <4>1, <5>1, <5>3, <5>4
      <4> QED
        BY <3>1, <4>2 DEF NewSocket
    <3>2. CASE \E l \in Socks : NewChild(s, l)
      BY <1>a, <3>2 DEF NewChild, FreeSock
    <3> QED
      BY <1>1, <3>1, <3>2
  <2>2. SideOf(s) = NULL
    BY <2>1, SideCases
  <2>3. SideOf(s)' \in {"CLIENT", "SERVER"}
    BY <2>1 DEF SideOf
  <2>4. Promised(s)
    BY <1>d, <2>1, <2>2, <2>3, Open
  <2> QED
    BY <1>c, <2>1, <2>4
<1>2. CASE Listen(s)
  <2>1. /\ sk[s].kind = "listener" /\ sk[s].st = "CLOSE" /\ sk'[s].st = "LISTEN"
        /\ sk'[s].kind = sk[s].kind /\ UNCHANGED tracing
        /\ \A u \in Socks \ {s} : sk'[u] = sk[u]
    BY <1>2, <1>a DEF Listen, SockType
  <2>2. ~UpOf(s) /\ UpOf(s)'
    BY <2>1 DEF UpOf
  <2>3. Promised(s)
    BY <1>d, <2>1, <2>2, Rise
  <2> QED
    BY <1>c, <2>1, <2>3
<1>3. CASE KernelSetState(s)
  <2>1. PICK new \in KernelNext(sk[s].st) : Enter(s, new, sk[s])
    BY <1>3 DEF KernelSetState
  <2>2. new \in States
    BY <2>1 DEF KernelNext, States
  <2> QED
    BY <1>0, <1>a, <1>b, <2>1, <2>2, EnterQuiet
<1>4. CASE SetStateDirect(s)
  <2> DEFINE role == DirectRole(sk[s].st, sk[s].to)
  <2>1. role \in {"CLIENT", "SERVER"}
    BY <1>4, <1>a, DirectRoleCases DEF SetStateDirect, SockType
  <2>2. /\ sk'[s].kind = sk[s].kind /\ sk'[s].st = sk[s].st
        /\ \A u \in Socks \ {s} : sk'[u] = sk[u]
    BY <1>4, <1>a DEF SetStateDirect, SockType
  <2>3. /\ \A p \in Ptrs \ {s} : tracing'[p] = tracing[p]
        /\ tracing'[s] = role \/ tracing'[s] = tracing[s]
    BY <1>4, <1>a DEF SetStateDirect, UpdateAny
  <2> HIDE DEF role
  <2>4. \A u \in Socks : Quiet(u)
    BY <1>a, <2>1, <2>2, <2>3 DEF Quiet
  <2> QED
    BY <1>b, <2>4
<1>5. CASE SetStateOther(s)
  <2>1. /\ sk'[s].kind = sk[s].kind /\ sk'[s].st = sk[s].st
        /\ \A u \in Socks \ {s} : sk'[u] = sk[u]
        /\ UNCHANGED tracing
    BY <1>5, <1>a DEF SetStateOther, SockType
  <2>2. \A u \in Socks : Quiet(u)
    BY <2>1 DEF Quiet
  <2> QED
    BY <1>b, <2>2
<1>6. CASE SetStateExit(s)
  <2>1. /\ sk[s].hook = 2 /\ sk'[s].kind = sk[s].kind /\ sk'[s].st = sk[s].to
        /\ \A u \in Socks \ {s} : sk'[u] = sk[u]
    BY <1>6, <1>a DEF SetStateExit, SockType
  <2>2. /\ \A p \in Ptrs \ {s} : tracing'[p] = tracing[p]
        /\ tracing'[s] = IF sk[s].to = "CLOSE" THEN Absent ELSE tracing[s]
    BY <1>6, <1>a DEF SetStateExit, Delete
  <2>3. sk[s].kind # "free"
    BY <2>1 DEF IInv, SockFacts
  <2>4. UpOf(s) = (sk[s].st # "CLOSE") /\ UpOf(s)' = (sk[s].to # "CLOSE")
    BY <2>1 DEF UpOf
  <2>5. Promised(s)
    <3>1. CASE sk[s].to = "CLOSE" /\ sk[s].st = "CLOSE"
      BY <1>d, <2>1, <2>2, <2>4, <3>1, Forget
    <3>2. CASE sk[s].to = "CLOSE" /\ sk[s].st # "CLOSE"
      BY <1>d, <2>1, <2>2, <2>4, <3>2, Fall
    <3>3. CASE sk[s].to # "CLOSE" /\ sk[s].st = "CLOSE"
      BY <1>d, <2>1, <2>2, <2>3, <2>4, <3>3, Rise
    <3>4. CASE sk[s].to # "CLOSE" /\ sk[s].st # "CLOSE"
      BY <1>d, <2>1, <2>2, <2>4, <3>4, Keep
    <3> QED
      BY <3>1, <3>2, <3>3, <3>4
  <2> QED
    BY <1>a, <1>c, <2>1, <2>2, <2>5
<1>7. CASE TcpClose(s)
  <2>1. /\ sk'[s].kind = sk[s].kind /\ sk'[s].st = sk[s].st
        /\ \A u \in Socks \ {s} : sk'[u] = sk[u]
    BY <1>7, <1>a DEF TcpClose, SockType
  <2>2. \A p \in Ptrs : tracing'[p] = tracing[p] \/ p = NULL
    BY <1>7, <1>a DEF TcpClose, Delete
  <2>3. \A u \in Socks : Quiet(u)
    BY <1>a, <2>1, <2>2 DEF Quiet
  <2> QED
    BY <1>b, <2>3
<1>8. CASE KDestroySock(s) \/ TpDestroySock(s)
  <2>1. /\ sk[s].st = "CLOSE" /\ sk'[s].st = "CLOSE" /\ sk'[s].kind \in {sk[s].kind, "free"}
        /\ \A u \in Socks \ {s} : sk'[u] = sk[u]
    <3>1. CASE KDestroySock(s)
      BY <1>a, <3>1 DEF KDestroySock, Closed, SockType
    <3>2. CASE TpDestroySock(s)
      BY <1>a, <3>2 DEF TpDestroySock, Closed, FreeSock
    <3> QED
      BY <1>8, <3>1, <3>2
  <2>2. \A p \in Ptrs : IF p = s THEN tracing'[p] = Absent ELSE tracing'[p] = tracing[p]
    BY <1>8, <1>a DEF KDestroySock, TpDestroySock, Delete
  <2>3. SideOf(s)' \in {SideOf(s), NULL}
    BY <1>d, <2>1 DEF SideOf
  <2>4. ~UpOf(s) /\ ~UpOf(s)'
    BY <2>1 DEF UpOf
  <2>5. Promised(s)
    BY <1>a, <1>d, <2>2, <2>3, <2>4, Forget
  <2> QED
    BY <1>a, <1>c, <2>1, <2>2, <2>5
<1> QED
  BY <1>1, <1>2, <1>3, <1>4, <1>5, <1>6, <1>7, <1>8 DEF SockNext

LEMMA InitPromise ==
  ASSUME NoSide, Init, NEW s \in Socks
  PROVE  Promise(s)!Init
<1>1. TypeOK /\ tracing[s] = Absent
  BY InitIInv, InPtrs DEF IInv, Init
<1>2. \/ sk[s] = FreeSock
      \/ \E kind \in {"active", "child"}, port \in ListenPorts \cup EphPorts, r \in Remotes :
           sk[s] = Established(kind, port, r)
  BY DEF Init
<1>3. (sk[s].kind = "free" /\ sk[s].st = "CLOSE") \/ sk[s].kind \in {"active", "child"}
  <2>1. CASE sk[s] = FreeSock
    <3>1. sk[s].kind = "free" /\ sk[s].st = "CLOSE"
      BY <2>1 DEF FreeSock
    <3> QED
      BY <3>1
  <2>2. ASSUME NEW kind \in {"active", "child"}, NEW port \in ListenPorts \cup EphPorts,
               NEW r \in Remotes, sk[s] = Established(kind, port, r)
        PROVE  sk[s].kind \in {"active", "child"}
    <3>1. Established(kind, port, r).kind = kind
      BY DEF Established, FreeSock
    <3> QED
      BY <2>2, <3>1
  <2> QED
    BY <1>2, <2>1, <2>2
<1>4. KnownOf(s) = NULL
  BY <1>1, AbsentAssumption DEF KnownOf
<1>5. SideOf(s) \in {"CLIENT", "SERVER", NULL} /\ (SideOf(s) = NULL => ~UpOf(s))
  BY <1>3, SideCases DEF UpOf, NoSide
<1>6. CASE SideOf(s) # NULL
  BY <1>4, <1>5, <1>6 DEF Promise!Init, Promise!Sides, SideOf, UpOf, KnownOf
<1>7. CASE SideOf(s) = NULL /\ ~UpOf(s)
  BY <1>4, <1>5, <1>7 DEF Promise!Init, Promise!Sides, SideOf, UpOf, KnownOf
<1> QED
  BY <1>5, <1>6, <1>7

LEMMA StepPromise ==
  ASSUME OneTask, NoSide, IInv, JInv, JInv', Next
  PROVE  \A s \in Socks : Promised(s)
<1>1. ASSUME \A s \in Socks : Quiet(s) PROVE \A s \in Socks : Promised(s)
  <2>1. TypeOK /\ \A s \in Socks : RoleShows(s) /\ RoleShows(s)'
    BY DEF IInv, JInv, Shown
  <2> QED
    BY <1>1, <2>1, QuietStep
<1>2. ASSUME NEW s \in Socks, SockNext(s) PROVE \A u \in Socks : Promised(u)
  BY <1>2, SockPromise
<1>3. ASSUME NEW t \in Tasks, ConnectNext(t) \/ AcceptNext(t)
      PROVE  \A u \in Socks : Promised(u)
  BY <1>1, <1>3, ConnectQuiet, AcceptQuiet, Parts
<1>4. CASE Consume
  <2>1. \A s \in Socks : Quiet(s)
    BY <1>4 DEF Consume, Quiet
  <2> QED
    BY <1>1, <2>1
<1> QED
  BY <1>2, <1>3, <1>4 DEF Next

(* KeepsRoles: with one system call at a time, the tracer implements       *)
(* ConnRoles for every socket address.  handle_new_connection, the connect *)
(* and accept hooks and the deletions of k_set_state and of the destroy    *)
(* hooks are, for a socket, a step of ConnRoles or none.                   *)
THEOREM RolesKept == ASSUME OneTask, NoSide PROVE Spec => KeepsRoles
<1>1. Init => \A s \in Socks : Promise(s)!Init
  BY InitPromise
<1>2. IInv /\ JInv /\ JInv' /\ [Next]_vars =>
        [\A s \in Socks : UNCHANGED Promise(s)!promise \/ Promise(s)!Next]_vars
  BY StepPromise DEF Promised
<1> QED
  BY <1>1, <1>2, Invariance, OneTaskInvariance, PTL DEF Spec, KeepsRoles

-----------------------------------------------------------------------------
(* TcpAttach.  The kernel's steps without their hooks keep TInv, and the   *)
(* side every socket shows: neither depends on what the hooks write.       *)
LEMMA MovedFields ==
  ASSUME NEW c \in SockType, NEW new \in States
  PROVE  /\ Moved(c, new) \in SockType
         /\ Moved(c, new).kind = c.kind /\ Moved(c, new).open = c.open
         /\ Moved(c, new).hook = c.hook /\ Moved(c, new).to = c.to
         /\ Moved(c, new).auto = c.auto /\ Moved(c, new).st = new
         /\ Moved(c, new).learned = (c.learned /\ new # "CLOSE")
         /\ Moved(c, new).lport = IF new = "CLOSE" /\ c.auto THEN 0 ELSE c.lport
<1> DEFINE port == IF new = "CLOSE" /\ c.auto THEN 0 ELSE c.lport
<1>1. port \in {0} \cup ListenPorts \cup EphPorts
  BY DEF SockType
<1>2. (c.learned /\ new # "CLOSE") \in BOOLEAN
  BY DEF SockType
<1>3. [c EXCEPT !.st = new] \in SockType
  BY StType
<1>4. [c EXCEPT !.st = new, !.learned = (c.learned /\ new # "CLOSE")] \in SockType
  BY <1>2, <1>3, LearnedType
<1>5. [c EXCEPT !.st = new, !.learned = (c.learned /\ new # "CLOSE"), !.lport = port] \in SockType
  BY <1>1, <1>4, LportType
<1>6. Moved(c, new) = [c EXCEPT !.st = new, !.learned = (c.learned /\ new # "CLOSE"), !.lport = port]
  BY DEF Moved
<1> HIDE DEF port
<1>7. /\ Moved(c, new).kind = c.kind /\ Moved(c, new).open = c.open
      /\ Moved(c, new).hook = c.hook /\ Moved(c, new).to = c.to
      /\ Moved(c, new).auto = c.auto /\ Moved(c, new).st = new
      /\ Moved(c, new).learned = (c.learned /\ new # "CLOSE")
      /\ Moved(c, new).lport = port
  BY <1>6 DEF SockType
<1> QED
  BY <1>5, <1>6, <1>7 DEF port

(* A transition no hook sees.                                              *)
LEMMA BareMove ==
  ASSUME TInv, NEW s \in Socks, NEW c \in SockType, NEW new \in States,
         sk' = [sk EXCEPT ![s] = Moved(c, new)], UNCHANGED tracing,
         c.kind = sk[s].kind, c.open = sk[s].open, c.hook = sk[s].hook, c.to = sk[s].to,
         c.auto = sk[s].auto, c.lport = sk[s].lport, c.learned = sk[s].learned,
         new # "SYN_RECV",
         new = "SYN_SENT" => sk[s].kind = "active",
         sk[s].kind = "child" => sk[s].hook = 0 /\ sk[s].st # "CLOSE"
  PROVE  /\ sk' \in [Socks -> SockType]
         /\ SockFacts' /\ LearnedRoleKept'
         /\ Shown({}) => Shown({})'
         /\ \A u \in Socks : sk'[u].kind = sk[u].kind /\ sk'[u].open = sk[u].open
<1>0. sk \in [Socks -> SockType] /\ SockFacts /\ LearnedRoleKept
  BY DEF TInv, TypeOK
<1>1. /\ Moved(c, new) \in SockType
      /\ Moved(c, new).kind = c.kind /\ Moved(c, new).open = c.open
      /\ Moved(c, new).hook = c.hook /\ Moved(c, new).to = c.to
      /\ Moved(c, new).auto = c.auto /\ Moved(c, new).st = new
      /\ Moved(c, new).learned = (c.learned /\ new # "CLOSE")
      /\ Moved(c, new).lport = IF new = "CLOSE" /\ c.auto THEN 0 ELSE c.lport
  BY MovedFields
<1>2. sk'[s] = Moved(c, new) /\ \A u \in Socks \ {s} : sk'[u] = sk[u]
  BY <1>0
<1>3. sk' \in [Socks -> SockType]
  BY <1>0, <1>1
<1>4. /\ sk'[s].kind = sk[s].kind /\ sk'[s].open = sk[s].open /\ sk'[s].hook = sk[s].hook
      /\ sk'[s].to = sk[s].to /\ sk'[s].auto = sk[s].auto /\ sk'[s].st = new
      /\ sk'[s].learned => sk[s].learned /\ new # "CLOSE"
      /\ sk'[s].lport = IF new = "CLOSE" /\ sk[s].auto THEN 0 ELSE sk[s].lport
  BY <1>1, <1>2
<1>5. SockFacts'
  BY <1>0, <1>2, <1>4 DEF SockFacts
<1>6. LearnedRoleKept'
  BY <1>0, <1>2, <1>4 DEF LearnedRoleKept
<1>7. ASSUME Shown({}) PROVE Shown({})'
  <2>1. SideShows(s)
    BY <1>7 DEF Shown
  <2>2. 0 \notin ListenPorts
    BY PortAssumption
  <2>3. SideShows(s)'
    BY <1>4, <2>1, <2>2 DEF SideShows
  <2> QED
    BY <1>2, <1>7, <2>3, OneSocket
<1> QED
  BY <1>2, <1>3, <1>4, <1>5, <1>6, <1>7

LEMMA BareSockStep ==
  ASSUME TInv, NEW s \in Socks,
         BareSetState(s) \/ BareClose(s) \/ BareDestroySock(s) \/ SomeDestroyed(s)
  PROVE  TInv' /\ UNCHANGED <<pc, at>> /\ (Shown({}) => Shown({})')
<1>0. TypeOK /\ OwnSocket /\ SockFacts /\ LearnedRoleKept
  BY DEF TInv
<1>a. sk \in [Socks -> SockType] /\ sk[s] \in SockType /\ Socks \subseteq Ptrs
  BY <1>0, InPtrs DEF TypeOK
<1>1. CASE BareSetState(s)
  <2>1. PICK new \in KernelNext(sk[s].st) : sk' = [sk EXCEPT ![s] = Moved(sk[s], new)]
    BY <1>1 DEF BareSetState
  <2>2. /\ new \in States /\ new # "SYN_RECV" /\ new # "SYN_SENT"
        /\ sk[s].st # "CLOSE"
    BY <2>1 DEF KernelNext, States
  <2>3. sk[s].hook = 0 /\ UNCHANGED <<pc, at, target, fdInfo, tracing, ctx, ring>>
    BY <1>1, <1>a DEF BareSetState, Locked, NoMapChanges, SockType
  <2>4. /\ sk' \in [Socks -> SockType] /\ SockFacts' /\ LearnedRoleKept'
        /\ Shown({}) => Shown({})'
        /\ \A u \in Socks : sk'[u].kind = sk[u].kind /\ sk'[u].open = sk[u].open
    BY <1>a, <2>1, <2>2, <2>3, BareMove
  <2>5. TypeOK'
    BY <1>0, <2>3, <2>4 DEF TypeOK
  <2>6. OwnSocket'
    BY <1>0, <2>3, <2>4 DEF OwnSocket
  <2> QED
    BY <2>3, <2>4, <2>5, <2>6 DEF TInv
<1>2. CASE BareClose(s)
  <2>1. /\ sk' = [sk EXCEPT ![s].open = FALSE] /\ \A t \in Tasks : at[t] # s
        /\ UNCHANGED <<pc, at, target, fdInfo, tracing, ctx, ring>>
    BY <1>2 DEF BareClose, InUse, NoMapChanges
  <2>2. /\ sk'[s] \in SockType
        /\ sk'[s].kind = sk[s].kind /\ sk'[s].st = sk[s].st /\ sk'[s].to = sk[s].to
        /\ sk'[s].hook = sk[s].hook /\ sk'[s].learned = sk[s].learned /\ ~sk'[s].open
        /\ sk'[s].lport = sk[s].lport /\ sk'[s].auto = sk[s].auto
        /\ \A u \in Socks \ {s} : sk'[u] = sk[u]
    <3>1. sk'[s] = [sk[s] EXCEPT !.open = FALSE] /\ \A u \in Socks \ {s} : sk'[u] = sk[u]
      BY <1>a, <2>1
    <3>2. [sk[s] EXCEPT !.open = FALSE] \in SockType
      BY <1>a, OpenType
    <3> QED
      BY <1>a, <3>1, <3>2 DEF SockType
  <2>3. TypeOK'
    BY <1>0, <1>a, <2>1, <2>2 DEF TypeOK
  <2>4. OwnSocket' /\ SockFacts' /\ LearnedRoleKept'
    BY <1>0, <2>1, <2>2 DEF OwnSocket, SockFacts, LearnedRoleKept
  <2>5. Shown({}) => Shown({})'
    BY <2>2 DEF Shown, SideShows
  <2> QED
    BY <2>1, <2>3, <2>4, <2>5 DEF TInv
<1>3. CASE BareDestroySock(s)
  <2>1. /\ sk' = [sk EXCEPT ![s].dying = TRUE]
        /\ UNCHANGED <<pc, at, target, fdInfo, tracing, ctx, ring>>
    BY <1>3 DEF BareDestroySock, NoMapChanges
  <2>2. /\ sk'[s] \in SockType
        /\ sk'[s].kind = sk[s].kind /\ sk'[s].st = sk[s].st /\ sk'[s].to = sk[s].to
        /\ sk'[s].hook = sk[s].hook /\ sk'[s].learned = sk[s].learned /\ sk'[s].open = sk[s].open
        /\ sk'[s].lport = sk[s].lport /\ sk'[s].auto = sk[s].auto
        /\ \A u \in Socks \ {s} : sk'[u] = sk[u]
    <3>1. sk'[s] = [sk[s] EXCEPT !.dying = TRUE] /\ \A u \in Socks \ {s} : sk'[u] = sk[u]
      BY <1>a, <2>1
    <3>2. [sk[s] EXCEPT !.dying = TRUE] \in SockType
      BY <1>a, DyingType
    <3> QED
      BY <1>a, <3>1, <3>2 DEF SockType
  <2>3. TypeOK'
    BY <1>0, <1>a, <2>1, <2>2 DEF TypeOK
  <2>4. OwnSocket' /\ SockFacts' /\ LearnedRoleKept'
    BY <1>0, <2>1, <2>2 DEF OwnSocket, SockFacts, LearnedRoleKept
  <2>5. Shown({}) => Shown({})'
    BY <2>2 DEF Shown, SideShows
  <2> QED
    BY <2>1, <2>3, <2>4, <2>5 DEF TInv
<1>4. CASE SomeDestroyed(s)
  <2>1. /\ ~sk[s].open /\ sk' = [sk EXCEPT ![s] = FreeSock]
        /\ UNCHANGED <<pc, at, target, fdInfo, ring>>
        /\ \/ UNCHANGED <<tracing, ctx>>
           \/ /\ tracing' = Delete(tracing, s)
              /\ \E r \in Residues : ctx' = Delete(ctx, KeyOf(s, r))
    BY <1>4 DEF SomeDestroyed, Closed
  <2>2. sk'[s] = FreeSock /\ \A u \in Socks \ {s} : sk'[u] = sk[u]
    BY <1>a, <2>1
  <2>3. /\ sk'[s].kind = "free" /\ sk'[s].st = "CLOSE" /\ sk'[s].to = "CLOSE"
        /\ sk'[s].hook = 0 /\ ~sk'[s].learned /\ ~sk'[s].open
    BY <2>2 DEF FreeSock
  <2>4. /\ tracing' \in [Ptrs -> Roles \cup {Absent}]
        /\ \A u \in Socks \ {s} : tracing'[u] = tracing[u]
    BY <1>0, <1>a, <2>1 DEF TypeOK, Delete
  <2>5. ctx' \in [Keys -> Roles \cup {Absent}]
    <3>1. ctx \in [Keys -> Roles \cup {Absent}]
      BY <1>0 DEF TypeOK
    <3> QED
      BY <1>0, <1>a, <2>1, <3>1, CtxDeleteType
  <2>6. TypeOK'
    BY <1>0, <1>a, <2>1, <2>2, <2>4, <2>5, FreeSockType DEF TypeOK
  <2>7. OwnSocket'
    BY <1>0, <2>1, <2>2 DEF OwnSocket
  <2>8. SockFacts' /\ LearnedRoleKept'
    BY <1>0, <2>2, <2>3, <2>4 DEF SockFacts, LearnedRoleKept
  <2>9. ASSUME Shown({}) PROVE Shown({})'
    BY <2>2, <2>3, <2>9 DEF Shown, SideShows
  <2> QED
    BY <2>1, <2>6, <2>7, <2>8, <2>9 DEF TInv
<1> QED
  BY <1>1, <1>2, <1>3, <1>4

LEMMA BareTaskStep ==
  ASSUME TInv, NEW t \in Tasks,
         \/ BareSysConnect(t) \/ BareSysConnectFile(t) \/ BareLockSock(t)
         \/ BareConnectSynSent(t) \/ BareConnectFails(t) \/ BareTcpConnected(t)
         \/ BareSysConnectExit(t) \/ BareSysAccept4(t) \/ BareInetCskAccept(t)
         \/ BareDoAccept(t) \/ BareSysAccept4Exit(t)
  PROVE  TInv' /\ (Shown({}) => Shown({})')
<1>0. TypeOK /\ OwnSocket /\ SockFacts /\ LearnedRoleKept
  BY DEF TInv
<1>a. /\ sk \in [Socks -> SockType] /\ at \in [Tasks -> Ptrs] /\ pc \in [Tasks -> Labels]
      /\ Socks \subseteq Ptrs /\ Others \subseteq Ptrs /\ NULL \in Ptrs
  BY <1>0, InPtrs DEF TypeOK
<1>b. /\ pc[t] \in Locking => at[t] \in Socks
      /\ pc[t] \in {"file", "failed", "returned"} \cup Locking /\ at[t] \in Socks =>
           sk[at[t]].open /\ sk[at[t]].kind = "active"
  BY <1>0 DEF OwnSocket
<1>c. ASSUME UNCHANGED sk, NoMapChanges, NEW label \in Labels, Goto(t, label), NEW p \in Ptrs,
             at' = [at EXCEPT ![t] = p],
             label \in Locking => p \in Socks,
             label \in {"file", "failed", "returned"} \cup Locking /\ p \in Socks =>
               sk[p].open /\ sk[p].kind = "active"
      PROVE  TInv' /\ (Shown({}) => Shown({})')
  <2>1. UNCHANGED <<target, fdInfo, tracing, ctx, ring>>
    BY <1>c DEF NoMapChanges
  <2>2. at'[t] = p /\ \A u \in Tasks \ {t} : at'[u] = at[u]
    BY <1>a, <1>c
  <2>3. TypeOK'
    BY <1>0, <1>a, <1>c, <2>1 DEF TypeOK, Goto
  <2>4. OwnSocket'
    BY <1>0, <1>c, <2>2, OwnSocketStep
  <2>5. SockFacts' /\ LearnedRoleKept'
    BY <1>0, <1>c, <2>1 DEF SockFacts, LearnedRoleKept
  <2>6. Shown({}) => Shown({})'
    BY <1>c DEF Shown, SideShows
  <2> QED
    BY <2>3, <2>4, <2>5, <2>6 DEF TInv
<1>d. ASSUME UNCHANGED at PROVE at' = [at EXCEPT ![t] = at[t]] /\ at[t] \in Ptrs
  BY <1>a, <1>d
<1>1. CASE BareSysConnect(t)
  <2>1. UNCHANGED <<sk, at>> /\ Goto(t, "connect") /\ NoMapChanges
    BY <1>1 DEF BareSysConnect
  <2> QED
    BY <1>c, <1>d, <2>1 DEF Labels, Locking
<1>2. CASE BareSysConnectFile(t)
  <2>1. PICK f \in {s \in Socks : sk[s].open /\ sk[s].kind = "active"} \cup Others :
          at' = [at EXCEPT ![t] = f]
    BY <1>2 DEF BareSysConnectFile
  <2>2. UNCHANGED sk /\ Goto(t, "file") /\ NoMapChanges
    BY <1>2 DEF BareSysConnectFile
  <2>3. f \in Ptrs /\ (f \in Socks => sk[f].open /\ sk[f].kind = "active")
    BY <1>a, <2>1, PtrAssumption
  <2> QED
    BY <1>c, <2>1, <2>2, <2>3 DEF Labels, Locking
<1>3. CASE BareLockSock(t)
  <2>1. /\ pc[t] = "file" /\ at[t] \in Socks
        /\ UNCHANGED <<sk, at>> /\ Goto(t, "locked") /\ NoMapChanges
    BY <1>3 DEF BareLockSock
  <2> QED
    BY <1>b, <1>c, <1>d, <2>1 DEF Labels, Locking
<1>4. ASSUME NEW c \in SockType, NEW new \in {"SYN_SENT", "CLOSE"}, NEW label \in {"synsent", "failed"},
             at[t] \in Socks, sk[at[t]].open, sk[at[t]].kind = "active",
             sk' = [sk EXCEPT ![at[t]] = Moved(c, new)], UNCHANGED at, Goto(t, label), NoMapChanges,
             c.kind = sk[at[t]].kind, c.open = sk[at[t]].open, c.hook = sk[at[t]].hook,
             c.to = sk[at[t]].to, c.auto = sk[at[t]].auto, c.lport = sk[at[t]].lport,
             c.learned = sk[at[t]].learned
      PROVE  TInv' /\ (Shown({}) => Shown({})')
  <2>1. UNCHANGED <<target, fdInfo, tracing, ctx, ring>> /\ new \in States
    BY <1>4 DEF NoMapChanges, States
  <2>2. /\ sk' \in [Socks -> SockType] /\ SockFacts' /\ LearnedRoleKept'
        /\ Shown({}) => Shown({})'
        /\ \A u \in Socks : sk'[u].kind = sk[u].kind /\ sk'[u].open = sk[u].open
    BY <1>4, <2>1, BareMove
  <2>3. label \in Labels
    BY <1>4 DEF Labels
  <2>4. TypeOK'
    BY <1>0, <1>4, <2>1, <2>2, <2>3 DEF TypeOK, Goto
  <2>5. OwnSocket'
    BY <1>0, <1>4, <2>2, <2>3, OwnSocketStep
  <2> QED
    BY <2>2, <2>4, <2>5 DEF TInv
<1>5. CASE BareConnectSynSent(t)
  <2>1. PICK r \in Remotes :
          sk' = [sk EXCEPT ![at[t]] = Moved([sk[at[t]] EXCEPT !.raddr = r], "SYN_SENT")]
    BY <1>5 DEF BareConnectSynSent
  <2>2. pc[t] = "locked" /\ UNCHANGED at /\ Goto(t, "synsent") /\ NoMapChanges
    BY <1>5 DEF BareConnectSynSent
  <2>3. at[t] \in Socks /\ sk[at[t]].open /\ sk[at[t]].kind = "active" /\ sk[at[t]] \in SockType
    BY <1>a, <1>b, <2>2 DEF Locking
  <2> DEFINE c == [sk[at[t]] EXCEPT !.raddr = r]
  <2>4. /\ c \in SockType
        /\ c.kind = sk[at[t]].kind /\ c.open = sk[at[t]].open /\ c.hook = sk[at[t]].hook
        /\ c.to = sk[at[t]].to /\ c.auto = sk[at[t]].auto /\ c.lport = sk[at[t]].lport
        /\ c.learned = sk[at[t]].learned
    <3>1. c \in SockType
      BY <2>3, RaddrType
    <3> QED
      BY <2>3, <3>1 DEF SockType
  <2>5. sk' = [sk EXCEPT ![at[t]] = Moved(c, "SYN_SENT")]
    BY <2>1
  <2> HIDE DEF c
  <2> QED
    BY <1>4, <2>2, <2>3, <2>4, <2>5
<1>6. CASE BareConnectFails(t)
  <2>1. /\ pc[t] \in {"synsent", "picked"} /\ UNCHANGED at /\ Goto(t, "failed") /\ NoMapChanges
        /\ sk' = [sk EXCEPT ![at[t]] = Moved(sk[at[t]], "CLOSE")]
    BY <1>6 DEF BareConnectFails
  <2>2. at[t] \in Socks /\ sk[at[t]].open /\ sk[at[t]].kind = "active" /\ sk[at[t]] \in SockType
    BY <1>a, <1>b, <2>1 DEF Locking
  <2> QED
    BY <1>4, <2>1, <2>2
<1>7. CASE BareTcpConnected(t)
  <2>1. pc[t] = "picked" /\ UNCHANGED <<sk, at>> /\ Goto(t, "returned") /\ NoMapChanges
    BY <1>7 DEF BareTcpConnected
  <2> QED
    BY <1>b, <1>c, <1>d, <2>1 DEF Labels, Locking
<1>8. CASE BareSysConnectExit(t) \/ BareSysAccept4Exit(t)
  <2>1. UNCHANGED sk /\ at' = [at EXCEPT ![t] = NULL] /\ Goto(t, "idle") /\ NoMapChanges
    BY <1>8 DEF BareSysConnectExit, BareSysAccept4Exit
  <2> QED
    BY <1>a, <1>c, <2>1 DEF Labels, Locking
<1>9. CASE BareSysAccept4(t)
  <2>1. UNCHANGED <<sk, at>> /\ Goto(t, "accept") /\ NoMapChanges
    BY <1>9 DEF BareSysAccept4
  <2> QED
    BY <1>c, <1>d, <2>1 DEF Labels, Locking
<1>10. CASE BareInetCskAccept(t)
  <2>1. PICK l \in Socks : at' = [at EXCEPT ![t] = l]
    BY <1>10 DEF BareInetCskAccept
  <2>2. UNCHANGED sk /\ Goto(t, "accepting") /\ NoMapChanges
    BY <1>10 DEF BareInetCskAccept
  <2> QED
    BY <1>a, <1>c, <2>1, <2>2 DEF Labels, Locking
<1>11. CASE BareDoAccept(t)
  <2>1. /\ UNCHANGED at /\ Goto(t, "accepted") /\ NoMapChanges
        /\ \/ UNCHANGED sk
           \/ \E c \in Socks : sk[c].kind = "child" /\ sk' = [sk EXCEPT ![c].open = TRUE]
    BY <1>11 DEF BareDoAccept
  <2>2. CASE UNCHANGED sk
    BY <1>c, <1>d, <2>1, <2>2 DEF Labels, Locking
  <2>3. CASE \E c \in Socks : sk[c].kind = "child" /\ sk' = [sk EXCEPT ![c].open = TRUE]
    <3>1. PICK c \in Socks : sk[c].kind = "child" /\ sk' = [sk EXCEPT ![c].open = TRUE]
      BY <2>3
    <3>2. sk'[c] = [sk[c] EXCEPT !.open = TRUE] /\ \A u \in Socks \ {c} : sk'[u] = sk[u]
      BY <1>a, <3>1
    <3>3. [sk[c] EXCEPT !.open = TRUE] \in SockType /\ sk[c] \in SockType
      BY <1>a, OpenType
    <3>4. /\ sk'[c].kind = sk[c].kind /\ sk'[c].st = sk[c].st /\ sk'[c].to = sk[c].to
          /\ sk'[c].hook = sk[c].hook /\ sk'[c].lport = sk[c].lport /\ sk'[c].auto = sk[c].auto
          /\ sk'[c].learned = sk[c].learned /\ sk'[c].open
      BY <3>2, <3>3 DEF SockType
    <3>5. UNCHANGED <<target, fdInfo, tracing, ctx, ring>>
      BY <2>1 DEF NoMapChanges
    <3>a. sk' \in [Socks -> SockType]
      BY <1>a, <3>1, <3>3
    <3>b. "accepted" \in Labels /\ "accepted" \notin {"file", "failed", "returned"} \cup Locking
      BY DEF Labels, Locking
    <3>c. \A u \in Socks : sk[u].open => sk'[u].open /\ sk'[u].kind = sk[u].kind
      BY <3>2, <3>4
    <3>6. TypeOK'
      <4>1. pc' \in [Tasks -> Labels]
        BY <1>a, <2>1, <3>b DEF Goto
      <4> QED
        BY <1>0, <2>1, <3>5, <3>a, <4>1 DEF TypeOK
    <3>7. OwnSocket'
      <4>1. /\ "accepted" \in Labels
            /\ Goto(t, "accepted")
            /\ \A u \in Tasks \ {t} : at'[u] = at[u]
            /\ \A u \in Socks : sk[u].open /\ sk[u].kind = "active" =>
                                 sk'[u].open /\ sk'[u].kind = "active"
            /\ "accepted" \in Locking => at'[t] \in Socks
            /\ "accepted" \in {"file", "failed", "returned"} \cup Locking /\ at'[t] \in Socks =>
                 sk'[at'[t]].open /\ sk'[at'[t]].kind = "active"
        BY <2>1, <3>b, <3>c
      <4> QED
        BY <1>0, <4>1, OwnSocketStep
    <3>8. SockFacts' /\ LearnedRoleKept'
      BY <1>0, <3>1, <3>2, <3>4, <3>5 DEF SockFacts, LearnedRoleKept
    <3>9. Shown({}) => Shown({})'
      <4>1. SideShows(c) => SideShows(c)'
        BY <3>4 DEF SideShows
      <4>2. \A u \in Socks \ {c} : SideShows(u) => SideShows(u)'
        BY <3>2 DEF SideShows
      <4> QED
        BY <4>1, <4>2 DEF Shown
    <3> QED
      BY <3>6, <3>7, <3>8, <3>9 DEF TInv
  <2> QED
    BY <2>1, <2>2, <2>3
<1> QED
  BY <1>1, <1>2, <1>3, <1>5, <1>6, <1>7, <1>8, <1>9, <1>10, <1>11

-----------------------------------------------------------------------------
(* Any number of tasks: what needs no hook holds while they are attached.  *)
LEMMA HostSockStep ==
  ASSUME TInv, NEW s \in Socks, HostSockNext(s)
  PROVE  TInv' /\ UNCHANGED <<pc, at>> /\ (Shown({}) => Shown({})')
<1>1. CASE SockNext(s)
  <2>1. UNCHANGED <<pc, at>>
    BY <1>1 DEF SockNext, NewSocket, Listen, NewChild, KernelSetState, SetStateDirect,
                SetStateOther, SetStateExit, TcpClose, KDestroySock, TpDestroySock
  <2>2. TInv'
    BY <1>1, NextTInv DEF Next
  <2>3. Shown({}) => Shown({})'
    BY <1>1, SockShownStep
  <2> QED
    BY <2>1, <2>2, <2>3
<1>2. CASE BareSetState(s) \/ BareClose(s) \/ BareDestroySock(s) \/ SomeDestroyed(s)
  BY <1>2, BareSockStep
<1> QED
  BY <1>1, <1>2 DEF HostSockNext, SockNext

LEMMA HostTaskStep ==
  ASSUME TInv, NEW t \in Tasks, HostConnectNext(t) \/ HostAcceptNext(t)
  PROVE  TInv' /\ (Shown({}) => Shown({})')
<1>1. CASE ConnectNext(t)
  <2>1. TInv'
    BY <1>1, NextTInv DEF Next
  <2>2. Shown({}) => Shown({})'
    BY <1>1, ConnectShownStep
  <2> QED
    BY <2>1, <2>2
<1>2. CASE AcceptNext(t)
  <2>1. TInv'
    BY <1>2, NextTInv DEF Next
  <2>2. Shown({}) => Shown({})'
    BY <1>2, AcceptShownStep
  <2> QED
    BY <2>1, <2>2
<1>3. CASE \/ BareSysConnect(t) \/ BareSysConnectFile(t) \/ BareLockSock(t)
           \/ BareConnectSynSent(t) \/ BareConnectFails(t) \/ BareTcpConnected(t)
           \/ BareSysConnectExit(t) \/ BareSysAccept4(t) \/ BareInetCskAccept(t)
           \/ BareDoAccept(t) \/ BareSysAccept4Exit(t)
  BY <1>3, BareTaskStep
<1> QED
  BY <1>1, <1>2, <1>3 DEF HostConnectNext, HostAcceptNext, ConnectNext, AcceptNext

LEMMA HostStep ==
  ASSUME TInv, HostNext
  PROVE  TInv' /\ (Shown({}) => Shown({})')
<1>1. CASE Consume
  <2>1. TInv'
    BY <1>1, NextTInv DEF Next
  <2>2. UNCHANGED sk
    BY <1>1 DEF Consume
  <2> QED
    BY <2>1, <2>2 DEF Shown, SideShows
<1> QED
  BY <1>1, HostSockStep, HostTaskStep DEF HostNext

LEMMA AttachStep ==
  ASSUME TInv, [AttachNext]_attachVars
  PROVE  TInv' /\ (Shown({}) => Shown({})')
<1>1. CASE HostNext
  BY <1>1, HostStep
<1>2. CASE UNCHANGED vars
  <2>1. TInv'
    BY <1>2, NextTInv
  <2>2. UNCHANGED sk
    BY <1>2 DEF vars
  <2> QED
    BY <2>1, <2>2 DEF Shown, SideShows
<1> QED
  BY <1>1, <1>2 DEF AttachNext, AttachOne, attachVars

LEMMA AttachInvariance == AttachSpec => [](TInv /\ Shown({}))
<1>1. AttachInit => TInv /\ Shown({})
  <2>1. AttachInit => IInv /\ JInv
    BY InitIInv, InitJInv DEF AttachInit
  <2> QED
    BY <2>1, Parts DEF JInv, Shown
<1>2. (TInv /\ Shown({})) /\ [AttachNext]_attachVars => (TInv /\ Shown({}))'
  BY AttachStep
<1> QED
  BY <1>1, <1>2, PTL DEF AttachSpec

(* Whichever of the hooks are attached, and in whatever order the loops    *)
(* walk them, a role k_set_state has learned stays in conn_tracing_map     *)
(* until the transition to CLOSE: any tasks, sockets and capacities.       *)
THEOREM AttachLearned == AttachSpec => []LearnedRoleKept
<1>1. TInv => LearnedRoleKept
  BY DEF TInv
<1> QED
  BY <1>1, AttachInvariance, PTL

-----------------------------------------------------------------------------
(* Healing.  A task outside the calls under way has no socket, whatever    *)
(* hooks it ran.                                                           *)
AtRest == \A t \in Tasks : pc[t] \in {"idle", "connect", "accept"} => at[t] = NULL

(* All programs attached, and the calls begun before have returned: from   *)
(* here on the tracer is TcpLink's.                                        *)
Attached == AllOn /\ old = {}

(* A task in no call begun before has its file, and runs every exit hook;  *)
(* an address is healed only then, and shows its role from there on.       *)
Healing ==
  /\ hooks \subseteq Programs /\ old \subseteq Tasks /\ healed \subseteq Socks
  /\ AtRest
  /\ \A t \in Tasks : pc[t] = "idle" => missed[t] = {}
  /\ AllOn => \A t \in Tasks \ old : FileIsOwn(t) /\ missed[t] \cap Programs = {}
  /\ healed # {} => Attached
  /\ Shown(healed)

LEMMA AtRestTask ==
  ASSUME TInv, AtRest, NEW t \in Tasks, HostConnectNext(t) \/ HostAcceptNext(t)
  PROVE  AtRest'
<1>0. pc \in [Tasks -> Labels] /\ at \in [Tasks -> Ptrs]
  BY DEF TInv, TypeOK
<1>1. \A u \in Tasks \ {t} : pc'[u] = pc[u] /\ at'[u] = at[u]
  <2>1. CASE HostConnectNext(t)
    BY <1>0, <2>1
    DEF HostConnectNext, FentrySysConnect, BareSysConnect, FentrySysConnectFile,
        BareSysConnectFile, LockSock, BareLockSock, ConnectSynSent, ConnectFails,
        BareConnectSynSent, BareConnectFails, ConnectPortPicked, FexitTcpV4Connect,
        BareTcpConnected, FexitSysConnect, BareSysConnectExit, FexitSysConnectDelete,
        FexitSysConnectLookup, FexitSysConnectUpdate, FexitSysConnectCtx, Goto
  <2>2. CASE HostAcceptNext(t)
    BY <1>0, <2>2
    DEF HostAcceptNext, FentrySysAccept4, BareSysAccept4, InetCskAccept, BareInetCskAccept,
        FexitDoAccept, BareDoAccept, FexitSysAccept4, BareSysAccept4Exit, Goto
  <2> QED
    BY <2>1, <2>2
<1>2. \/ pc'[t] \notin {"idle", "connect", "accept"}
      \/ pc[t] = "idle" /\ at'[t] = at[t]
      \/ at'[t] = NULL
  <2>1. CASE HostConnectNext(t)
    BY <1>0, <2>1
    DEF HostConnectNext, FentrySysConnect, BareSysConnect, FentrySysConnectFile,
        BareSysConnectFile, LockSock, BareLockSock, ConnectSynSent, ConnectFails,
        BareConnectSynSent, BareConnectFails, ConnectPortPicked, FexitTcpV4Connect,
        BareTcpConnected, FexitSysConnect, BareSysConnectExit, FexitSysConnectDelete,
        FexitSysConnectLookup, FexitSysConnectUpdate, FexitSysConnectCtx, Goto
  <2>2. CASE HostAcceptNext(t)
    BY <1>0, <2>2
    DEF HostAcceptNext, FentrySysAccept4, BareSysAccept4, InetCskAccept, BareInetCskAccept,
        FexitDoAccept, BareDoAccept, FexitSysAccept4, BareSysAccept4Exit, Goto
  <2> QED
    BY <2>1, <2>2
<1> QED
  BY <1>1, <1>2 DEF AtRest

LEMMA AtRestStep ==
  ASSUME TInv, AtRest, [AttachNext]_attachVars
  PROVE  AtRest'
<1>1. CASE UNCHANGED vars \/ Consume
  BY <1>1 DEF vars, Consume, AtRest
<1>2. ASSUME NEW s \in Socks, HostSockNext(s) PROVE AtRest'
  BY <1>2, HostSockStep DEF AtRest
<1> QED
  BY <1>1, <1>2, AtRestTask DEF AttachNext, AttachOne, attachVars, HostNext

-----------------------------------------------------------------------------
(* With all programs attached, and run, the host's steps are TcpLink's.    *)
LEMMA ProgramNames ==
  /\ {"FentrySysConnect", "FentrySysConnectFile", "FexitSysConnect", "FentrySysAccept4",
      "FexitDoAccept", "FexitSysAccept4", "InetCskAccept", "TcpClose", "SetState",
      "KDestroySock", "TpDestroySock", "RtpDestroySock"} \subseteq Programs
  /\ 6 \in Fams => "FentryTcpV6Connect" \in Programs
  /\ 4 \in Fams => "FexitTcpV4Connect" \in Programs
<1>1. \A g \in 1..4 : Groups[g] \subseteq Programs
  BY DEF Programs
<1>2. /\ {"FentrySysConnect", "FentrySysConnectFile", "FexitSysConnect", "FentrySysAccept4",
          "FexitDoAccept", "FexitSysAccept4", "InetCskAccept", "TcpClose"} \subseteq Groups[1]
      /\ 6 \in Fams => "FentryTcpV6Connect" \in Groups[1]
      /\ 4 \in Fams => "FexitTcpV4Connect" \in Groups[1]
      /\ {"SetState", "KDestroySock"} \subseteq Groups[2]
      /\ "TpDestroySock" \in Groups[3] /\ "RtpDestroySock" \in Groups[4]
  BY DEF Groups
<1> QED
  BY <1>1, <1>2

LEMMA AllOnNext ==
  ASSUME TInv, AllOn, \A t \in Tasks : missed[t] \cap Programs = {}, HostNext
  PROVE  Next
<1>1. /\ \A h \in Programs : On(h) /\ \A t \in Tasks : Exits(t, h)
  BY DEF AllOn, On, Exits
<1>2. CASE Consume
  BY <1>2 DEF Next
<1>3. ASSUME NEW s \in Socks, HostSockNext(s) PROVE Next
  <2>1. /\ On("SetState") /\ On("TcpClose") /\ On("KDestroySock")
        /\ On("TpDestroySock") /\ On("RtpDestroySock")
    BY <1>1, ProgramNames
  <2>2. SockNext(s)
    BY <1>3, <2>1 DEF HostSockNext, SockNext
  <2> QED
    BY <2>2 DEF Next
<1>4. ASSUME NEW t \in Tasks, HostConnectNext(t) PROVE Next
  <2>1. /\ On("FentrySysConnect") /\ On("FentrySysConnectFile") /\ On("SetState")
        /\ Exits(t, "FexitSysConnect")
    BY <1>1, ProgramNames
  <2>2. /\ at[t] \in Socks => sk[at[t]].fam \in Fams
        /\ pc[t] = "picked" => at[t] \in Socks
    BY DEF TInv, TypeOK, SockType, OwnSocket, Locking
  <2>3. ~On("FentryTcpV6Connect") /\ BareLockSock(t) => LockSock(t)
    <3>1. SUFFICES ASSUME ~On("FentryTcpV6Connect"), BareLockSock(t) PROVE LockSock(t)
      OBVIOUS
    <3>2. sk[at[t]].fam # 6
      BY <1>1, <2>2, <3>1, ProgramNames DEF BareLockSock
    <3> QED
      BY <3>1, <3>2 DEF BareLockSock, LockSock, NoMapChanges
  <2>4. ~Exits(t, "FexitTcpV4Connect") /\ BareTcpConnected(t) => FexitTcpV4Connect(t)
    <3>1. SUFFICES ASSUME ~Exits(t, "FexitTcpV4Connect"), BareTcpConnected(t)
                   PROVE  FexitTcpV4Connect(t)
      OBVIOUS
    <3>2. sk[at[t]].fam # 4
      BY <1>1, <2>2, <3>1, ProgramNames DEF BareTcpConnected
    <3> QED
      BY <3>1, <3>2 DEF BareTcpConnected, FexitTcpV4Connect, NoMapChanges
  <2>5. ConnectNext(t)
    BY <1>4, <2>1, <2>3, <2>4 DEF HostConnectNext, ConnectNext
  <2> QED
    BY <2>5 DEF Next
<1>5. ASSUME NEW t \in Tasks, HostAcceptNext(t) PROVE Next
  <2>1. /\ On("FentrySysAccept4") /\ On("InetCskAccept")
        /\ Exits(t, "FexitDoAccept") /\ Exits(t, "FexitSysAccept4")
    BY <1>1, ProgramNames
  <2>2. AcceptNext(t)
    BY <1>5, <2>1 DEF HostAcceptNext, AcceptNext
  <2> QED
    BY <2>2 DEF Next
<1> QED
  BY <1>2, <1>3, <1>4, <1>5 DEF HostNext

(* The step that frees a socket leaves its address without a role.         *)
LEMMA FreedAbsent ==
  ASSUME TInv, Next, NEW s \in Socks, sk[s].kind # "free", sk'[s].kind = "free"
  PROVE  tracing'[s] = Absent
<1>0. /\ TypeOK /\ sk \in [Socks -> SockType] /\ tracing \in [Ptrs -> Roles \cup {Absent}]
      /\ s \in Ptrs
  BY InPtrs DEF TInv, TypeOK
<1>1. ASSUME NEW u \in Socks, SockNext(u)
      PROVE  tracing'[s] = Absent
  <2>0. sk[u] \in SockType
    BY <1>0
  <2>1. CASE TpDestroySock(u)
    <3>1. tracing' = Delete(tracing, u) /\ \A x \in Socks \ {u} : sk'[x] = sk[x]
      BY <1>0, <2>1 DEF TpDestroySock
    <3>2. u = s
      BY <3>1
    <3> QED
      BY <1>0, <3>1, <3>2 DEF Delete
  <2>2. CASE NewSocket(u) \/ \E l \in Socks : NewChild(u, l)
    <3>1. sk[u].kind = "free" /\ \A x \in Socks \ {u} : sk'[x] = sk[x]
      BY <1>0, <2>2 DEF NewSocket, NewChild
    <3> QED
      BY <3>1
  <2>3. CASE KernelSetState(u)
    <3>1. PICK new \in KernelNext(sk[u].st) : Enter(u, new, sk[u])
      BY <2>3 DEF KernelSetState
    <3>2. new \in States
      BY <3>1 DEF KernelNext, States
    <3>3. \A x \in Socks : sk'[x].kind = sk[x].kind
      BY <1>0, <2>0, <3>1, <3>2, EnterEffect
    <3> QED
      BY <3>3
  <2>4. ASSUME \A x \in Socks \ {u} : sk'[x] = sk[x], sk'[u].kind = sk[u].kind
        PROVE  FALSE
    BY <2>4
  <2>5. CASE Listen(u)
    <3>1. sk'[u] = [sk[u] EXCEPT !.st = "LISTEN"] /\ \A x \in Socks \ {u} : sk'[x] = sk[x]
      BY <1>0, <2>5 DEF Listen
    <3> QED
      BY <2>0, <2>4, <3>1 DEF SockType
  <2>6. CASE SetStateDirect(u)
    <3>1. PICK l : sk' = [sk EXCEPT ![u].hook = 2, ![u].learned = l]
      BY <2>6 DEF SetStateDirect
    <3>2. sk'[u] = [sk[u] EXCEPT !.hook = 2, !.learned = l] /\ \A x \in Socks \ {u} : sk'[x] = sk[x]
      BY <1>0, <3>1
    <3> QED
      BY <2>0, <2>4, <3>2 DEF SockType
  <2>7. CASE SetStateOther(u)
    <3>1. sk'[u] = [sk[u] EXCEPT !.hook = 2] /\ \A x \in Socks \ {u} : sk'[x] = sk[x]
      BY <1>0, <2>7 DEF SetStateOther
    <3> QED
      BY <2>0, <2>4, <3>1 DEF SockType
  <2>8. CASE SetStateExit(u)
    <3>1. PICK l, p : sk' = [sk EXCEPT ![u] = [sk[u] EXCEPT !.hook = 0, !.st = sk[u].to,
                                                !.learned = l, !.lport = p]]
      BY <2>8 DEF SetStateExit
    <3>2. /\ sk'[u] = [sk[u] EXCEPT !.hook = 0, !.st = sk[u].to, !.learned = l, !.lport = p]
          /\ \A x \in Socks \ {u} : sk'[x] = sk[x]
      BY <1>0, <3>1
    <3> QED
      BY <2>0, <2>4, <3>2 DEF SockType
  <2>9. CASE TcpClose(u)
    <3>1. sk'[u] = [sk[u] EXCEPT !.open = FALSE] /\ \A x \in Socks \ {u} : sk'[x] = sk[x]
      BY <1>0, <2>9 DEF TcpClose
    <3> QED
      BY <2>0, <2>4, <3>1 DEF SockType
  <2>10. CASE KDestroySock(u)
    <3>1. sk'[u] = [sk[u] EXCEPT !.dying = TRUE] /\ \A x \in Socks \ {u} : sk'[x] = sk[x]
      BY <1>0, <2>10 DEF KDestroySock
    <3> QED
      BY <2>0, <2>4, <3>1 DEF SockType
  <2> QED
    BY <1>1, <2>1, <2>2, <2>3, <2>5, <2>6, <2>7, <2>8, <2>9, <2>10 DEF SockNext
<1>2. ASSUME NEW t \in Tasks, ConnectNext(t) \/ AcceptNext(t) PROVE FALSE
  <2>1. Quiet(s)
    BY <1>2, ConnectQuiet, AcceptQuiet
  <2> QED
    BY <2>1 DEF Quiet
<1>3. CASE Consume
  BY <1>3 DEF Consume
<1> QED
  BY <1>1, <1>2, <1>3 DEF Next

-----------------------------------------------------------------------------
LEMMA HealingInit == AttachInit => Healing
<1> SUFFICES ASSUME AttachInit PROVE Healing
  OBVIOUS
<1>1. hooks = {} /\ old = {} /\ healed = {} /\ (\A t \in Tasks : missed[t] = {})
  BY DEF AttachInit
<1>2. JInv
  BY InitJInv DEF AttachInit
<1>3. AtRest
  BY <1>2 DEF JInv, FileIsOwn, AtRest
<1> QED
  BY <1>1, <1>2, <1>3 DEF Healing, JInv, Shown

(* One more program is attached.  Until the last one nothing is healed,    *)
(* and then all calls under way are old: the others hold no file.          *)
LEMMA HealingAttach ==
  ASSUME TInv, Healing, AttachOne, AttachNext
  PROVE  Healing'
<1>1. PICK g \in 1..4 : \E h \in Groups[g] \ hooks : hooks' = hooks \cup {h}
  BY DEF AttachOne
<1>2. hooks' \subseteq Programs /\ ~AllOn
  <2>1. PICK h \in Groups[g] \ hooks : hooks' = hooks \cup {h}
    BY <1>1
  <2>2. h \in Programs
    BY DEF Programs
  <2> QED
    BY <2>1, <2>2 DEF Healing, AllOn
<1>3. UNCHANGED <<sk, pc, at, target, fdInfo, tracing, ctx, ring>>
  BY DEF AttachOne, vars
<1>4. healed = {} /\ healed' = {} /\ old' = {t \in Tasks : pc[t] # "idle"}
  BY <1>2, <1>3 DEF Healing, Attached, AttachNext, Watch
<1>5. \A t \in Tasks : missed'[t] = missed[t]
  BY <1>3 DEF AttachNext, MissedNext
<1>6. AtRest' /\ Shown({})'
  BY AtRestStep, AttachStep, <1>4 DEF Healing
<1>7. ASSUME NEW t \in Tasks \ old' PROVE FileIsOwn(t)' /\ missed'[t] \cap Programs = {}
  <2>1. pc'[t] = "idle" /\ at'[t] = NULL /\ missed'[t] = {}
    BY <1>3, <1>4, <1>5, <1>7 DEF Healing, AtRest
  <2> QED
    BY <2>1 DEF FileIsOwn, InConnect, Locking
<1>8. \A t \in Tasks : pc'[t] = "idle" => missed'[t] = {}
  BY <1>3, <1>5 DEF Healing
<1> QED
  BY <1>2, <1>4, <1>6, <1>7, <1>8 DEF Healing

(* The tasks' missed hooks, once all are attached, become fewer.           *)
LEMMA MissedStep ==
  ASSUME Healing, AttachNext, NEW t \in Tasks
  PROVE  /\ pc'[t] = "idle" => missed'[t] = {}
         /\ AllOn /\ missed[t] \cap Programs = {} => missed'[t] \cap Programs = {}
<1>1. PICK late \in BOOLEAN : MissedNext(late)
  BY DEF AttachNext
<1>2. \/ pc'[t] = pc[t] /\ missed'[t] = missed[t]
      \/ missed'[t] = {}
      \/ pc'[t] # "idle" /\ missed'[t] \subseteq missed[t] \cup (Entered(t) \ hooks)
  BY <1>1 DEF MissedNext
<1> QED
  BY <1>2 DEF Healing, AllOn

(* A step of the host.                                                     *)
LEMMA HealingHost ==
  ASSUME OneTask, TInv, Healing, HostNext, UNCHANGED hooks, AttachNext
  PROVE  Healing'
<1>1. /\ AtRest' /\ (\A t \in Tasks : pc'[t] = "idle" => missed'[t] = {})
      /\ hooks' \subseteq Programs /\ old' \subseteq Tasks
  BY AtRestStep, MissedStep DEF Healing, AttachNext, Watch
<1>2. AllOn' <=> AllOn
  BY DEF AllOn
<1>3. Watch
  BY DEF AttachNext
<1>4. CASE ~AllOn
  <2>1. healed = {} /\ healed' = {}
    BY <1>3, <1>4 DEF Healing, Attached, Watch
  <2>2. Shown({})'
    BY <2>1, AttachStep DEF Healing
  <2> QED
    BY <1>1, <1>2, <1>4, <2>1, <2>2 DEF Healing
<1>5. CASE AllOn /\ old # {}
  <2>1. healed = {} /\ healed' = {} /\ old' = {t \in Tasks : pc'[t] # "idle" /\ t \in old}
    BY <1>3, <1>5 DEF Healing, Attached, Watch
  <2>2. Shown({})'
    BY <2>1, AttachStep DEF Healing
  <2>3. ASSUME NEW t \in Tasks \ old' PROVE FileIsOwn(t)' /\ missed'[t] \cap Programs = {}
    <3>1. t \in old
      BY <1>5, <2>3 DEF Healing, OneTask
    <3>2. pc'[t] = "idle"
      BY <2>1, <2>3, <3>1
    <3>3. at'[t] = NULL /\ missed'[t] = {}
      BY <1>1, <3>2 DEF AtRest
    <3> QED
      BY <3>2, <3>3 DEF FileIsOwn, InConnect, Locking
  <2> QED
    BY <1>1, <2>1, <2>2, <2>3 DEF Healing
<1>6. CASE AllOn /\ old = {}
  <2>1. \A t \in Tasks : FileIsOwn(t) /\ missed[t] \cap Programs = {}
    BY <1>6 DEF Healing
  <2>2. Next
    BY <1>6, <2>1, AllOnNext
  <2>3. PICK H \in SUBSET Socks : H = healed
    BY DEF Healing
  <2>4. Shown(H)' /\ \A t \in Tasks : FileIsOwn(t)'
    BY <2>1, <2>2, <2>3, NextShown DEF Healing
  <2>5. /\ old' = {}
        /\ healed' = healed \cup {s \in Socks : sk[s].kind # "free" /\ sk'[s].kind = "free"}
    BY <1>3, <1>6 DEF Watch
  <2>6. ASSUME NEW s \in healed' PROVE s \in Socks /\ RoleShows(s)'
    <3>1. CASE s \in H
      BY <2>4, <3>1 DEF Shown
    <3>2. CASE s \notin H
      <4>1. s \in Socks /\ sk[s].kind # "free" /\ sk'[s].kind = "free"
        BY <2>3, <2>5, <2>6, <3>2
      <4>2. tracing'[s] = Absent
        BY <2>2, <4>1, FreedAbsent
      <4> QED
        BY <4>1, <4>2 DEF RoleShows
    <3> QED
      BY <3>1, <3>2
  <2>7. Shown(healed)'
    BY <2>4, <2>6 DEF Shown
  <2>8. \A t \in Tasks : missed'[t] \cap Programs = {}
    BY <1>6, <2>1, MissedStep
  <2> QED
    BY <1>1, <1>2, <1>6, <2>4, <2>5, <2>6, <2>7, <2>8 DEF Healing, Attached
<1> QED
  BY <1>4, <1>5, <1>6

LEMMA HealingStep ==
  ASSUME OneTask, TInv, Healing, [AttachNext]_attachVars
  PROVE  Healing'
<1>1. CASE AttachNext
  BY <1>1, HealingAttach, HealingHost DEF AttachNext
<1>2. CASE UNCHANGED attachVars
  <2>1. UNCHANGED <<sk, pc, at, target, fdInfo, tracing, hooks, missed, old, healed>>
    BY <1>2 DEF attachVars, vars
  <2> QED
    BY <2>1 DEF Healing, AtRest, AllOn, Attached, FileIsOwn, Shown, SideShows, RoleShows
<1> QED
  BY <1>1, <1>2

(* What a hook that was attached too late left in conn_tracing_map does    *)
(* not stay: with one task, after the first destruction at an address      *)
(* since all programs are attached and the call under way then is over,    *)
(* its role is the true one, for any order of the loops, any families,     *)
(* sockets, ports and capacities.                                          *)
THEOREM Healed == ASSUME OneTask PROVE AttachSpec => []HealedRoleTrue
<1>1. AttachInit => Healing
  BY HealingInit
<1>2. TInv /\ Healing /\ [AttachNext]_attachVars => Healing'
  BY HealingStep
<1>3. Healing => HealedRoleTrue
  BY DEF Healing, Shown, RoleShows, HealedRoleTrue
<1>4. AttachSpec => []TInv
  BY AttachInvariance, PTL
<1> QED
  BY <1>1, <1>2, <1>3, <1>4, PTL DEF AttachSpec
=============================================================================
