-------------------------- MODULE IptModuleProofs --------------------------
(***************************************************************************)
(* Theorems about IptModule, for any number of packets and of loader runs. *)
(***************************************************************************)
EXTENDS IptModule, TLAPS

(* What the invariant says of the module alone.                            *)
ModuleInv ==
  /\ have \in BOOLEAN
  /\ held = HeldAt(mod)
  /\ probes = {k \in Probes : mod \in On(k) /\ (k \in {"krp_ip6t", "kp_ip6t"} => have)}

LEMMA InitIInv == Init => IInv
BY DEF Init, IInv, HeldAt, On, Probes, LiveNeverLogs

(* The steps of init, its unwinding and exit keep the table.               *)
LEMMA InitStep ==
  ASSUME ModuleInv, Init1
  PROVE  ModuleInv'
<1> USE DEF ModuleInv, HeldAt, On, Probes, Progs
<1>1. CASE GetProg("entry", "get_entry", "get_exit", {})
  BY <1>1 DEF GetProg
<1>2. CASE GetProg("exit",  "get_exit",  "get_trace", {"entry"})
  BY <1>2 DEF GetProg
<1>3. CASE GetProg("trace", "get_trace", "krp_ipt", {"entry", "exit"})
  BY <1>3 DEF GetProg
<1>4. CASE Register("krp_ipt", "krp_ipt", "krp_ip6t", "put")
  BY <1>4 DEF Register
<1>5. CASE RegisterKrpIp6t
  BY <1>5 DEF RegisterKrpIp6t
<1>6. CASE Register("kp_ipt", "kp_ipt", "kp_ip6t", "undo_krp_ipt")
  BY <1>6 DEF Register
<1>7. CASE RegisterIp6t
  BY <1>7 DEF RegisterIp6t, Register
<1>8. CASE Register("kp_log", "kp_log", "live", "undo_kp_ipt_log")
  BY <1>8 DEF Register
<1>9. QED BY <1>1, <1>2, <1>3, <1>4, <1>5, <1>6, <1>7, <1>8 DEF Init1

LEMMA UndoStep ==
  ASSUME ModuleInv, InitUndo
  PROVE  ModuleInv'
<1> USE DEF ModuleInv, HeldAt, On, Probes, Progs
<1>1. CASE Unregister("kp_ipt", "undo_kp_ipt", "undo_krp_ipt")
  BY <1>1 DEF Unregister
<1>2. CASE Unregister("kp_ipt", "undo_kp_ipt_log", "undo_kp_ip6t")
  BY <1>2 DEF Unregister
<1>3. CASE UnregisterIp6t("kp_ip6t", "undo_kp_ip6t", "undo_krp_ipt")
  BY <1>3 DEF UnregisterIp6t, Unregister
<1>4. CASE Unregister("krp_ipt", "undo_krp_ipt", "undo_krp_ip6t")
  BY <1>4 DEF Unregister
<1>5. CASE UnregisterIp6t("krp_ip6t", "undo_krp_ip6t", "put")
  BY <1>5 DEF UnregisterIp6t, Unregister
<1>6. CASE PutProgs("put", "failed")
  BY <1>6 DEF PutProgs
<1>7. QED BY <1>1, <1>2, <1>3, <1>4, <1>5, <1>6 DEF InitUndo

LEMMA ExitStep ==
  ASSUME ModuleInv, ModuleExit
  PROVE  ModuleInv'
<1> USE DEF ModuleInv, HeldAt, On, Probes, Progs
<1>1. CASE Unregister("kp_ipt", "exit_kp_ipt", "exit_kp_ip6t")
  BY <1>1 DEF Unregister
<1>2. CASE UnregisterIp6t("kp_ip6t", "exit_kp_ip6t", "exit_kp_log")
  BY <1>2 DEF UnregisterIp6t, Unregister
<1>3. CASE Unregister("kp_log", "exit_kp_log", "exit_krp_ipt")
  BY <1>3 DEF Unregister
<1>4. CASE Unregister("krp_ipt", "exit_krp_ipt", "exit_krp_ip6t")
  BY <1>4 DEF Unregister
<1>5. CASE UnregisterIp6t("krp_ip6t", "exit_krp_ip6t", "exit_put")
  BY <1>5 DEF UnregisterIp6t, Unregister
<1>6. CASE PutProgs("exit_put", "absent")
  BY <1>6 DEF PutProgs
<1>7. QED BY <1>1, <1>2, <1>3, <1>4, <1>5, <1>6 DEF ModuleExit

(* The loader moves the module between positions of the same row only.     *)
LEMMA LoaderStep ==
  ASSUME IInv, LoaderNext
  PROVE  IInv'
<1> USE DEF IInv, LiveNeverLogs
<1>1. CASE Start
  BY <1>1 DEF Start, module
<1>2. ASSUME NEW p, NEW here, NEW next, here # "idle", next # "idle", Pin(p, here, next)
      PROVE  IInv'
  <2>1. UNCHANGED <<killed, mod, have, held, probes, logged>> /\ run' # "idle"
    BY <1>2 DEF Pin, module
  <2>2. pins = mine => pins' = mine'
    BY <1>2 DEF Pin
  <2>3. QED BY <2>1, <2>2
<1>3. CASE Insmod
  <2>1. UNCHANGED <<mine, killed, pins, held, probes, logged>> /\ run' # "idle"
    BY <1>3 DEF Insmod
  <2>2. CASE mod = "absent"
    <3>1. mod' = "get_entry" /\ have' = FALSE
      BY <1>3, <2>2 DEF Insmod
    <3>2. probes = {} /\ held = {}
      BY <2>2 DEF HeldAt, On, Probes
    <3>3. \A k \in Probes : "get_entry" \notin On(k)
      BY DEF On, Probes
    <3>4. QED BY <2>1, <3>1, <3>2, <3>3 DEF HeldAt
  <2>3. CASE mod # "absent"
    BY <1>3, <2>1, <2>3 DEF Insmod
  <2>4. QED BY <2>2, <2>3
<1>4. CASE InsmodDone
  BY <1>4 DEF InsmodDone, HeldAt, On, Probes
<1>5. CASE OrphanFailed
  BY <1>5 DEF OrphanFailed, loader, HeldAt, On, Probes
<1>6. CASE Signal
  BY <1>6 DEF Signal, module
<1>7. CASE CtxDone
  BY <1>7 DEF CtxDone, module
<1>8. ASSUME NEW p \in Progs, Unpin(p)
      PROVE  IInv'
  BY <1>8 DEF Unpin, module
<1>9. CASE Return
  BY <1>9 DEF Return, Rmmod, HeldAt, On, Probes
<1>10. CASE Kill
  BY <1>10 DEF Kill, module
<1>11. QED
  BY <1>1, <1>2, <1>3, <1>4, <1>5, <1>6, <1>7, <1>8, <1>9, <1>10 DEF LoaderNext

LEMMA NextIInv == IInv /\ [Next]_vars => IInv'
<1> SUFFICES ASSUME IInv, [Next]_vars
             PROVE  IInv'
  OBVIOUS
<1>1. CASE ModuleNext
  <2>1. ModuleInv
    BY DEF IInv, ModuleInv
  <2>2. ModuleInv'
    BY <1>1, <2>1, InitStep, UndoStep, ExitStep DEF ModuleNext
  <2>3. UNCHANGED <<run, mine, killed, pins, logged>>
    BY <1>1 DEF ModuleNext, loader
  <2>4. QED BY <2>2, <2>3 DEF IInv, ModuleInv, LiveNeverLogs
<1>2. CASE RmmodByHand
  BY <1>2 DEF RmmodByHand, loader, IInv, HeldAt, On, Probes, LiveNeverLogs
<1>3. CASE LoaderNext
  BY <1>3, LoaderStep
<1>4. ASSUME NEW p \in Packets, Enter(p) \/ NfLogTrace(p) \/ Leave(p) \/ Renew(p)
      PROVE  IInv'
  <2>1. UNCHANGED <<run, mine, killed, pins, mod, have, held, probes>>
    BY <1>4 DEF Enter, NfLogTrace, Leave, Renew, loader, module
  <2>2. mod = "live" => "kp_log" \in probes
    BY DEF IInv, On, Probes
  <2>3. logged' # "live"
    BY <1>4, <2>2 DEF Enter, NfLogTrace, Leave, Renew, IInv, LiveNeverLogs
  <2>4. QED BY <2>1, <2>3 DEF IInv, LiveNeverLogs
<1>5. CASE UNCHANGED vars
  BY <1>5 DEF vars, loader, module, IInv, LiveNeverLogs
<1>6. QED BY <1>1, <1>2, <1>3, <1>4, <1>5 DEF Next, PacketNext

LEMMA Invariance == Spec => []IInv
BY InitIInv, NextIInv, PTL DEF Spec

(* A registered probe's program is referenced by the module, at every step *)
(* of init, of each of its error paths and of exit.                        *)
THEOREM ProgramsHeld == Spec => []ProbeHasProgram
<1>1. IInv => ProbeHasProgram
  BY DEF IInv, ProbeHasProgram, HeldAt, On, Probes, Progs, ProgOf
<1>2. QED BY <1>1, Invariance, PTL

(* A failed init leaves nothing, a live module has everything.             *)
THEOREM InitAllOrNothing == Spec => []AllOrNothing
<1>1. IInv => AllOrNothing
  BY DEF IInv, AllOrNothing, HeldAt, On, Probes, Progs
<1>2. QED BY <1>1, Invariance, PTL

(* While the module is live no marked packet is logged.                    *)
THEOREM LiveHijacks == Spec => []LiveNeverLogs
<1>1. IInv => LiveNeverLogs
  BY DEF IInv
<1>2. QED BY <1>1, Invariance, PTL

(* A loader that ran to its end leaves no pin.                             *)
THEOREM PinsGone == Spec => []PinsRemoved
<1>1. IInv => PinsRemoved
  BY DEF IInv, PinsRemoved
<1>2. QED BY <1>1, Invariance, PTL
=============================================================================
