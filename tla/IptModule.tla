----------------------------- MODULE IptModule -----------------------------
(***************************************************************************)
(* The kernel module kernel/iptables-trace.c and the program that loads it *)
(* (pkg/iptables): the loader pins three BPF programs in bpffs and runs    *)
(* insmod; the module takes a reference to each pinned program, registers  *)
(* the probes that run them and, when a step fails, unwinds the ones       *)
(* before it; rmmod undoes all of it.  Meanwhile packets walk the tables   *)
(* on other CPUs: a probe on the way in sets nf_trace on the packet, and   *)
(* the probe on nf_log_trace keeps the kernel from logging it.             *)
(***************************************************************************)
EXTENDS Naturals, FiniteSets

CONSTANTS
  Packets,      \* packets under way at a time
  MaxRuns       \* how often the loader is started

ASSUME MaxRunsAssumption == MaxRuns \in Nat

Progs  == {"entry", "exit", "trace"}
Probes == {"krp_ipt", "krp_ip6t", "kp_ipt", "kp_ip6t", "kp_log"}

(* The program a probe's handler runs.                                     *)
ProgOf(k) ==
  CASE k \in {"kp_ipt", "kp_ip6t"}   -> "entry"
    [] k \in {"krp_ipt", "krp_ip6t"} -> "exit"
    [] k = "kp_log"                  -> "trace"

VARIABLES
  run,         \* where the loader is
  runs,        \* how often it was started
  mine,        \* programs this process has pinned
  cancelled,   \* its context is done: SIGINT or SIGTERM
  killed,      \* some process ended without running its deferred calls
  askedByHand, \* a process asked the user to rmmod
  pins,        \* programs pinned in bpffs
  mod,         \* where the module is
  have,        \* have_ip6t_do_table
  held,        \* programs the module holds a reference to
  probes,      \* registered probes
  pkt,         \* packets
  logged       \* where `mod' was when a marked packet was last logged, if ever

loader == <<run, runs, mine, cancelled, killed, askedByHand, pins>>
module == <<mod, have, held, probes>>
vars   == <<loader, module, pkt, logged>>

-----------------------------------------------------------------------------
(* ipt_trace_init: one action per call that can fail or that other CPUs    *)
(* can see.                                                                *)
GetProg(p, here, next, deps) ==
  /\ mod = here
  /\ \/ p \in pins /\ held' = held \cup {p} /\ mod' = next
     \/ held' = held \ deps /\ mod' = "failed"     \* bpf_prog_put of the earlier ones
  /\ UNCHANGED <<have, probes>>

(* Mutant: any probe may be missing, as krp_ip6t_do_tables may.            *)
RegisterLax(k, here, next, undo) ==
  /\ mod = here
  /\ \/ probes' = probes \cup {k} /\ mod' = next
     \/ probes' = probes /\ mod' \in {next, undo}
  /\ UNCHANGED <<have, held>>

Register(k, here, next, undo) ==
  /\ mod = here
  /\ \/ probes' = probes \cup {k} /\ mod' = next
     \/ probes' = probes /\ mod' = undo
  /\ UNCHANGED <<have, held>>

Unregister(k, here, next) ==
  /\ mod = here
  /\ mod' = next
  /\ probes' = probes \ {k}
  /\ UNCHANGED <<have, held>>

(* Mutant: the error path forgets the probe before it.                     *)
RegisterKrpIp6tKeeps ==
  /\ mod = "krp_ip6t"
  /\ \/ probes' = probes \cup {"krp_ip6t"} /\ have' = TRUE /\ mod' = "kp_ipt"
     \/ probes' = probes /\ have' = FALSE /\ mod' = "kp_ipt"
     \/ UNCHANGED <<probes, have>> /\ mod' = "put"
  /\ UNCHANGED held

(* krp_ip6t_do_tables may be missing from the kernel: -ENOENT is no error. *)
RegisterKrpIp6t ==
  /\ mod = "krp_ip6t"
  /\ \/ probes' = probes \cup {"krp_ip6t"} /\ have' = TRUE /\ mod' = "kp_ipt"
     \/ probes' = probes /\ have' = FALSE /\ mod' = "kp_ipt"
     \/ probes' = probes \ {"krp_ipt"} /\ UNCHANGED have /\ mod' = "put"
  /\ UNCHANGED held

(* Mutant: the wrong label.                                                *)
RegisterIp6tJumps ==
  IF have THEN Register("kp_ip6t", "kp_ip6t", "kp_log", "undo_krp_ipt")
  ELSE mod = "kp_ip6t" /\ mod' = "kp_log" /\ UNCHANGED <<have, held, probes>>

(* register_ip6t_do_tables(false), unregister_ip6t_do_tables: nothing when *)
(* the kernel has no ip6t_do_table.                                        *)
RegisterIp6t ==
  IF have THEN Register("kp_ip6t", "kp_ip6t", "kp_log", "undo_kp_ipt")
  ELSE mod = "kp_ip6t" /\ mod' = "kp_log" /\ UNCHANGED <<have, held, probes>>

UnregisterIp6t(k, here, next) ==
  IF have THEN Unregister(k, here, next)
  ELSE mod = here /\ mod' = next /\ UNCHANGED <<have, held, probes>>

PutProgs(here, next) ==
  /\ mod = here
  /\ mod' = next
  /\ held' = {}
  /\ UNCHANGED <<have, probes>>

Init1 ==
  \/ GetProg("entry", "get_entry", "get_exit", {})
  \/ GetProg("exit",  "get_exit",  "get_trace", {"entry"})
  \/ GetProg("trace", "get_trace", "krp_ipt", {"entry", "exit"})
  \/ Register("krp_ipt", "krp_ipt", "krp_ip6t", "put")
  \/ RegisterKrpIp6t
  \/ Register("kp_ipt", "kp_ipt", "kp_ip6t", "undo_krp_ipt")
  \/ RegisterIp6t
  \/ Register("kp_log", "kp_log", "live", "undo_kp_ipt_log")

(* The goto labels, in the order of the code.                              *)
InitUndo ==
  \/ Unregister("kp_ipt", "undo_kp_ipt", "undo_krp_ipt")
  \/ Unregister("kp_ipt", "undo_kp_ipt_log", "undo_kp_ip6t")
  \/ UnregisterIp6t("kp_ip6t", "undo_kp_ip6t", "undo_krp_ipt")
  \/ Unregister("krp_ipt", "undo_krp_ipt", "undo_krp_ip6t")
  \/ UnregisterIp6t("krp_ip6t", "undo_krp_ip6t", "put")
  \/ PutProgs("put", "failed")

(* ipt_trace_exit.                                                         *)
ModuleExit ==
  \/ Unregister("kp_ipt", "exit_kp_ipt", "exit_kp_ip6t")
  \/ UnregisterIp6t("kp_ip6t", "exit_kp_ip6t", "exit_kp_log")
  \/ Unregister("kp_log", "exit_kp_log", "exit_krp_ipt")
  \/ Unregister("krp_ipt", "exit_krp_ipt", "exit_krp_ip6t")
  \/ UnregisterIp6t("krp_ip6t", "exit_krp_ip6t", "exit_put")
  \/ PutProgs("exit_put", "absent")

ModuleNext ==
  /\ Init1 \/ InitUndo \/ ModuleExit
  /\ UNCHANGED <<loader, pkt, logged>>

RmmodByHand ==
  /\ mod = "live"
  /\ mod' = "exit_kp_ipt"
  /\ UNCHANGED <<loader, have, held, probes, pkt, logged>>

-----------------------------------------------------------------------------
(* The loader.                                                             *)
Start ==
  /\ run = "idle" /\ runs < MaxRuns
  /\ run' = "pin_entry" /\ runs' = runs + 1
  /\ mine' = {} /\ cancelled' = FALSE
  /\ UNCHANGED <<killed, askedByHand, pins, module, pkt, logged>>

(* Mutant: the errors of Pin return without unpinAll.                      *)
PinLeaks(p, here, next) ==
  /\ run = here
  /\ \/ p \notin pins /\ pins' = pins \cup {p} /\ mine' = mine \cup {p} /\ run' = next
     \/ UNCHANGED <<pins, mine>> /\ run' = "idle"
  /\ UNCHANGED <<runs, cancelled, killed, askedByHand, module, pkt, logged>>

(* A pin that is still there from an earlier run fails with EEXIST; bpffs  *)
(* may be missing.                                                         *)
Pin(p, here, next) ==
  /\ run = here
  /\ \/ p \notin pins /\ pins' = pins \cup {p} /\ mine' = mine \cup {p} /\ run' = next
     \/ UNCHANGED <<pins, mine>> /\ run' = "unpin"
  /\ UNCHANGED <<runs, cancelled, killed, askedByHand, module, pkt, logged>>

(* The kernel refuses a module that is already loaded.                     *)
Insmod ==
  /\ run = "insmod"
  /\ IF mod = "absent"
     THEN run' = "waiting" /\ mod' = "get_entry" /\ have' = FALSE
     ELSE run' = "unpin" /\ UNCHANGED <<mod, have>>
  /\ UNCHANGED <<runs, mine, cancelled, killed, askedByHand, pins, held, probes, pkt, logged>>

(* insmod ends: the module's init has returned.                            *)
InsmodDone ==
  /\ run = "waiting"
  /\ \/ mod = "live" /\ run' = "up" /\ UNCHANGED mod
     \/ mod = "failed" /\ run' = "unpin" /\ mod' = "absent"
  /\ UNCHANGED <<runs, mine, cancelled, killed, askedByHand, pins, have, held, probes, pkt, logged>>

(* An init whose insmod outlived its loader.                               *)
OrphanFailed ==
  /\ mod = "failed" /\ run # "waiting"
  /\ mod' = "absent"
  /\ UNCHANGED <<loader, have, held, probes, pkt, logged>>

Signal ==
  /\ run # "idle" /\ ~cancelled
  /\ cancelled' = TRUE
  /\ UNCHANGED <<run, runs, mine, killed, askedByHand, pins, module, pkt, logged>>

(* Run leaves `<-ctx.Done()'; its deferred function unpins ...             *)
CtxDone ==
  /\ run = "up" /\ cancelled
  /\ run' = "unpin_up"
  /\ UNCHANGED <<runs, mine, cancelled, killed, askedByHand, pins, module, pkt, logged>>

(* Unpin removes a pin this object made, nothing otherwise.                *)
Unpin(p) ==
  /\ run \in {"unpin", "unpin_up"} /\ p \in mine
  /\ pins' = pins \ {p} /\ mine' = mine \ {p}
  /\ UNCHANGED <<run, runs, cancelled, killed, askedByHand, module, pkt, logged>>

(* ... and, unless the context is done, removes the module.                *)
Rmmod ==
  IF cancelled
  THEN UNCHANGED <<mod, askedByHand>>
  ELSE IF mod = "live" THEN mod' = "exit_kp_ipt" /\ UNCHANGED askedByHand
                       ELSE askedByHand' = TRUE /\ UNCHANGED mod

Return ==
  /\ run \in {"unpin", "unpin_up"} /\ mine = {}
  /\ run' = "idle"
  /\ IF run = "unpin_up" THEN Rmmod ELSE UNCHANGED <<mod, askedByHand>>
  /\ UNCHANGED <<runs, mine, cancelled, killed, pins, have, held, probes, pkt, logged>>

(* SIGKILL, log.Fatal elsewhere in the process, or a main that returns     *)
(* without waiting.                                                        *)
Kill ==
  /\ run # "idle"
  /\ run' = "idle" /\ killed' = TRUE /\ mine' = {}
  /\ UNCHANGED <<runs, cancelled, askedByHand, pins, module, pkt, logged>>

LoaderNext ==
  \/ Start
  \/ Pin("entry", "pin_entry", "pin_exit")
  \/ Pin("exit", "pin_exit", "pin_trace")
  \/ Pin("trace", "pin_trace", "insmod")
  \/ Insmod \/ InsmodDone \/ OrphanFailed \/ Signal \/ CtxDone
  \/ \E p \in Progs : Unpin(p)
  \/ Return \/ Kill

-----------------------------------------------------------------------------
(* A packet enters ipt_do_table or ip6t_do_table: __kprobe_prehandler_entry*)
(* marks it.  The mark stays with the packet from table to table.          *)
Enter(p) ==
  /\ pkt[p] \in {"clean", "marked"}
  /\ \E k \in {"kp_ipt", "kp_ip6t"} :
       pkt' = [pkt EXCEPT ![p] =
                 IF k \in probes \/ pkt[p] = "marked" THEN "marked_in" ELSE "clean_in"]
  /\ UNCHANGED <<loader, module, logged>>

(* A rule matches a marked packet: the kernel calls nf_log_trace, and      *)
(* __kprobe_prehandler_trace makes the call do nothing.                    *)
NfLogTrace(p) ==
  /\ pkt[p] = "marked_in"
  /\ logged' = IF "kp_log" \in probes THEN logged ELSE mod
  /\ UNCHANGED <<loader, module, pkt>>

Leave(p) ==
  /\ pkt[p] \in {"clean_in", "marked_in"}
  /\ pkt' = [pkt EXCEPT ![p] = IF pkt[p] = "marked_in" THEN "marked" ELSE "clean"]
  /\ UNCHANGED <<loader, module, logged>>

(* The packet is gone and a new one takes its place.                       *)
Renew(p) ==
  /\ pkt[p] = "marked"
  /\ pkt' = [pkt EXCEPT ![p] = "clean"]
  /\ UNCHANGED <<loader, module, logged>>

PacketNext == \E p \in Packets : Enter(p) \/ NfLogTrace(p) \/ Leave(p) \/ Renew(p)

Init ==
  /\ run = "idle" /\ runs = 0 /\ mine = {} /\ pins = {}
  /\ cancelled = FALSE /\ killed = FALSE /\ askedByHand = FALSE
  /\ mod = "absent" /\ have = FALSE /\ held = {} /\ probes = {}
  /\ pkt = [p \in Packets |-> "clean"]
  /\ logged = "never"

Next == ModuleNext \/ RmmodByHand \/ LoaderNext \/ PacketNext

Spec == Init /\ [][Next]_vars

-----------------------------------------------------------------------------
(* No handler runs a program the module does not hold: a registered probe, *)
(* in the middle of any unwinding too, has its program's reference.        *)
ProbeHasProgram == \A k \in probes : ProgOf(k) \in held

(* Whatever step of init fails, nothing of it stays: a module that is not  *)
(* there has no probe and no reference, one that is live has all its       *)
(* probes, the ones on ip6t_do_table in a pair.                            *)
AllOrNothing ==
  /\ mod \in {"absent", "failed"} => probes = {} /\ held = {}
  /\ mod = "live" =>
       /\ held = Progs
       /\ probes = IF have THEN Probes ELSE Probes \ {"krp_ip6t", "kp_ip6t"}

(* While the module is live, marking packets floods no log: every trace of *)
(* a marked packet is hijacked, of packets marked by a former load too.    *)
LiveNeverLogs == logged # "live"

(* A loader that was not killed leaves no pin behind, so that the next one *)
(* does not fail with EEXIST.                                              *)
PinsRemoved == run = "idle" /\ ~killed => pins = {}

(* run.go:80-86: once Run has returned the module is gone, or the user was *)
(* asked to "run `sudo rmmod iptables-trace` by hand".                     *)
ModuleRemoved ==
  run = "idle" /\ ~killed => mod \in {"absent", "failed"} \/ askedByHand

-----------------------------------------------------------------------------
(* The inductive invariant: the position in the code says which programs   *)
(* are held and which probes are registered, and pins are the pinner's.    *)
On(k) ==
  LET krp  == {"kp_ipt", "kp_ip6t", "kp_log", "live", "undo_kp_ipt", "undo_kp_ipt_log",
               "undo_kp_ip6t", "undo_krp_ipt", "exit_kp_ipt", "exit_kp_ip6t", "exit_kp_log",
               "exit_krp_ipt"}
  IN  CASE k = "krp_ipt"  -> krp \cup {"krp_ip6t"}
        [] k = "krp_ip6t" -> krp \cup {"undo_krp_ip6t", "exit_krp_ip6t"}
        [] k = "kp_ipt"   -> {"kp_ip6t", "kp_log", "live", "undo_kp_ipt", "undo_kp_ipt_log",
                              "exit_kp_ipt"}
        [] k = "kp_ip6t"  -> {"kp_log", "live", "undo_kp_ipt_log", "undo_kp_ip6t",
                              "exit_kp_ipt", "exit_kp_ip6t"}
        [] k = "kp_log"   -> {"live", "exit_kp_ipt", "exit_kp_ip6t", "exit_kp_log"}

HeldAt(m) ==
  IF m \in {"absent", "failed", "get_entry"} THEN {}
  ELSE IF m = "get_exit" THEN {"entry"}
  ELSE IF m = "get_trace" THEN {"entry", "exit"}
  ELSE Progs

IInv ==
  /\ have \in BOOLEAN
  /\ held = HeldAt(mod)
  /\ probes = {k \in Probes : mod \in On(k) /\ (k \in {"krp_ip6t", "kp_ip6t"} => have)}
  /\ ~killed => pins = mine
  /\ run = "idle" => mine = {}
  /\ LiveNeverLogs
=============================================================================
