---------------------------- MODULE EthtoolTrace ----------------------------
(***************************************************************************)
(* The ethtool tracer, ebpf/ethtool-trace.c.  A GET request passes three   *)
(* hooks: ethnl_default_doit notes its command, ethnl_parse_header_dev_get *)
(* where its request structure is, and the return of that function sends   *)
(* an event with both.  In between they wait in the one element that       *)
(* events_cache has for each CPU.  Other requests (SETs, dumps) pass the   *)
(* last two hooks only.  (An ioctl is reported by its one hook, from the   *)
(* stack.)                                                                 *)
(*                                                                         *)
(* The kernel is the environment.  A task sleeps for memory, or is         *)
(* preempted, between two hooks, and may go on on another CPU; no hook is  *)
(* interrupted by another.  Without preemption a task that entered         *)
(* ethnl_parse_header_dev_get, which never sleeps, returns from it before  *)
(* anything else runs on its CPU.  All hooks are attached.                 *)
(***************************************************************************)
CONSTANTS
  Tasks, Cpus,
  Cmds,      \* genetlink commands
  Devs,      \* names of network devices
  None,
  Freed      \* a pointer to a request that is over

VARIABLES
  call,      \* each task's request: where it is, its command and device
  on,        \* the CPU a task runs on, None between its requests
  cache,     \* events_cache (the process and the type are left out)
  preempt,   \* the kernel is preemptible
  noted,     \* the task whose ethnl_default_doit hook ran last on a CPU, and
  pointed    \* the one whose entry hook did, its call not over (auxiliary)

vars == <<call, on, cache, preempt, noted, pointed>>

NoCall == [pc |-> "idle", cmd |-> None, dev |-> None]

(* Mutant: BPF_MAP_TYPE_ARRAY.                                             *)
SlotShared(c) == CHOOSE d \in Cpus : TRUE
(* The element of the CPU.                                                 *)
Slot(c) == c

Inside(t) == call[t].pc \in {"parse", "found"}

RunsOn(t, c) == preempt \/ \A u \in Tasks \ {t} : on[u] = c => ~Inside(u)
Runs(t) == RunsOn(t, on[t])

Goto(t, label) == call' = [call EXCEPT ![t].pc = label]

(* kprobe/ethnl_default_doit.                                              *)
KpEthnlDoit(t) ==
  /\ call[t].pc = "idle"
  /\ \E c \in Cpus, cmd \in Cmds :
       /\ RunsOn(t, c)
       /\ on' = [on EXCEPT ![t] = c]
       /\ call' = [call EXCEPT ![t] = [pc |-> "begun", cmd |-> cmd, dev |-> None]]
       /\ cache' = [cache EXCEPT ![Slot(c)].cmd = cmd, ![Slot(c)].req = None]
       /\ noted' = [noted EXCEPT ![c] = t]
       /\ pointed' = [pointed EXCEPT ![c] = None]
  /\ UNCHANGED preempt

(* A request ethnl_default_doit does not handle.                           *)
OtherRequest(t) ==
  /\ call[t].pc = "idle"
  /\ \E c \in Cpus, cmd \in Cmds :
       /\ RunsOn(t, c)
       /\ on' = [on EXCEPT ![t] = c]
       /\ call' = [call EXCEPT ![t] = [pc |-> "begun", cmd |-> cmd, dev |-> None]]
  /\ UNCHANGED <<cache, preempt, noted, pointed>>

(* kprobe/ethnl_parse_header_dev_get.                                      *)
KpEthnlDev(t) ==
  /\ call[t].pc = "begun" /\ Runs(t)
  /\ Goto(t, "parse")
  /\ cache' = [cache EXCEPT ![Slot(on[t])].req = t]
  /\ pointed' = [pointed EXCEPT ![on[t]] = t]
  /\ UNCHANGED <<on, preempt, noted>>

(* The function stores the device the header names, if there is one.       *)
FindDev(t) ==
  /\ call[t].pc = "parse" /\ Runs(t)
  /\ \E dev \in Devs : call' = [call EXCEPT ![t] = [pc |-> "found", cmd |-> @.cmd, dev |-> dev]]
  /\ UNCHANGED <<on, cache, preempt, noted, pointed>>

(* __get_dev_name: through a request that is over it reads anything, or    *)
(* faults, which empties the name; with no device, or no request, the name *)
(* is what the last one left.                                              *)
DevNames(slot) ==
  IF slot.req = Freed THEN Devs \cup {slot.ifname, None}
  ELSE IF slot.req = None THEN {slot.ifname}
  ELSE IF call[slot.req].dev = None THEN {slot.ifname}
  ELSE {call[slot.req].dev}

(* kretprobe/ethnl_parse_header_dev_get completes the element and sends it *)
(* as it is then.  Elements of a per-CPU array cannot be deleted: the      *)
(* "del" of __get_and_del_event does nothing.                              *)
KrpEthnlDev(t) ==
  /\ Inside(t) /\ Runs(t)
  /\ Goto(t, "after")
  /\ \E name \in DevNames(cache[Slot(on[t])]) :
       cache' = [cache EXCEPT ![Slot(on[t])].ifname = name]
  /\ UNCHANGED <<on, preempt, noted, pointed>>

(* The request ends, before its header was looked at or after; its memory  *)
(* is freed.                                                               *)
EndRequest(t) ==
  /\ call[t].pc \in {"begun", "after"} /\ Runs(t)
  /\ call' = [call EXCEPT ![t] = NoCall]
  /\ on' = [on EXCEPT ![t] = None]
  /\ cache' = [c \in Cpus |-> IF cache[c].req = t THEN [cache[c] EXCEPT !.req = Freed] ELSE cache[c]]
  /\ noted' = [c \in Cpus |-> IF noted[c] = t THEN None ELSE noted[c]]
  /\ pointed' = [c \in Cpus |-> IF pointed[c] = t THEN None ELSE pointed[c]]
  /\ UNCHANGED preempt

Migrate(t) ==
  /\ call[t].pc = "begun" \/ (preempt /\ Inside(t))
  /\ \E c \in Cpus \ {on[t]} : on' = [on EXCEPT ![t] = c]
  /\ UNCHANGED <<call, cache, preempt, noted, pointed>>

Init ==
  /\ call = [t \in Tasks |-> NoCall]
  /\ on = [t \in Tasks |-> None]
  /\ cache = [c \in Cpus |-> [cmd |-> None, ifname |-> None, req |-> None]]
  /\ preempt \in BOOLEAN
  /\ noted = [c \in Cpus |-> None]
  /\ pointed = [c \in Cpus |-> None]

Next ==
  \E t \in Tasks :
    \/ KpEthnlDoit(t) \/ OtherRequest(t) \/ KpEthnlDev(t) \/ FindDev(t) \/ KrpEthnlDev(t)
    \/ EndRequest(t) \/ Migrate(t)

Spec == Init /\ [][Next]_vars

-----------------------------------------------------------------------------
(* The step that sends an event for t's request, and the event.            *)
Sends(t) == Inside(t) /\ call'[t].pc = "after"
Sent(t)  == cache'[Slot(on[t])]

(* An event names the device its own request found, and not one of another *)
(* task's, an earlier or a freed request: always on a kernel without       *)
(* preemption, wherever the request slept or went before its header was    *)
(* parsed; with preemption, if it returned to the CPU it had entered on    *)
(* and no other request began or entered there meanwhile.                  *)
OwnDevice ==
  \A t \in Tasks :
    Sends(t) /\ call[t].dev # None /\ (~preempt \/ pointed[on[t]] = t) => Sent(t).ifname = call[t].dev

(* An event of a GET that is on the CPU it began on, with no other GET     *)
(* begun there since, carries its own command.                             *)
OwnCommand ==
  \A t \in Tasks : Sends(t) /\ noted[on[t]] = t => Sent(t).cmd = call[t].cmd

-----------------------------------------------------------------------------
(* The inductive invariant behind the theorems of TracerProofs.            *)
Requests ==
  [pc: {"idle", "begun", "parse", "found", "after"},
   cmd: Cmds \cup {None}, dev: Devs \cup {None}]

Elements ==
  [cmd: Cmds \cup {None}, ifname: Devs \cup {None}, req: Tasks \cup {None, Freed}]

TypeOK ==
  /\ call \in [Tasks -> Requests]
  /\ on \in [Tasks -> Cpus \cup {None}]
  /\ \A t \in Tasks : call[t].pc # "idle" => on[t] \in Cpus
  /\ cache \in [Cpus -> Elements]
  /\ preempt \in BOOLEAN
  /\ noted \in [Cpus -> Tasks \cup {None}]
  /\ pointed \in [Cpus -> Tasks \cup {None}]

(* What the element holds belongs to the task that wrote it last, ...      *)
NotedCommand ==
  \A c \in Cpus, t \in Tasks :
    noted[c] = t => call[t].pc # "idle" /\ cache[c].cmd = call[t].cmd
PointedRequest == \A c \in Cpus, t \in Tasks : pointed[c] = t => cache[c].req = t

(* ... which without preemption is the one inside the function.            *)
InsideIsPointed == ~preempt => \A t \in Tasks : Inside(t) => pointed[on[t]] = t

IInv == TypeOK /\ NotedCommand /\ PointedRequest /\ InsideIsPointed
=============================================================================
