------------------------------ MODULE IptTrace ------------------------------
(***************************************************************************)
(* The iptables tracer, ebpf/iptables-trace.c: a kprobe on ipt_do_table or *)
(* nft_do_chain saves the call's arguments in skbtracer_ipt under the id   *)
(* of the current task, nf_log_trace reports the rules met on the way, and *)
(* the kretprobe reports the verdict with the saved arguments.             *)
(*                                                                         *)
(* The kernel is the environment.  A call runs in a task's context, in the *)
(* middle of other calls of that context when a softirq interrupts them or *)
(* a target sends a packet (REJECT).  The idle tasks of all CPUs have the  *)
(* same id, 0.  The probe layers run no handler inside of another on the   *)
(* same CPU, so a call that interrupts a program goes untraced.            *)
(***************************************************************************)
EXTENDS Naturals, Sequences, FiniteSets

CONSTANTS
  Tasks,       \* tasks, and CPUs in their idle task
  PidTgid,     \* the id of each
  MaxCalls,    \* bound on the calls of a behaviour
  MaxDepth,    \* bound on calls within calls
  Room         \* records the ring `events' has room for; none comes back

Kinds == {"ipt", "nft"}
Calls == 1..MaxCalls
None  == 0

ASSUME IdAssumption == PidTgid \in [Tasks -> Nat]
ASSUME BoundAssumption == MaxCalls \in Nat /\ MaxDepth \in Nat /\ Room \in Nat

Ids == {PidTgid[t] : t \in Tasks}

VARIABLES
  entry, return,  \* functions whose kprobe, whose kretprobe is registered
  stack,          \* the calls each task is in, the innermost last
  slot,           \* skbtracer_ipt: the call whose arguments are under an id
  room,           \* room left in the ring
  begun,          \* calls begun so far
  events,         \* [by, in, of]: call `by' of task `in' was reported with
                  \* the arguments of call `of'
  steals,         \* in this behaviour, another CPU may reuse an entry
                  \* between its deletion and its last read
  early,          \* calls begun before every probe was registered (auxiliary)
  outer,          \* calls another one ran inside of (auxiliary)
  silent          \* [by, in]: calls whose kretprobe reported nothing (auxiliary)

vars == <<entry, return, stack, slot, room, begun, events, steals, early, outer, silent>>

Top(t)      == stack[t][Len(stack[t])]
Pop(t)      == [stack EXCEPT ![t] = SubSeq(@, 1, Len(@) - 1)]
InProgram(t) == stack[t] # <<>> /\ Top(t).pc = "found"

(* Run attaches nft_do_chain's kprobe, then its kretprobe; the kernel      *)
(* module registers ipt_do_table's kretprobe, then its kprobe.             *)
Attach ==
  /\ \/ entry = {}      /\ return = {}      /\ entry' = {"nft"}       /\ UNCHANGED return
     \/ entry = {"nft"} /\ return = {}      /\ return' = {"nft"}      /\ UNCHANGED entry
     \/ entry = {"nft"} /\ return = {"nft"} /\ return' = {"nft", "ipt"} /\ UNCHANGED entry
     \/ entry = {"nft"} /\ return = Kinds   /\ entry' = Kinds         /\ UNCHANGED return
  /\ UNCHANGED <<stack, slot, room, begun, events, steals, early, outer, silent>>

(* Mutant: BPF_NOEXIST.                                                    *)
SaveIfNone(id, call) == IF slot[id] = None THEN [slot EXCEPT ![id] = call] ELSE slot

Save(id, call) == [slot EXCEPT ![id] = call]

(* A call of kind k begins; ipt_do_table_in and k_nft_do_chain save it.    *)
(* Whether its return will be seen is settled now.                         *)
Begin(t, k) ==
  /\ begun < MaxCalls /\ Len(stack[t]) < MaxDepth /\ ~InProgram(t)
  /\ begun' = begun + 1
  /\ stack' = [stack EXCEPT ![t] =
                 Append(@, [id |-> begun + 1, kind |-> k, ret |-> k \in return, pc |-> "running", got |-> None])]
  /\ slot' = IF k \in entry THEN Save(PidTgid[t], begun + 1) ELSE slot
  /\ early' = IF entry = Kinds THEN early ELSE begun + 1
  /\ outer' = IF stack[t] = <<>> THEN outer ELSE outer \cup {Top(t).id}
  /\ UNCHANGED <<entry, return, room, events, steals, silent>>

(* Mutant: the helper of the other programs.                               *)
NfLogTraceDeletes(t) ==
  /\ stack[t] # <<>> /\ Top(t).pc = "running" /\ Top(t).kind = "ipt"
  /\ entry = Kinds
  /\ slot[PidTgid[t]] # None /\ room > 0
  /\ room' = room - 1
  /\ slot' = [slot EXCEPT ![PidTgid[t]] = None]
  /\ UNCHANGED <<entry, return, stack, begun, events, steals, early, outer, silent>>

(* k_nf_log_trace, for a rule ipt_do_table meets: the saved arguments are  *)
(* asked for, but only to see that there are some.  Its kprobe is the last *)
(* the module registers, here together with ipt_do_table's.                *)
NfLogTrace(t) ==
  /\ stack[t] # <<>> /\ Top(t).pc = "running" /\ Top(t).kind = "ipt"
  /\ entry = Kinds
  /\ slot[PidTgid[t]] # None /\ room > 0
  /\ room' = room - 1
  /\ UNCHANGED <<entry, return, stack, slot, begun, events, steals, early, outer, silent>>

(* A return no kretprobe sees.                                             *)
ReturnUnseen(t) ==
  /\ stack[t] # <<>> /\ Top(t).pc = "running" /\ ~Top(t).ret
  /\ stack' = Pop(t)
  /\ UNCHANGED <<entry, return, slot, room, begun, events, steals, early, outer, silent>>

(* ipt_do_table_out, kr_nft_do_chain: bpf_map_lookup_and_delete is a       *)
(* lookup ...                                                              *)
Lookup(t) ==
  LET n == Len(stack[t]) IN
  /\ stack[t] # <<>> /\ Top(t).pc = "running" /\ Top(t).ret
  /\ IF slot[PidTgid[t]] = None
     THEN /\ stack' = Pop(t)
          /\ silent' = silent \cup {[by |-> Top(t).id, in |-> t]}
     ELSE /\ stack' = [stack EXCEPT ![t][n].pc = "found", ![t][n].got = slot[PidTgid[t]]]
          /\ UNCHANGED silent
  /\ UNCHANGED <<entry, return, slot, room, begun, events, steals, early, outer>>

(* Mutant: the entry stays.                                                *)
DropKeeps(id) == slot

Drop(id) == [slot EXCEPT ![id] = None]

(* ... and a deletion, after which the entry is still read.  The record is *)
(* reserved, reported from as a perf event, and discarded.                 *)
DeleteAndReport(t) ==
  /\ InProgram(t)
  /\ slot' = Drop(PidTgid[t])
  /\ stack' = Pop(t)
  /\ IF room = 0
     THEN silent' = silent \cup {[by |-> Top(t).id, in |-> t]} /\ UNCHANGED <<room, events>>
     ELSE /\ room' = room - 1
          /\ \E call \in {Top(t).got} \cup (IF steals THEN {slot[id] : id \in Ids} \ {None} ELSE {}) :
               events' = events \cup {[by |-> Top(t).id, in |-> t, of |-> call]}
          /\ UNCHANGED silent
  /\ UNCHANGED <<entry, return, begun, steals, early, outer>>

Init ==
  /\ entry = {} /\ return = {}
  /\ stack = [t \in Tasks |-> <<>>]
  /\ slot = [id \in Ids |-> None]
  /\ room = Room
  /\ begun = 0
  /\ events = {} /\ outer = {} /\ silent = {}
  /\ steals \in BOOLEAN /\ early = 0

Next ==
  \/ Attach
  \/ \E t \in Tasks :
       \/ \E k \in Kinds : Begin(t, k)
       \/ NfLogTrace(t) \/ ReturnUnseen(t) \/ Lookup(t) \/ DeleteAndReport(t)

Spec == Init /\ [][Next]_vars

-----------------------------------------------------------------------------
OwnId(t) == \A u \in Tasks \ {t} : PidTgid[u] # PidTgid[t]

(* Once every probe is registered no call of a task with an id of its own  *)
(* is reported with the arguments of another call, however calls nest:     *)
(* the call inside takes the entry over, and the one around goes silent.   *)
(* That is as long as no deleted entry is reused while it is read.         *)
EventIsOwn ==
  ~steals => \A e \in events : e.by > early /\ OwnId(e.in) => e.of = e.by

(* A call of such a task is reported unless another ran inside of it, or   *)
(* the ring is used up.                                                    *)
SilentForAReason ==
  \A c \in silent : c.by > early /\ OwnId(c.in) => c.by \in outer \/ room = 0

(* When every probe was registered before the first call, skbtracer_ipt    *)
(* has an entry only under an id some task is in a call with, idle CPUs    *)
(* that share their id and reused entries included.                        *)
NoEntryLeft ==
  early = 0 =>
    \A id \in Ids : slot[id] # None => \E t \in Tasks : PidTgid[t] = id /\ stack[t] # <<>>
=============================================================================
