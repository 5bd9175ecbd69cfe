# network-trace: specifications, model checking and proofs

network-trace is a host tracer. BPF programs hooked into the kernel follow TCP
connections and the tables a packet walks; a Go process loads them, reads their
events and prints them. Nearly everything that can go wrong in it goes wrong
between hooks: they run on several CPUs, on sockets whose addresses and tuples
are reused, and they talk to each other through maps whose operations are atomic
one by one and never together. That is what these modules are about.

Paths below are relative to the repository (`src/`).

## 1. The system

| component | code | state | operations |
|---|---|---|---|
| connection tracer | `ebpf/tcp-link-trace.c`, `ebpf/headers/common.h`, `ebpf/headers/bpf/map_helpers.h` | `fd_info_map` (per stack id), `conn_tracing_map` (per `struct sock *`), `conn_ctx_map` (per address tuple), the ring `events` | fentry/fexit of `__sys_connect`, fexit of `do_accept`, kprobes on `tcp_set_state`, `tcp_v{4,6}_destroy_sock`, `handle_new_connection` |
| ring buffer guard | `ebpf/headers/bpf/bpf_cleanup.h` | a guard on the stack (`data`, `err`), the ring's records | `guard_ring_buf` and its destructor |
| connection report | `ebpf/headers/common.h` (`set_conn_info`), `pkg/tcp/tcp-trace.go` | the event, the reader, the context | read, orient, skip, print, close on signal |
| iptables tracer | `ebpf/iptables-trace.c` | `skbtracer_ipt` (per task id), the ring used as scratch | kprobe and kretprobe of `ipt_do_table` and `nft_do_chain`, kprobe of `nf_log_trace` |
| iptables kernel module and loader | `kernel/iptables-trace.c`, `pkg/iptables/*.go` | pins in bpffs, the module's probes and program references, `nf_trace` of packets | pin, insmod, init and its unwinding, exit, unpin, rmmod |
| process lifecycle | `cmd/ebpf/main.go`, `pkg/tcp`, `pkg/nftables/nft-trace.go`, `utils/attach`, `utils/nft/nft.go` | goroutines, their contexts, the map handed over, `Et_Table` in the kernel | start, hand over, attach, detach, signal, die |
| nftables tracer and its reader | `ebpf/nftrace-trace.c`, `ebpf/headers/nftrace.h`, `pkg/nftables/nft-trace.go`, `main.go` (the launcher) | a ring, a copy of `conn_ctx_map`'s descriptor | the launcher picks the build for the kernel; `nft_trace_packet`, role lookup; read, skip, print |
| nftables trace decoding | `pkg/nftrace/*.go` | none | numbers to names |
| nftables rule cache | `pkg/nftables/nft.go` | maps of tables, chains and rules | poll `nft --json list`, reset, fill |
| nft JSON model | `utils/nft/*.go` | none | encode, decode |
| ethtool tracer | `ebpf/ethtool-trace.c` | `events_cache`, one element per CPU | a netlink request begins, its header is parsed, the parsing returns; an ioctl |
| unix socket tracer | `ebpf/unix-sock-trace.c` | `packets`, one element per CPU | match the path of a message, send its segments |
| XDP tracer | `ebpf/xdp-trace.c`, `ebpf/headers/tc_dump.h`, `pkg/xdp` | none | parse a frame |
| symbol lookup | `utils/trace/ksym.go`, `utils/socketrace/ksym.go` | the sorted slice of symbols | read, sort, search |
| signal decoding | `pkg/process/sig.go` | none | bit masks to names |

**How they interact.** `main` starts `tcp.Run` and `nftables.Run` as goroutines.
The first loads the connection tracer and hands its `conn_ctx_map` over an
unbuffered channel; the second loads the nftables tracer *with that map in place
of its own*, so that a packet of a trace can be given the role the connection
tracer found. Both attach their programs with `AttachAll` and each reads its own
ring. The iptables tracer is a program of its own: its BPF programs reach the
kernel functions through pins in bpffs and an out-of-tree kernel module that
registers kprobes and runs the pinned programs from their handlers. Every BPF
program that produces a record to a ring buffer does so through the ring buffer guard. The ethtool and unix
socket tracers have no loader on the Go side: they are programs of their own and
share nothing with the rest.

**What is hard here, and what makes each part correct.**

* *Connection tracer.* Calls of several threads share one `fd_info_map` entry;
  `conn_tracing_map` is keyed by an address the slab reuses and `conn_ctx_map` by
  a tuple that changes while the socket lives; the fexit hook of connect runs
  after the socket lock is gone, next to `tcp_set_state` hooks on other CPUs.
  Correct: a role that is reported is the socket's, it is not lost again, an
  entry goes when its socket goes.
* *Guard.* A record is settled on every way out, once, by what really happened;
  half a record is never read.
* *Attachment.* Hooks appear one by one while the host works; what is learned in
  that window without the hooks that forget it must not stay wrong for ever.
* *Report.* Nothing lost, duplicated or out of order; the two ends of a line are
  the socket's two ends; a signal ends a blocked reader.
* *iptables tracer.* An event carries the arguments of its own call although
  calls nest and the key is a task id.
* *ethtool tracer.* Between a request's entry and its return the event waits in an
  element of the CPU, whose deletion does nothing, and the request may sleep, be
  preempted and go on elsewhere. An event tells of its own request.
* *unix socket tracer.* A kprobe and a fentry program of every message, and those of
  the tasks that preempt it, build their packets in one element. A packet is about
  one message; a watched socket's message is reported, another's is not.
* *Module and loader.* Each of eight init steps and of the loader's four may fail
  and is undone; no probe runs a program without its reference; hijacking the log
  is in force when packets are marked.
* *nftables tracer.* A line says nothing of another packet although the record's
  memory is used again; the evaluation of a rule for a local packet is printed;
  the build that runs expects the arguments this kernel passes.
* *Symbol lookup.* The nearest symbol at or below the address, with aliases and
  with a file in any order; the search ends.
* *Lifecycle.* The start does not wedge; the signal ends the process; a second
  start copes with what a dead process left.

`PROJECT.json` lists the hazards one by one with the line where each bites.

## 2. The modules

| module | models | proofs | runs |
|---|---|---|---|
| `BpfMap` | operators of the BPF hash maps: update with `BPF_ANY`, `BPF_NOEXIST`, deletion, a full map | | |
| `TcpLink` | connection tracer, the kernel's sockets as environment | `TcpLinkProofs` | `tcp_two_tasks`, `tcp_one_task`, `tcp_fd_info` |
| `ConnRoles` | abstract: what the connection tracer promises of one socket address; implemented by `TcpLink` | `TcpLinkProofs` | `tcp_one_task` |
| `TcpAttach` | `AttachAll` over the programs of `TcpLink`, and the host's steps while hooks are missing | `TcpLinkProofs` | `tcp_attach` |
| `RingGuard` | ring buffer guard and the ring | `RingGuardProofs` | `ring_guard` |
| `TcpReport` | `set_conn_info` to the printed line | `TcpReportProofs` | `tcp_report` |
| `IptTrace` | iptables tracer, nested calls as environment | `TracerProofs` | `tracers` |
| `EthtoolTrace` | ethtool tracer, netlink requests as environment | `TracerProofs` | `tracers` |
| `UnixSock` | unix socket tracer on one CPU | `TracerProofs` | `tracers` |
| `Tracers` | composition: `IptTrace`, `EthtoolTrace` or `UnixSock`, one in a behaviour | `TracerProofs` | `tracers` |
| `IptModule` | module, loader, packets | `IptModuleProofs` | `ipt_module`, `ipt_rmmod` |
| `NftTrace` | launcher's choice of a build, nftables tracer, the ring's memory, the reader; implements `RingGuard` | `NftTraceProofs` | `nft_trace` |
| `SymbolLookup` | `GetAddrs` and `FindNearestSym` | `SymbolLookupProofs` | `symbol_lookup` |
| `Lifecycle` | goroutines, contexts, hand-over, `Et_Table` | `LifecycleProofs` | `lifecycle` |

`MC*` modules name the model values of the runs. A definition whose comment
begins with "Mutant:" is a plausible bug, used to see that a property notices it;
no specification refers to one.

### TcpLink

`tracing`, `ctx`, `fdInfo` and `ring` are the maps and the ring. `sk` is the
kernel's view of each socket: its kind (connecting, listening, accepted child),
TCP state, tuple, whether a file refers to it, and how far a hook on it has got.
`pc`, `at` and `target` say where each thread is in a system call.

| actions | code |
|---|---|
| `FentrySysConnect`, `FentrySysConnectFile` | fentry of `__sys_connect` and `__sys_connect_file`: a fresh entry in `fd_info_map`, then the file and the tuple's role |
| `LockSock`, `FexitTcpV4Connect` | fentry of `tcp_v6_connect` and fexit of `tcp_v4_connect`, inside the socket lock |
| `FexitSysConnect`, `FexitSysConnectDelete`, `FexitSysConnectLookup`, `FexitSysConnectUpdate`, `FexitSysConnectCtx` | fexit of `__sys_connect`, which runs without the socket lock, so that each of its map operations is a step: find the entry, delete it, read the file out of it, `bpf_map_lookup_or_try_init` in two steps, the tuple's role |
| `FentrySysAccept4`, `InetCskAccept`, `FexitDoAccept`, `FexitSysAccept4` | the hooks of accept |
| `Enter`, `SetStateDirect`, `SetStateOther`, `SetStateExit` | `k_set_state`, in the stretches other CPUs can interleave with: two `BPF_NOEXIST` inserts; the role a transition proves and its event, or the role known before and its event; the deletion at `CLOSE` |
| `KDestroySock`, `TpDestroySock`, `TcpClose` | kprobe, raw tracepoint and tracepoint of destruction; fexit of `tcp_close`, which misreads its arguments |
| `Consume` | user space takes an event |
| `KernelSetState`, `NewSocket`, `Listen`, `NewChild`, `ConnectSynSent`, `ConnectPortPicked`, `ConnectFails` | the kernel: sockets made at addresses that come back, the state machine, ports picked after `SYN_SENT` and given back at `CLOSE` |

Abstractions: the id of a context value, timestamps and byte counts are left out;
an address and port of the far end is one value; the bytes `get_conn_key` leaves
unset are a value from `Residues`. A key is otherwise the tuple the code reads,
at the time it reads it. `learned` and an event's `kind` are auxiliary: no guard
reads them.

### ConnRoles

For one socket address: the side its socket is on, whether it is up, and the side
the tracer knows. What is known is learned from nothing or forgotten when the
connection is over; it is never the other side, and never the next socket's.
`TcpLink!Promise(s)` maps the kernel's socket and `conn_tracing_map` to it
(`UNKNOWN` is not knowing), and `KeepsRoles` says that every step of `TcpLink` is a
step or a stutter of `ConnRoles` for every address. It holds for one system call at
a time.

### TcpAttach

`Groups` are the four loops of `AttachAll` (fentry and fexit, kprobes, tracepoints,
raw tracepoints), in that order; `AttachOne` is a turn of one of them, in any order
within the group, as a Go map gives it. A step of the host whose hook is not
attached is a `Bare...` action: the kernel does it and no map changes. An fexit
program misses the calls that are already inside the function: `missed` has them.
Attaching never stops half way, since `AttachAll`'s error ends the process; there is
no detaching step, since the maps end with the programs.

What the module shows: in the window `NonClientEntriesLive`, `ServerRoleIsTrue` and
`RoleTruthful` really do fail, with one task (a listener's `SERVER` outlives it
while the destroy hooks are missing, and the next socket of the address inherits
it). `LearnedRoleKept` does not. And the wrong entries do not stay: after the last
hook is on and the calls then under way have returned, the first destruction at an
address leaves it right for good (`HealedRoleTrue`). No hook reads `conn_ctx_map`, so
the run gives it no room.

### RingGuard

One action each for reserve, fill, setting the code, and the destructor, per CPU;
`Read` is the kernel's consumer position moving over a settled record. `use`
tells the two ways the header is used apart: records that are read, and
`iptables-trace.c`'s, which never set `SUCCESS` and whose ring has no reader.

### TcpReport

`Submit` applies `set_conn_info`, with its rejection of unset IPv4 ends and its
opposite treatment of the two families; `Read`, `ReadFails`, `ReadClosed` and
`Check` are the loop of `handlePerfEvent`, whose `continue` skips the look at the
context and whose read errors fall through to decoding an empty sample.

### IptTrace

Each task has a stack of calls in progress; `skbtracer_ipt` is a function from
task ids to the call whose arguments it holds. Lookup and deletion are two steps,
and the deleted entry is read after that. Whether another CPU may take a deleted
entry in that window (`steals`) is chosen once per behaviour, so that the
statement for behaviours without it can be made. Idle CPUs share the id 0.

### EthtoolTrace

`KpEthnlDoit`, `KpEthnlDev` and `KrpEthnlDev` are the three hooks of a GET; a SET or a
dump passes the last two (`OtherRequest`). `FindDev`, `EndRequest` and `Migrate` are
the kernel: the device is stored in the request, the request ends and its memory is
used again, a task that sleeps or is preempted goes on on another CPU. `preempt` is
chosen once per behaviour. The hook of an ioctl sends its event from the stack and
changes no state. `noted` and `pointed` are auxiliary: whose hooks ran last on a CPU.

Limits of the code that the properties step around, since no comment contradicts
them: an event of a request that found no device has the name the last one left; the
event of a SET or a dump has the command of the CPU's last GET;
`ETHTOOL_PERQUEUE`'s sub-command is replaced by the return code of the read.

### UnixSock

A kprobe program runs to its end (`Kprobe`); a fentry program of the same message is
a step per change of the element (`FentryBegin` to `OutputPkt`), because a task that
preempts it on its CPU sends messages too. `IsPathMatched` is the comparison in words
over a buffer that keeps, behind the path's end, what it held (`ReadStr`). `WORD` and
`PathMax` scale the 8 and 108 bytes down to 2 and 5: whole words and half a word at
the end in both. Left out: the filter by pid and CPUs above 1023, which have no
element (they only switch the programs off), lengths, the peer's pid, and the
leading zero of abstract names.

### Tracers

The iptables, ethtool and unix socket tracers share nothing and are loaded by processes
of their own, so a behaviour of `Tracers` is one of `IptTrace`, one of `EthtoolTrace`
or one of `UnixSock`, and the variables of the other two stay `NULL`. It names the
properties the run checks and the theorems state, and the assumptions both need.

### IptModule

`mod` is the position in `ipt_trace_init`, one of its error labels, or
`ipt_trace_exit`; `run` the position in `Run` and `insmod`. Packets walk the
tables meanwhile.

### NftTrace

`Init` picks the build as `findFirstSmaller` does; then `Reserve`, `Fill`,
`Settle` and `guard_ring_buf_destructor` per CPU are `kprobe_nft_trace_packet`,
and `Read` is the goroutine of `nftables.Run`. The ring's memory is `Slots`
records that keep what they held, with a header each: `Memset` is the zeroing
without which a line would show another packet. `Fails` has the checks that end
with `CLEAN_ERR_FAILED`, `Filled` what is copied when none does, each field's value
being the packet it came from. A build for another layout of `nft_trace_packet`'s
arguments reads through wrong pointers (`Misread`).

`Rec` reads a record of `RingGuard` off the memory: the header of its slot while
the reader has not passed it, and what the reader found after that. Under this
mapping every behaviour of `NftTrace` is one of `RingGuard`, fairness included
(`ImplementsGuard`): memory that is used again behaves like new records.

Limits of the code that the properties step around, since no comment contradicts
them: a kernel of exactly a build's version gets the build before it (the
comparison is strict); `conn_info.family` is never set, so the line of an IPv6
packet has zero ends; a packet without a socket, or with an IPv6 one, fails the
check of the IPv4 addresses and is not reported; the role looked up in
`conn_ctx_map` goes to the kernel's log only.

### SymbolLookup

`Scan` and `ScanFails` read `/proc/kallsyms` a line at a time, `Sort` puts the
slice in any order by address (`sort.Sort` is not stable), `Call` and `Halve` are
`FindNearestSym`. The slice is indexed from 1 in the module and from 0 in the
code.

### Lifecycle

One variable per goroutine for its position, one per context; `Exit` is any
`log.Fatal`: the process is gone, with no deferred call, and what is in the
kernel under no descriptor stays.

## 3. The runs

| run | question | bounds, and why they are enough | distinct states |
|---|---|---|---|
| `tcp_two_tasks` | Two threads connect and accept at once through the one `fd_info_map` entry: what survives every mix-up? `TypeOK`, `NonClientEntriesLive`, `ServerRoleIsTrue`, `LearnedRoleKept` | two tasks, one TCP socket whose address is reused, one socket of another family, IPv6 (no event is rejected), a client that may bind its port, a ring of one event, `conn_tracing_map` of one, full as soon as one entry is in it. Two threads are what a mix-up needs; more sockets only multiply the objects that can be mixed up | 2.5 M |
| `tcp_one_task` | One system call at a time, with two sockets whose addresses and tuples are reused: `RoleTruthful`, `NoTracingLeak`, `CtxOfEstablishedKept`, `CtxRoleMatchesPort`, and the refinement `KeepsRoles` | the second socket is there to reuse the address and the tuple of the first, and to be the listener's child; the ring has no slots, because a reported role is a copy of the map's; `conn_tracing_map` has room for every socket and `conn_ctx_map` for every tuple of the instance, because without room an established socket has no entry. IPv4. No bound client ports: with them a tuple may be in use again before its former socket's hook has run, and `CtxOfEstablishedKept` does not hold | 3.8 M |
| `tcp_fd_info` | Is the entry of `fd_info_map` the caller's own? No: finding 1 | as above | |
| `ring_guard` | Is every record settled once and by what happened? `BusyIsHeld`, `OnlyWholeSubmitted`, `ScratchUsesUp`, and the liveness property `AllRead` | three CPUs, two slots, four records: the ring fills, a third CPU finds it full, and a slot is used a second time | 19 k |
| `tcp_attach` | The hooks appear one by one while connections and calls go on: `LearnedRoleKept`, `HealedRoleTrue` | one task and one address used again and again, by clients and, inherited from a process before, by an accepted child; both families, so that every program is there; all orders of attachment within the groups | 2.4 M |
| `tcp_report` | `PrintedInOrder`, `LinesPairEnds`, and `ReaderEnds` | three events out of eight kinds of sockets (both families, both roles, loopback on one and on both ends, unset end), one failing read between them | 37 k |
| `tracers` | The three tracers whose programs leave something for the next one, one of them in a behaviour because they share nothing. iptables: `EventIsOwn`, `SilentForAReason`, `NoEntryLeft`. ethtool: `DeviceIsOwn`, `CommandIsOwn`. unix: `PacketsTrue`, `WatchedReported` | iptables: one task and two idle CPUs, which share an id; four calls, nested up to three deep; a ring of three records, so that it is used up; probes attach at any moment. ethtool: two tasks on two CPUs, without end, with and without preemption: a mix-up needs two. unix: two tasks; watched paths that end in the first word, in a later one and in the half word; messages of a watched socket, of a watched peer, of neither, with no segment, more than are sent, and an iterator that cannot be read | 4.8 M |
| `ipt_module` | `ProbeHasProgram`, `AllOrNothing`, `LiveNeverLogs`, `PinsRemoved` | three starts: a clean one, one that meets what a killed one left, and one after that; one packet, which keeps its mark over a reload | 294 k |
| `ipt_rmmod` | Is the module gone, or its user told, when `Run` has returned? No: finding 2 | two starts | |
| `lifecycle` | `OneTraceRule`, `RolesAreShared`, and the liveness properties `EventuallyTracing`, `SignalEnds` | three starts of the process: the table of one that died met by the next, twice | 737 |
| `nft_trace` | From the choice of the build to the printed line: `LinesAreTrue`, the liveness property `RulesPrinted`, and the refinement `ImplementsGuard` | two CPUs on a ring of two slots and three records, so that it is full and that a slot is used again; five kinds of evaluations (a segment at a rule and at a policy, an IPv6 packet, an ARP frame, a forwarded packet); a kernel below every build, one of exactly a build's version, one above | 296 k |
| `symbol_lookup` | `NearestBelow`, `PanicsOnlyBelow`, and `Terminates` | four lines at most, with aliases, addresses of 0, in any order, and a reader that fails; addresses below, between, at and above the symbols. Four elements are what the bisection needs for both halves and both early ends | 106 k |

Symmetry is used in `tcp_one_task`, over the two sockets, and in `tracers`, over the
idle CPUs and the tasks of the ethtool and of the unix part; neither checks liveness,
and what they check tells no two of these apart. Deadlock is checked in the runs of `TcpLink` and `TcpAttach`, whose environment never
stops; the other specifications end when their bound is reached, the reader has
returned or the process is gone, and say `CHECK_DEADLOCK FALSE`.

### Environment assumptions

* The kernel runs no kprobe handler inside of another on one CPU (it counts a
  miss instead), and a fentry/fexit program runs to its end once begun.
* The state of a TCP socket changes under its lock, and `tcp_set_state` is called
  with the lock held.
* No two sockets out of `CLOSE` have one address tuple.
* `TcpLink` starts with every hook attached; `TcpAttach` starts with none, and
  `IptTrace` attaches its probes at any moment. The hooks of `EthtoolTrace` and
  `UnixSock` are all attached.
* A task that preempts a fentry program on its CPU may run its own programs there,
  but not the one it interrupted (`prog->active`).
* Unset bytes of a key have one value in the runs: the one a given stack slot of a
  compiled program has. With two, a program finds another's entry of `conn_ctx_map`
  by chance; that an entry of the tuple is there, and right, is proved for any
  (`CtxKept`, `CtxTrue`).

### Fairness

* `RingGuard`: a BPF program that has a record runs to its end, because the
  verifier accepts no other; the reader's loop reads on. No fairness on new events.
* `NftTrace`: the same, for the same reasons.
* `SymbolLookup`: `WF_vars(Next)`, a call of a function runs on.
* `TcpReport`: the reader goroutine and the one that waits for the context are
  scheduled when they can run. None on events, failing reads or the signal.
* `Lifecycle`: each goroutine's next step is weakly fair, so is `main`'s return.
  None on the signal, the user's starts and failures.
* `TcpLink`, `TcpAttach`, `IptTrace`, `IptModule`, `EthtoolTrace` and `UnixSock` state
  safety only: nothing in them waits for anything but the kernel.

### Findings

1. `ebpf/tcp-link-trace.c:93`: `get_stack_id` keeps the return code of the probe
   read instead of what it read, so every task has one id (`tcp_fd_info`).
2. `pkg/iptables/run.go:82`: the deferred `rmmod` is unreachable (`ipt_rmmod`).

Limits met on the way that no comment or test contradicts: the orientation of a line
(`pkg/tcp/tcp-trace.go:91`) is not that of the sample lines in a comment at `:127-129`,
which may be another program's output; an IPv6 line of the
connection report pairs each address with the other end's port (so `LinesPairEnds`
is for IPv4); a process that dies leaves `Et_Table` behind (so `OneTraceRule` is
about what the next start makes of it); packets are marked from the moment the
first probe of the module is registered, before `nf_log_trace` is hijacked, and
keep the mark after the module is gone (so `LiveNeverLogs` speaks of a live
module); and those listed under NftTrace, EthtoolTrace and TcpAttach in section 2.

## 4. The proofs

Each theorem is for every value of the constants that satisfies the module's named
assumptions. Every proof follows one pattern: an inductive invariant, `Init => Inv`,
`Inv /\ [Next]_vars => Inv'` with one step per action, and the property from it.

| theorem | states | assumptions beyond the named ones of the module |
|---|---|---|
| `TcpLinkProofs!TypeCorrect`, `!NonClientLive`, `!ServerTrue`, `!LearnedKept` | `TypeOK`, `NonClientEntriesLive`, `ServerRoleIsTrue`, `LearnedRoleKept` | none: system calls in any interleaving, maps and ring of any capacity |
| `TcpLinkProofs!AttachLearned` | `LearnedRoleKept` of `AttachSpec`, while hooks are missing | none: hooks in any order, any tasks and sockets |
| `TcpLinkProofs!Healed` | `HealedRoleTrue` | `OneTask`: one system call at a time |
| `TcpLinkProofs!CtxKept` | `CtxOfEstablishedKept` | `RoomForAll`: a finite number of tuples, room for each in `conn_ctx_map`, no client binds a port |
| `TcpLinkProofs!RolesTrue`, `!NothingLeft`, `!CtxTrue` | `RoleTruthful`, `NoTracingLeak`, `CtxRoleMatchesPort` | `OneTask`: one system call at a time |
| `TcpLinkProofs!RolesKept` | `KeepsRoles`: `TcpLink` implements `ConnRoles`, initial states and every step | `OneTask`, and `NoSide`: `NULL` is neither role |
| `TcpReportProofs!InPlace`, `!EndsPaired` | `PrintedInOrder`, `LinesPairEnds` | none |
| `RingGuardProofs!RecordsHeld`, `!WholeRecords`, `!RingUsedUp` | `BusyIsHeld`, `OnlyWholeSubmitted`, `ScratchUsesUp` | none |
| `TracerProofs!OwnArguments`, `!NoOtherSilence`, `!EntriesHaveACall` | `EventIsOwn`, `SilentForAReason`, `NoEntryLeft` | none: any number of tasks, CPUs and calls, nested to any depth |
| `IptModuleProofs!ProgramsHeld`, `!InitAllOrNothing`, `!LiveHijacks`, `!PinsGone` | `ProbeHasProgram`, `AllOrNothing`, `LiveNeverLogs`, `PinsRemoved` | none |
| `NftTraceProofs!GuardImplemented` | `Spec => Guard!Init /\ [][Guard!Next]_Guard!vars`, the safety part of `ImplementsGuard` | none |
| `NftTraceProofs!LinesTrue` | `LinesAreTrue` | `BuildPerBound`: versions are natural numbers, and each change of the arguments of `nft_trace_packet` has a build of its version |
| `LifecycleProofs!OneRule`, `!MapShared` | `OneTraceRule`, `RolesAreShared` | none: any number of starts |
| `TracerProofs!PacketsOwn`, `!AllReported` | `PacketsTrue`, `WatchedReported` | none. The named one they use is `SizeAssumption`: an array of `UNIX_PATH_MAX` bytes is whole words and half a word, `sock_path` fits into it, paths are sequences of non-zero bytes |
| `TracerProofs!DeviceOwn`, `!CommandOwn` | `DeviceIsOwn`, `CommandIsOwn`, action properties | none. The named one they use is `PointerAssumption`: a task is neither `NULL` nor a freed pointer |
| `SymbolLookupProofs!LookupNearest`, `!PanicsBelow` | `NearestBelow`, `PanicsOnlyBelow` | none |

*TcpLink, any interleaving.* None of the three role properties is inductive. `IInv`
adds two facts to them and to `TypeOK`. `OwnSocket`: from the hook of the file until
the call is over, the socket a connect works on is an open client's. `SockFacts`: a
socket that is open, or whose hook is running, exists; `SYN_RECV` is the state of an
accepted child only and no transition leads to it; and a connection whose role is
learned is not in `CLOSE` unless its hook is running. From these, a role proved by
a transition is the socket's (`ServerRoleIsTrue`), and it stands until the hook of
the transition to `CLOSE` (`LearnedRoleKept`). The step to look at is
`FexitSysConnectUpdate`: it passes `BPF_ANY` after a lookup of its own, without
the lock and perhaps for another task's socket. It writes nothing but `CLIENT`, so
it forges no `SERVER`, and no entry disappears by it.

*TcpLink, the tuples.* `conn_ctx_map` is keyed by a tuple that changes while the hooks
run, and any hook of a destruction deletes from it. `Tupled` says what a socket's state
tells of its tuple: complete from the end of the handshake on; without a port, if
the port was the kernel's choice, once it is closed; without a far end if it listens.
So a destruction never deletes a complete tuple (`ClosedTuple`). Before connect has
picked the port the tuple is not complete either, but then a task is in connect
with the lock (`BeforePort`, `LockIsOwn`), and no transition to `ESTABLISHED` can come
in between. The insert on entry of that transition is refused only by a full map, and
a map with room for every key is not full for a key it does not have (`Room`).

*TcpLink, one task.* `JInv` says that the file a connect hands over is its own
(`FileIsOwn`), that a socket's state and port go with its side (`SideShows`), and that
its role does (`RoleShows`). `RolesKept` then maps every action to one of `ConnRoles`.

*TcpAttach, the window.* `AttachLearned` cannot use `IInv`, two parts of which really
fail in the window. What is left is `TInv`: `TypeOK`, `OwnSocket`, `SockFacts` and
`LearnedRoleKept` itself, of which none needs a hook to be attached. A role is learned by a
`tcp_set_state` hook only, and what could take its entry away, a destruction or a
`CLOSE`, comes after the transition out of the connection, hook or no hook; the
updates of the hooks of connect never delete.

*TcpAttach, healing.* `HealedRoleTrue` is about the addresses in `healed`: those whose
socket was destroyed after the last hook was attached and the calls then under way
(`old`) had returned. `Healing` says that no address is healed before that; that from
the last attachment on a task outside `old` has its own file (`FileIsOwn`) and misses
no exit hook; and, for the healed addresses, what `RoleShows` says of all of them in
`TcpLink` (`Shown`). Once `old` is empty every step of the host is a step of
`TcpLink!Next` (`AllOnNext`), so the step lemma of `RoleShows`, stated for a set of
addresses, applies; and a destruction adds an address that shows no role, since its
hook deletes the entry whatever it was (`FreedAbsent`). With two tasks the shared
entry of `fd_info_map` (finding 1) makes the role of any address a matter of who was
last, healed or not: hence `OneTask`.

*TcpReport.* A line carries the number of its event: numbers grow along the output,
and up to the last event taken each one is there or is between two loopback
addresses.

*RingGuard.* `BusyIsHeld` needs that a held record lies between the consumer and
the producer and that two programs hold different ones; `OnlyWholeSubmitted` that
at the destructor the code `SUCCESS` implies the record is filled, in a ring whose
programs do report.

*IptTrace.* Under an id that tasks do not share, the entry of `skbtracer_ipt` is that
of the innermost call in progress, if it began with the probes attached, or a call
inside of it has returned and taken it. Calls begin in the order of their numbers,
only the innermost is inside a program, and the return of a call begun after the
attachment is seen. The depth is not bounded.

*IptModule.* The invariant reads both `held` and `probes` off the position `mod`,
label by label: it is the table that a reader of the goto chain makes for himself.
`LiveNeverLogs` follows since at `live` the log probe is registered; `PinsRemoved`
from "unless killed, the pins in bpffs are this process's".

*NftTrace, the guard.* `GuardStep` has one step per action. The hard ones are those
that write a header: `Rec` must change at one record and nowhere else, although the
header is in a slot several records have. So `IInv` says that a ring never holds more
than `Slots` records, that a program's record lies between the consumer and the
producer with a busy header, and that two programs hold different ones;
`LiveSlotsDiffer` concludes that two records between consumer and producer differ
modulo `Slots`. Both lemmas of division rest on the uniqueness of quotient and
remainder.

*NftTrace, the lines.* A build is the newest below the kernel's version; with a build
per change it expects the kernel's arguments unless the version is exactly a build's
(`BuildFits`; that a bounded set of versions has a newest one is `MaxExists`, by
well-founded induction). Then the memory of a filled record, of a submitted one and
of a printed one tells of the evaluation that was given it (`LInv`), although the
slot held another before.

*EthtoolTrace.* What the element holds belongs to the task that wrote it last, and
without preemption that is the one inside `ethnl_parse_header_dev_get`.

*UnixSock.* `Holds(buf, path)` says what a read of a path leaves in an element: its
bytes and a zero, and anything behind. `WordOf` takes a byte's index apart into
word and offset, so that `WordWise` can show that the comparison word by word agrees
with the one byte by byte (`Agrees`), and `AgreesIsWatched` that this one does with
"begins with `sock_path`", whatever is behind the zero. The invariant follows a
fentry program that had the element for itself (`Progress`): at each label, which of
the message's paths and fields are in it already. A program of another task
ends that; `Return`, which takes the data of its own call out of the element, does not.

*Lifecycle.* `OneTable` is the invariant of the first theorem: `Add` flushes before it
adds. The second needs to know at which step of `nftables.Run` the map has been
decided (`MapIsPassedOn`), and that the end of the process takes the links with it.

*SymbolLookup.* The invariant is the bisection's: everything below `i` is at or
below the address, everything from `j` on is above it, and the slice is sorted
from `Sort` on. That the slice has the file's symbols in some order is what
`PanicsOnlyBelow` needs.

Left to TLC: liveness (`AllRead`, `ReaderEnds`, `EventuallyTracing`, `SignalEnds`,
`RulesPrinted`, `Terminates`, the fairness part of `ImplementsGuard`), which is out of
the prover's reach; and the two expected violations. Every safety and action property
that a passing run checks is stated by a theorem above.

## 5. Not modelled, and why

* nftables rule cache, `pkg/nftables/nft.go`: `main` does not start it, and with a
  rule in the list it ends at `:101`, which takes the chain's name from an item that
  has none. nft JSON (`utils/nft`) serves it only and keeps no state.
* Of the nftables tracer: the temporary file the launcher runs the build from, the
  printed names, sizes, devices and the process.
* XDP: `trace_packets` lets every packet pass and keeps nothing; what would use its
  map is commented out.
* Trace decoding, signal decoding: from numbers to names, no state.
* Gin and metrics endpoints, dumps, charts: library calls and text.
* `utils/socketrace` but for its copy of the symbol lookup, `cmd/debug_prog`:
  vendored, a developer's tool. `tcp-state.c`, `openssl-trace.c`: stubs.
  `utils/sysctl`, `guard_spinlock` in `bpf_cleanup.h`: not used.
* `ebpf/headers/*/vmlinux.h` and the libbpf headers: generated and vendored. They are
  about 97 % of the lines under `src/`, so the share of all lines that the modules
  map is small by nature, whatever is modelled of the program's own.

Hazards that no property covers:

* `ebpf/headers/common.h:53`: whether a program finds a tuple's entry under the unset
  bytes its own stack happens to hold. Section 3 says what does hold.
* `ebpf/tcp-link-trace.c:413`: a client that has bound its port may begin a new
  connection of the old tuple before the old socket's destruction, whose hook then
  deletes the new one's entry. `CtxOfEstablishedKept` fails there, and no comment or
  test says the code should cope. In the model it fails then for sockets whose port the
  kernel picks, too: `ConnectPortPicked` may take the port of a closed client that had
  bound it, while a kernel avoids ports that a bind still holds.

## 6. Plan

Done: `TcpLink` first, because its events are what the program is for and its
concurrency the hardest; then the guard all programs share; the module and its
loader, where failures are handled at length; the process; the report; the
iptables tracer; the nftables tracer with its reader, shown to implement the guard;
the symbol lookup; the attachment; the ethtool and unix socket tracers;
`ConnRoles` and the refinement; the theorems of section 4.

What is left, in this order:

1. The launcher: the temporary file of a build over a second start, and the signals it
   passes on.
2. Ports that a bind holds until the socket is destroyed, in `ConnectPortPicked`; then
   `CtxOfEstablishedKept` beside bound ports, for the sockets whose port the kernel
   picks, as a run and as a theorem beside `CtxKept`.
3. A theorem that from the moment `old` is empty the healed addresses follow `ConnRoles`
   as those of `TcpLink` do (`RolesKept`, relative to `healed`).
