# TLA+ specification of the openvswitch kernel module with its flow sketches

This directory holds a formal model of the kernel datapath in `src/`: TLA+
modules, the TLC configurations that check them on small instances, and proofs
of the most important theorems for the TLA+ proof system. The module is the
kernel half of Open vSwitch, extended by a CountMax sketch that is updated for
sampled packets and reported to a collector.

Paths without a directory (`flow_table.c:451`) are under `src/`; `stt.c`, `vxlan.c`,
`geneve.c`, `lisp.c`, `gre.c`, `ip_gre.c` and `ip_tunnel.c` are under
`src/linux/compat/`. `PROJECT.json` maps each definition to the lines it models,
lists the runs, the hazards each property is for, the findings and, for each
checked property, a change of the code that breaks it.

## 1. The system

Packets arrive in softirq context from receive handlers of network devices, from
internal ports and from tunnel drivers. `ovs_dp_process_packet()` extracts a key,
looks it up in the flow table of the datapath, and executes the actions of the flow; a
packet that no flow matches goes to user space with its key. Everything on
this path runs under RCU, without a lock. User space changes the tables through
generic netlink. Its commands take one global mutex, `ovs_mutex`. Device events
arrive from the notifier chain under RTNL. Objects are freed after an RCU grace
period. Most of what is hard here follows from the combination: what a packet
or a dump has found without a lock may be replaced, unlinked or freed by a command, and
commands release `ovs_mutex` in places where it is easy to believe they hold it.

| component | state | operations | what is hard | what makes it correct |
|---|---|---|---|---|
| flow table (`flow_table.c`, commands in `datapath.c`) | table instances by key and by UFID, masks with reference counts, the mask array, flows and actions, what waits for a grace period | new, set, del, flush and dump of flows, lookup, rehash and growth, growth and shrinking of the array | RCU readers against all writers, reference counts of shared masks, commands that work on after unlocking, errors halfway | no reader holds freed memory, no flow is missed, counters and the two instances agree, nothing leaks or is freed twice |
| hash chains (`flow_table.c`) | buckets, two list nodes per flow, `node_ver` | insertion, removal, copy, flush, walk | readers walk lists that are relinked under them | a chain holds the flows of its bucket; walks end and miss nothing |
| flow statistics (`flow.c`) | counter blocks per CPU, their locks, `stats_last_writer` | update, get, clear | allocation on demand, interrupts that want a lock the interrupted command holds | each packet counts once; no lock is waited for for ever |
| datapaths, ports and devices (`datapath.c`, `vport.c`, `vport-netdev.c`, `vport-internal_dev.c`, `dp_notify.c`) | datapaths, ports, the name table, devices with references, handlers and promiscuity, namespaces | datapath and port commands, device events, the notify work, namespace exit | three contexts (`ovs_mutex`, RTNL, RCU), module load with the mutex dropped, devices that vanish or move | references balance, handlers lead to live ports, readers are safe, an unregistration completes |
| action execution (`actions.c`) | nesting level, keys of the levels, FIFO of deferred actions, ownership of the skb | output, set, push, pop, sample, recirc, ct | recursion through other datapaths, fallbacks when keys or FIFO run out, errors in the middle of a list, a key that lags behind its packet | each skb is freed once, a key describes its packet, the nesting is bounded |
| key extraction (`flow.c`) | none | `ovs_flow_key_extract()` | headers cut short, fields that share memory, fields left as they were on the stack | a key is determined by its packet and its metadata |
| flow netlink (`flow_netlink.c`) | none | parse and serialise keys and masks, validate, copy and dump actions | nested attributes, defaults, three formats that must agree | what is told is read back as it was; what is accepted can be executed |
| upcalls and packet execution (`datapath.c`, `vport.c`) | the list of portids of a port | miss, userspace action, packet execute, `ovs_vport_set_upcall_portids()` | the list is replaced under RCU, sockets close, GSO packets are sent in segments | a packet goes to one live list's socket, its segments in order |
| connection tracking (`conntrack.c`) | connections (kept by netfilter), labels, marks, helpers, expectations | `ovs_ct_execute()` | two CPUs with packets of one connection, commits that clash, upcalls between two actions, forced directions | references balance, a tuple has one connection, key and connection agree |
| CountMax sketch (`countmax.c`) | lines of buckets with a key and a counter | update, query | updated without a lock by all CPUs | queries lie between two bounds |
| sketch management (`sketch_manage.c`) | sketches of the switch, the report thread and its sockets | init, clean, sampling, report | order of setup and teardown, the blocking thread | reports stay within the traffic; setup and teardown are safe |
| module initialisation (`datapath.c`) | what has been registered | `dp_init()`, `dp_cleanup()` | undoing half of it, callbacks that run late | nothing registered is left |
| tunnel drivers (`linux/compat/`: `gre.c`, `ip_gre.c`, `ip_tunnel.c`, `vxlan.c`, `geneve.c`, `lisp.c`, `stt.c`; `vport-*.c`) | devices per namespace, UDP sockets shared by port and counted, lists of devices of a socket, the reassembly tables of STT | create, open, stop, delete, namespace exit, receive, transmit, reassemble | packets against all of them, sockets bound halfway, grace periods only in some places, fragments late, twice or mixed | devices and sockets outlive the packets that use them; who is up is found; what fails is given back once |
| other sketches (`fss.c`, `hashheap.c`, `hashtable.c`, `countmin.c`, `countsketch.c`) | | | dead code | |
| compatibility layer (rest of `linux/compat`) | queues of IP fragments | replacements of kernel functions | | |

The parts interact as follows. Device events and port commands meet on devices,
RTNL and `ovs_mutex`. A packet goes from a receive handler (a port of
`Datapath`) or a tunnel driver (`Gre`, `Vxlan`, `Geneve`, `Lisp`, `Stt`) to key extraction
(`FlowKey`) and a lookup (`FlowTable`, which stands on the chains of `FlowHash`),
counts in `FlowStats`, then executes the actions (`Actions` for the order of
executions, `PacketActions` for what they do to the packet, `Conntrack`), which may send it
to another port (`TunnelXmit`), to another lookup, or to user space (`Upcall`), which answers
with flows (`FlowSetup`, by way of `FlowNetlink` and `FlowActions`). Sampled packets update the
sketch (`Sketch`, `CountMax`), which the report thread reads (`SketchModule`).

## 2. Modules

| module | models |
|---|---|
| `FlowTable` | masks, mask array, instances, flow commands, lookups, grace periods |
| `FlowTableProofs` | proofs about it: owners and the mask array; readers and leaks; both tables exact, it implements `FlowTableAbs`, and lookups |
| `FlowTableAbs` | what the flow commands promise user space: a table changed only by install, update, remove and flush |
| `FlowHash` | the chains of one table at the granularity of single pointer stores and loads |
| `FlowStats`, `FlowStatsProofs` | the counter blocks of one flow; proofs that packets are counted once and reports are right |
| `Datapath` | datapaths, ports, devices, namespaces |
| `DatapathCommands` ← `DatapathProofs` | proofs about it: the invariant and the commands that create; those that destroy, events, callbacks and readers |
| `Actions`, `ActionsProofs` | the nesting of executions of action lists; proofs about levels, keys and skbs |
| `FlowKey` ← `FlowNetlink` ← `FlowActions` ← `PacketActions` ← `FlowSetup` | keys; messages; action lists; what actions do; a miss and the flow it gets. Each extends the one before |
| `Upcall`, `UpcallProofs` | the sockets of a port and the segments queued in them; proofs about both |
| `Conntrack` | the conntrack action |
| `CountMax` | the sketch as an algorithm |
| `Sketch` | the same sketch as the CPUs and the report thread run it; refines `CountMax` until two CPUs meet in a bucket |
| `SketchModule` | loading, unloading and the report thread |
| `ServicesProofs` | proofs about these three and `TunnelXmit`, in the composition of `MCServices` |
| `Gre`, `Vxlan`, `Geneve`, `Lisp` (with `Hlist`) | devices and sockets of the drivers, and reception |
| `Stt` | the same for STT, with its reassembly |
| `TunnelXmit`, `TunnelXmitProofs` | transmission in all of them; proofs that what fails is given back once |
| `Tunnels` | the drivers on small sets, one per behaviour |
| `MC...` | instances of each for TLC. `MCUserspace` holds `FlowSetup` and `Upcall`; `MCServices` holds `CountMax`, `Sketch`, `SketchModule`, `Tunnels` and `Conntrack`: a behaviour first chooses one of the parts and leaves the others' variables alone |

### FlowTable

Objects are members of finite pools (`FlowObj`, `MaskObj`, `ArrObj`, `TiObj`,
`ActObj`). Allocation takes one from the pool, and an empty pool is the `-ENOMEM` of
the code. `alloc` holds what is allocated, `pend` what was passed to
`call_rcu()`, `rcu` who is inside a read-side section, and `wait` which of those
readers each pending object still waits for. A grace period thus ends when the
readers that were there when it began have left, and `rcu_callbacks` may free
the object at any time after that.

Each flow command is a sequence of actions with the control state in `cmd[t].pc`.
One action covers what the code does under the mutex in one go, unless readers
can tell its steps apart: storing the mask in the array, linking the flow,
publishing a grown instance, removing the mask and flushing are steps of their own, in the
code's order. What `ovs_flow_cmd_del()` does after `ovs_unlock()` is two
more steps (`del_fill_info`, `del_fill_done`), as is the freeing of replaced
actions. Packets and dumps load the mask array, the instance and each slot in separate
actions. Keys are functions from a few fields to a few values. Masking
keeps the masked fields, so overlapping masks and ambiguous matches occur. The
per-CPU mask cache only proposes a slot to start with. Its content is any
slot (`StartIndexes`), which includes every stale one.

An instance is a set of flows with one lookup step per mask.
That is justified by `FlowHash`, which checks that a walk finds its flow
if the table is copied at most once meanwhile. Section 3 says what happens otherwise.

### FlowHash

`node[v][f]` is `flow_table.node[v].next`, `ti` holds the buckets, `node_ver`, the
size and the bucket each key hashes to under the seed of the instance. Insertion
writes the flow's next pointer and then the bucket. A copy relinks every flow
through the node of the other version, flow by flow. Then it publishes the instance. A
reader loads one pointer per step, and keeps the version and bucket it began with.

### FlowStats

`stats[c]` is the counter block of a CPU, block 0 being the preallocated one.
An update takes the spin lock and is interruptible between its steps only where bottom halves
are enabled. `ovs_flow_stats_get()` and `ovs_flow_stats_clear()` visit the
blocks in CPU order with `spin_lock_bh()`. `Total` adds the blocks up (`Sums`). What was counted and cleared
(`done`, `dropped`) and the bounds of a command's report (`before`, `done`, `disturbed`, `since`) are history.

### Datapath

Threads run datapath and port commands under `ovs_mutex`, the worker runs
`ovs_dp_notify_wq()`, and device events (`DeviceEvent`) register, unregister, rename and
move devices under RTNL. A command that takes RTNL (or
drops `ovs_mutex` to load a module) does so in a step of its own, so that events
and other commands come in between. Devices carry the references taken by
`dev_hold()`, promiscuity, the receive handler and the upper-device link.
Unregistration (`netdev_run_todo`, `netdev_wait_allrefs`) waits for the references. These two are
external: they are the kernel's, modelled from what the module relies on.

### Actions

`stack` is the call stack of one CPU: `ovs_execute_actions()`,
`do_execute_actions()`, `process_deferred_actions()`, `sample` and so on, each frame with its datapath,
skb, key place and remaining actions. `key` has the per-level keys, those of
the FIFO and those of `ovs_vport_receive()`; `skb` says of every buffer whether it is live and what it carries.
Packets differ in one header field, and a valid key says which value it has. Lookup
results come from `Flows`: any list of the datapath may be the result
of any lookup, so a recirculation leads to every flow there is. An
action that can fail fails nondeterministically. `leaked` is history: the skbs that the return
after a failed key update leaves to nobody; the next packet starts without them. On one CPU softirq work is
not preempted, so one packet at a time is all there is; other CPUs share none of this state.

### FlowKey, FlowNetlink, FlowActions, PacketActions, FlowSetup

A packet is a record of its headers (tags, labels, type, protocol, ports, where it is cut
short, tunnel and conntrack metadata). A key is a function from slots to small values; fields of a
union share a slot, and a slot that no code writes has the value `Junk` of the stack. `FlowKey` is
the parsing of one into the other. A netlink message is a sequence of levels, for
`OVS_KEY_ATTR_ENCAP`, each a function from attributes to payloads. `FlowNetlink` has
`ovs_nla_put_key()`, `ovs_nla_get_match()` and `ovs_nla_get_flow_metadata()` with what they call.
Masks are 0 or all ones in each slot. `FlowActions` validates, copies and dumps action
lists, `PacketActions` is what each action does to a packet and to its key.

`FlowSetup` puts them together with user space, which is external: it sends back the
key it was told with a mask of its own choice, and any list of actions. The flow is
then matched by a packet of any form the mask lets through, and its actions are executed one by
one, with recirculation.

### Upcall

`lists` are all lists of portids ever made for the port, with their state and the
CPUs in whose read sections they are; `cpu` is each CPU's progress from the choice of a socket
by the packet's hash to the last of its segments; `sent` is history. Sockets may be full or closed
at each segment.

### Conntrack

`conn` is netfilter's table with what the code needs of it: states, reference counts, the two
tuples, zone, mark, labels, helper, master, translations; `exp` is an expectation; `pk` are packets
of two CPUs, each on its way through a pipeline of conntrack actions, with the key of the flow and
the connection the skb carries. The steps of `ovs_ct_execute()` between which another CPU can
do something are separate: lookup or creation, translation, helper, mark and labels, confirmation.
Between two actions a packet may go to user space and return with its key
but without its connection. Expiry, and deletion by a forced commit, may happen
at any time. `bound` is history: the connection a packet's key was last written from.

### CountMax, Sketch, SketchModule

`CountMax` is the sketch as an algorithm: an update adds to the counter when the
bucket's key is its own, subtracts when it is not, and takes the bucket over
when the counter would go below zero. `Hash` is any function. `Sketch` is one line at the
granularity of loads and stores: the key is two halves, the counter is read and written
separately, several CPUs do that at once, and the report thread reads a
bucket in between. `raced` is history: two CPUs have been in one bucket at the same time. The 64-bit sums are not bounded by a width: at one per
packet they do not overflow in the life of a machine.

`SketchModule` has the steps of `dp_init()` in their order, each of which may fail, the error
labels, `dp_cleanup()`, the sketches of six switch types and the report thread with its
socket: `listen`, `accept`, `recv`, reporting sketch after sketch, and its ends.
Datapaths come and go as soon as their netlink family is registered, the first that `dp_register_genl()` registers,
and leave callbacks behind. The last two steps cannot fail, only kill their task: `new_countmin_sketch()` and
`new_countmax_sketch()` write through what `kzalloc()` returned without a check, and so does `sketch_report_init()` with what
`kthread_create()` returned. `init_filter_sketch` therefore makes each sketch whole (`made`) or without its arrays (`half`),
or kills `insmod` (`load.pc = "dead"`) with everything up that was; the labels `error_sketch_report` and `error_filter_sketch` are
never reached. The thread is killed by a half-made sketch, or by the first entry it writes to a buffer it did not get; with a socket that
could not be made it goes on with an uninitialised pointer (`stray`), every use of which may kill it, fail or not. `rmmod` may be killed by
`kthread_stop()` of a thread that has ended by itself.

### Gre, Vxlan, Geneve, Lisp, Stt, TunnelXmit

In each driver devices change under RTNL, so one operation (`op`) is in progress at a time, in
steps between which packets (`pk`) are received in RCU sections; a wait for a grace period
is a step that waits for the packets that were inside. What the kernel does when a net device
goes (close, wait, free) is external. In `Gre` the three protocol registrations come and go with
the module. In `Vxlan` and `Geneve` a device opens an IPv6 and an IPv4 socket, either of which can
fail to bind; sockets count their users and keep a list of devices, which is the kernel's `hlist`
with its back pointers (`Hlist`), so that a node added twice or removed twice does to the list what it does in
memory; `wild` is set when the removal writes into a freed head.

`Stt` has the hooks of the namespaces, the table of one CPU (entries found by key through candidate
slots, a chain of fragments each, a list of least use, memory counted against thresholds), delayed
work that frees what is too old, and reception. `TunnelXmit` has the transmit function of each driver as a
sequence of steps, each of which says what it takes, what it may free when it fails and who frees
the rest, while the device is stopped and opened.

## 3. Runs

| run | question | result |
|---|---|---|
| `FlowTable_masks` | three masks: the array grows, has holes, shrinks and compacts while a packet searches it; `BUG()` conditions, reachability of flows, freed memory, false misses (`MasksSafe`, `LookupRight`) | hold |
| `FlowTable_update` | a dump against all commands: is anything freed under it or leaked (`MemorySafe`), is each object owned once (`OwnInv`), do counters and the UFID instance agree with the table and are flows unique (`TableExact`), do the commands implement `FlowTableAbs` (`ImplementsAbs`) | hold |
| `FlowTable_live` | does a packet against all commands hold freed memory, miss a flow that was always there, or execute one it does not match; is everything pending freed (`GraceEnds`), is the mutex always released (`MutexReleased`) | hold |
| `FlowHash_copy` | do walks find their flow across one copy (`FullLookup`), are chains exact (`ChainsInv`), do walks end although writers never pause (`LookupEnds`) | hold |
| `FlowStats_counts` | is each packet counted once, are reports within bounds and do cleared counts stay cleared (`ReportsRight`), does nobody spin for ever on a lock its own CPU holds | hold |
| `Datapath_devices` | two threads, devices that are unregistered and moved, module load: are datapaths whole (`PortsInv`), references and promiscuity balanced and receive handlers live (`DevicesHeld`), also for a command that restarts | hold |
| `Datapath_readers` | do packets, dumps and lookups hold freed ports, datapaths or devices, does anything refer to a namespace that has ended, does `max_headroom` cover the ports and is it told to all | hold |
| `Datapath_live` | is an unregistered device always let go | holds |
| `Actions_packets` | samples, conntrack, recirculation and two datapaths in a loop, beyond all limits: skb ownership, keys, level, FIFO, bounded nesting; is every packet done with | hold |
| `Userspace_setup` | is the key of a miss accepted back and does its flow match the packet (`EchoInstalls`), is a dumped flow the same flow when it is put back (`DumpRestores`), does every accepted action find its headers (`ActionsFit`), does a valid key describe its packet (`KeyUpToDate`); are lists of sockets alive when read and used consistently (`RightSocket`), are segments queued in order and losses counted once (`SegmentsInOrder`) | hold, with the exceptions the definitions name |
| `Userspace_nomask` | is a flow that comes without a mask an exact match (`ExactWithoutMask`) | no: see below |
| `Services_parts` | the sketch invariant and both bounds of queries (`SketchInv`, `QueryBounds`); does the kernel's update implement `CountMax` until two CPUs meet in a bucket (`ImplementsCountMax`), are racing updates and reports within the packets of the bucket (`TrafficInv`); is the module set up and taken down in order, its thread before its sketches (`ModuleSafe`); tunnel devices and sockets against packets (`TunnelsInv`), transmission (`XmitInv`), reassembly (`SttInv`); connections, packets and keys (`ConntrackInv`) | hold |

Every property of the passing runs has a change to the code's translation in `PROJECT.json`
that makes the same run fail. Names that end in `Inv`, `Safe`, `Exact` or `Right` are mostly conjunctions of
properties that the modules state one by one:

- `TunnelsInv`: a device (and, in Geneve, a socket) exists while a packet that found it uses it;
  no list operation writes into freed memory; a socket's count is the number of its devices; a device that is up,
  and no other, is found at its sockets; the GRE code stays loaded while a packet is in it;
- `XmitInv`: a packet that is gone left nothing and gave nothing back twice; a socket that
  a packet has read is not released before the packet is through;
- `SttInv`: the memory of waiting fragments is counted exactly and within the limit, the list of least use names
  the entries in use, chains are in order without overlap, what is received is one whole packet of one
  namespace, the tables outlive the packets and the work;
- `ConntrackInv`: reference counts are exact; a tuple and zone find one connection at most; during an action
  the packet's connection is of its zone; packet, key and connection agree on addresses, translation and
  direction, also after an upcall; a new connection is translated before its helper runs;
- `ModuleSafe`: while the thread may read the sketches none is unmade or freed, and it goes on past none that lacks its arrays;
  what is set up rests on what was set up before it, also where a task was killed; a module that is out has left nothing but
  what the table below lists.

### Where the code disagrees with what is said of it

`Userspace_nomask` ends in a counterexample. "In case the 'mask' is NULL, the flow is treated as exact match flow"
(`flow_netlink.c:1429`), and for that `nlattr_set()` writes ones over a copy of the key's attributes. For nested
attributes it replaces the table of lengths while it goes through them, so that attributes after the tunnel are
left as they are: the flow of a tunnelled ICMP echo reply, whose type and code are zero, also matches requests.

The modules state further properties that comments or documentation claim, or a user would assume, and
the code does not keep. TLC finds each of them violated when it takes the place of the properties
of the run named here, with the constants changed where the table says so (those of the tunnel drivers are in
`Tunnels`, those of `Conntrack` in `MCServices`):

| property | replace in | what the code does |
|---|---|---|
| `MaskNeeded` (FlowTable) | `FlowTable_update` | a flush leaves the masks of its flows in the mask array with references nobody drops (`flow_table.c:451`, against the comment at 770) |
| `DelMaskSafe` (FlowTable) | `FlowTable_update` | the reply to a deletion reads the mask after a grace period may have freed it (`datapath.c:1378`) |
| `UpdateSameId` (FlowTable) | `FlowTable_update` | a new-flow request with one UFID updates a flow that has another (`datapath.c:1049`) |
| `FullLookup` (FlowHash) | `FlowHash_copy` with three instances and `MAX_COPIES = 2` | two copies of the table in one lookup reuse list nodes the lookup is walking, and it misses a flow (`flow_table.c:413`) |
| `HeldPortHasDev` (Datapath) | `Datapath_live` | a tunnel port gives up its device before the grace period of the port (`vport-netdev.c:197`) |
| `PortsLocated` (Datapath) | `Datapath_readers` | a port whose device is renamed is found under neither name (`vport.c:260`) |
| `FreeNumberSelected` (Datapath) | `Datapath_devices` | automatic choice of a port number fails when that number is taken during the module load (`datapath.c:2045`) |
| `DetachedDestroyed` (Datapath) | `Datapath_devices` | a device that moves between lookup and RTNL is attached in the wrong namespace, and the next notification wakes the wrong work (`dp_notify.c:92`) |
| `RecircConsumes` (Actions) | `Actions_packets` | a last recirculation, or conntrack, that cannot update the key leaks its skb (`actions.c:1092`, `actions.c:1206`) |
| `SampleKeepsSkb` (Actions) | `Actions_packets` (as PROPERTY) | an error inside a sample drops the original packet (`actions.c:1226`) |
| `PortsOfOwnDp` (Actions) | `Actions_packets` | deferred actions are executed in the outermost datapath, not in the one that deferred them (`actions.c:1326`) |
| `SocketsOutlivePackets` (Vxlan) | `Services_parts` | the socket structure is freed without a grace period after the socket is released (`vxlan.c`, `vxlan_sock_release()`) |
| `VxlanInv` with `TAKEN` = {<<4, 2>>} or `DELETE_DOWN` = TRUE | `Services_parts` | the device's one list node is on two sockets' lists; when the IPv4 socket cannot be bound, or a device that was taken down is deleted, `hlist_del_rcu()` writes into a list head that has been freed |
| `XmitInv` with `LOOKUP_NET` = FALSE | `Services_parts` | on old kernels the IPv6 socket is read a second time without a check (`vxlan.c:991`) |
| `HookedWhenUp` (Stt) | `Services_parts` | the last device of a namespace going down takes the hook of a device that is coming up, or the drifted count leaves a device without one |
| `CongestionKept` (Stt) | `Services_parts` | congestion marks of fragments other than the first to arrive are lost |
| `SttInv` with `SOCK_FAILS` or `HOOK_FAILS` = TRUE | `Services_parts` | a socket that cannot be made leaves the tunnel count raised; a hook that cannot be registered frees the tables with the work scheduled |
| `ForcedOriginal` (Conntrack) | `Services_parts` | a forced commit is not enforced for a packet that carries another zone's connection (`conntrack.c:705`, against `linux/compat/include/linux/openvswitch.h:756`) |
| `MarkInKey` (Conntrack) | `Services_parts` | the key keeps the old mark when another packet has set the same mark (`conntrack.c:321`) |

Passing properties are stated beside these, not around them: `ReadersSafe` in
`Datapath_readers` speaks of netdev and internal ports, as `HeldPortHasDev` shows what happens
with tunnels; `NoSkbLeak` counts skbs except those `RecircConsumes` is about; `NoLeak` counts
the masks a flush leaves behind as held by the array; `NetExitClean` is checked without
physical devices that move, as a port left behind by `DetachedDestroyed` would keep its
device when the namespace ends.

Reading and modelling the code also showed the following, which the models contain as the code has it and the
passing properties except by name or by the choice of inputs.

*Keys, masks and actions.*
- `push_eth` and `pop_eth` do not change the MAC type that validation goes by (`flow_netlink.c:2631–2645`), so
  `[POP_VLAN, POP_ETH]` and a push or pop twice are judged by the packet as it came.
- A flow without a mask for an 802.2 frame wildcards the Ethernet type. Dumped masks always have a tunnel, exact
  tag types and no neighbour discovery, and of a tunnel without the key flag no mask of the id
  (`Forgotten`). A masked key whose Ethernet type is wildcarded cannot be read back.
- Keys of packets with a tag, a label or an IPv6 header cut short, of 802.2 frames without Ethernet header, and of
  tracked ICMPv6 with the type but not the code of neighbour discovery are refused when they are sent back
  (`Untellable`). Extraction again of a tracked ICMPv6 echo overwrites the original tuple (`LostTuple`).
- A VLAN attribute of a mask that is all zeros is dropped, and the key's attribute is taken for the mask (line 947).
- `push_mpls` is accepted after `pop_vlan` of a packet with two tags; ports of later fragments can be set;
  conntrack is accepted after `push_mpls`; `SET` of a mark or labels is accepted and fails in execution.
- A `USERSPACE` action may report a key that is out of date.

*Module and sketches.*
- No barrier awaits callbacks before `ovs_flow_exit()` of a failed load, though a datapath can have been made while
  `dp_register_genl()` was registering the other families. Packets may be processed before `init_filter_sketch()`; `dp_cleanup()` frees
  the sketches before the datapaths whose packets use them (`datapath.c:2494`).
- Ingress devices update sketches that were never made, and a device id above `SW_COUNT` is let through by one
  (`sketch_manage.c:106`).
- No allocation of a sketch is checked (`countmin.c:6–14`, `countmax.c:11–17`, `countmax.c:55–57`), so the check for NULL at
  `sketch_manage.c:46` and `:51` never applies: `insmod` is killed, or a sketch without counters, keys or data counts as
  made and kills the thread that reports it (`sketch_manage.c:146`) or the packet that updates it; the latter is not modelled (`Sketch` and `CountMax`
  begin with a line that was allocated). A buffer for the report (`:137`) and the thread (`:266`) are not checked either.
- When its socket cannot be made, the thread prints so and goes on with an uninitialised pointer (`sketch_manage.c:200`). What else that
  overwrites is not modelled.
- A thread that ends by an error keeps its socket, and `kthread_stop()` is called on it after it ended, when it may
  have been freed; unloading blocks while the collector sends nothing (`sketch_manage.c:249`).

*Tunnels.*
- LISP does not put the route when `__udp_tunnel_handle_offloads()` fails. A GRE registration that fails leaves the protocol added. Geneve
  cannot open a flow-based device where IPv6 is disabled at run time. Queued fragments of STT hold a device
  without a reference, and fragments of one key that tell different total lengths could complete a packet with a gap.

*Connection tracking.*
- A packet that goes through the zones A, B and A again is translated again in A. A translation whose extension cannot be
  added lets the packet pass untranslated (`NAT_EXT_FAILS`). An expectation made between
  `ovs_ct_expect_find()` and `nf_conntrack_in()` is used up by a mere lookup. A packet whose connection is deleted and
  made anew during an upcall may keep a key with the wrong direction.

### Bounds

The named bounds are the constants of the modules.

- *Pools.* Two flows, masks, arrays and instances and three action lists (three flows and
  masks in `FlowTable_masks`) give each command a partner to conflict with, a mask
  shared by two flows, and `-ENOMEM` at every allocation. `FlowTable_live` has one flow, mask
  and array: the packet meets the flow's removal, reinsertion and replacement under four keys.
- `MASK_ARRAY_SIZE_MIN` (2 in `FlowTable_masks`) and `TBL_MIN_BUCKETS` are 1 instead of 16 and
  1024, so that growth and shrinking occur with two and three masks and flows.
- `MAX_REF` (FlowTable, 1) stops flushes once a mask's count has passed it, because the leak
  of `MaskNeeded` would otherwise grow without bound.
- `MAX_BUCKETS` (FlowHash, 4): the table doubles twice, and is copied at each size, so that
  chains part and change their order; `MAX_COPIES` is the number of copies during one lookup.
- `MAX_PACKETS` (FlowStats, 2) is one per CPU, enough for the preallocated block and a block
  of each CPU. `MAX_PACKETS` and `MAX_LISTS` of `Upcall` (2, 2) let two packets choose from one
  list and from two, and be queued while the list is replaced.
- `OVS_RECURSION_LIMIT` is 3, `OVS_DEFERRED_ACTION_THRESHOLD` 2 and the FIFO has 3 entries,
  instead of 4, 2 and 10. The lists of `MCActions` pass all three limits.
- `MAX_TRAFFIC` (CountMax, 10) and `MAX_RACES` (Sketch, 2) bound the updates. A bucket changes hands
  several times within it.
- `MAX_CONNS` and `MAX_CALLBACKS` (SketchModule, 2): one connection of the collector ends while another waits.
- `FlowSetup` is checked for 39 forms of packets, one for each branch of the parsers and combinations of those that meet (a tunnel and a
  tag, conntrack of both families), nine sets of mask attributes, one for each check on masks, and lists of one
  and two actions and samples. Two of the masks get every list, the others an output and a pop, because what an action does
  depends on the mask only through the checks. `MAX_PASSES` is 2: one recirculation.
- *Tunnels.* Two devices that share a port, or a socket, and one or two packets; two UDP ports, the IPv6
  socket of one of which cannot be bound (`TAKEN`); `LOOKUP_NET`, `SKIP_ZERO_COPY` are build options, set to
  what a current kernel has; `HOOK_FAILS` and `SOCK_FAILS` are FALSE because of what the table above says. `MAX_TIME` and
  `MAX_DRIFT` of `Stt` bound the clock and the difference the count may take; the thresholds are a few bytes, so that eviction
  happens with three fragments. STT is checked twice, the devices with one fragment and the table with more.
- *Conntrack.* Two packets, two connections and six sets of pipelines (five pairs and one packet alone): translation and the reply to it, two hosts that translate to the
  same address, a helper and the connection it expects, two zones, a forced direction with labels.
- *Threads.* `ovs_mutex` serialises commands, so a second thread matters only where
  a command works without it (`Datapath_devices`, which loads modules; the delete handler of
  `FlowTable_update` meets the RCU callbacks instead). One
  reader suffices where properties speak of one reader; readers do not write
  shared state.

Symmetry is used on pools of interchangeable objects, threads and readers, and never in runs
with liveness properties. Deadlock is checked except where the bounds end a behaviour (`Services_parts`,
`FlowStats_counts`, the `Userspace` runs) and in `Datapath_readers` (all namespaces may have ended).

### Fairness

- *FlowTable.* Weak fairness of each command in progress, each reader in progress, and
  RCU callbacks: kernel threads are scheduled, read-side sections
  do not sleep, and callbacks run once a grace period is over. New commands and packets
  are not required to come.
- *Datapath.* Strong fairness of taking `ovs_mutex`: kernel mutexes queue their waiters, so
  a thread that is again and again able to take it does; weak fairness of
  everything else that has begun, including the notify work, which the workqueue runs.
- *Actions.* Weak fairness of the execution on its CPU.
- *FlowStats.* Strong fairness of taking a spin lock (ticket and queued locks are fair).
- *FlowHash.* Weak fairness of the reader only; writers may go on for ever.

The other modules state no fairness and no liveness. That `rmmod` ends, for one, is not so: see `sketch_manage.c:249` above.

## 4. Proofs

`FlowTableProofs` proves `Spec => []OwnInv` for any number of objects, fields, values,
threads and readers, from `ConstantsAssumption` and `PoolsAssumption` (the pools are
disjoint, the null pointer is in none, the constants have their types). `OwnInv`
says that every flow, every list of actions, and every array and instance is
owned by exactly one of: the published table, a command in progress,
the instance a flush is destroying, a pending callback. It is the inductive invariant itself:

- `TypeOK` types;
- `LockInv` a command is at a step that needs the mutex exactly when it holds it;
- `HeldInv` what a command has allocated or unlinked is allocated, in nobody else's hands and not in the
  table, nor pending;
- `FlushInv` the same of the flows of an instance being destroyed;
- `TableInv` flows linked in the table are allocated, not pending, and both instances agree on which flows there are;
- `ActsInv` each such flow has actions of its own;
- `PendInv` what is pending is still allocated.

No proper part of it is inductive: that a deletion frees its flow once needs that no other
command holds the flow, which needs that the flow was linked when it was taken out, which needs
`TableInv` after every insertion, where the new flow comes from `HeldInv`. The proof has one
lemma per action. From it follow `TypeCorrect` and `DeleteSafe`, that a deletion may
read the flow and its actions after it has released the mutex. (Its mask it may not:
`DelMaskSafe`.)

It also proves `MasksRight`, `Spec => []MasksSafe`, from `OwnInv` and a second invariant,
`MaskInv`, which is about numbers instead of owners: the published array counts its masks and holds each once;
no two of its masks are equal; each of them is live and has a reference; the mask of every flow *in use* is in
the array and counts at least as many references as flows use it; every other allocated mask waits for its callback; and `tbl.count` is the number
of linked flows. In use are the linked flows and the one between
`flow_mask_insert()` and `flow_key_insert()`, or between the unlinking and `flow_mask_remove()`: with linked flows alone it is
not inductive. References may exceed the users, since a flush never gives them back (`MaskNeeded`), and the
proof shows that this is the only direction in which they may be wrong. The lemmas on arrays
(`AddMaskHolds`, `DeleteMaskHolds`, `ReallocHolds`) say that adding, deleting and
compacting change the set of masks as intended and keep the count exact for every size, `MASK_ARRAY_SIZE_MIN` included.

Next it proves `MemoryRight`, `Spec => []MemorySafe`: no reader ever reaches freed memory
and no object is lost, for every number of packets, dumps and commands. An object is *protected* from reader r if it
is allocated and, should it be pending, its grace period waits for r. `ReaderInv(r)` closes what r has
loaded under what r may load next: the masks of its array, the flows of its instance, their masks and the flow whose actions it
executes are protected, and the flows that commands are inserting are out of its reach. It is the
latter that lets `-ENOMEM` in `flow_mask_insert()` free a flow at once, without a grace period. `ReaderInv` needs `MaskInv`: that
the mask of a linked flow is live, when a reader enters the table, is known only because its references are counted. `OwnerInv`, the converse of
`OwnInv`, names for each allocated object who will free it, so that nothing leaks on any error path.

From these it proves `TablesRight`, `Spec => []TableExact`: the two tables hold the same flows, count them exactly and
hold none twice. `FlowsUnique` alone is not inductive: `ExactInv` adds, for the command between the duplicate checks of
`ovs_flow_cmd_new()` and the insertion (`NewDiffers`), that no linked flow has the UFID of the new one or, under an equal mask, its masked
key; once its mask is shared or added, that no linked flow has that mask object and that key. What the checks
found stays so because the mutex is held from there on. The checks go through the *published* masks, so
their outcome says something of every linked flow only since `MaskInv` puts the mask of each in the array
(`NothingFound`), and because masking a key twice is masking it once (`MaskTwice`).

It also proves `Refinement`, `Spec => ImplementsAbs`, from `ExactInv`. Userspace sees of a flow its mask, keys, UFID and
actions (`AsInstalled`). No two linked flows look alike (`InstalledOnce`: equal masks are one object), so replacing actions or unlinking
changes exactly one element of what is seen; `flow_key_insert()` is the step that installs, and there `NewDiffers` still has
the outcome of the duplicate checks; all other steps show nothing.

Last it proves `LookupCorrect`, `Spec => []LookupRight`. The lookup loads the array, then the instance, and goes
through slots that commands fill, empty and move meanwhile, beginning at an index a stale cache proposes. `LookupInv(r)` says
that each flow that matches and has stayed linked (`cand`) is in the reader's instance, and that its mask is the one
being walked or in a slot whose turn has not come (`Comes`: the proposed slot first, then all others). It is kept
since a reader's instance and array stay allocated (`ReaderInv`), a new mask goes to an empty slot, a mask is taken out of its slot only
when no linked flow has it (`MaskInv`), moved masks are in another array, and linking goes to the instance the reader may hold.

`FlowStatsProofs` proves `PacketsCounted`, `Spec => []StatsInv`, and `ReportsCorrect`, `Spec => []ReportsRight`, for every number of
CPUs, commands and packets. A get reads the blocks one at a time while packets are counted and cleared, so that its
report is the sum of blocks at different times. The inductive invariant says of a get half way through (`GetsRight`) that what it has added up, together
with what the blocks ahead of it hold now, lies within the bounds its report will have; of a clear (`ClearsRight`) that what is in the blocks behind it
was counted since it began; that one clear runs at a time (`OneClear`, the mutex); and that a block with a count,
and the one a CPU waits for, exists (`Blocks`). `Sums` is a recursive function: that it is what its equation says, and how it follows a change of one block, are shown by induction. The
library's induction theorems take an operator and cannot be cited, but `Induction` states the same for a *set* of numbers, and follows
from the well-foundedness of `<`.

`ActionsProofs` proves `LevelHolds`, `SkbsHolds` and `KeysHold` (`LevelInv`, `SkbsOwned`, `KeyDescribesPacket`) for any datapaths, action lists, flows
and limits, as long as the threshold for cloning keys is below the recursion limit. `ConstantsAssumption` states it, and `actions.c:77` makes it so (the limit less 2); otherwise
the level that a clone raises could pass the limit. The proof counts the stack from the *outermost* function (`At`), where the place of a function does not change
while it waits. `IInv` adds to the types:

- `Nesting`: the level is the number of functions on the stack that have raised it; only the outermost fills the FIFO or empties it;
- `OneHand`: two functions that still have a packet, or two entries, never have the same one, and what they have is live;
- `OnePlace`: a function that is still to use its key keeps it at a place of a level *below* its own, or in an entry that has been taken. That is what
  makes it safe to write the key of the current level, the local of a receive and the next entry. Two functions share a place only if the inner one
  executes actions that do not change the key (`actions_may_change_flow()`), on a packet that is still the same;
- `Described`: such keys describe their packets.

Neither `SkbsOwned` nor `KeyDescribesPacket` is inductive without `OnePlace`. The actions fall into a few kinds of steps (a function returns, goes on, calls
another, defers, takes an entry), each with a lemma of its own for every conjunct; the proof of `Next` only says of which kind each action is.

`ServicesProofs` proves `SketchInv` of `CountMax` for every width, depth, hash function, set of flows and
traffic. `CellInv` says of a bucket with traffic t, counter c and key k that c is at most what k
sent, that k sent at most (t + c) / 2, and that any other flow sent at most (t - c) / 2. `NoOverestimate` and `HeavyFlow` follow: a query never exceeds
what a flow sent, and a flow with more than half of its bucket's traffic owns the bucket.

Of the sketch that any finite number of CPUs update without a lock (`Sketch`) it proves `RaceInv`. `WithinTraffic` alone is not inductive, for
a CPU stores what it loaded long ago: `StoresInv` bounds those values too, by the number of stores so far, where an update counts once its
first store is done; `Admitted` keeps packets within `MAX_RACES`. `Alone` says of a bucket that no two CPUs have
met in that the one inside finds the keys and the counter as it compared and loaded them. From `Alone`
follows that each update is one of `CountMax` (`RacelessIsCountMax`): an update
that has stored the counter and not yet both words of the key maps to one that has not begun, with the counter it had loaded.
Of the module (`SketchModule`) it proves `ModuleInv`: which steps are up follows from how
far `dp_init()`, its labels or `dp_cleanup()` have come, also where their task was killed; sketches, thread,
datapaths and callbacks exist only while the step they rest on is up, except for the sketches of an `insmod` that was killed making them;
and the thread has only gone past whole sketches. `ModuleSafe` reads off that. The assumption is
`RacesAssumption`, that there are finitely many CPUs.

`DatapathProofs`, with `DatapathCommands`, proves `PortsWhole` (`Spec => []PortsInv`) and `DevicesSafe` (`DevicesHeld`) for any number
of datapaths, ports, devices, names, namespaces, threads and readers, and any choice of commands and events. `PoolsAssumption` says that the pools are
disjoint and the ports finitely many, without which references could not be counted. The
properties hold while `ovs_mutex` is free, the invariant `Inv` all the time, and so it says who has what in hand:

- `TypeInv`, `LockInv`: types; a command is at a step that needs a mutex exactly when it holds it;
- `VportInv`: a port is free, waits for its callback, is one of its datapath's, or is in the hand of the one command that adds or removes it,
  and its entry in `dev_table` follows from how far that command has come;
- `DpInv`: a datapath is free, pending, published with one local port and every number used once, or in the hand of the command that makes
  or destroys it (`Owns`);
- `AddInv`, `RemoveInv`, `CmdInv`: what a command knows of its port, datapath and device. All but the steps
  of `Lockless` are done under the mutex, and a command that has dropped it for `request_module()` looks up its datapath and its device again;
- `DevInv`: a device has the handler of a port exactly if that port is registered with it, and what is left of it when unregistered;
- `RefsBalanced`: the references of a device are the ports that hold it, and its promiscuity follows from its handler.

No part of it is inductive alone. That a port is freed once rests on `RemoveInv` and the callback, that one device never gets two handlers on `RefsBalanced` and
`DevInv`, and `RefsBalanced` on `AddInv`, for a creation that fails gives back what it has taken so far. The count is the
cardinality of a set of ports, and each step that takes or drops a reference adds or removes one port of it.

Of readers it proves `ReadersKeepPorts`: what a packet, a dump or a lookup has come by is published, or has a
callback that waits for that reader (`ReadersInv`), so that ports and datapaths are never freed under it. Of devices this holds only
without tunnel ports: `ReadersHoldLive` is `Spec => []ReadersSafe` under the assumption `"tunnel" \notin Types`, as in the run. A tunnel port lets go
of its device before the grace period (`HeldPortHasDev`), and where devices are unregistered as well, a reader
can hold the freed device of such a port.

`UpcallProofs` proves `SocketsRight` and `SegmentsRight` (`RightSocket`, `SegmentsInOrder`) for any number of CPUs, lists, sockets and packets. Its
`UpcallAssumption` is what `ovs_vport_set_upcall_portids()` checks, that no list is empty. `RightSocket` needs that the list a packet is
about to load is the port's, and that the one it has loaded, if replaced since, waits for the CPU that reads it (`ListsInv`); and what a
packet has chosen is remembered with the list it chose from (`ChoiceInv`). `SegmentsInOrder` needs that no two CPUs have the same packet, and
that until an error the segments queued are those before the one the CPU is at (`CpuInv`). Then each end of a packet changes
the two counts, which are cardinalities, by one or not at all.

`TunnelXmitProofs` proves `XmitRight`, `Spec => []XmitInv`, for any number of packets, segments and sockets and each of the seven
transmit functions. A function is a sequence of steps; `DriverRight` says of each function at which step it gets its route
(`RouteAt`), and that every later step that fails gives the route back, but for the last of LISP. `Holds` gives what a packet
holds at each step, including the segments and lists of STT, whose clones of the route are one less than the packets they are for. `SocketInv` is that of
the socket: the release of a socket waits for those who may have read it. `XmitAssumption` leaves out `vxlan6` on kernels whose
`ipv6_dst_lookup()` takes no net, where the device's socket is read once more without a check. `ServicesProofs` carries the result over to the
composition that the run explores (`XmitHolds`, `PartSpec => []XmitInv`): `Tunnels` and `TunnelXmitProofs` have instances of `TunnelXmit` with equal operators, and the
other parts leave its variables alone.

All safety properties of the runs of `FlowTable`, `FlowStats`, `Actions`, `Upcall`, `TunnelXmit`, `CountMax`, `Sketch` and `SketchModule`, and the
refinements of `FlowTableAbs` and `CountMax`, are thus proved. The following are only model-checked:

- liveness, because the provers do not reason about `ENABLED`;
- the walks of chains (`ChainsInv`, `FullLookup` of `FlowHash`), which go along next pointers: that a walk reaches what it should is an induction over
  the chain for every state of two interleaved lists;
- `NetExitClean` and `HeadroomCovers` of `Datapath`, which hold of the instance that `Datapath_readers` explores but not where devices move (see
  section 3): one that has moved and been taken up by another datapath is told that one's headroom, while its old port is still there;
- `FlowSetup` and the modules under it (`EchoInstalls`, `DumpRestores`, `ActionsFit`, `KeyUpToDate`): parsing and validation follow
  nested attributes and nested lists of actions with recursive operators, for which the provers have no induction;
- the devices and sockets of the tunnel drivers, the reassembly of STT, and `Conntrack` (`TunnelsInv`, `SttInv`, `ConntrackInv`).

## 5. Not modelled

- *Dead code.* `hashheap.c` and `hashtable.c` are not compiled (`Modules.mk:30–34`); the filtered space saving and
  count-sketch are never created; the count-min sketch is created and freed but never updated.
- *Compatibility layer.* Declarations and replacements of kernel functions that keep no state. The queues of IP fragments
  (`ip_fragment.c`, `nf_conntrack_reasm.c`) do; they are copies of the kernel's, and appear in `Conntrack` and `FlowKey` as a
  packet that is stolen or fails. Fragmentation on output (`ovs_fragment()`) cuts a packet and frees it.
- *Configuration.* `OVS_VPORT_CMD_SET` and `OVS_DP_CMD_SET` beyond portids, tunnel options and forwarding databases of the drivers, parsing
  and dumping of the conntrack and NAT attributes, growth of the buffer of action lists: sequential code on bytes.
- *Bytes.* Addresses, checksums, header layout, netlink padding, log messages, meters of bytes and time stamps.
- A dump promises no snapshot, so which flows it reports while the table changes has no property.
- *Composition.* Components that share state are composed where the sharing is the hazard: `FlowSetup` (extraction, netlink, validation,
  execution), `Sketch` with `CountMax`, `SketchModule` with datapaths and callbacks, `Datapath` with devices and namespaces. Packets that
  execute while a datapath goes are in `Datapath` as readers; `Actions` itself is not composed with it.

## 6. What would come next

A datapath-wide composition of `Actions` with the deletion of datapaths; the queues of IP fragments; an abstract port table for
`Datapath`; proofs of `ChainsExact` of `FlowHash`, of the
sockets of `Geneve` and `Vxlan`, and of the references of `Conntrack`.
