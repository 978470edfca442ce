------------------------------- MODULE Datapath -------------------------------
(***************************************************************************)
(* Datapaths, their ports and the network devices under them: the Generic  *)
(* Netlink commands that create and delete them (datapath.c), the ports of *)
(* the three kinds that differ in how they hold their device (vport.c,     *)
(* vport-internal_dev.c, vport-netdev.c, tunnels through vport-vxlan.c),   *)
(* the reaction to a device that disappears (dp_notify.c) and the end of a *)
(* network namespace, against the RCU readers that use all of them.        *)
(*                                                                         *)
(* Two mutexes: ovs_mutex, and RTNL nested inside it.  Devices, their      *)
(* names, their reference counts and their unregistration belong to the    *)
(* kernel; they are modelled as far as this code relies on them.           *)
(***************************************************************************)
EXTENDS Integers, FiniteSets

CONSTANTS
  Dps, Vports, Devs,       \* pools of kernel objects
  PortNos,                 \* port numbers below DP_MAX_PORTS, with OVSP_LOCAL
  OVSP_LOCAL,              \* the number of the local port
  Names,                   \* device names
  Nets,                    \* network namespaces
  Types,                   \* the port types a command asks for
  Loaded,                  \* the types whose module is loaded at the start
  Headroom,                \* needed_headroom of each device
  Threads, Readers,        \* handlers of commands; packets and RCU lookups
  Worker,                  \* the thread of the system workqueue
  Commands,                \* what userspace asks for
  Events,                  \* what happens to devices and namespaces
  NULL

ASSUME ConstantsAssumption ==
  /\ OVSP_LOCAL \in PortNos /\ PortNos \subseteq Nat
  /\ Types \subseteq {"netdev", "internal", "tunnel"}
  /\ Headroom \in [Devs -> Nat]
  /\ Commands \subseteq {"dp_new", "dp_del", "vport_new", "vport_del", "auto_port"}
  /\ Events \subseteq {"register", "unregister", "rename", "move_phys", "move_internal",
                    "exit_net"}
  /\ Worker \notin Threads
  /\ NULL \notin Dps \cup Vports \cup Devs \cup Names \cup Nets \cup Threads \cup Readers
                 \cup {Worker}
ASSUME PoolsAssumption ==
  /\ Dps \cap Vports = {} /\ Dps \cap Devs = {} /\ Vports \cap Devs = {}
  /\ IsFiniteSet(Vports)

VARIABLES
  alloc,      \* objects that are allocated
  pend,       \* ports and datapaths passed to call_rcu()
  wait,       \* the readers a grace period, of call_rcu() or of a device being
              \* unregistered, waits for
  rcu,        \* readers inside an RCU read-side critical section
  dp,         \* struct datapath: namespace, ports (dp_hash), listed, max_headroom
  vport,      \* struct vport: dp, port_no, type, dev
  dev_table,  \* the name under which dev_table holds each port, or NULL
  dev,        \* struct net_device
  ops,        \* types in vport_ops_list
  work,       \* namespaces whose dp_notify_work is queued
  dead,       \* namespaces that have gone through ovs_exit_net()
  ovs_mutex, rtnl,  \* holders of the mutexes, or NULL
  cmd,        \* progress and locals of each thread
  rd          \* what each reader has loaded

memory == <<alloc, pend, wait>>
tables == <<dp, vport, dev_table>>
vars == <<alloc, pend, wait, rcu, dp, vport, dev_table, dev, ops, work, dead,
          ovs_mutex, rtnl, cmd, rd>>

Actors == Threads \cup {Worker}
Obj    == Dps \cup Vports \cup Devs

NoDp    == [net |-> NULL, ports |-> {}, listed |-> FALSE, max_headroom |-> 0]
NoVport == [dp |-> NULL, no |-> OVSP_LOCAL, type |-> "internal", dev |-> NULL]
\* kind: "phys", "internal" or "tunnel"; reg: the registration state; vport: the
\* rx_handler_data, or the port an internal device belongs to; attached: the flag
\* IFF_OVS_DATAPATH; ref: the references ports hold; rx: the rx_headroom.
NoDev == [kind |-> "phys", name |-> NULL, net |-> NULL, reg |-> "none", vport |-> NULL,
          attached |-> FALSE, promisc |-> 0, ref |-> 0, rx |-> 0]
\* what: the command, or "EBUSY" after one that failed so; net: the namespace it
\* comes from; auto: no port number was asked for; headroom: must_update_headroom;
\* todo: ports left to visit.
Idle == [pc |-> "idle", what |-> "none", dp |-> NULL, vport |-> NULL, dev |-> NULL,
         net |-> NULL, name |-> NULL, type |-> "internal", auto |-> FALSE, no |-> OVSP_LOCAL,
         headroom |-> FALSE, todo |-> {}]
Outside == [vport |-> NULL, dp |-> NULL, dev |-> NULL]

-----------------------------------------------------------------------------
(* Lookups. *)

Registered(e) == dev[e].reg = "registered"

\* dev_get_by_name(): the device with a name in a namespace.
ByName(net, n) == {e \in Devs : Registered(e) /\ dev[e].name = n /\ dev[e].net = net}

\* ovs_vport_locate(): the bucket is the one of the name a port had when it was
\* added, and the port's present name is compared.
ovs_vport_locate(net, n) ==
  {v \in Vports : /\ dev_table[v] = n
                  /\ vport[v].dev # NULL /\ dev[vport[v].dev].name = n
                  /\ dp[vport[v].dp].net = net}

\* ovs_lookup_vport()
ovs_lookup_vport(d, no) == {v \in dp[d].ports : vport[v].no = no}

\* get_dp(): the datapath of the internal device with an ifindex.
get_dp(e) == IF Registered(e) /\ dev[e].kind = "internal"
             THEN vport[dev[e].vport].dp ELSE NULL
FoundDps == {get_dp(e) : e \in Devs} \ {NULL}

-----------------------------------------------------------------------------
(* RCU and device references. *)

call_rcu(o) == /\ pend' = pend \cup {o}
               /\ wait' = [wait EXCEPT ![o] = rcu]

rcu_read_lock(r)   == rcu' = rcu \cup {r}
rcu_read_unlock(r) == /\ rcu' = rcu \ {r}
                      /\ wait' = [o \in Obj |-> wait[o] \ {r}]

\* ovs_netdev_detach_dev(): the device no longer hands its packets to the port.
KeepsPromisc(x) == [x EXCEPT !.attached = FALSE, !.vport = NULL]    \* mutant
Detached(x) == [x EXCEPT !.attached = FALSE, !.vport = NULL, !.promisc = @ - 1]
NeverDetached(x) == x                                               \* mutant
ovs_netdev_detach_dev(x) == IF x.attached THEN Detached(x) ELSE x

-----------------------------------------------------------------------------
(* The beginning: the module is loaded and there is no datapath. *)

Init ==
  /\ alloc = {} /\ pend = {} /\ rcu = {}
  /\ wait = [o \in Obj |-> {}]
  /\ dp = [d \in Dps |-> NoDp]
  /\ vport = [v \in Vports |-> NoVport]
  /\ dev_table = [v \in Vports |-> NULL]
  /\ dev = [e \in Devs |-> NoDev]
  /\ ops = Loaded
  /\ work = {} /\ dead = {}
  /\ ovs_mutex = NULL /\ rtnl = NULL
  /\ cmd = [t \in Actors |-> Idle]
  /\ rd = [r \in Readers |-> Outside]

-----------------------------------------------------------------------------
(* Creating datapaths and ports. *)

others == <<ops, work, dead>>
readers == <<rcu, rd>>

\* A command ends and releases ovs_mutex.
Finish(t) == ovs_mutex' = NULL /\ cmd' = [cmd EXCEPT ![t] = Idle]
Goto(t, pc) == cmd' = [cmd EXCEPT ![t].pc = pc] /\ UNCHANGED ovs_mutex

\* What a command that fails before it has published its port frees: the port, and
\* the datapath ovs_dp_cmd_new() has built around it.
FreeNew(t) ==
  /\ alloc' = alloc \ ({cmd[t].vport} \cup IF cmd[t].what = "dp_new" THEN {cmd[t].dp} ELSE {})
  /\ vport' = [vport EXCEPT ![cmd[t].vport] = NoVport]
  /\ dp' = IF cmd[t].what = "dp_new" THEN [dp EXCEPT ![cmd[t].dp] = NoDp] ELSE dp

\* ovs_dp_cmd_new(), up to the creation of the local port; the datapath is still
\* private.
ovs_dp_cmd_new(t, d, v, net, n) ==
  /\ cmd[t].pc = "idle"
  /\ ovs_mutex = NULL
  /\ net \notin dead
  /\ d \notin alloc /\ v \notin alloc
  /\ alloc' = alloc \cup {d, v}
  /\ dp' = [dp EXCEPT ![d] = [NoDp EXCEPT !.net = net]]
  /\ vport' = [vport EXCEPT ![v] = [NoVport EXCEPT !.dp = d]]
  /\ ovs_mutex' = t
  /\ cmd' = [cmd EXCEPT ![t] = [Idle EXCEPT !.pc = "create", !.what = "dp_new", !.dp = d,
                                  !.vport = v, !.net = net, !.name = n]]
  /\ UNCHANGED <<pend, wait, dev_table, dev, others, rtnl, readers>>

\* The port numbers ovs_vport_cmd_new() may use: the one asked for, or the lowest
\* free one after OVSP_LOCAL.
FreeNos(d) == {no \in PortNos \ {OVSP_LOCAL} : ovs_lookup_vport(d, no) = {}}
ChosenNo(d, auto, no) ==
  IF auto THEN {x \in FreeNos(d) : \A y \in FreeNos(d) : x <= y}
          ELSE FreeNos(d) \cap {no}

\* ovs_vport_cmd_new() from ovs_lock() to the call of new_vport(); the datapath is
\* named by the ifindex of e.  Requests that fail before change nothing.
ovs_vport_cmd_new(t, e, type, n, auto, no) ==
  /\ cmd[t].pc = "idle"
  /\ ovs_mutex = NULL
  /\ get_dp(e) # NULL
  /\ \E x \in ChosenNo(get_dp(e), auto, no) :
       cmd' = [cmd EXCEPT ![t] = [Idle EXCEPT !.pc = "vport_add", !.what = "vport_new",
                                    !.dp = get_dp(e), !.dev = e, !.net = dev[e].net,
                                    !.name = n, !.type = type, !.auto = auto, !.no = x]]
  /\ ovs_mutex' = t
  /\ UNCHANGED <<memory, tables, dev, others, rtnl, readers>>

\* ovs_vport_add(): the port is allocated when its type is known; otherwise
\* ovs_mutex is dropped to load the module.
ovs_vport_add(t) ==
  /\ cmd[t].pc = "vport_add"
  /\ \/ /\ cmd[t].type \in ops
        /\ \E v \in Vports \ alloc :
             /\ alloc' = alloc \cup {v}
             /\ vport' = [vport EXCEPT ![v] = [dp |-> cmd[t].dp, no |-> cmd[t].no,
                                               type |-> cmd[t].type, dev |-> NULL]]
             /\ cmd' = [cmd EXCEPT ![t].vport = v,
                          ![t].pc = IF cmd[t].type = "netdev" THEN "get_dev" ELSE "create"]
        /\ UNCHANGED ovs_mutex
     \/ /\ cmd[t].type \in ops
        /\ Finish(t)
        /\ UNCHANGED <<alloc, vport>>
     \/ /\ cmd[t].type \notin ops
        /\ cmd' = [cmd EXCEPT ![t].pc = "request_module"]
        /\ ovs_mutex' = NULL
        /\ UNCHANGED <<alloc, vport>>
  /\ UNCHANGED <<pend, wait, dp, dev_table, dev, others, rtnl, readers>>

\* request_module(): the module registers its type, under ovs_mutex, or there is none.
request_module(t) ==
  /\ cmd[t].pc = "request_module"
  /\ \/ ovs_mutex = NULL /\ ops' = ops \cup {cmd[t].type}
     \/ UNCHANGED ops
  /\ cmd' = [cmd EXCEPT ![t].pc = "relock"]
  /\ UNCHANGED <<memory, tables, dev, work, dead, ovs_mutex, rtnl, readers>>

\* -EAGAIN: ovs_vport_cmd_new() starts again, with the port number it had chosen.
SameDp(t) == cmd[t].dp                                              \* mutant
RestartDp(t) == IF dev[cmd[t].dev].net = cmd[t].net THEN get_dp(cmd[t].dev) ELSE NULL
restart(t) ==
  LET d == RestartDp(t)
  IN
  /\ cmd[t].pc = "relock"
  /\ ovs_mutex = NULL
  /\ IF cmd[t].type \notin ops \/ d = NULL
     THEN Finish(t)
     ELSE IF cmd[t].no \in FreeNos(d)
     THEN /\ ovs_mutex' = t
          /\ cmd' = [cmd EXCEPT ![t].pc = "vport_add", ![t].dp = d]
     ELSE /\ ovs_mutex' = NULL
          /\ cmd' = [cmd EXCEPT ![t] = [Idle EXCEPT !.what = "EBUSY", !.auto = cmd[t].auto]]
  /\ UNCHANGED <<memory, tables, dev, others, rtnl, readers>>

\* internal_dev_create(), or the creation of a tunnel's device: registers a device,
\* unless its name is taken or memory is short.
dev_create(t) ==
  LET v == cmd[t].vport
      net == dp[cmd[t].dp].net
      internal == cmd[t].type = "internal"
  IN
  /\ cmd[t].pc = "create"
  /\ rtnl = NULL
  /\ \/ /\ ByName(net, cmd[t].name) = {}
        /\ \E e \in Devs \ alloc :
             /\ alloc' = alloc \cup {e}
             /\ dev' = [dev EXCEPT ![e] =
                  [NoDev EXCEPT !.kind = cmd[t].type, !.name = cmd[t].name,
                     !.net = net, !.reg = "registered",
                     !.vport = IF internal THEN v ELSE NULL,
                     !.promisc = IF internal THEN 1 ELSE 0]]
             /\ vport' = IF internal THEN [vport EXCEPT ![v].dev = e] ELSE vport
        /\ Goto(t, IF internal THEN "hash" ELSE "get_dev")
        /\ UNCHANGED dp
     \/ /\ FreeNew(t)
        /\ Finish(t)
        /\ UNCHANGED dev
  /\ UNCHANGED <<pend, wait, dev_table, others, rtnl, readers>>

\* ovs_netdev_link() before it takes RTNL: takes a reference to the device.
dev_get_by_name(t) ==
  LET v == cmd[t].vport
      found == ByName(dp[cmd[t].dp].net, cmd[t].name)
  IN
  /\ cmd[t].pc = "get_dev"
  /\ \/ \E e \in found :
          /\ dev[e].kind # "internal"
          /\ dev' = [dev EXCEPT ![e].ref = @ + 1]
          /\ vport' = [vport EXCEPT ![v].dev = e]
          /\ Goto(t, "link")
          /\ UNCHANGED <<alloc, dp>>
     \/ /\ \A e \in found : dev[e].kind = "internal"
        /\ FreeNew(t)
        /\ Finish(t)
        /\ UNCHANGED dev
  /\ UNCHANGED <<pend, wait, dev_table, others, rtnl, readers>>

\* ... and under RTNL: the device is enslaved to the datapath's local device and
\* hands its packets to the port, unless it has another master.
ovs_netdev_link(t) ==
  LET v == cmd[t].vport
      e == vport[v].dev
  IN
  /\ cmd[t].pc = "link"
  /\ rtnl = NULL
  /\ \/ /\ ~dev[e].attached
        /\ dev' = [dev EXCEPT ![e].attached = TRUE, ![e].vport = v, ![e].promisc = @ + 1]
        /\ Goto(t, "hash")
        /\ UNCHANGED <<alloc, vport, dp>>
     \/ /\ dev' = [dev EXCEPT ![e].ref = @ - 1]
        /\ FreeNew(t)
        /\ Finish(t)
  /\ UNCHANGED <<pend, wait, dev_table, others, rtnl, readers>>

\* ovs_vport_add() makes the port findable by the name of its device.
vport_hash(t) ==
  LET v == cmd[t].vport
  IN
  /\ cmd[t].pc = "hash"
  /\ dev_table' = [dev_table EXCEPT ![v] = dev[vport[v].dev].name]
  /\ Goto(t, "insert")
  /\ UNCHANGED <<memory, dp, vport, dev, others, rtnl, readers>>

\* netdev_get_fwd_headroom(), update_headroom() and netdev_set_rx_headroom(), which
\* internal devices do not implement.
FwdHeadroom(v) == IF vport[v].type = "internal" THEN 0 ELSE Headroom[vport[v].dev]
MaxHeadroom(ports) ==
  LET h == {FwdHeadroom(v) : v \in ports} \cup {0}
  IN  CHOOSE x \in h : \A y \in h : y <= x
TellsNobody(ports, x) == dev                                        \* mutant
SetHeadroom(ports, x) ==
  LET devs == {vport[v].dev : v \in {p \in ports : vport[p].type # "internal"}}
  IN  [e \in Devs |-> IF e \in devs THEN [dev[e] EXCEPT !.rx = x] ELSE dev[e]]

\* new_vport() inserts the port; the command adapts the headroom, or lists the
\* datapath, and ends.
new_vport(t) ==
  LET v == cmd[t].vport
      d == cmd[t].dp
      ports == dp[d].ports \cup {v}
      h == FwdHeadroom(v)
  IN
  /\ cmd[t].pc = "insert"
  /\ IF cmd[t].what = "dp_new"
     THEN /\ dp' = [dp EXCEPT ![d].ports = ports, ![d].listed = TRUE]
          /\ UNCHANGED dev
     ELSE IF h > dp[d].max_headroom
     THEN /\ dp' = [dp EXCEPT ![d].ports = ports, ![d].max_headroom = MaxHeadroom(ports)]
          /\ dev' = SetHeadroom(ports, MaxHeadroom(ports))
     ELSE /\ dp' = [dp EXCEPT ![d].ports = ports]
          /\ dev' = SetHeadroom({v}, dp[d].max_headroom)
  /\ Finish(t)
  /\ UNCHANGED <<memory, vport, dev_table, others, rtnl, readers>>

-----------------------------------------------------------------------------
(* Deleting ports and datapaths. *)

\* ovs_dp_detach_port(): takes the port out of its datapath and goes on to destroy
\* it; c holds the caller's locals.
ovs_dp_detach_port(t, v, c) ==
  /\ dp' = [dp EXCEPT ![vport[v].dp].ports = @ \ {v}]
  /\ cmd' = [cmd EXCEPT ![t] = [c EXCEPT !.vport = v, !.pc = "unhash"]]

\* What follows the destruction of a port.
AfterDestroy(what) ==
  CASE what = "vport_del" -> "headroom"
    [] what \in {"dp_del", "exit_net"} -> "dp_ports"
    [] OTHER -> what

\* ovs_vport_cmd_del(): the port is found by its name, or by its number in a
\* datapath; the local port is refused.
FoundVports ==
  {v \in Vports : \/ \E d \in FoundDps : v \in dp[d].ports
                  \/ \E net \in Nets, n \in Names : v \in ovs_vport_locate(net, n)}
ovs_vport_cmd_del(t, v) ==
  LET d == vport[v].dp
  IN
  /\ cmd[t].pc = "idle"
  /\ ovs_mutex = NULL
  /\ v \in FoundVports
  /\ vport[v].no # OVSP_LOCAL
  /\ dev' = SetHeadroom({v}, 0)
  /\ ovs_dp_detach_port(t, v, [Idle EXCEPT !.what = "vport_del", !.dp = d, !.net = dp[d].net,
                                 !.headroom = FwdHeadroom(v) = dp[d].max_headroom])
  /\ ovs_mutex' = t
  /\ UNCHANGED <<memory, vport, dev_table, others, rtnl, readers>>

\* ... after the port is destroyed.
vport_del_headroom(t) ==
  LET d == cmd[t].dp
      x == MaxHeadroom(dp[d].ports)
  IN
  /\ cmd[t].pc = "headroom"
  /\ IF cmd[t].headroom
     THEN /\ dp' = [dp EXCEPT ![d].max_headroom = x]
          /\ dev' = SetHeadroom(dp[d].ports, x)
     ELSE UNCHANGED <<dp, dev>>
  /\ Finish(t)
  /\ UNCHANGED <<memory, vport, dev_table, others, rtnl, readers>>

\* ovs_vport_del()
ovs_vport_del(t) ==
  /\ cmd[t].pc = "unhash"
  /\ dev_table' = [dev_table EXCEPT ![cmd[t].vport] = NULL]
  /\ Goto(t, "destroy")
  /\ UNCHANGED <<memory, dp, vport, dev, others, rtnl, readers>>

\* netdev_destroy()
netdev_destroy(t) ==
  LET v == cmd[t].vport
  IN
  /\ cmd[t].pc = "destroy" /\ vport[v].type = "netdev"
  /\ rtnl = NULL
  /\ dev' = [dev EXCEPT ![vport[v].dev] = ovs_netdev_detach_dev(@)]
  /\ call_rcu(v)
  /\ Goto(t, AfterDestroy(cmd[t].what))
  /\ UNCHANGED <<alloc, tables, others, rtnl, readers>>

\* ovs_netdev_tunnel_destroy() under RTNL: the device is unregistered unless it
\* already is, and the port lets go of it.
Dropped(x) == [ovs_netdev_detach_dev(x) EXCEPT !.reg = "unregistering", !.ref = @ - 1]
ovs_netdev_tunnel_destroy(t) ==
  LET v == cmd[t].vport
      e == vport[v].dev
  IN
  /\ cmd[t].pc = "destroy" /\ vport[v].type = "tunnel"
  /\ rtnl = NULL
  /\ dev' = [dev EXCEPT ![e] = Dropped(@)]
  /\ vport' = [vport EXCEPT ![v].dev = NULL]
  /\ IF Registered(e)
     THEN /\ wait' = [wait EXCEPT ![e] = rcu]
          /\ cmd' = [cmd EXCEPT ![t].pc = "run_todo", ![t].dev = e]
          /\ UNCHANGED pend
     ELSE /\ call_rcu(v)
          /\ cmd' = [cmd EXCEPT ![t].pc = AfterDestroy(cmd[t].what)]
  /\ UNCHANGED <<alloc, dp, dev_table, others, ovs_mutex, rtnl, readers>>

\* ... and rtnl_unlock(), which waits until nobody holds the device.
tunnel_run_todo(t) ==
  LET v == cmd[t].vport
      e == cmd[t].dev
  IN
  /\ cmd[t].pc = "run_todo"
  /\ wait[e] = {} /\ dev[e].ref = 0
  /\ alloc' = alloc \ {e}
  /\ dev' = [dev EXCEPT ![e] = NoDev]
  /\ call_rcu(v)
  /\ cmd' = [cmd EXCEPT ![t].pc = AfterDestroy(cmd[t].what), ![t].dev = NULL]
  /\ UNCHANGED <<tables, others, ovs_mutex, rtnl, readers>>

\* internal_dev_destroy(): unregister_netdevice() waits for a grace period with
\* RTNL held.
internal_dev_destroy(t) ==
  LET e == vport[cmd[t].vport].dev
  IN
  /\ cmd[t].pc = "destroy" /\ vport[cmd[t].vport].type = "internal"
  /\ rtnl = NULL
  /\ rtnl' = t
  /\ dev' = [dev EXCEPT ![e].promisc = @ - 1, ![e].reg = "unregistering"]
  /\ wait' = [wait EXCEPT ![e] = rcu]
  /\ Goto(t, "synchronize_net")
  /\ UNCHANGED <<alloc, pend, tables, others, readers>>

\* ... and rtnl_unlock() frees the device and, in its destructor, the port.
internal_dev_destructor(t) ==
  LET v == cmd[t].vport
      e == vport[v].dev
  IN
  /\ cmd[t].pc = "synchronize_net"
  /\ wait[e] = {}
  /\ rtnl' = NULL
  /\ alloc' = alloc \ {v, e}
  /\ vport' = [vport EXCEPT ![v] = NoVport]
  /\ dev' = [dev EXCEPT ![e] = NoDev]
  /\ Goto(t, AfterDestroy(cmd[t].what))
  /\ UNCHANGED <<pend, wait, dp, dev_table, others, readers>>

\* ovs_dp_cmd_del()
ovs_dp_cmd_del(t, d) ==
  /\ cmd[t].pc = "idle"
  /\ ovs_mutex = NULL
  /\ d \in FoundDps
  /\ ovs_mutex' = t
  /\ cmd' = [cmd EXCEPT ![t] = [Idle EXCEPT !.pc = "dp_ports", !.what = "dp_del", !.dp = d,
                                  !.net = dp[d].net]]
  /\ UNCHANGED <<memory, tables, dev, others, rtnl, readers>>

\* __dp_destroy(): the ports one after the other, the local port last, after the
\* datapath is unlisted; then the datapath itself.
__dp_destroy(t) ==
  LET d == cmd[t].dp
      ports == {v \in dp[d].ports : vport[v].no # OVSP_LOCAL}
  IN
  /\ cmd[t].pc = "dp_ports"
  /\ \/ \E v \in ports : ovs_dp_detach_port(t, v, cmd[t])
        /\ UNCHANGED <<pend, wait, ovs_mutex>>
     \/ /\ ports = {}
        /\ \E v \in dp[d].ports :
             /\ dp' = [dp EXCEPT ![d].ports = @ \ {v}, ![d].listed = FALSE]
             /\ cmd' = [cmd EXCEPT ![t].vport = v, ![t].pc = "unhash"]
        /\ UNCHANGED <<pend, wait, ovs_mutex>>
     \/ /\ dp[d].ports = {}
        /\ call_rcu(d)
        /\ IF cmd[t].what = "dp_del" THEN Finish(t) ELSE Goto(t, "exit_dps")
        /\ UNCHANGED dp
  /\ UNCHANGED <<alloc, vport, dev_table, dev, others, rtnl, readers>>

-----------------------------------------------------------------------------
(* The end of a namespace, and the work dp_notify_work. *)

\* ovs_exit_net() takes ovs_mutex.  No socket of the namespace is left, so no command
\* of it is in progress.
ovs_exit_net(t, net) ==
  /\ cmd[t].pc = "idle"
  /\ ovs_mutex = NULL
  /\ net \notin dead
  /\ \A u \in Threads : cmd[u].net # net
  /\ dead' = dead \cup {net}
  /\ ovs_mutex' = t
  /\ cmd' = [cmd EXCEPT ![t] = [Idle EXCEPT !.pc = "exit_dps", !.what = "exit_net",
                                  !.net = net]]
  /\ UNCHANGED <<memory, tables, dev, ops, work, rtnl, readers>>

\* Its datapaths, then list_vports_from_net(): the internal devices that were moved
\* into it, of the datapaths of all namespaces.
OwnVports(net) == {v \in UNION {dp[d].ports : d \in Dps} : dp[vport[v].dp].net = net}  \* mutant
list_vports_from_net(net) ==
  {v \in UNION {dp[d].ports : d \in {x \in Dps : dp[x].listed}} :
     vport[v].type = "internal" /\ dev[vport[v].dev].net = net}
exit_dps(t) ==
  LET net == cmd[t].net
      dps == {d \in Dps : dp[d].listed /\ dp[d].net = net}
  IN
  /\ cmd[t].pc = "exit_dps"
  /\ \/ \E d \in dps : cmd' = [cmd EXCEPT ![t].pc = "dp_ports", ![t].dp = d]
     \/ /\ dps = {}
        /\ rtnl = NULL
        /\ cmd' = [cmd EXCEPT ![t].pc = "exit_vports", ![t].what = "exit_vports",
                     ![t].todo = list_vports_from_net(net)]
  /\ UNCHANGED <<memory, tables, dev, others, ovs_mutex, rtnl, readers>>

exit_vports(t) ==
  /\ cmd[t].pc = "exit_vports"
  /\ \/ /\ \E v \in cmd[t].todo :
             ovs_dp_detach_port(t, v, [cmd[t] EXCEPT !.todo = @ \ {v}])
        /\ UNCHANGED ovs_mutex
     \/ /\ cmd[t].todo = {}
        /\ ovs_mutex' = NULL
        /\ cmd' = [cmd EXCEPT ![t].pc = "cancel_work"]
        /\ UNCHANGED dp
  /\ UNCHANGED <<memory, vport, dev_table, dev, others, rtnl, readers>>

cancel_work_sync(t) ==
  /\ cmd[t].pc = "cancel_work"
  /\ cmd[Worker].net # cmd[t].net
  /\ work' = work \ {cmd[t].net}
  /\ cmd' = [cmd EXCEPT ![t] = Idle]
  /\ UNCHANGED <<memory, tables, dev, ops, dead, ovs_mutex, rtnl, readers>>

\* The workqueue starts the work of a namespace ...
dp_notify_work(net) ==
  /\ cmd[Worker].pc = "idle"
  /\ net \in work
  /\ work' = work \ {net}
  /\ cmd' = [cmd EXCEPT ![Worker] = [Idle EXCEPT !.pc = "wq_lock", !.what = "notify",
                                       !.net = net]]
  /\ UNCHANGED <<memory, tables, dev, ops, dead, ovs_mutex, rtnl, readers>>

\* ... ovs_dp_notify_wq(): under ovs_mutex ...
ovs_dp_notify_wq ==
  LET net == cmd[Worker].net
  IN
  /\ cmd[Worker].pc = "wq_lock"
  /\ ovs_mutex = NULL
  /\ ovs_mutex' = Worker
  /\ cmd' = [cmd EXCEPT ![Worker].pc = "notify",
               ![Worker].todo = {v \in UNION {dp[d].ports : d \in {x \in Dps : dp[x].listed}} :
                                   dp[vport[v].dp].net = net /\ vport[v].type # "internal"}]
  /\ UNCHANGED <<memory, tables, dev, others, rtnl, readers>>

\* ... it detaches each port whose device is no longer attached.
DeviceGone(v) == ~dev[vport[v].dev].attached
dp_detach_port_notify ==
  LET t == Worker
  IN
  /\ cmd[t].pc = "notify"
  /\ \/ \E v \in cmd[t].todo :
          LET c == [cmd[t] EXCEPT !.todo = @ \ {v}]
          IN  /\ IF DeviceGone(v)
                 THEN ovs_dp_detach_port(t, v, c)
                 ELSE cmd' = [cmd EXCEPT ![t] = c] /\ UNCHANGED dp
              /\ UNCHANGED ovs_mutex
     \/ cmd[t].todo = {} /\ Finish(t) /\ UNCHANGED dp
  /\ UNCHANGED <<memory, vport, dev_table, dev, others, rtnl, readers>>

-----------------------------------------------------------------------------
(* What happens to devices; each under RTNL. *)

UNCHANGED_by_devices == UNCHANGED <<pend, rcu, tables, ops, dead, ovs_mutex, rtnl, cmd, rd>>

\* dp_device_event() on NETDEV_UNREGISTER of e, whose own change is x.
NoWork(e) == work                                                   \* mutant
NotifyWork(e) == IF dev[e].attached THEN work \cup {dev[e].net} ELSE work
dp_device_event(e, x) ==
  /\ dev' = [dev EXCEPT ![e] = ovs_netdev_detach_dev(x)]
  /\ work' = NotifyWork(e)

register_netdevice(e, n, net) ==
  /\ rtnl = NULL /\ net \notin dead
  /\ e \notin alloc /\ ByName(net, n) = {}
  /\ alloc' = alloc \cup {e}
  /\ dev' = [dev EXCEPT ![e] = [NoDev EXCEPT !.name = n, !.net = net, !.reg = "registered"]]
  /\ UNCHANGED <<wait, work>> /\ UNCHANGED_by_devices

unregister_netdevice(e) ==
  /\ rtnl = NULL
  /\ Registered(e) /\ dev[e].kind # "internal"
  /\ dp_device_event(e, [dev[e] EXCEPT !.reg = "unregistering"])
  /\ wait' = [wait EXCEPT ![e] = rcu]
  /\ UNCHANGED alloc /\ UNCHANGED_by_devices

\* Devices nobody but the kernel waits for: netdev_run_todo() repeats the
\* notification until no reference is left, then frees the device.
Leaving(e) == /\ dev[e].reg = "unregistering" /\ dev[e].kind # "internal"
              /\ \A t \in Actors : cmd[t].pc = "run_todo" => cmd[t].dev # e
netdev_wait_allrefs(e) ==
  /\ rtnl = NULL
  /\ Leaving(e) /\ dev[e].ref > 0 /\ dev[e].attached
  /\ dp_device_event(e, dev[e])
  /\ UNCHANGED <<alloc, wait>> /\ UNCHANGED_by_devices

netdev_run_todo(e) ==
  /\ Leaving(e) /\ dev[e].ref = 0 /\ wait[e] = {}
  /\ alloc' = alloc \ {e}
  /\ dev' = [dev EXCEPT ![e] = NoDev]
  /\ UNCHANGED <<wait, work>> /\ UNCHANGED_by_devices

dev_change_name(e, n) ==
  /\ rtnl = NULL
  /\ Registered(e) /\ ByName(dev[e].net, n) = {}
  /\ dev' = [dev EXCEPT ![e].name = n]
  /\ UNCHANGED <<alloc, wait, work>> /\ UNCHANGED_by_devices

\* The local device stays in its namespace (NETIF_F_NETNS_LOCAL).
dev_change_net_namespace(e, net) ==
  /\ rtnl = NULL /\ net \notin dead
  /\ Registered(e) /\ dev[e].net # net /\ ByName(net, dev[e].name) = {}
  /\ \/ /\ dev[e].kind = "internal"
        /\ vport[dev[e].vport].no # OVSP_LOCAL
        /\ dev' = [dev EXCEPT ![e].net = net]
        /\ UNCHANGED work
     \/ /\ dev[e].kind = "phys"
        /\ dp_device_event(e, [dev[e] EXCEPT !.net = net])
  /\ UNCHANGED <<alloc, wait>> /\ UNCHANGED_by_devices

-----------------------------------------------------------------------------
(* RCU callbacks and readers. *)

\* vport_netdev_free() and destroy_dp_rcu()
NoDevPut(v) == dev                                                  \* mutant
DevPut(v) == IF vport[v].dev = NULL THEN dev ELSE [dev EXCEPT ![vport[v].dev].ref = @ - 1]
KfreeNow(o) == o \in pend                                           \* mutant
GraceEnded(o) == o \in pend /\ wait[o] = {}
rcu_callback(o) ==
  /\ GraceEnded(o)
  /\ pend' = pend \ {o}
  /\ alloc' = alloc \ {o}
  /\ IF o \in Vports
     THEN /\ dev' = DevPut(o)
          /\ vport' = [vport EXCEPT ![o] = NoVport]
          /\ UNCHANGED dp
     ELSE /\ dp' = [dp EXCEPT ![o] = NoDp]
          /\ UNCHANGED <<dev, vport>>
  /\ UNCHANGED <<wait, dev_table, others, ovs_mutex, rtnl, cmd, readers>>

UNCHANGED_by_readers == UNCHANGED <<memory, tables, dev, others, ovs_mutex, rtnl, cmd>>

Enter(r, x) == r \notin rcu /\ rcu_read_lock(r) /\ rd' = [rd EXCEPT ![r] = x]
\* netdev_frame_hook(), internal_dev_xmit(): a packet of a device enters its port.
receive(r, e) ==
  /\ \/ dev[e].kind # "internal" /\ dev[e].attached
     \/ dev[e].kind = "internal" /\ Registered(e)
  /\ Enter(r, [Outside EXCEPT !.vport = dev[e].vport])
  /\ UNCHANGED_by_readers

\* get_dp_rcu() and ovs_vport_locate() in the commands that run under RCU.
lookup_dp(r, d) ==
  /\ d \in FoundDps
  /\ Enter(r, [Outside EXCEPT !.dp = d])
  /\ UNCHANGED_by_readers
lookup_port(r, v) ==
  /\ dev_table[v] # NULL
  /\ Enter(r, [Outside EXCEPT !.vport = v])
  /\ UNCHANGED_by_readers

\* What a reader does with what it has: the port's datapath, a port of the datapath
\* (an output, the next port of a dump), the port's device.
ReadDp(r)  == rd[r].vport # NULL /\ rd' = [rd EXCEPT ![r].dp = vport[rd[r].vport].dp]
ReadDev(r) == rd[r].vport # NULL /\ rd' = [rd EXCEPT ![r].dev = vport[rd[r].vport].dev]
ReadPort(r) == /\ rd[r].dp # NULL
               /\ \E v \in dp[rd[r].dp].ports : rd' = [rd EXCEPT ![r].vport = v]
read(r) == /\ ReadDp(r) \/ ReadDev(r) \/ ReadPort(r)
           /\ UNCHANGED rcu /\ UNCHANGED_by_readers
reader_done(r) ==
  /\ r \in rcu
  /\ rcu_read_unlock(r)
  /\ rd' = [rd EXCEPT ![r] = Outside]
  /\ UNCHANGED <<alloc, pend, tables, dev, others, ovs_mutex, rtnl, cmd>>

-----------------------------------------------------------------------------
(* The specification. *)

NewDatapath(t) ==
  /\ "dp_new" \in Commands
  /\ \E d \in Dps, v \in Vports, net \in Nets, n \in Names : ovs_dp_cmd_new(t, d, v, net, n)
NewVport(t) ==
  \E e \in Devs, type \in Types, n \in Names, auto \in BOOLEAN, no \in PortNos \ {OVSP_LOCAL} :
    /\ "vport_new" \in Commands \/ (auto /\ "auto_port" \in Commands)
    /\ auto => \A x \in PortNos \ {OVSP_LOCAL} : no <= x
    /\ ovs_vport_cmd_new(t, e, type, n, auto, no)
DelVport(t) ==
  "vport_del" \in Commands /\ \E v \in Vports : ovs_vport_cmd_del(t, v)
DelDatapath(t) ==
  "dp_del" \in Commands /\ \E d \in Dps : ovs_dp_cmd_del(t, d)
ExitNet(t) ==
  "exit_net" \in Events /\ \E net \in Nets : ovs_exit_net(t, net)

Request(t) == NewDatapath(t) \/ NewVport(t) \/ DelVport(t) \/ DelDatapath(t) \/ ExitNet(t)

\* The steps that take a mutex others contend for, and those that do not.
Contend(t) == \/ restart(t) \/ dev_create(t) \/ ovs_netdev_link(t) \/ netdev_destroy(t)
              \/ ovs_netdev_tunnel_destroy(t) \/ internal_dev_destroy(t)
Proceed(t) == \/ ovs_vport_add(t) \/ request_module(t) \/ dev_get_by_name(t)
              \/ vport_hash(t) \/ new_vport(t) \/ vport_del_headroom(t)
              \/ ovs_vport_del(t) \/ tunnel_run_todo(t) \/ internal_dev_destructor(t)
              \/ __dp_destroy(t) \/ exit_dps(t) \/ exit_vports(t) \/ cancel_work_sync(t)

Work == \/ \E net \in Nets : dp_notify_work(net)
        \/ ovs_dp_notify_wq
        \/ dp_detach_port_notify

DeviceEvent(e) ==
  \/ /\ "register" \in Events
     /\ \E n \in Names, net \in Nets : register_netdevice(e, n, net)
  \/ "unregister" \in Events /\ unregister_netdevice(e)
  \/ netdev_wait_allrefs(e)
  \/ netdev_run_todo(e)
  \/ "rename" \in Events /\ \E n \in Names : dev_change_name(e, n)
  \/ /\ \/ dev[e].kind = "internal" /\ "move_internal" \in Events
        \/ dev[e].kind = "phys" /\ "move_phys" \in Events
     /\ \E net \in Nets : dev_change_net_namespace(e, net)

Read(r) ==
  \/ \E e \in Devs : receive(r, e)
  \/ \E d \in Dps : lookup_dp(r, d)
  \/ \E v \in Vports : lookup_port(r, v)
  \/ read(r)
  \/ reader_done(r)

Next ==
  \/ \E t \in Threads : Request(t)
  \/ \E t \in Actors : Contend(t) \/ Proceed(t)
  \/ Work
  \/ \E e \in Devs : DeviceEvent(e)
  \/ \E o \in Obj : rcu_callback(o)
  \/ \E r \in Readers : Read(r)

Spec == Init /\ [][Next]_vars

\* The kernel schedules what can run, its mutexes are handed to those that wait for
\* them, softirqs and dumps leave their critical sections, and callbacks follow the
\* end of a grace period.  Nobody has to issue a command or change a device.
Fairness ==
  /\ \A t \in Actors : SF_vars(Contend(t)) /\ WF_vars(Proceed(t))
  /\ SF_vars(ovs_dp_notify_wq)
  /\ WF_vars(dp_detach_port_notify)
  /\ \A net \in Nets : SF_vars(dp_notify_work(net))
  /\ \A e \in Devs : SF_vars(netdev_wait_allrefs(e)) /\ WF_vars(netdev_run_todo(e))
  /\ \A o \in Obj : WF_vars(rcu_callback(o))
  /\ \A r \in Readers : WF_vars(reader_done(r))
FairSpec == Spec /\ Fairness

-----------------------------------------------------------------------------
(* Properties. *)

OrNull(S) == S \cup {NULL}

\* Type correctness of the state of datapath.c, vport.c and the devices; no reference
\* count goes below zero and a device is at most held once by each port.
DpType    == [net : OrNull(Nets), ports : SUBSET Vports, listed : BOOLEAN, max_headroom : Nat]
VportType == [dp : OrNull(Dps), no : PortNos, type : {"netdev", "internal", "tunnel"},
              dev : OrNull(Devs)]
DevType   == [kind : {"phys", "internal", "tunnel"}, name : OrNull(Names),
              net : OrNull(Nets), reg : {"none", "registered", "unregistering"},
              vport : OrNull(Vports), attached : BOOLEAN, promisc : 0..1,
              ref : 0..Cardinality(Vports), rx : Nat]
TypeOK ==
  /\ alloc \subseteq Obj /\ pend \subseteq alloc /\ rcu \subseteq Readers
  /\ wait \in [Obj -> SUBSET rcu]
  /\ dp \in [Dps -> DpType] /\ vport \in [Vports -> VportType] /\ dev \in [Devs -> DevType]
  /\ dev_table \in [Vports -> OrNull(Names)]
  /\ work \subseteq Nets /\ dead \subseteq Nets
  /\ ovs_mutex \in OrNull(Actors) /\ rtnl \in OrNull(Threads \cup {Worker})
  /\ rd \in [Readers -> [vport : OrNull(Vports), dp : OrNull(Dps), dev : OrNull(Devs)]]

\* A packet, dump or lookup under RCU never holds a freed port, datapath or device
\* ("Reads are protected by RCU.", datapath.c).
ReadersSafe == \A r \in Readers : {rd[r].vport, rd[r].dp, rd[r].dev} \ {NULL} \subseteq alloc

\* Whenever ovs_mutex is free, each datapath is either complete and listed, with
\* exactly one local port and every port number used once, or entirely gone; and the
\* ports of the datapaths are those dev_table holds.
Wired(d) ==
  /\ Cardinality({v \in dp[d].ports : vport[v].no = OVSP_LOCAL}) = 1
  /\ \A u, v \in dp[d].ports : vport[u].no = vport[v].no => u = v
  /\ \A v \in dp[d].ports : v \in alloc \ pend /\ vport[v].dp = d
PortsWired ==
  ovs_mutex = NULL =>
    /\ \A d \in Dps : IF dp[d].listed THEN d \in alloc \ pend /\ Wired(d)
                      ELSE dp[d].ports = {} /\ (d \in alloc => d \in pend)
    /\ {v \in Vports : dev_table[v] # NULL} = UNION {dp[d].ports : d \in Dps}

\* The packets of a device go to a port that is not on its way out: the handler's data
\* is a port that exists, holds this device, and is in its datapath unless the holder
\* of ovs_mutex is about to add or remove it.
RxHandlerLive ==
  \A e \in Devs : dev[e].attached =>
    LET v == dev[e].vport
    IN  /\ v \in alloc \ pend /\ vport[v].dev = e
        /\ v \in dp[vport[v].dp].ports \/ \E t \in Actors : ovs_mutex = t /\ cmd[t].vport = v

\* Each reference to a device is held by one port, which drops it once, and the device
\* is promiscuous exactly as long as a port uses it, however the notifier, the work and
\* the deletion of the port overlap.
RefsBalanced ==
  \A e \in Devs :
    /\ dev[e].ref = Cardinality({v \in Vports : vport[v].dev = e /\ vport[v].type # "internal"})
    /\ dev[e].promisc = IF dev[e].attached \/ (dev[e].kind = "internal" /\ Registered(e))
                        THEN 1 ELSE 0

\* The types, and what holds of every device of a port: it is held once by each, and its
\* packets only reach ports that live (ovs_netdev_link, ovs_netdev_detach_dev).
DevicesHeld == TypeOK /\ RefsBalanced /\ RxHandlerLive

\* Whenever ovs_mutex is free, max_headroom is enough for every port and is what every
\* device that is still attached was told.
HeadroomCovers ==
  ovs_mutex = NULL =>
    \A d \in Dps : \A v \in dp[d].ports :
      /\ FwdHeadroom(v) <= dp[d].max_headroom
      /\ dev[vport[v].dev].attached => dev[vport[v].dev].rx = dp[d].max_headroom

\* BUG_ON(!local) in get_dpdev() does not fire, though ovs_mutex may have been dropped
\* after the datapath was looked up: it still has its local port.
NoBugOn ==
  \A t \in Threads : cmd[t].pc = "link" =>
    \E v \in dp[cmd[t].dp].ports : vport[v].no = OVSP_LOCAL

\* Datapaths are whole whenever the mutex is free and while a command relies on it
\* (ovs_dp_cmd_del, ovs_vport_cmd_new).
PortsInv == PortsWired /\ NoBugOn

\* When ovs_exit_net() returns, nothing refers to the namespace: no queued or running
\* work, no datapath, and no internal device of any datapath lives in it.
NetExitClean ==
  \A net \in dead :
    (\A t \in Threads : cmd[t].net # net) =>
      /\ net \notin work /\ cmd[Worker].net # net
      /\ \A d \in Dps : dp[d].listed => dp[d].net # net
      /\ \A v \in UNION {dp[d].ports : d \in Dps} :
           vport[v].type = "internal" => dev[vport[v].dev].net # net

\* A device that is being unregistered is always let go: whatever port takes it up
\* meanwhile, the notifier and the work make it drop its reference.
UnregisterCompletes ==
  \A e \in Devs : dev[e].reg = "unregistering" ~> dev[e].reg # "unregistering"

\* The statements of the source that the code does not keep.

\* datapath.c: "Reads are protected by RCU."  A reader that holds a port finds its
\* device.
HeldPortHasDev ==
  \A r \in Readers : rd[r].vport # NULL => vport[rd[r].vport].dev # NULL

\* vport.c, ovs_vport_locate(): "find a port that has already been created".
PortsLocated ==
  ovs_mutex = NULL =>
    \A d \in Dps : \A v \in dp[d].ports : v \in ovs_vport_locate(dp[d].net, dev[vport[v].dev].name)

\* openvswitch.h, OVS_VPORT_ATTR_PORT_NO: "if not specified a free port number is
\* automatically selected."  A request without a number never fails for its number.
FreeNumberSelected == \A t \in Threads : ~(cmd[t].what = "EBUSY" /\ cmd[t].auto)

\* dp_notify.c: "schedule vport destroy, dev_put and genl notification".  Once the work
\* has run, no port is left whose device sends it nothing.
Quiet == work = {} /\ \A t \in Actors : cmd[t].pc = "idle"
DetachedDestroyed ==
  Quiet => \A v \in UNION {dp[d].ports : d \in Dps} :
             vport[v].type # "internal" => dev[vport[v].dev].vport = v
=============================================================================
