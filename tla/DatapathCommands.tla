----------------------------- MODULE DatapathCommands ----------------------------
(***************************************************************************)
(* Proofs about datapaths, ports and devices: that datapaths are whole     *)
(* whenever ovs_mutex is free, that references to devices balance, and     *)
(* that no reader holds what has been freed.                               *)
(***************************************************************************)
EXTENDS Datapath, FiniteSetTheorems, WellFoundedInduction, TLAPS

-----------------------------------------------------------------------------
(* The inductive invariant. *)

Adding   == {"create", "get_dev", "link", "hash", "insert"}
Removing == {"unhash", "destroy", "run_todo", "synchronize_net"}
Holding  == Adding \cup Removing \cup {"vport_add", "headroom", "dp_ports", "exit_dps", "exit_vports", "notify"}
Lockless == {"idle", "request_module", "relock", "cancel_work", "wq_lock"}

CmdType ==
  [pc : Holding \cup Lockless,
   what : {"none", "EBUSY", "dp_new", "vport_new", "vport_del", "dp_del", "exit_net", "exit_vports", "notify"},
   dp : OrNull(Dps), vport : OrNull(Vports), dev : OrNull(Devs), net : OrNull(Nets),
   name : OrNull(Names), type : {"netdev", "internal", "tunnel"}, auto : BOOLEAN, no : PortNos,
   headroom : BOOLEAN, todo : SUBSET Vports]
DevLoose == [kind : {"phys", "internal", "tunnel"}, name : OrNull(Names),
             net : OrNull(Nets), reg : {"none", "registered", "unregistering"},
             vport : OrNull(Vports), attached : BOOLEAN, promisc : Int, ref : Int, rx : Nat]

\* The types, without the bounds of reference counts and of promiscuity.
TypeInv ==
  /\ alloc \subseteq Obj /\ pend \subseteq alloc /\ pend \cap Devs = {} /\ rcu \subseteq Readers
  /\ wait \in [Obj -> SUBSET rcu]
  /\ dp \in [Dps -> DpType] /\ vport \in [Vports -> VportType] /\ dev \in [Devs -> DevLoose]
  /\ dev_table \in [Vports -> OrNull(Names)]
  /\ work \subseteq Nets /\ dead \subseteq Nets
  /\ cmd \in [Actors -> CmdType]

\* A command is at a step that needs a mutex exactly when it holds it.
LockInv ==
  /\ ovs_mutex \in OrNull(Actors) /\ rtnl \in OrNull(Actors)
  /\ \A t \in Actors : /\ cmd[t].pc \in Holding <=> ovs_mutex = t
                       /\ cmd[t].pc = "synchronize_net" <=> rtnl = t

\* Port v is in a datapath, or in the hands of a command, which is adding or removing it.
In(v) == \E d \in Dps : v \in dp[d].ports
Adds(t, v) == cmd[t].pc \in Adding /\ cmd[t].vport = v
Removes(t, v) == cmd[t].pc \in Removing /\ cmd[t].vport = v
InHand(v) == \E t \in Actors : Adds(t, v) \/ Removes(t, v)

\* Where ports are.
VportInv(v) ==
  /\ v \notin alloc => vport[v] = NoVport /\ ~In(v) /\ ~InHand(v) /\ dev_table[v] = NULL
  /\ v \in alloc => vport[v].dp \in Dps
  /\ v \in pend => ~In(v) /\ ~InHand(v) /\ dev_table[v] = NULL /\ vport[v].type # "internal"
  /\ In(v) => ~InHand(v) /\ dev_table[v] # NULL /\ vport[v].dev # NULL
  /\ dev_table[v] # NULL => In(v) \/ InHand(v)
  /\ v \in alloc /\ vport[v].type = "internal" => In(v) \/ InHand(v)
  /\ vport[v].dev # NULL =>
       LET e == vport[v].dev
       IN  /\ e \in alloc
           /\ vport[v].type = "internal" <=> dev[e].kind = "internal"
           /\ vport[v].type = "internal" => dev[e].vport = v

\* Datapath d is private to a command, which makes or destroys it.
Owns(t, d) ==
  /\ cmd[t].dp = d
  /\ \/ cmd[t].what = "dp_new" /\ cmd[t].pc \in Adding
     \/ cmd[t].what \in {"dp_del", "exit_net"} /\ cmd[t].pc \in Removing \cup {"dp_ports"}

\* Datapaths are listed and whole, or on their way in or out.
DpInv(d) ==
  /\ d \notin alloc \/ d \in pend => ~dp[d].listed
  /\ ~dp[d].listed => dp[d].ports = {}
  /\ d \in alloc /\ d \notin pend /\ ~dp[d].listed =>
       \E t \in Actors : Owns(t, d)
  /\ d \in alloc => dp[d].net \in Nets
  /\ dp[d].listed => \E l \in dp[d].ports : vport[l].no = OVSP_LOCAL
  /\ \A u, v \in dp[d].ports : vport[u].no = vport[v].no => u = v
  /\ \A v \in dp[d].ports :
       /\ v \in alloc \ pend /\ vport[v].dp = d
       /\ vport[v].no = OVSP_LOCAL =>
            vport[v].type = "internal" /\ dev[vport[v].dev].net = dp[d].net

\* What a command knows: of the port it adds, ...
AddInv(t) ==
  LET c == cmd[t]  v == c.vport  d == c.dp
  IN  c.pc \in Adding =>
        /\ v \in alloc \ pend /\ vport[v].dp = d /\ vport[v].no = c.no /\ vport[v].type = c.type
        /\ v \in Vports /\ d \in Dps /\ d \in alloc \ pend
        /\ \/ /\ c.what = "dp_new" /\ ~dp[d].listed /\ c.no = OVSP_LOCAL /\ c.type = "internal"
           \/ /\ c.what = "vport_new" /\ dp[d].listed /\ c.no # OVSP_LOCAL
              /\ \A u \in dp[d].ports : vport[u].no # c.no
        /\ c.pc = "create" => c.type # "netdev"
        /\ c.pc \in {"get_dev", "link"} => c.type # "internal"
        /\ vport[v].dev = NULL <=> c.pc \in {"create", "get_dev"}
        /\ dev_table[v] = NULL <=> c.pc # "insert"
        /\ c.pc \in {"hash", "insert"} /\ c.what = "dp_new" => dev[vport[v].dev].net = dp[d].net
        /\ c.pc = "create" => c.name \in Names
        /\ c.pc = "link" => (dev[vport[v].dev].attached => dev[vport[v].dev].vport # v)
\* ... of the port it removes, ...
RemoveInv(t) ==
  LET c == cmd[t]  v == c.vport  d == vport[v].dp
  IN  c.pc \in Removing =>
        /\ v \in Vports /\ v \in alloc \ pend /\ ~In(v)
        /\ d \in Dps /\ d \in alloc \ pend
        /\ c.what \in {"vport_del", "dp_del", "exit_net", "exit_vports", "notify"}
        /\ c.what \in {"vport_del", "dp_del", "exit_net"} => c.dp = d
        /\ dp[d].listed \/ c.what \in {"dp_del", "exit_net"}
        /\ dev_table[v] # NULL <=> c.pc = "unhash"
        /\ vport[v].dev = NULL <=> c.pc = "run_todo"
        /\ c.pc = "run_todo" => /\ c.dev \in Devs /\ c.dev \in alloc /\ vport[v].type # "internal"
                                /\ dev[c.dev].kind # "internal" /\ dev[c.dev].reg = "unregistering"
        /\ c.pc = "synchronize_net" => vport[v].type = "internal" /\ ~Registered(vport[v].dev)
\* ... and otherwise.
CmdInv(t) ==
  LET c == cmd[t]
  IN  /\ c.pc \in {"vport_add", "request_module", "relock"} =>
           c.what = "vport_new" /\ c.no # OVSP_LOCAL /\ c.dev \in Devs /\ c.name \in Names
      /\ c.pc = "vport_add" => /\ c.dp \in Dps /\ dp[c.dp].listed
                               /\ \A u \in dp[c.dp].ports : vport[u].no # c.no
      /\ c.pc = "headroom" => c.dp \in Dps /\ dp[c.dp].listed
      /\ c.pc = "dp_ports" => /\ c.what \in {"dp_del", "exit_net"}
                              /\ c.dp \in Dps /\ c.dp \in alloc \ pend
      /\ c.pc = "exit_dps" => c.what = "exit_net"
      /\ c.pc = "exit_vports" => c.what = "exit_vports"
      /\ c.pc = "notify" => c.what = "notify"
      /\ c.pc \in {"exit_vports", "notify"} \cup Removing =>
           \A v \in c.todo : In(v) /\ vport[v].no # OVSP_LOCAL
      /\ c.what \in {"vport_del", "dp_del", "exit_net"} => c.todo = {}
      /\ c.what = "notify" => t = Worker
      /\ t = Worker /\ c.pc # "idle" => c.what = "notify"
      /\ c.pc \in {"wq_lock", "notify"} => t = Worker
      /\ t = Worker => c.pc \in {"idle", "wq_lock", "notify"} \cup Removing

\* Devices, and who uses them.
DevInv(e) ==
  /\ e \notin alloc => dev[e] = NoDev
  /\ e \in alloc => dev[e].reg # "none" /\ dev[e].name \in Names /\ dev[e].net \in Nets
  /\ dev[e].kind = "internal" =>
       LET v == dev[e].vport
       IN  /\ ~dev[e].attached
           /\ v \in Vports /\ v \in alloc \ pend /\ vport[v].dev = e
           /\ Registered(e) \/ \E t \in Actors : cmd[t].pc = "synchronize_net" /\ cmd[t].vport = v
  /\ dev[e].attached =>
       LET v == dev[e].vport
       IN  /\ v \in Vports /\ v \in alloc \ pend /\ vport[v].dev = e
           /\ In(v) \/ InHand(v)

DpsInv == \A d \in Dps : DpInv(d)
VportsInv == \A v \in Vports : VportInv(v)
DevsInv == \A e \in Devs : DevInv(e)
CmdsInv == \A t \in Actors : AddInv(t) /\ RemoveInv(t) /\ CmdInv(t)

Inv == TypeInv /\ LockInv /\ VportsInv /\ DpsInv /\ CmdsInv /\ DevsInv /\ RefsBalanced

-----------------------------------------------------------------------------
(* Who holds the mutex. *)

LEMMA Constants ==
  /\ NULL \notin Actors /\ NULL \notin Vports /\ NULL \notin Dps /\ NULL \notin Devs /\ NULL \notin Names /\ NULL \notin Nets
  /\ Worker \in Actors /\ Threads \subseteq Actors
  /\ \A d \in Dps : d \notin Vports /\ d \notin Devs /\ d \in Obj
  /\ \A v \in Vports : v \notin Dps /\ v \notin Devs /\ v \in Obj
  /\ \A e \in Devs : e \notin Vports /\ e \notin Dps /\ e \in Obj
  BY ConstantsAssumption, PoolsAssumption DEF Actors, Obj

LEMMA Steps ==
  /\ Adding \subseteq Holding /\ Removing \subseteq Holding
  /\ Adding \cap Removing = {} /\ Holding \cap Lockless = {}
  /\ \A x \in Adding \cup Removing : x \notin {"vport_add", "headroom", "dp_ports", "exit_dps", "exit_vports", "notify"}
  BY DEF Adding, Removing, Holding, Lockless

\* All other commands are outside, and only the holder has a port in hand.
LEMMA Holder ==
  LockInv => \A t \in Actors : cmd[t].pc \in Holding =>
    /\ ovs_mutex = t
    /\ \A u \in Actors : u # t => cmd[u].pc \notin Holding
    /\ \A v : InHand(v) <=> Adds(t, v) \/ Removes(t, v)
  BY Steps, Constants DEF LockInv, InHand, Adds, Removes

LEMMA Nobody ==
  LockInv /\ ovs_mutex \notin Actors =>
    /\ \A u \in Actors : cmd[u].pc \notin Holding
    /\ \A v : ~InHand(v)
  BY Steps, Constants DEF LockInv, InHand, Adds, Removes

\* A step of command t keeps the mutexes as its progress says.
LEMMA LockStep ==
  ASSUME LockInv, NEW t \in Actors,
         \A u \in Actors : u # t => cmd'[u] = cmd[u],
         \/ ovs_mutex' = ovs_mutex /\ (cmd[t].pc \in Holding <=> cmd'[t].pc \in Holding)
         \/ ovs_mutex = NULL /\ ovs_mutex' = t /\ cmd'[t].pc \in Holding
         \/ ovs_mutex = t /\ ovs_mutex' = NULL /\ cmd'[t].pc \notin Holding,
         \/ rtnl' = rtnl /\ (cmd[t].pc = "synchronize_net" <=> cmd'[t].pc = "synchronize_net")
         \/ rtnl = NULL /\ rtnl' = t /\ cmd'[t].pc = "synchronize_net"
         \/ rtnl = t /\ rtnl' = NULL /\ cmd'[t].pc # "synchronize_net"
  PROVE  LockInv'
<1>1. ovs_mutex' \in OrNull(Actors) /\ \A u \in Actors : cmd'[u].pc \in Holding <=> ovs_mutex' = u
  BY Constants DEF LockInv, OrNull
<1>2. rtnl' \in OrNull(Actors) /\ \A u \in Actors : cmd'[u].pc = "synchronize_net" <=> rtnl' = u
  BY Constants DEF LockInv, OrNull
<1> QED BY <1>1, <1>2 DEF LockInv


\* While command t is at work nobody else is, and their invariants do not depend on anything.
LEMMA HolderStep ==
  ASSUME LockInv, CmdsInv, NEW t \in Actors, cmd[t].pc \in Holding \/ ovs_mutex = NULL,
         \A u \in Actors : u # t => cmd'[u] = cmd[u]
  PROVE  /\ \A u \in Actors : u # t => /\ cmd[u].pc \notin Holding /\ cmd'[u].pc \notin Holding
                                       /\ AddInv(u)' /\ RemoveInv(u)' /\ CmdInv(u)'
         /\ \A v : InHand(v) <=> Adds(t, v) \/ Removes(t, v)
         /\ \A v : InHand(v)' <=> Adds(t, v)' \/ Removes(t, v)'
         /\ \A u \in Actors : \A d : Owns(u, d) => u = t
<1>1. \A u \in Actors : u # t => cmd[u].pc \notin Holding /\ cmd'[u].pc \notin Holding
  BY Constants DEF LockInv
<1>2. ASSUME NEW u \in Actors, u # t
      PROVE  AddInv(u)' /\ RemoveInv(u)' /\ CmdInv(u)'
  <2>1. cmd'[u] = cmd[u] /\ cmd[u].pc \notin Holding /\ CmdInv(u)
    BY <1>1, <1>2 DEF CmdsInv
  <2>2. CmdInv(u)'
    BY <2>1 DEF CmdInv, Holding
  <2> QED BY <2>1, <2>2, Steps DEF AddInv, RemoveInv
<1>3. \A v : InHand(v) <=> Adds(t, v) \/ Removes(t, v)
  BY <1>1, Steps DEF InHand, Adds, Removes
<1>4. \A v : InHand(v)' <=> Adds(t, v)' \/ Removes(t, v)'
  BY <1>1, Steps DEF InHand, Adds, Removes
<1>5. \A u \in Actors : \A d : Owns(u, d) => u = t
  BY <1>1, Steps DEF Owns, Holding
<1> QED BY <1>1, <1>2, <1>3, <1>4, <1>5

\* What leaves the invariant of one port, datapath or device alone.
LEMMA VportFrame ==
  ASSUME NEW v \in Vports, VportInv(v), vport'[v] = vport[v], dev_table'[v] = dev_table[v],
         v \in alloc' <=> v \in alloc, v \in pend' <=> v \in pend, In(v)' <=> In(v), InHand(v)' <=> InHand(v),
         vport[v].dev # NULL =>
           LET e == vport[v].dev
           IN  /\ e \in alloc => e \in alloc'
               /\ dev'[e].kind = dev[e].kind
               /\ dev[e].kind = "internal" => dev'[e].vport = dev[e].vport
  PROVE  VportInv(v)'
  BY DEF VportInv

LEMMA VportInHand ==
  ASSUME NEW v \in Vports, v \in alloc' \ pend', vport'[v].dp \in Dps, ~In(v)', InHand(v)',
         vport'[v].dev # NULL =>
           LET e == vport'[v].dev
           IN  /\ e \in alloc'
               /\ vport'[v].type = "internal" <=> dev'[e].kind = "internal"
               /\ vport'[v].type = "internal" => dev'[e].vport = v
  PROVE  VportInv(v)'
  BY DEF VportInv

\* A step of the command that adds a port, up to the port's entry in the device table, keeps what AddInv says of it.
LEMMA AddStep ==
  ASSUME NEW t \in Actors, NEW v \in Vports, NEW d \in Dps, NEW next \in Adding \ {"create", "insert"},
         AddInv(t), cmd[t].pc \in Adding, v = cmd[t].vport, d = cmd[t].dp,
         cmd'[t].pc = next, cmd'[t].vport = v, cmd'[t].dp = d,
         cmd'[t].what = cmd[t].what, cmd'[t].no = cmd[t].no, cmd'[t].type = cmd[t].type,
         dp' = dp, pend' = pend, v \in alloc', d \in alloc', dev_table'[v] = NULL,
         vport'[v].dp = vport[v].dp, vport'[v].no = vport[v].no, vport'[v].type = vport[v].type,
         \A u \in dp[d].ports : vport'[u] = vport[u],
         next \in {"get_dev", "link"} => cmd[t].type # "internal",
         vport'[v].dev = NULL <=> next = "get_dev",
         next = "hash" => dev'[vport'[v].dev].net = dp[d].net,
         next = "link" => (dev'[vport'[v].dev].attached => dev'[vport'[v].dev].vport # v)
  PROVE  AddInv(t)'
<1>1. /\ v \in alloc \ pend /\ vport[v].dp = d /\ vport[v].no = cmd[t].no /\ vport[v].type = cmd[t].type
      /\ d \in alloc \ pend
      /\ \/ cmd[t].what = "dp_new" /\ ~dp[d].listed /\ cmd[t].no = OVSP_LOCAL /\ cmd[t].type = "internal"
         \/ /\ cmd[t].what = "vport_new" /\ dp[d].listed /\ cmd[t].no # OVSP_LOCAL
            /\ \A u \in dp[d].ports : vport[u].no # cmd[t].no
  BY DEF AddInv
<1>2. /\ cmd'[t].pc = next /\ cmd'[t].vport = v /\ cmd'[t].dp = d /\ next \notin {"create", "insert"}
      /\ cmd'[t].what = cmd[t].what /\ cmd'[t].no = cmd[t].no /\ cmd'[t].type = cmd[t].type
      /\ dp'[d].listed = dp[d].listed /\ dp'[d].net = dp[d].net
      /\ v \in alloc' \ pend' /\ d \in alloc' \ pend' /\ dev_table'[v] = NULL
      /\ vport'[v].dp = d /\ vport'[v].no = cmd[t].no /\ vport'[v].type = cmd[t].type
      /\ next \in {"get_dev", "link"} => cmd[t].type # "internal"
      /\ vport'[v].dev = NULL <=> next = "get_dev"
      /\ next = "hash" => dev'[vport'[v].dev].net = dp[d].net
      /\ next = "link" => (dev'[vport'[v].dev].attached => dev'[vport'[v].dev].vport # v)
  BY <1>1
<1>3. \A u \in dp'[d].ports : vport'[u].no = vport[u].no
  OBVIOUS
<1>4. dp'[d].ports = dp[d].ports
  OBVIOUS
<1> QED BY ONLY v \in Vports, d \in Dps, <1>1, <1>2, <1>3, <1>4 DEF AddInv

LEMMA DpFrame ==
  ASSUME NEW d \in Dps, DpInv(d), dp'[d].ports = dp[d].ports, dp'[d].listed = dp[d].listed, dp'[d].net = dp[d].net,
         d \in alloc' <=> d \in alloc, d \in pend' <=> d \in pend,
         (\E t \in Actors : Owns(t, d)) => \E t \in Actors : Owns(t, d)',
         \A v \in dp[d].ports : /\ vport'[v] = vport[v] /\ v \in alloc' \ pend'
                                /\ vport[v].no = OVSP_LOCAL => dev'[vport[v].dev].net = dev[vport[v].dev].net
  PROVE  DpInv(d)'
  BY DEF DpInv

LEMMA DevFrame ==
  ASSUME NEW e \in Devs, DevInv(e), e \in alloc' <=> e \in alloc, e \notin alloc => dev'[e] = dev[e],
         dev'[e].kind = dev[e].kind, dev'[e].reg = dev[e].reg, dev'[e].name = dev[e].name, dev'[e].net = dev[e].net,
         dev'[e].vport = dev[e].vport, dev'[e].attached = dev[e].attached,
         dev[e].kind = "internal" \/ dev[e].attached =>
           LET v == dev[e].vport IN v \in alloc' \ pend' /\ vport'[v].dev = e,
         \A v : dev[e].attached /\ v = dev[e].vport /\ (In(v) \/ InHand(v)) => In(v)' \/ InHand(v)',
         dev[e].kind = "internal" /\ ~Registered(e) =>
           LET v == dev[e].vport
           IN  (\E t \in Actors : cmd[t].pc = "synchronize_net" /\ cmd[t].vport = v) =>
                \E t \in Actors : cmd'[t].pc = "synchronize_net" /\ cmd'[t].vport = v
  PROVE  DevInv(e)'
  BY DEF DevInv, Registered

\* The ports that hold a device.
Held(e) == {v \in Vports : vport[v].dev = e /\ vport[v].type # "internal"}
Promisc(e) == dev[e].promisc = IF dev[e].attached \/ (dev[e].kind = "internal" /\ Registered(e)) THEN 1 ELSE 0
RefInv(e) == dev[e].ref = Cardinality(Held(e)) /\ Promisc(e)

LEMMA RefsByDevice == RefsBalanced <=> \A e \in Devs : RefInv(e)
  BY DEF RefsBalanced, RefInv, Promisc, Held

SameDev(x) ==
  /\ dev'[x].kind = dev[x].kind /\ dev'[x].name = dev[x].name /\ dev'[x].net = dev[x].net /\ dev'[x].reg = dev[x].reg
  /\ dev'[x].vport = dev[x].vport /\ dev'[x].attached = dev[x].attached
  /\ dev'[x].promisc = dev[x].promisc /\ dev'[x].ref = dev[x].ref

LEMMA RefFrame ==
  ASSUME NEW e \in Devs, RefInv(e), dev'[e].ref = dev[e].ref, dev'[e].promisc = dev[e].promisc,
         dev'[e].kind = dev[e].kind, dev'[e].attached = dev[e].attached, dev'[e].reg = dev[e].reg,
         \A v \in Vports : vport'[v].dev = e /\ vport'[v].type # "internal" <=> vport[v].dev = e /\ vport[v].type # "internal"
  PROVE  RefInv(e)'
<1>1. Held(e)' = Held(e)
  BY DEF Held
<1> QED BY <1>1 DEF RefInv, Promisc, Registered

LEMMA Counting ==
  /\ \A R : R \subseteq Vports => IsFiniteSet(R) /\ Cardinality(R) \in Nat /\ Cardinality(R) <= Cardinality(Vports)
  /\ \A R, v : R \subseteq Vports /\ v \notin R => Cardinality(R \cup {v}) = Cardinality(R) + 1
  /\ \A R, v : R \subseteq Vports /\ v \in R => Cardinality(R \ {v}) = Cardinality(R) - 1
  /\ Cardinality({}) = 0
<1>1. \A R : R \subseteq Vports => IsFiniteSet(R) /\ Cardinality(R) \in Nat /\ Cardinality(R) <= Cardinality(Vports)
  BY PoolsAssumption, FS_Subset, FS_CardinalityType
<1>2. \A R, v : R \subseteq Vports /\ v \notin R => Cardinality(R \cup {v}) = Cardinality(R) + 1
  BY <1>1, FS_AddElement
<1>3. \A R, v : R \subseteq Vports /\ v \in R => Cardinality(R \ {v}) = Cardinality(R) - 1
  BY <1>1, FS_RemoveElement
<1> QED BY <1>1, <1>2, <1>3, FS_EmptySet

\* Changes of single fields.
LEMMA VportFields ==
  /\ \A y \in VportType, e \in OrNull(Devs) : [y EXCEPT !.dev = e] \in VportType
  /\ \A y \in VportType, e \in OrNull(Devs) : LET z == [y EXCEPT !.dev = e]
                            IN  z.dev = e /\ z.dp = y.dp /\ z.no = y.no /\ z.type = y.type
  /\ NoVport \in VportType /\ NoVport.dev = NULL /\ NoVport.dp = NULL /\ NoVport.type = "internal" /\ NoVport.no = OVSP_LOCAL
<1>1. \A y \in VportType, e \in OrNull(Devs) : [y EXCEPT !.dev = e] \in VportType
  BY DEF VportType
<1>2. \A y \in VportType, e \in OrNull(Devs) : LET z == [y EXCEPT !.dev = e]
                            IN  z.dev = e /\ z.dp = y.dp /\ z.no = y.no /\ z.type = y.type
  BY DEF VportType
<1>3. NoVport \in VportType
  BY ConstantsAssumption DEF VportType, NoVport, OrNull
<1> QED BY <1>1, <1>2, <1>3 DEF NoVport

LEMMA NoDevType ==
  /\ NoDev \in DevLoose /\ NoDev.kind = "phys" /\ NoDev.reg = "none" /\ ~NoDev.attached /\ NoDev.ref = 0 /\ NoDev.promisc = 0
  /\ NoDev.vport = NULL /\ NoDev.rx = 0
  BY DEF NoDev, DevLoose, OrNull

LEMMA DevTypes ==
  /\ \A y \in DevLoose, v \in Vports : [y EXCEPT !.attached = TRUE, !.vport = v, !.promisc = @ + 1] \in DevLoose
  /\ \A y \in DevLoose : [y EXCEPT !.promisc = @ - 1, !.reg = "unregistering"] \in DevLoose
  /\ \A y \in DevLoose : Detached(y) \in DevLoose
<1>1. \A y \in DevLoose : y.promisc + 1 \in Int /\ y.promisc - 1 \in Int
  BY DEF DevLoose
<1>2. \A y \in DevLoose, v \in Vports, p \in Int : [y EXCEPT !.attached = TRUE, !.vport = v, !.promisc = p] \in DevLoose
  BY DEF DevLoose, OrNull
<1>3. \A y \in DevLoose, p \in Int : [y EXCEPT !.promisc = p, !.reg = "unregistering"] \in DevLoose
  BY DEF DevLoose
<1>4. \A y \in DevLoose, p \in Int : [y EXCEPT !.attached = FALSE, !.vport = NULL, !.promisc = p] \in DevLoose
  BY DEF DevLoose, OrNull
<1>5. \A y \in DevLoose, v \in Vports : [y EXCEPT !.attached = TRUE, !.vport = v, !.promisc = @ + 1] \in DevLoose
  BY <1>1, <1>2
<1>6. \A y \in DevLoose : [y EXCEPT !.promisc = @ - 1, !.reg = "unregistering"] \in DevLoose
  BY <1>1, <1>3
<1>7. \A y \in DevLoose : [y EXCEPT !.attached = FALSE, !.vport = NULL, !.promisc = @ - 1] \in DevLoose
  BY <1>1, <1>4
<1> QED BY ONLY <1>5, <1>6, <1>7 DEF Detached

LEMMA DevFields ==
  /\ \A y \in DevLoose : LET z == [y EXCEPT !.ref = @ + 1]
                         IN  /\ z \in DevLoose /\ z.ref = y.ref + 1
                             /\ z.kind = y.kind /\ z.name = y.name /\ z.net = y.net /\ z.reg = y.reg
                             /\ z.vport = y.vport /\ z.attached = y.attached /\ z.promisc = y.promisc
  /\ \A y \in DevLoose : LET z == [y EXCEPT !.ref = @ - 1]
                         IN  /\ z \in DevLoose /\ z.ref = y.ref - 1
                             /\ z.kind = y.kind /\ z.name = y.name /\ z.net = y.net /\ z.reg = y.reg
                             /\ z.vport = y.vport /\ z.attached = y.attached /\ z.promisc = y.promisc
  /\ \A y \in DevLoose, v \in Vports :
                         LET z == [y EXCEPT !.attached = TRUE, !.vport = v, !.promisc = @ + 1]
                         IN  /\ z \in DevLoose /\ z.attached /\ z.vport = v /\ z.promisc = y.promisc + 1
                             /\ z.kind = y.kind /\ z.name = y.name /\ z.net = y.net /\ z.reg = y.reg /\ z.ref = y.ref
  /\ \A y \in DevLoose : LET z == [y EXCEPT !.promisc = @ - 1, !.reg = "unregistering"]
                         IN  /\ z \in DevLoose /\ z.promisc = y.promisc - 1 /\ z.reg = "unregistering"
                             /\ z.kind = y.kind /\ z.name = y.name /\ z.net = y.net
                             /\ z.vport = y.vport /\ z.attached = y.attached /\ z.ref = y.ref
<1>1. \A y \in DevLoose : LET z == [y EXCEPT !.ref = @ + 1]
                         IN  /\ z \in DevLoose /\ z.ref = y.ref + 1
                             /\ z.kind = y.kind /\ z.name = y.name /\ z.net = y.net /\ z.reg = y.reg
                             /\ z.vport = y.vport /\ z.attached = y.attached /\ z.promisc = y.promisc
  BY DEF DevLoose
<1>2. \A y \in DevLoose : LET z == [y EXCEPT !.ref = @ - 1]
                         IN  /\ z \in DevLoose /\ z.ref = y.ref - 1
                             /\ z.kind = y.kind /\ z.name = y.name /\ z.net = y.net /\ z.reg = y.reg
                             /\ z.vport = y.vport /\ z.attached = y.attached /\ z.promisc = y.promisc
  BY DEF DevLoose
<1>3. \A y \in DevLoose, v \in Vports :
                         LET z == [y EXCEPT !.attached = TRUE, !.vport = v, !.promisc = @ + 1]
                         IN  /\ z.attached /\ z.vport = v /\ z.promisc = y.promisc + 1
                             /\ z.kind = y.kind /\ z.name = y.name /\ z.net = y.net /\ z.reg = y.reg /\ z.ref = y.ref
  BY DEF DevLoose
<1>4. \A y \in DevLoose : LET z == [y EXCEPT !.promisc = @ - 1, !.reg = "unregistering"]
                         IN  /\ z.promisc = y.promisc - 1 /\ z.reg = "unregistering"
                             /\ z.kind = y.kind /\ z.name = y.name /\ z.net = y.net
                             /\ z.vport = y.vport /\ z.ref = y.ref
  BY DEF DevLoose
<1>5. \A y \in DevLoose : [y EXCEPT !.promisc = @ - 1, !.reg = "unregistering"].attached = y.attached
  BY DEF DevLoose
<1> QED BY ONLY ZenonT(60), <1>1, <1>2, <1>3, <1>4, <1>5, DevTypes

\* ovs_netdev_detach_dev()
LEMMA DetachType ==
  \A y \in DevLoose :
    LET z == ovs_netdev_detach_dev(y)
    IN  /\ z \in DevLoose /\ ~z.attached /\ z.promisc = (IF y.attached THEN y.promisc - 1 ELSE y.promisc)
        /\ z.kind = y.kind /\ z.name = y.name /\ z.net = y.net /\ z.reg = y.reg /\ z.ref = y.ref
        /\ ~y.attached => z = y
<1> SUFFICES ASSUME NEW y \in DevLoose
             PROVE  LET z == ovs_netdev_detach_dev(y)
                    IN  /\ z \in DevLoose /\ ~z.attached /\ z.promisc = (IF y.attached THEN y.promisc - 1 ELSE y.promisc)
                        /\ z.kind = y.kind /\ z.name = y.name /\ z.net = y.net /\ z.reg = y.reg /\ z.ref = y.ref
                        /\ ~y.attached => z = y
  OBVIOUS
<1>1. CASE ~y.attached
  BY <1>1 DEF ovs_netdev_detach_dev
<1>2. CASE y.attached
  <2>1. ovs_netdev_detach_dev(y) = Detached(y)
    BY <1>2 DEF ovs_netdev_detach_dev
  <2>2. /\ ~Detached(y).attached /\ Detached(y).promisc = y.promisc - 1
        /\ Detached(y).kind = y.kind /\ Detached(y).name = y.name /\ Detached(y).net = y.net /\ Detached(y).reg = y.reg
        /\ Detached(y).ref = y.ref
    BY DEF Detached, DevLoose
  <2> QED BY <1>2, <2>1, <2>2, DevTypes
<1> QED BY <1>1, <1>2

LEMMA RefTaken ==
  ASSUME NEW e \in Devs, NEW v \in Vports, RefInv(e), v \notin Held(e), Held(e)' = Held(e) \cup {v}, dev'[e].ref = dev[e].ref + 1,
         Promisc(e)'
  PROVE  RefInv(e)'
<1>1. Cardinality(Held(e) \cup {v}) = Cardinality(Held(e)) + 1
  BY Counting DEF Held
<1>2. dev'[e].ref = Cardinality(Held(e)')
  BY <1>1 DEF RefInv
<1> QED BY <1>2 DEF RefInv

LEMMA RefDropped ==
  ASSUME NEW e \in Devs, NEW v \in Vports, RefInv(e), v \in Held(e), Held(e)' = Held(e) \ {v}, dev'[e].ref = dev[e].ref - 1,
         Promisc(e)'
  PROVE  RefInv(e)'
<1>1. Cardinality(Held(e) \ {v}) = Cardinality(Held(e)) - 1
  BY Counting DEF Held
<1>2. dev'[e].ref = Cardinality(Held(e)')
  BY <1>1 DEF RefInv
<1> QED BY <1>2 DEF RefInv
-----------------------------------------------------------------------------
(* The commands, step by step. *)

LEMMA DpNew ==
  ASSUME Inv, NEW t \in Threads, NEW d \in Dps, NEW v \in Vports, NEW net \in Nets, NEW n \in Names,
         ovs_dp_cmd_new(t, d, v, net, n)
  PROVE  Inv'
<1> USE DEF Inv
<1>1. t \in Actors /\ cmd \in [Actors -> CmdType] /\ dp \in [Dps -> DpType] /\ vport \in [Vports -> VportType]
      /\ d \in Obj /\ v \in Obj
  BY Constants DEF TypeInv, Actors
<1>2. /\ cmd[t].pc = "idle" /\ ovs_mutex = NULL /\ ovs_mutex' = t /\ d \notin alloc /\ v \notin alloc
      /\ alloc' = alloc \cup {d, v}
      /\ UNCHANGED <<pend, wait, rcu, dev_table, dev, work, dead, rtnl>>
  BY DEF ovs_dp_cmd_new, others, readers
<1>3. /\ cmd' \in [Actors -> CmdType]
      /\ \A u \in Actors : u # t => cmd'[u] = cmd[u]
      /\ cmd'[t].pc = "create" /\ cmd'[t].what = "dp_new" /\ cmd'[t].dp = d /\ cmd'[t].vport = v
      /\ cmd'[t].type = "internal" /\ cmd'[t].no = OVSP_LOCAL /\ cmd'[t].name = n /\ cmd'[t].todo = {}
  <2>1. cmd' = [cmd EXCEPT ![t] = [Idle EXCEPT !.pc = "create", !.what = "dp_new", !.dp = d,
                                  !.vport = v, !.net = net, !.name = n]]
    BY DEF ovs_dp_cmd_new
  <2>2. Idle \in CmdType
    BY ConstantsAssumption DEF Idle, CmdType, Lockless, OrNull
  <2>3. [Idle EXCEPT !.pc = "create", !.what = "dp_new", !.dp = d, !.vport = v, !.net = net, !.name = n] \in CmdType
    BY <2>2 DEF CmdType, Holding, Adding, OrNull
  <2> QED BY <1>1, <2>1, <2>3 DEF Idle
<1>4. /\ dp' \in [Dps -> DpType] /\ \A x \in Dps : x # d => dp'[x] = dp[x]
      /\ ~dp'[d].listed /\ dp'[d].ports = {} /\ dp'[d].net = net
  BY <1>1 DEF ovs_dp_cmd_new, NoDp, DpType, OrNull
<1>5. /\ vport' \in [Vports -> VportType] /\ \A x \in Vports : x # v => vport'[x] = vport[x]
      /\ vport'[v].dp = d /\ vport'[v].no = OVSP_LOCAL /\ vport'[v].type = "internal" /\ vport'[v].dev = NULL
  BY <1>1, ConstantsAssumption DEF ovs_dp_cmd_new, NoVport, VportType, OrNull
<1>6. TypeInv'
  BY <1>1, <1>2, <1>3, <1>4, <1>5 DEF TypeInv
<1>7. LockInv'
  BY <1>1, <1>2, <1>3, LockStep, Steps, Constants DEF LockInv, Adding, Holding, Lockless
<1>8. /\ \A x : ~InHand(x) /\ (InHand(x)' <=> x = v) /\ (In(x)' <=> In(x))
  <2>1. \A x : ~InHand(x)
    BY <1>2, Nobody, Constants
  <2>2. \A x : InHand(x)' <=> Adds(t, x)' \/ Removes(t, x)'
    <3>1. Holder'
      BY Holder, PTL
    <3> QED BY <1>1, <1>3, <1>7, <3>1, Steps DEF Holding, Adding
  <2>3. \A x : In(x)' <=> In(x)
    BY <1>1, <1>2, <1>4 DEF In, DpsInv, DpInv
  <2> QED BY <1>3, <2>1, <2>2, <2>3, Steps DEF Adds, Removes, Adding
<1>9. vport[v] = NoVport /\ dev_table[v] = NULL /\ ~In(v) /\ NoVport.dev = NULL /\ v \notin pend /\ d \notin pend
  BY <1>2 DEF VportsInv, VportInv, NoVport, TypeInv
<1>10. VportsInv'
  <2> SUFFICES ASSUME NEW x \in Vports
               PROVE  VportInv(x)'
    BY DEF VportsInv
  <2>1. VportInv(x)
    BY DEF VportsInv
  <2>2. CASE x = v
    BY <1>1, <1>2, <1>3, <1>5, <1>8, <1>9, <2>2 DEF VportInv
  <2>3. CASE x # v
    <3>1. vport'[x] = vport[x] /\ x \notin Dps /\ (x \in alloc' <=> x \in alloc)
      BY <1>2, <1>5, <2>3, Constants
    <3>3. vport[x].dev # NULL => vport[x].dev \in Devs
      BY <1>1 DEF VportType, OrNull
    <3> QED BY <1>2, <1>8, <2>1, <2>3, <3>1, <3>3, Constants DEF VportInv
  <2> QED BY <2>2, <2>3
<1>11. DpsInv'
  <2> SUFFICES ASSUME NEW x \in Dps
               PROVE  DpInv(x)'
    BY DEF DpsInv
  <2>1. DpInv(x)
    BY DEF DpsInv
  <2>2. CASE x = d
    BY <1>1, <1>2, <1>3, <1>4, <1>9, <2>2 DEF DpInv, Owns, Adding
  <2>3. CASE x # d
    <3>1. dp'[x] = dp[x] /\ x \notin Vports /\ (x \in alloc' <=> x \in alloc)
      BY <1>2, <1>4, <2>3, Constants
    <3>2. \A y \in dp[x].ports : y # v /\ y \in Vports /\ vport'[y] = vport[y]
      BY <1>1, <1>2, <1>5, <2>1 DEF DpInv, DpType
    <3>3. \A u \in Actors : cmd[u].pc \notin Removing \cup {"dp_ports"} /\ cmd[u].pc \notin Adding
      BY <1>2, Nobody, Constants, Steps DEF Holding
    <3> QED BY <1>2, <2>1, <3>1, <3>2, <3>3 DEF DpInv, Owns
  <2> QED BY <2>2, <2>3
<1>12. CmdsInv'
  <2> SUFFICES ASSUME NEW u \in Actors
               PROVE  AddInv(u)' /\ RemoveInv(u)' /\ CmdInv(u)'
    BY DEF CmdsInv
  <2>1. CASE u = t
    <3>1. AddInv(t)'
      BY <1>1, <1>2, <1>3, <1>4, <1>5, <1>9, Constants DEF AddInv, Adding
    <3>2. RemoveInv(t)' /\ CmdInv(t)'
      BY <1>3, ConstantsAssumption DEF RemoveInv, CmdInv, Removing
    <3> QED BY <2>1, <3>1, <3>2
  <2>2. CASE u # t
    <3>1. cmd'[u] = cmd[u] /\ cmd[u].pc \notin Holding /\ AddInv(u) /\ RemoveInv(u) /\ CmdInv(u)
      BY <1>2, <1>3, <2>2, Nobody, Constants DEF CmdsInv
    <3> QED BY <3>1, Steps DEF AddInv, RemoveInv, CmdInv, Holding
  <2> QED BY <2>1, <2>2
<1>13. DevsInv'
  <2> SUFFICES ASSUME NEW e \in Devs
               PROVE  DevInv(e)'
    BY DEF DevsInv
  <2>1. DevInv(e)
    BY DEF DevsInv
  <2>2. e \in alloc' <=> e \in alloc
    BY <1>2, Constants
  <2>3. \A x \in Vports : x \in alloc => x \in alloc' /\ vport'[x] = vport[x]
    BY <1>2, <1>5
  <2>4. \A u \in Actors : cmd[u].pc \notin {"hash", "insert", "unhash", "destroy", "synchronize_net"}
    BY <1>2, Nobody, Constants DEF Holding, Adding, Removing
  <2>5. \A u \in Actors : cmd'[u].pc # "synchronize_net"
    BY <1>3, <2>4
  <2> QED BY <1>2, <1>8, <2>1, <2>2, <2>3, <2>4, <2>5 DEF DevInv, Registered
<1>14. RefsBalanced'
  <2>1. \A e \in Devs, x \in Vports : vport'[x].dev = e /\ vport'[x].type # "internal" <=> vport[x].dev = e /\ vport[x].type # "internal"
    BY <1>5, <1>9, Constants
  <2> QED BY <1>2, <2>1 DEF RefsBalanced, Registered
<1> QED BY <1>6, <1>7, <1>10, <1>11, <1>12, <1>13, <1>14

\* A step between the ports: nothing changes but what a command knows.
LEMMA CmdOnly ==
  ASSUME Inv, NEW t \in Actors, UNCHANGED <<alloc, pend, dp, vport, dev_table, dev>>, TypeInv', LockInv',
         \A u \in Actors : u # t => cmd'[u] = cmd[u],
         cmd[t].pc \notin Adding \cup Removing \cup {"dp_ports"}, cmd'[t].pc \notin Adding \cup Removing, CmdInv(t)'
  PROVE  Inv'
<1> USE DEF Inv
<1>1. /\ \A u \in Actors, v \in Vports : cmd'[u].vport = v /\ cmd'[u].pc \in Adding \cup Removing
                                  <=> cmd[u].vport = v /\ cmd[u].pc \in Adding \cup Removing
      /\ \A u \in Actors, x \in Adding \cup Removing : cmd'[u].pc = x <=> cmd[u].pc = x
  OBVIOUS
<1>2. /\ \A v \in Vports : (InHand(v)' <=> InHand(v)) /\ (In(v)' <=> In(v))
  BY <1>1 DEF InHand, Adds, Removes, In
<1>3. VportsInv'
  <2> SUFFICES ASSUME NEW v \in Vports
               PROVE  VportInv(v)'
    BY DEF VportsInv
  <2>1. VportInv(v)
    BY DEF VportsInv
  <2> QED BY <1>2, <2>1 DEF VportInv
<1>4. DpsInv'
  <2> SUFFICES ASSUME NEW d \in Dps
               PROVE  DpInv(d)'
    BY DEF DpsInv
  <2>1. DpInv(d)
    BY DEF DpsInv
  <2>2. \A u \in Actors : cmd[u].pc \in Adding \cup Removing \cup {"dp_ports"} => cmd'[u] = cmd[u]
    OBVIOUS
  <2> QED BY <2>1, <2>2 DEF DpInv, Owns
<1>5. CmdsInv'
  <2> SUFFICES ASSUME NEW u \in Actors
               PROVE  AddInv(u)' /\ RemoveInv(u)' /\ CmdInv(u)'
    BY DEF CmdsInv
  <2>1. CASE u = t
    BY <2>1 DEF AddInv, RemoveInv
  <2>2. CASE u # t
    <3>1. cmd'[u] = cmd[u] /\ AddInv(u) /\ RemoveInv(u) /\ CmdInv(u)
      BY <2>2 DEF CmdsInv
    <3>2. AddInv(u)'
      BY <3>1 DEF AddInv
    <3>3. RemoveInv(u)'
      BY <3>1 DEF RemoveInv, In, Registered
    <3>4. CmdInv(u)'
      BY <3>1 DEF CmdInv, In
    <3> QED BY <3>2, <3>3, <3>4
  <2> QED BY <2>1, <2>2
<1>6. DevsInv'
  <2> SUFFICES ASSUME NEW e \in Devs
               PROVE  DevInv(e)'
    BY DEF DevsInv
  <2>1. DevInv(e)
    BY DEF DevsInv
  <2>2. \A u \in Actors : cmd[u].pc \in Adding \cup Removing \/ cmd'[u].pc \in Adding \cup Removing => cmd'[u] = cmd[u]
    OBVIOUS
  <2>3. "synchronize_net" \in Removing
    BY DEF Removing
  <2>4. dev[e].attached => dev[e].vport \in Vports
    BY <2>1 DEF DevInv
  <2>5. \A v : (\E u \in Actors : cmd'[u].pc = "synchronize_net" /\ cmd'[u].vport = v)
             <=> (\E u \in Actors : cmd[u].pc = "synchronize_net" /\ cmd[u].vport = v)
    BY <2>2, <2>3
  <2> QED BY <1>2, <2>1, <2>4, <2>5 DEF DevInv, Registered
<1>7. RefsBalanced'
  BY DEF RefsBalanced, Registered
<1> QED BY <1>3, <1>4, <1>5, <1>6, <1>7

\* ... as the local steps of one command are.
LEMMA CmdFrame ==
  ASSUME TypeInv, NEW t \in Actors, NEW c \in CmdType,
         cmd' = [cmd EXCEPT ![t] = c]
  PROVE  cmd' \in [Actors -> CmdType] /\ cmd'[t] = c /\ \A u \in Actors : u # t => cmd'[u] = cmd[u]
  BY DEF TypeInv

LEMMA CmdOnlyStep ==
  ASSUME Inv, NEW t \in Actors, NEW c \in CmdType, cmd' = [cmd EXCEPT ![t] = c],
         UNCHANGED <<alloc, pend, wait, rcu, dp, vport, dev_table, dev, rtnl>>,
         work' \subseteq Nets, dead' \subseteq Nets,
         \/ ovs_mutex' = ovs_mutex /\ (cmd[t].pc \in Holding <=> c.pc \in Holding)
         \/ ovs_mutex = NULL /\ ovs_mutex' = t /\ c.pc \in Holding
         \/ ovs_mutex = t /\ ovs_mutex' = NULL /\ c.pc \notin Holding,
         cmd[t].pc \notin Adding \cup Removing \cup {"dp_ports"}, c.pc \notin Adding \cup Removing,
         CmdInv(t)'
  PROVE  Inv'
<1>1. cmd' \in [Actors -> CmdType] /\ cmd'[t] = c /\ \A u \in Actors : u # t => cmd'[u] = cmd[u]
  BY CmdFrame DEF Inv
<1>2. TypeInv'
  BY <1>1 DEF Inv, TypeInv
<1>3. "synchronize_net" \in Removing
  BY DEF Removing
<1>4. LockInv'
  BY <1>1, <1>3, LockStep DEF Inv
<1> QED BY <1>1, <1>2, <1>4, CmdOnly

LEMMA IdleType == Idle \in CmdType /\ Idle.pc = "idle" /\ Idle.what = "none" /\ Idle.todo = {}
  BY ConstantsAssumption DEF Idle, CmdType, Lockless, OrNull

\* While nobody holds the mutex, an internal device belongs to a datapath that is listed.
LEMMA FoundDp ==
  ASSUME Inv, ovs_mutex \notin Actors, NEW e \in Devs, get_dp(e) # NULL
  PROVE  get_dp(e) \in Dps /\ dp[get_dp(e)].listed /\ get_dp(e) \in alloc \ pend
<1> DEFINE v == dev[e].vport
<1>1. v \in Vports /\ v \in alloc /\ dev[e].kind = "internal" /\ get_dp(e) = vport[v].dp
  BY DEF get_dp, Inv, DevsInv, DevInv
<1>2. VportInv(v) /\ vport[v].dev = e /\ v \notin pend
  BY <1>1 DEF Inv, VportsInv, DevsInv, DevInv
<1>3. vport[v].type = "internal" /\ In(v)
  <2>1. vport[v].type = "internal"
    BY <1>1, <1>2, Constants DEF VportInv
  <2>2. ~InHand(v)
    BY Nobody DEF Inv
  <2> QED BY <1>1, <1>2, <2>1, <2>2 DEF VportInv
<1>4. PICK d \in Dps : v \in dp[d].ports
  BY <1>3 DEF In
<1>5. vport[v].dp = d /\ dp[d].listed /\ d \in alloc \ pend
  BY <1>4 DEF Inv, DpsInv, DpInv
<1> QED BY <1>1, <1>5

LEMMA PcType ==
  ASSUME TypeInv, NEW t \in Actors, NEW x \in Holding \cup Lockless
  PROVE  \E c \in CmdType :
           /\ [cmd EXCEPT ![t].pc = x] = [cmd EXCEPT ![t] = c]
           /\ c.pc = x /\ c.what = cmd[t].what /\ c.dp = cmd[t].dp /\ c.vport = cmd[t].vport
           /\ c.dev = cmd[t].dev /\ c.name = cmd[t].name /\ c.type = cmd[t].type /\ c.no = cmd[t].no
           /\ c.todo = cmd[t].todo
<1>1. cmd[t] \in CmdType
  BY DEF TypeInv
<1>2. \A y \in CmdType : [y EXCEPT !.pc = x] \in CmdType
  BY DEF CmdType
<1>3. [cmd[t] EXCEPT !.pc = x] \in CmdType /\ [cmd[t] EXCEPT !.pc = x].pc = x
  BY <1>1, <1>2 DEF CmdType
<1> QED BY <1>1, <1>3 DEF CmdType

LEMMA GotoStep ==
  ASSUME TypeInv, NEW t \in Actors, NEW x \in Holding \cup Lockless, Goto(t, x)
  PROVE  /\ ovs_mutex' = ovs_mutex /\ cmd' \in [Actors -> CmdType]
         /\ \A u \in Actors : u # t => cmd'[u] = cmd[u]
         /\ cmd'[t].pc = x /\ cmd'[t].what = cmd[t].what /\ cmd'[t].dp = cmd[t].dp /\ cmd'[t].vport = cmd[t].vport
         /\ cmd'[t].dev = cmd[t].dev /\ cmd'[t].name = cmd[t].name /\ cmd'[t].type = cmd[t].type
         /\ cmd'[t].no = cmd[t].no /\ cmd'[t].todo = cmd[t].todo
<1>1. PICK c \in CmdType :
           /\ [cmd EXCEPT ![t].pc = x] = [cmd EXCEPT ![t] = c]
           /\ c.pc = x /\ c.what = cmd[t].what /\ c.dp = cmd[t].dp /\ c.vport = cmd[t].vport
           /\ c.dev = cmd[t].dev /\ c.name = cmd[t].name /\ c.type = cmd[t].type /\ c.no = cmd[t].no
           /\ c.todo = cmd[t].todo
  BY PcType
<1>2. cmd' = [cmd EXCEPT ![t] = c] /\ ovs_mutex' = ovs_mutex
  BY <1>1 DEF Goto
<1> QED BY <1>1, <1>2, CmdFrame

LEMMA IdleCmd ==
  ASSUME NEW t \in Actors, cmd'[t] = Idle
  PROVE  CmdInv(t)'
  BY IdleType DEF CmdInv, Removing

LEMMA VportNew ==
  ASSUME Inv, NEW t \in Threads, NEW e \in Devs, NEW type \in Types, NEW n \in Names, NEW auto \in BOOLEAN,
         NEW no \in PortNos \ {OVSP_LOCAL}, ovs_vport_cmd_new(t, e, type, n, auto, no)
  PROVE  Inv'
<1>1. PICK x \in ChosenNo(get_dp(e), auto, no) :
        cmd' = [cmd EXCEPT ![t] = [Idle EXCEPT !.pc = "vport_add", !.what = "vport_new",
                                    !.dp = get_dp(e), !.dev = e, !.net = dev[e].net,
                                    !.name = n, !.type = type, !.auto = auto, !.no = x]]
  BY DEF ovs_vport_cmd_new
<1>t. t \in Actors /\ dev[e] \in DevLoose /\ vport \in [Vports -> VportType]
  BY Constants DEF Inv, TypeInv
<1>d. PICK d \in Dps : d = get_dp(e) /\ dp[d].listed
  BY FoundDp, Constants DEF ovs_vport_cmd_new
<1>x. /\ x \in PortNos /\ x # OVSP_LOCAL /\ \A u \in dp[d].ports : vport[u].no # x
  <2>1. x \in FreeNos(d)
    BY <1>d DEF ChosenNo
  <2>2. dp[d].ports \subseteq Vports
    BY DEF Inv, TypeInv, DpType
  <2> QED BY <2>1, <2>2 DEF FreeNos, ovs_lookup_vport
<1>c. PICK c \in CmdType : /\ cmd' = [cmd EXCEPT ![t] = c] /\ c.pc = "vport_add" /\ c.what = "vport_new"
                           /\ c.dp = d /\ c.dev = e /\ c.name = n /\ c.no = x /\ c.todo = {}
  <2> DEFINE b(y, nt) == [y EXCEPT !.pc = "vport_add", !.what = "vport_new", !.dp = d, !.dev = e, !.net = nt,
                                   !.name = n, !.type = type, !.no = x]
             c(y, nt) == [y EXCEPT !.pc = "vport_add", !.what = "vport_new", !.dp = d, !.dev = e, !.net = nt,
                                   !.name = n, !.type = type, !.auto = auto, !.no = x]
  <2>0. type \in {"netdev", "internal", "tunnel"} /\ n \in OrNull(Names) /\ d \in OrNull(Dps) /\ e \in OrNull(Devs)
        /\ x \in PortNos
    BY <1>x, ConstantsAssumption DEF OrNull
  <2>1. \A y \in CmdType, nt \in OrNull(Nets) : b(y, nt) \in CmdType
    BY ZenonT(60), <2>0 DEF CmdType, Holding
  <2>3. \A y \in CmdType : [y EXCEPT !.auto = auto] \in CmdType
    BY DEF CmdType
  <2>6. \A y \in CmdType, nt \in OrNull(Nets) : c(y, nt) = [b(y, nt) EXCEPT !.auto = auto]
    <3> TAKE y \in CmdType, nt \in OrNull(Nets)
    <3> QED BY DEF CmdType
  <2>7. \A y \in CmdType, nt \in OrNull(Nets) :
          /\ c(y, nt).pc = "vport_add" /\ c(y, nt).what = "vport_new" /\ c(y, nt).dp = d /\ c(y, nt).dev = e
          /\ c(y, nt).name = n /\ c(y, nt).no = x /\ c(y, nt).todo = y.todo
    BY DEF CmdType
  <2>8. cmd' = [cmd EXCEPT ![t] = c(Idle, dev[e].net)]
    BY <1>1, <1>d
  <2> HIDE DEF b, c
  <2>2. dev[e].net \in OrNull(Nets)
    BY <1>t DEF DevLoose
  <2>9. c(Idle, dev[e].net) \in CmdType
    BY <2>1, <2>2, <2>3, <2>6, IdleType
  <2>10. c(Idle, dev[e].net).pc = "vport_add" /\ c(Idle, dev[e].net).todo = {}
    BY <2>2, <2>7, IdleType
  <2> QED BY <2>2, <2>7, <2>8, <2>9, <2>10, IdleType
<1>2. CmdInv(t)'
  <2>1. cmd'[t] = c
    BY <1>t, <1>c, CmdFrame DEF Inv
  <2>2. t # Worker /\ UNCHANGED <<dp, vport>>
    BY ConstantsAssumption DEF ovs_vport_cmd_new, tables
  <2> QED BY <1>c, <1>d, <1>x, <1>t, <2>1, <2>2 DEF CmdInv, Removing
<1>3. /\ cmd[t].pc = "idle" /\ ovs_mutex = NULL /\ ovs_mutex' = t
      /\ UNCHANGED <<alloc, pend, wait, rcu, dp, vport, dev_table, dev, rtnl, work, dead>>
  BY DEF ovs_vport_cmd_new, memory, tables, others, readers
<1>4. work' \subseteq Nets /\ dead' \subseteq Nets
  BY <1>3 DEF Inv, TypeInv
<1> QED BY <1>t, <1>c, <1>2, <1>3, <1>4, CmdOnlyStep DEF Holding, Adding, Removing

\* A command that ends, or drops the mutex, with nothing in its hands.
LEMMA AddRefused ==
  ASSUME Inv, NEW t \in Actors, ovs_vport_add(t), UNCHANGED <<alloc, vport>>
  PROVE  Inv'
<1>0. TypeInv
  BY DEF Inv
<1>1. /\ cmd[t].pc = "vport_add" /\ ovs_mutex = t /\ CmdInv(t)
      /\ UNCHANGED <<alloc, pend, wait, rcu, dp, vport, dev_table, dev, rtnl, work, dead>>
  BY Steps DEF ovs_vport_add, others, readers, Inv, LockInv, CmdsInv, Holding
<1>2. work' \subseteq Nets /\ dead' \subseteq Nets
  BY <1>1 DEF Inv, TypeInv
<1>3. \/ ovs_mutex' = NULL /\ cmd' = [cmd EXCEPT ![t] = Idle]
      \/ ovs_mutex' = NULL /\ cmd' = [cmd EXCEPT ![t].pc = "request_module"]
  BY <1>1 DEF ovs_vport_add, Finish, Inv, TypeInv
<1>4. CASE ovs_mutex' = NULL /\ cmd' = [cmd EXCEPT ![t] = Idle]
  <2>1. CmdInv(t)'
    BY <1>4, CmdFrame, IdleType, IdleCmd DEF Inv
  <2> QED BY <1>1, <1>2, <1>4, <2>1, CmdOnlyStep, IdleType DEF Holding, Adding, Removing
<1>5. CASE ovs_mutex' = NULL /\ cmd' = [cmd EXCEPT ![t].pc = "request_module"]
  <2>0. "request_module" \in Holding \cup Lockless
    BY DEF Lockless
  <2>1. PICK c \in CmdType :
           /\ cmd' = [cmd EXCEPT ![t] = c] /\ c.pc = "request_module"
           /\ c.what = cmd[t].what /\ c.dev = cmd[t].dev /\ c.name = cmd[t].name /\ c.no = cmd[t].no
    <3> QED BY ONLY ZenonT(60), <1>0, <1>5, <2>0, PcType, t \in Actors
  <2>2. cmd'[t] = c
    BY <2>1, CmdFrame DEF Inv
  <2>3. CmdInv(t)'
    BY <1>1, <2>1, <2>2, Steps DEF CmdInv, Removing
  <2> QED BY <1>1, <1>2, <1>5, <2>1, <2>3, CmdOnlyStep DEF Holding, Adding, Removing
<1> QED BY <1>3, <1>4, <1>5

LEMMA RequestModule ==
  ASSUME Inv, NEW t \in Actors, request_module(t)
  PROVE  Inv'
<1>0. TypeInv
  BY DEF Inv
<1>1. /\ cmd[t].pc = "request_module" /\ CmdInv(t)
      /\ UNCHANGED <<alloc, pend, wait, rcu, dp, vport, dev_table, dev, rtnl, work, dead, ovs_mutex>>
  BY DEF request_module, memory, tables, readers, Inv, CmdsInv
<1>2. work' \subseteq Nets /\ dead' \subseteq Nets
  BY <1>1 DEF Inv, TypeInv
<1>3. cmd' = [cmd EXCEPT ![t].pc = "relock"] /\ "relock" \in Holding \cup Lockless
  BY DEF request_module, Lockless
<1>4. PICK c \in CmdType :
         /\ cmd' = [cmd EXCEPT ![t] = c] /\ c.pc = "relock"
         /\ c.what = cmd[t].what /\ c.dev = cmd[t].dev /\ c.name = cmd[t].name /\ c.no = cmd[t].no
  BY ONLY ZenonT(60), <1>0, <1>3, PcType, t \in Actors
<1>5. cmd'[t] = c
  BY <1>4, CmdFrame DEF Inv
<1>6. CmdInv(t)'
  BY <1>1, <1>4, <1>5, Steps DEF CmdInv, Removing
<1> QED BY <1>1, <1>2, <1>4, <1>6, CmdOnlyStep DEF Holding, Adding, Removing

LEMMA Restart ==
  ASSUME Inv, NEW t \in Actors, restart(t)
  PROVE  Inv'
<1> DEFINE d == RestartDp(t)
<1>0. TypeInv /\ cmd[t] \in CmdType
  BY DEF Inv, TypeInv
<1>1. /\ cmd[t].pc = "relock" /\ CmdInv(t) /\ ovs_mutex = NULL
      /\ UNCHANGED <<alloc, pend, wait, rcu, dp, vport, dev_table, dev, rtnl, work, dead>>
  BY DEF restart, memory, tables, others, readers, Inv, CmdsInv
<1>2. work' \subseteq Nets /\ dead' \subseteq Nets /\ t # Worker
  BY <1>1 DEF Inv, TypeInv, CmdInv, Removing
<1>3. \/ ovs_mutex' = NULL /\ cmd' = [cmd EXCEPT ![t] = Idle]
      \/ ovs_mutex' = NULL /\ cmd' = [cmd EXCEPT ![t] = [Idle EXCEPT !.what = "EBUSY", !.auto = cmd[t].auto]]
      \/ d # NULL /\ cmd[t].no \in FreeNos(d) /\ ovs_mutex' = t /\ cmd' = [cmd EXCEPT ![t].pc = "vport_add", ![t].dp = d]
  BY DEF restart, Finish
<1>4. CASE ovs_mutex' = NULL /\ cmd' = [cmd EXCEPT ![t] = Idle]
  <2>1. CmdInv(t)'
    BY <1>4, CmdFrame, IdleType, IdleCmd DEF Inv
  <2> QED BY <1>1, <1>2, <1>4, <2>1, CmdOnlyStep, IdleType DEF Holding, Adding, Removing
<1>5. CASE ovs_mutex' = NULL /\ cmd' = [cmd EXCEPT ![t] = [Idle EXCEPT !.what = "EBUSY", !.auto = cmd[t].auto]]
  <2>1. PICK c \in CmdType : /\ cmd' = [cmd EXCEPT ![t] = c] /\ c.pc = "idle" /\ c.what = "EBUSY"
    <3>1. \A y \in CmdType, z \in CmdType :
            [y EXCEPT !.what = "EBUSY", !.auto = z.auto] \in CmdType
      BY DEF CmdType
    <3>2. \A y \in CmdType, z \in CmdType :
            /\ [y EXCEPT !.what = "EBUSY", !.auto = z.auto].pc = y.pc
            /\ [y EXCEPT !.what = "EBUSY", !.auto = z.auto].what = "EBUSY"
      BY DEF CmdType
    <3> DEFINE c == [Idle EXCEPT !.what = "EBUSY", !.auto = cmd[t].auto]
    <3>3. c \in CmdType /\ c.pc = "idle" /\ c.what = "EBUSY"
      BY <1>0, <3>1, <3>2, IdleType
    <3>4. cmd' = [cmd EXCEPT ![t] = c]
      BY <1>5
    <3> HIDE DEF c
    <3> QED BY <3>3, <3>4
  <2>2. cmd'[t] = c
    BY <2>1, CmdFrame DEF Inv
  <2>3. CmdInv(t)'
    BY <1>2, <2>1, <2>2 DEF CmdInv, Removing
  <2> QED BY <1>1, <1>2, <1>5, <2>1, <2>3, CmdOnlyStep DEF Holding, Lockless, Adding, Removing
<1>6. CASE d # NULL /\ cmd[t].no \in FreeNos(d) /\ ovs_mutex' = t /\ cmd' = [cmd EXCEPT ![t].pc = "vport_add", ![t].dp = d]
  <2>1. d \in Dps /\ dp[d].listed /\ cmd[t].dev \in Devs
    <3>1. d = get_dp(cmd[t].dev) /\ cmd[t].dev \in Devs
      BY <1>1, <1>6 DEF RestartDp, CmdInv
    <3> QED BY <1>1, <1>6, <3>1, FoundDp, Constants
  <2>2. PICK c \in CmdType : /\ cmd' = [cmd EXCEPT ![t] = c] /\ c.pc = "vport_add" /\ c.dp = d /\ c.what = cmd[t].what
                             /\ c.dev = cmd[t].dev /\ c.name = cmd[t].name /\ c.no = cmd[t].no
    <3> HIDE DEF d
    <3>1. \A y \in CmdType : [y EXCEPT !.pc = "vport_add", !.dp = d] \in CmdType
      BY ZenonT(60), <2>1 DEF CmdType, Holding, OrNull
    <3>2. \A y \in CmdType :
            LET c == [y EXCEPT !.pc = "vport_add", !.dp = d]
            IN  /\ c.pc = "vport_add" /\ c.dp = d /\ c.what = y.what
                /\ c.dev = y.dev /\ c.name = y.name /\ c.no = y.no
      BY DEF CmdType
    <3>3. cmd' = [cmd EXCEPT ![t] = [cmd[t] EXCEPT !.pc = "vport_add", !.dp = d]]
      BY <1>6
    <3> QED BY <1>0, <3>1, <3>2, <3>3
  <2>3. cmd'[t] = c
    BY <2>2, CmdFrame DEF Inv
  <2>4. \A u \in dp[d].ports : vport[u].no # cmd[t].no
    <3>1. dp[d].ports \subseteq Vports
      BY <2>1 DEF Inv, TypeInv, DpType
    <3> HIDE DEF d
    <3> QED BY <1>6, <3>1 DEF FreeNos, ovs_lookup_vport
  <2>5. CmdInv(t)'
    <3> HIDE DEF d
    <3> QED BY <1>1, <1>2, <2>1, <2>2, <2>3, <2>4 DEF CmdInv, Removing
  <2> HIDE DEF d
  <2> QED BY <1>1, <1>2, <1>6, <2>2, <2>5, CmdOnlyStep DEF Holding, Lockless, Adding, Removing
<1> QED BY <1>3, <1>4, <1>5, <1>6

LEMMA DpDel ==
  ASSUME Inv, NEW t \in Threads, NEW d \in Dps, ovs_dp_cmd_del(t, d)
  PROVE  Inv'
<1>0. TypeInv /\ t \in Actors /\ t # Worker
  BY Constants, ConstantsAssumption DEF Inv
<1>1. /\ cmd[t].pc = "idle" /\ ovs_mutex = NULL /\ ovs_mutex' = t
      /\ UNCHANGED <<alloc, pend, wait, rcu, dp, vport, dev_table, dev, rtnl, work, dead>>
  BY DEF ovs_dp_cmd_del, memory, tables, others, readers
<1>2. work' \subseteq Nets /\ dead' \subseteq Nets
  BY <1>1 DEF Inv, TypeInv
<1>3. dp[d].listed /\ d \in alloc \ pend
  BY <1>1, FoundDp, Constants DEF ovs_dp_cmd_del, FoundDps
<1>4. PICK c \in CmdType : /\ cmd' = [cmd EXCEPT ![t] = c] /\ c.pc = "dp_ports" /\ c.what = "dp_del" /\ c.dp = d /\ c.todo = {}
  <2> DEFINE c == [Idle EXCEPT !.pc = "dp_ports", !.what = "dp_del", !.dp = d, !.net = dp[d].net]
  <2>1. \A y \in CmdType, net \in OrNull(Nets) :
          [y EXCEPT !.pc = "dp_ports", !.what = "dp_del", !.dp = d, !.net = net] \in CmdType
    BY DEF CmdType, Holding, OrNull
  <2>2. dp[d].net \in OrNull(Nets)
    BY <1>0 DEF TypeInv, DpType
  <2>3. c \in CmdType
    BY <2>1, <2>2, IdleType
  <2>4. c.pc = "dp_ports" /\ c.what = "dp_del" /\ c.dp = d /\ c.todo = {}
    BY DEF Idle
  <2>5. cmd' = [cmd EXCEPT ![t] = c]
    BY DEF ovs_dp_cmd_del
  <2> HIDE DEF c
  <2> QED BY <2>3, <2>4, <2>5
<1>5. cmd'[t] = c
  BY <1>0, <1>4, CmdFrame
<1>6. CmdInv(t)'
  BY <1>0, <1>1, <1>3, <1>4, <1>5 DEF CmdInv, Removing
<1> QED BY <1>0, <1>1, <1>2, <1>4, <1>6, CmdOnlyStep DEF Holding, Lockless, Adding, Removing

LEMMA ExitNetBegins ==
  ASSUME Inv, NEW t \in Threads, NEW net \in Nets, ovs_exit_net(t, net)
  PROVE  Inv'
<1>0. TypeInv /\ t \in Actors /\ t # Worker
  BY Constants, ConstantsAssumption DEF Inv
<1>1. /\ cmd[t].pc = "idle" /\ ovs_mutex = NULL /\ ovs_mutex' = t
      /\ UNCHANGED <<alloc, pend, wait, rcu, dp, vport, dev_table, dev, rtnl, work>>
      /\ dead' = dead \cup {net}
  BY DEF ovs_exit_net, memory, tables, readers
<1>2. work' \subseteq Nets /\ dead' \subseteq Nets
  BY <1>1 DEF Inv, TypeInv
<1>4. PICK c \in CmdType : /\ cmd' = [cmd EXCEPT ![t] = c] /\ c.pc = "exit_dps" /\ c.what = "exit_net" /\ c.net = net /\ c.todo = {}
  <2> DEFINE c == [Idle EXCEPT !.pc = "exit_dps", !.what = "exit_net", !.net = net]
  <2>1. \A y \in CmdType, x \in OrNull(Nets) : [y EXCEPT !.pc = "exit_dps", !.what = "exit_net", !.net = x] \in CmdType
    BY DEF CmdType, Holding
  <2>3. c \in CmdType
    BY <2>1, IdleType DEF OrNull
  <2>4. c.pc = "exit_dps" /\ c.what = "exit_net" /\ c.net = net /\ c.todo = {}
    BY DEF Idle
  <2>5. cmd' = [cmd EXCEPT ![t] = c]
    BY DEF ovs_exit_net
  <2> HIDE DEF c
  <2> QED BY <2>3, <2>4, <2>5
<1>5. cmd'[t] = c
  BY <1>0, <1>4, CmdFrame
<1>6. CmdInv(t)'
  BY <1>0, <1>1, <1>4, <1>5 DEF CmdInv, Removing
<1> QED BY <1>0, <1>1, <1>2, <1>4, <1>6, CmdOnlyStep DEF Holding, Lockless, Adding, Removing

LEMMA ExitDps ==
  ASSUME Inv, NEW t \in Actors, exit_dps(t)
  PROVE  Inv'
<1> DEFINE dps == {d \in Dps : dp[d].listed /\ dp[d].net = cmd[t].net}
           todo == list_vports_from_net(cmd[t].net)
<1>0. TypeInv /\ cmd[t] \in CmdType
  BY DEF Inv, TypeInv
<1>1. /\ cmd[t].pc = "exit_dps" /\ cmd[t].what = "exit_net" /\ CmdInv(t) /\ t # Worker
      /\ UNCHANGED <<alloc, pend, wait, rcu, dp, vport, dev_table, dev, rtnl, work, dead, ovs_mutex>>
  BY DEF exit_dps, memory, tables, others, readers, Inv, CmdsInv, CmdInv, Removing
<1>2. work' \subseteq Nets /\ dead' \subseteq Nets
  BY <1>1 DEF Inv, TypeInv
<1>3. CASE \E d \in dps : cmd' = [cmd EXCEPT ![t].pc = "dp_ports", ![t].dp = d]
  <2>1. PICK d \in dps : cmd' = [cmd EXCEPT ![t] = [cmd[t] EXCEPT !.pc = "dp_ports", !.dp = d]]
    BY <1>3
  <2>2. d \in Dps /\ d \in alloc \ pend
    BY DEF Inv, DpsInv, DpInv
  <2>3. PICK c \in CmdType : cmd' = [cmd EXCEPT ![t] = c] /\ c.pc = "dp_ports" /\ c.dp = d /\ c.what = "exit_net" /\ c.todo = {}
    <3>1. \A y \in CmdType : [y EXCEPT !.pc = "dp_ports", !.dp = d] \in CmdType
      BY ZenonT(60), <2>2 DEF CmdType, Holding, OrNull
    <3>2. \A y \in CmdType :
            LET c == [y EXCEPT !.pc = "dp_ports", !.dp = d]
            IN  c.pc = "dp_ports" /\ c.dp = d /\ c.what = y.what /\ c.todo = y.todo
      BY DEF CmdType
    <3>3. cmd[t].todo = {}
      BY <1>1 DEF CmdInv
    <3>4. cmd[t].what = "exit_net"
      BY <1>1
    <3> DEFINE y == [cmd[t] EXCEPT !.pc = "dp_ports", !.dp = d]
    <3>5. y \in CmdType /\ y.pc = "dp_ports" /\ y.dp = d /\ y.what = "exit_net" /\ y.todo = {}
      BY <1>0, <3>1, <3>2, <3>3, <3>4
    <3>6. cmd' = [cmd EXCEPT ![t] = y]
      BY <2>1
    <3> HIDE DEF y
    <3> QED BY <3>5, <3>6
  <2>4. cmd'[t] = c
    BY <1>0, <2>3, CmdFrame
  <2>5. CmdInv(t)'
    BY <1>1, <2>2, <2>3, <2>4 DEF CmdInv, Removing
  <2> HIDE DEF dps
  <2> QED BY <1>1, <1>2, <2>3, <2>5, CmdOnlyStep DEF Holding, Lockless, Adding, Removing
<1>4. CASE /\ dps = {}
           /\ cmd' = [cmd EXCEPT ![t].pc = "exit_vports", ![t].what = "exit_vports", ![t].todo = todo]
  <2>1. cmd' = [cmd EXCEPT ![t] = [cmd[t] EXCEPT !.pc = "exit_vports", !.what = "exit_vports", !.todo = todo]]
    BY <1>4
  <2>2. /\ todo \subseteq Vports
        /\ \A v \in todo : In(v) /\ vport[v].no # OVSP_LOCAL
    <3> SUFFICES ASSUME NEW v \in todo
                 PROVE  v \in Vports /\ In(v) /\ vport[v].no # OVSP_LOCAL
      OBVIOUS
    <3>1. PICK d \in Dps : dp[d].listed /\ v \in dp[d].ports
      BY DEF list_vports_from_net
    <3>2. dev[vport[v].dev].net = cmd[t].net
      BY DEF list_vports_from_net
    <3>3. DpInv(d) /\ dp[d].ports \subseteq Vports
      BY <1>0 DEF Inv, DpsInv, TypeInv, DpType
    <3>4. vport[v].no # OVSP_LOCAL
      BY <1>4, <3>1, <3>2, <3>3 DEF DpInv
    <3> QED BY <3>1, <3>3, <3>4 DEF In
  <2> HIDE DEF todo
  <2>3. PICK c \in CmdType : cmd' = [cmd EXCEPT ![t] = c] /\ c.pc = "exit_vports" /\ c.what = "exit_vports" /\ c.todo = todo
    <3>1. \A y \in CmdType : [y EXCEPT !.pc = "exit_vports", !.what = "exit_vports", !.todo = todo] \in CmdType
      BY ZenonT(60), <2>2 DEF CmdType, Holding
    <3>2. \A y \in CmdType :
            LET c == [y EXCEPT !.pc = "exit_vports", !.what = "exit_vports", !.todo = todo]
            IN  c.pc = "exit_vports" /\ c.what = "exit_vports" /\ c.todo = todo
      BY DEF CmdType
    <3> QED BY <1>0, <1>1, <2>1, <3>1, <3>2
  <2>4. cmd'[t] = c
    BY <1>0, <2>3, CmdFrame
  <2>5. CmdInv(t)'
    <3>1. \A v \in c.todo : In(v)' /\ vport'[v].no # OVSP_LOCAL
      BY <1>1, <2>2, <2>3 DEF In
    <3> QED BY <1>1, <2>3, <2>4, <3>1 DEF CmdInv, Removing
  <2> HIDE DEF dps
  <2> QED BY <1>1, <1>2, <2>3, <2>5, CmdOnlyStep DEF Holding, Lockless, Adding, Removing
<1> QED BY <1>3, <1>4 DEF exit_dps

LEMMA ExitVportsEnds ==
  ASSUME Inv, NEW t \in Actors, cmd[t].pc = "exit_vports", ovs_mutex' = NULL, cmd' = [cmd EXCEPT ![t].pc = "cancel_work"],
         UNCHANGED <<memory, dp, vport, dev_table, dev, others, rtnl, readers>>
  PROVE  Inv'
<1>0. TypeInv
  BY DEF Inv
<1>1. /\ CmdInv(t) /\ ovs_mutex = t
      /\ UNCHANGED <<alloc, pend, wait, rcu, dp, vport, dev_table, dev, rtnl, work, dead>>
  BY DEF memory, others, readers, Inv, CmdsInv, LockInv, Holding
<1>2. work' \subseteq Nets /\ dead' \subseteq Nets /\ t # Worker
  BY <1>1 DEF Inv, TypeInv, CmdInv, Removing
<1>3. cmd' = [cmd EXCEPT ![t].pc = "cancel_work"] /\ "cancel_work" \in Holding \cup Lockless
  BY DEF Lockless
<1>4. PICK c \in CmdType : cmd' = [cmd EXCEPT ![t] = c] /\ c.pc = "cancel_work" /\ c.what = cmd[t].what
  <2>1. PICK c \in CmdType :
           /\ cmd' = [cmd EXCEPT ![t] = c] /\ c.pc = "cancel_work" /\ c.what = cmd[t].what
           /\ c.dev = cmd[t].dev /\ c.name = cmd[t].name /\ c.no = cmd[t].no
    BY ONLY ZenonT(60), <1>0, <1>3, PcType, t \in Actors
  <2> QED BY <2>1
<1>5. cmd'[t] = c
  BY <1>0, <1>4, CmdFrame
<1>6. CmdInv(t)'
  BY <1>1, <1>2, <1>4, <1>5 DEF CmdInv, Removing
<1> QED BY <1>1, <1>2, <1>4, <1>6, CmdOnlyStep DEF Holding, Adding, Removing

\* A command ends.
LEMMA Ends ==
  ASSUME Inv, NEW t \in Actors, cmd[t].pc \notin Adding \cup Removing \cup {"dp_ports"}, cmd' = [cmd EXCEPT ![t] = Idle],
         \/ cmd[t].pc \notin Holding /\ ovs_mutex' = ovs_mutex
         \/ ovs_mutex = t /\ ovs_mutex' = NULL,
         work' \subseteq Nets,
         UNCHANGED <<memory, dp, vport, dev_table, dev, dead, rtnl, rcu>>
  PROVE  Inv'
<1>1. UNCHANGED <<alloc, pend, wait, rcu, dp, vport, dev_table, dev, rtnl>> /\ work' \subseteq Nets /\ dead' \subseteq Nets
  BY DEF memory, Inv, TypeInv
<1>2. CmdInv(t)'
  BY CmdFrame, IdleType, IdleCmd DEF Inv
<1>3. "idle" \notin Holding /\ Idle.pc = "idle" /\ "idle" \notin Adding \cup Removing
  BY IdleType DEF Holding, Adding, Removing
<1> QED BY <1>1, <1>2, <1>3, CmdOnlyStep, IdleType

LEMMA CancelWork ==
  ASSUME Inv, NEW t \in Actors, cancel_work_sync(t)
  PROVE  Inv'
<1>1. cmd[t].pc \notin Adding \cup Removing \cup {"dp_ports"} /\ cmd[t].pc \notin Holding
  BY DEF cancel_work_sync, Adding, Removing, Holding
<1>2. work' \subseteq Nets
  BY DEF cancel_work_sync, Inv, TypeInv
<1>3. UNCHANGED <<memory, dp, vport, dev_table, dev, dead, rtnl, rcu, ovs_mutex>> /\ cmd' = [cmd EXCEPT ![t] = Idle]
  BY DEF cancel_work_sync, tables, readers
<1> QED BY <1>1, <1>2, <1>3, Ends

LEMMA WorkStarts ==
  ASSUME Inv, NEW net \in Nets, dp_notify_work(net)
  PROVE  Inv'
<1> DEFINE t == Worker
<1>0. TypeInv /\ t \in Actors
  BY Constants DEF Inv
<1>1. /\ cmd[t].pc = "idle" /\ work' \subseteq Nets /\ dead' \subseteq Nets
      /\ UNCHANGED <<alloc, pend, wait, rcu, dp, vport, dev_table, dev, rtnl, ovs_mutex>>
  BY DEF dp_notify_work, memory, tables, readers, Inv, TypeInv
<1>4. PICK c \in CmdType : cmd' = [cmd EXCEPT ![t] = c] /\ c.pc = "wq_lock" /\ c.what = "notify"
  <2> DEFINE c == [Idle EXCEPT !.pc = "wq_lock", !.what = "notify", !.net = net]
  <2>1. \A y \in CmdType, x \in OrNull(Nets) : [y EXCEPT !.pc = "wq_lock", !.what = "notify", !.net = x] \in CmdType
    BY DEF CmdType, Lockless
  <2>3. c \in CmdType
    BY <2>1, IdleType DEF OrNull
  <2>4. c.pc = "wq_lock" /\ c.what = "notify"
    BY DEF Idle
  <2>5. cmd' = [cmd EXCEPT ![t] = c]
    BY DEF dp_notify_work
  <2> HIDE DEF c
  <2> QED BY <2>3, <2>4, <2>5
<1>5. cmd'[t] = c
  BY <1>0, <1>4, CmdFrame
<1>6. CmdInv(t)'
  BY <1>0, <1>1, <1>4, <1>5 DEF CmdInv, Removing
<1> QED BY <1>0, <1>1, <1>4, <1>6, CmdOnlyStep DEF Holding, Adding, Removing

LEMMA WorkLocks ==
  ASSUME Inv, ovs_dp_notify_wq
  PROVE  Inv'
<1> DEFINE t == Worker
           todo == {v \in UNION {dp[d].ports : d \in {x \in Dps : dp[x].listed}} :
                      dp[vport[v].dp].net = cmd[Worker].net /\ vport[v].type # "internal"}
<1>0. TypeInv /\ t \in Actors /\ cmd[t] \in CmdType
  BY Constants DEF Inv, TypeInv
<1>1. /\ cmd[t].pc = "wq_lock" /\ ovs_mutex = NULL /\ ovs_mutex' = t /\ CmdInv(t)
      /\ UNCHANGED <<alloc, pend, wait, rcu, dp, vport, dev_table, dev, rtnl, work, dead>>
  BY <1>0 DEF ovs_dp_notify_wq, memory, tables, others, readers, Inv, CmdsInv
<1>2. work' \subseteq Nets /\ dead' \subseteq Nets /\ cmd[t].what = "notify"
  BY <1>0, <1>1 DEF TypeInv, CmdInv
<1>3. cmd' = [cmd EXCEPT ![t] = [cmd[t] EXCEPT !.pc = "notify", !.todo = todo]]
  BY DEF ovs_dp_notify_wq
<1>4. todo \subseteq Vports /\ \A v \in todo : In(v) /\ vport[v].no # OVSP_LOCAL
  <2> SUFFICES ASSUME NEW v \in todo
               PROVE  v \in Vports /\ In(v) /\ vport[v].no # OVSP_LOCAL
    OBVIOUS
  <2>1. PICK d \in Dps : dp[d].listed /\ v \in dp[d].ports
    OBVIOUS
  <2>2. DpInv(d) /\ dp[d].ports \subseteq Vports /\ vport[v].type # "internal"
    BY <1>0 DEF Inv, DpsInv, TypeInv, DpType
  <2>3. vport[v].no # OVSP_LOCAL
    BY <2>1, <2>2 DEF DpInv
  <2> QED BY <2>1, <2>2, <2>3 DEF In
<1> HIDE DEF todo
<1>5. PICK c \in CmdType : cmd' = [cmd EXCEPT ![t] = c] /\ c.pc = "notify" /\ c.what = "notify" /\ c.todo = todo
  <2>1. \A y \in CmdType : [y EXCEPT !.pc = "notify", !.todo = todo] \in CmdType
    BY <1>4 DEF CmdType, Holding
  <2>2. \A y \in CmdType :
          LET c == [y EXCEPT !.pc = "notify", !.todo = todo]
          IN  c.pc = "notify" /\ c.what = y.what /\ c.todo = todo
    BY DEF CmdType
  <2> QED BY ZenonT(60), <1>0, <1>2, <1>3, <2>1, <2>2
<1>6. cmd'[t] = c
  BY <1>0, <1>5, CmdFrame
<1>7. CmdInv(t)'
  <2>1. \A v \in c.todo : In(v)' /\ vport'[v].no # OVSP_LOCAL
    BY <1>1, <1>4, <1>5 DEF In
  <2> QED BY <1>1, <1>5, <1>6, <2>1 DEF CmdInv, Removing
<1> QED BY <1>0, <1>1, <1>2, <1>5, <1>7, CmdOnlyStep DEF Holding, Lockless, Adding, Removing

LEMMA WorkSkips ==
  ASSUME Inv, NEW v \in cmd[Worker].todo, cmd[Worker].pc = "notify", cmd' = [cmd EXCEPT ![Worker] = [cmd[Worker] EXCEPT !.todo = @ \ {v}]],
         UNCHANGED <<memory, dp, vport, dev_table, dev, others, ovs_mutex, rtnl, readers>>
  PROVE  Inv'
<1> DEFINE t == Worker
           todo == cmd[t].todo \ {v}
<1>0. TypeInv /\ t \in Actors /\ cmd[t] \in CmdType /\ CmdInv(t)
  BY Constants DEF Inv, TypeInv, CmdsInv
<1>1. UNCHANGED <<alloc, pend, wait, rcu, dp, vport, dev_table, dev, rtnl, work, dead>>
  BY DEF memory, others, readers
<1>2. work' \subseteq Nets /\ dead' \subseteq Nets /\ cmd[t].what = "notify"
  BY <1>0, <1>1 DEF TypeInv, CmdInv
<1>3. cmd' = [cmd EXCEPT ![t] = [cmd[t] EXCEPT !.todo = todo]]
  OBVIOUS
<1>4. todo \subseteq Vports /\ \A x \in todo : In(x) /\ vport[x].no # OVSP_LOCAL
  BY <1>0 DEF CmdInv, CmdType
<1> HIDE DEF todo
<1>5. PICK c \in CmdType : cmd' = [cmd EXCEPT ![t] = c] /\ c.pc = "notify" /\ c.what = "notify" /\ c.todo = todo
  <2>1. \A y \in CmdType : [y EXCEPT !.todo = todo] \in CmdType
    BY <1>4 DEF CmdType
  <2>2. \A y \in CmdType :
          LET c == [y EXCEPT !.todo = todo]
          IN  c.pc = y.pc /\ c.what = y.what /\ c.todo = todo
    BY DEF CmdType
  <2> QED BY ZenonT(60), <1>0, <1>2, <1>3, <2>1, <2>2
<1>6. cmd'[t] = c
  BY <1>0, <1>5, CmdFrame
<1>7. CmdInv(t)'
  <2>1. \A x \in c.todo : In(x)' /\ vport'[x].no # OVSP_LOCAL
    BY <1>1, <1>4, <1>5 DEF In
  <2> QED BY <1>1, <1>5, <1>6, <2>1 DEF CmdInv, Removing
<1> QED BY <1>0, <1>1, <1>2, <1>5, <1>7, CmdOnlyStep DEF Holding, Lockless, Adding, Removing

\* A port is allocated for the command.
LEMMA AddAllocates ==
  ASSUME Inv, NEW t \in Actors, ovs_vport_add(t), NEW v \in Vports \ alloc,
         alloc' = alloc \cup {v}, ovs_mutex' = ovs_mutex,
         vport' = [vport EXCEPT ![v] = [dp |-> cmd[t].dp, no |-> cmd[t].no, type |-> cmd[t].type, dev |-> NULL]],
         cmd' = [cmd EXCEPT ![t].vport = v, ![t].pc = IF cmd[t].type = "netdev" THEN "get_dev" ELSE "create"]
  PROVE  Inv'
<1> DEFINE d == cmd[t].dp
<1>0. /\ TypeInv /\ LockInv /\ VportsInv /\ DpsInv /\ CmdsInv /\ DevsInv /\ RefsBalanced
      /\ cmd[t] \in CmdType /\ vport \in [Vports -> VportType] /\ dp \in [Dps -> DpType] /\ v \in Obj
  BY Constants DEF Inv, TypeInv
<1>1. /\ cmd[t].pc = "vport_add" /\ CmdInv(t) /\ v \notin pend /\ VportInv(v)
      /\ UNCHANGED <<pend, wait, rcu, dp, dev_table, dev, rtnl, work, dead>>
  BY <1>0 DEF ovs_vport_add, others, readers, CmdsInv, VportsInv, TypeInv
<1>2. /\ cmd[t].what = "vport_new" /\ cmd[t].no # OVSP_LOCAL /\ cmd[t].name \in Names
      /\ d \in Dps /\ dp[d].listed /\ (\A u \in dp[d].ports : vport[u].no # cmd[t].no) /\ t # Worker
      /\ cmd[t].type \in {"netdev", "internal", "tunnel"} /\ cmd[t].no \in PortNos
  BY <1>0, <1>1 DEF CmdInv, CmdType, Removing
<1>3. /\ cmd' \in [Actors -> CmdType] /\ (\A u \in Actors : u # t => cmd'[u] = cmd[u])
      /\ cmd'[t].pc = (IF cmd[t].type = "netdev" THEN "get_dev" ELSE "create") /\ cmd'[t].vport = v
      /\ cmd'[t].what = "vport_new" /\ cmd'[t].dp = d /\ cmd'[t].no = cmd[t].no /\ cmd'[t].type = cmd[t].type
      /\ cmd'[t].name = cmd[t].name
  <2>1. \A y \in CmdType, x \in Holding \cup Lockless : [y EXCEPT !.vport = v, !.pc = x] \in CmdType
    BY DEF CmdType, OrNull
  <2>2. \A y \in CmdType, x \in Holding \cup Lockless :
          LET z == [y EXCEPT !.vport = v, !.pc = x]
          IN  z.pc = x /\ z.vport = v /\ z.what = y.what /\ z.dp = y.dp /\ z.no = y.no /\ z.type = y.type /\ z.name = y.name
    BY DEF CmdType
  <2>3. PICK x \in Holding \cup Lockless : x = (IF cmd[t].type = "netdev" THEN "get_dev" ELSE "create")
    BY DEF Holding, Adding
  <2> DEFINE c == [cmd[t] EXCEPT !.vport = v, !.pc = x]
  <2>4. cmd' = [cmd EXCEPT ![t] = c]
    BY <2>3
  <2>5. /\ c \in CmdType /\ c.pc = x /\ c.vport = v
        /\ c.what = cmd[t].what /\ c.dp = cmd[t].dp /\ c.no = cmd[t].no /\ c.type = cmd[t].type /\ c.name = cmd[t].name
    BY <1>0, <2>1, <2>2
  <2> HIDE DEF c
  <2>6. cmd' \in [Actors -> CmdType] /\ cmd'[t] = c /\ \A u \in Actors : u # t => cmd'[u] = cmd[u]
    BY ZenonT(60), <1>0, <2>4, <2>5 DEF TypeInv
  <2> QED BY <1>2, <2>3, <2>5, <2>6
<1>4. /\ vport' \in [Vports -> VportType] /\ (\A x \in Vports : x # v => vport'[x] = vport[x])
      /\ vport'[v].dp = d /\ vport'[v].no = cmd[t].no /\ vport'[v].type = cmd[t].type /\ vport'[v].dev = NULL
  <2>1. [dp |-> d, no |-> cmd[t].no, type |-> cmd[t].type, dev |-> NULL] \in VportType
    BY <1>2 DEF VportType, OrNull
  <2> QED BY <1>0, <2>1
<1> HIDE DEF d
<1>5. TypeInv'
  BY <1>0, <1>1, <1>3, <1>4 DEF TypeInv
<1>6. LockInv'
  BY <1>0, <1>1, <1>3, LockStep DEF Holding, Adding
<1>7. /\ \A u \in Actors : u # t => AddInv(u)' /\ RemoveInv(u)' /\ CmdInv(u)'
      /\ \A x : ~InHand(x)
      /\ \A x : InHand(x)' <=> x = v
      /\ \A u \in Actors : \A x : ~Owns(u, x)
      /\ \A x : In(x)' <=> In(x)
  <2>1. cmd[t].pc \in Holding
    BY <1>1 DEF Holding
  <2>2. /\ \A u \in Actors : u # t => AddInv(u)' /\ RemoveInv(u)' /\ CmdInv(u)'
        /\ \A x : InHand(x) <=> Adds(t, x) \/ Removes(t, x)
        /\ \A x : InHand(x)' <=> Adds(t, x)' \/ Removes(t, x)'
        /\ \A u \in Actors : \A x : Owns(u, x) => u = t
    BY <1>0, <1>3, <2>1, HolderStep
  <2>3. cmd'[t].pc \in Adding /\ cmd[t].pc \notin Adding \cup Removing /\ cmd[t].pc # "dp_ports"
    BY <1>1, <1>3 DEF Adding, Removing
  <2>4. \A x : In(x)' <=> In(x)
    BY <1>1 DEF In
  <2> QED BY <1>3, <2>2, <2>3, <2>4, Steps DEF Adds, Removes, Owns
<1>8. vport[v].dev = NULL /\ dev_table[v] = NULL /\ ~In(v)
  BY <1>1 DEF VportInv, NoVport
<1>9. VportsInv'
  <2> SUFFICES ASSUME NEW x \in Vports
               PROVE  VportInv(x)'
    BY DEF VportsInv
  <2>1. VportInv(x)
    BY <1>0 DEF VportsInv
  <2>2. CASE x = v
    BY <1>1, <1>2, <1>4, <1>7, <1>8, <2>2 DEF VportInv
  <2>3. CASE x # v
    BY <1>1, <1>4, <1>7, <2>1, <2>3, VportFrame
  <2> QED BY <2>2, <2>3
<1>10. DpsInv'
  <2> SUFFICES ASSUME NEW x \in Dps
               PROVE  DpInv(x)'
    BY DEF DpsInv
  <2>1. DpInv(x) /\ dp[x].ports \subseteq Vports /\ x # v
    BY <1>0, Constants DEF DpsInv, DpType
  <2>2. \A y \in dp[x].ports : y # v /\ y \in alloc /\ y \notin pend
    BY <1>8, <2>1 DEF In, DpInv
  <2> QED BY <1>1, <1>4, <1>7, <2>1, <2>2, DpFrame
<1>11. CmdsInv'
  <2>1. AddInv(t)'
    <3>1. d \in alloc \ pend
      BY <1>0, <1>2 DEF DpsInv, DpInv
    <3>2. \A u \in dp[d].ports : vport'[u].no # cmd[t].no
      <4>1. dp[d].ports \subseteq Vports /\ v \notin dp[d].ports
        BY <1>0, <1>2, <1>8 DEF DpType, In
      <4> QED BY <1>2, <1>4, <4>1
    <3>3. v \in alloc' \ pend' /\ d \in alloc' \ pend' /\ v \in Vports /\ dev_table'[v] = NULL /\ dp'[d].listed /\ dp' = dp
      BY <1>1, <1>2, <1>8, <3>1
    <3> QED BY <1>2, <1>3, <1>4, <3>2, <3>3 DEF AddInv
  <2>2. RemoveInv(t)'
    BY <1>3 DEF RemoveInv, Removing
  <2>3. CmdInv(t)'
    BY <1>2, <1>3 DEF CmdInv, Removing
  <2> QED BY <1>7, <2>1, <2>2, <2>3 DEF CmdsInv
<1>12. DevsInv'
  <2> SUFFICES ASSUME NEW e \in Devs
               PROVE  DevInv(e)'
    BY DEF DevsInv
  <2>1. DevInv(e) /\ e # v
    BY <1>0, Constants DEF DevsInv
  <2>2. dev[e].kind = "internal" \/ dev[e].attached => dev[e].vport \in Vports /\ dev[e].vport # v
    BY <2>1 DEF DevInv
  <2>3. \A u \in Actors : cmd[u].pc # "synchronize_net"
    BY <1>0, <1>1, <1>7, Steps DEF Removes, InHand, Removing, LockInv, Holding
  <2>4. e \in alloc' <=> e \in alloc
    BY <2>1
  <2>5. dev[e].kind = "internal" \/ dev[e].attached =>
          /\ dev[e].vport \in alloc' \ pend' /\ vport'[dev[e].vport].dev = e
    BY <1>1, <1>4, <2>1, <2>2 DEF DevInv
  <2> QED BY <1>1, <1>7, <2>1, <2>3, <2>4, <2>5, DevFrame
<1>13. RefsBalanced'
  <2>1. \A e \in Devs, x \in Vports : vport'[x].dev = e /\ vport'[x].type # "internal" <=> vport[x].dev = e /\ vport[x].type # "internal"
    BY <1>4, <1>8, Constants
  <2>2. \A e \in Devs : RefInv(e)'
    BY <1>0, <1>1, <2>1, RefFrame, RefsByDevice
  <2> QED BY <2>2, RefsByDevice DEF RefsBalanced, RefInv, Promisc, Held
<1> QED BY <1>5, <1>6, <1>9, <1>10, <1>11, <1>12, <1>13 DEF Inv

\* A step of command t about the port it has in hand, and perhaps one device.
LEMMA HandStep ==
  ASSUME Inv, NEW t \in Actors, NEW v \in Vports, NEW e, v = cmd[t].vport,
         \/ cmd[t].pc \in Adding /\ cmd'[t].pc \in Adding
         \/ cmd[t].pc \in Removing /\ cmd'[t].pc \in Removing,
         cmd[t].pc # "synchronize_net",
         cmd'[t].vport = v, cmd'[t].what = cmd[t].what, cmd'[t].dp = cmd[t].dp,
         \A u \in Actors : u # t => cmd'[u] = cmd[u],
         \A x \in Vports : x # v => vport'[x] = vport[x] /\ dev_table'[x] = dev_table[x],
         UNCHANGED <<dp, pend>>,
         \A x \in Dps \cup Vports : x \in alloc' <=> x \in alloc,
         \A x \in Devs : x # e => dev'[x] = dev[x] /\ (x \in alloc' <=> x \in alloc),
         \A x \in Devs : x # e /\ dev[x].vport = v /\ (dev[x].kind = "internal" \/ dev[x].attached) => vport'[v].dev = x,
         e \in Devs /\ e \in alloc => /\ e \in alloc' /\ dev'[e].kind = dev[e].kind
                                      /\ dev[e].kind = "internal" => dev'[e].net = dev[e].net /\ dev'[e].vport = dev[e].vport,
         TypeInv', LockInv', VportInv(v)', AddInv(t)' /\ RemoveInv(t)' /\ CmdInv(t)',
         e \in Devs => DevInv(e)', \A x \in Devs : RefInv(x)'
  PROVE  Inv'
<1>0. /\ TypeInv /\ LockInv /\ VportsInv /\ DpsInv /\ CmdsInv /\ DevsInv
      /\ vport \in [Vports -> VportType] /\ dp \in [Dps -> DpType]
  BY DEF Inv, TypeInv
<1>1. /\ \A u \in Actors : u # t => cmd[u].pc \notin Holding /\ AddInv(u)' /\ RemoveInv(u)' /\ CmdInv(u)'
      /\ \A x : (InHand(x) <=> x = v) /\ (InHand(x)' <=> x = v)
      /\ \A u \in Actors : \A x : Owns(u, x) => Owns(u, x)'
      /\ \A x : In(x)' <=> In(x)
  <2>1. cmd[t].pc \in Holding
    BY Steps
  <2>2. /\ \A u \in Actors : u # t => cmd[u].pc \notin Holding /\ AddInv(u)' /\ RemoveInv(u)' /\ CmdInv(u)'
        /\ \A x : InHand(x) <=> Adds(t, x) \/ Removes(t, x)
        /\ \A x : InHand(x)' <=> Adds(t, x)' \/ Removes(t, x)'
        /\ \A u \in Actors : \A x : Owns(u, x) => u = t
    BY <1>0, <2>1, HolderStep
  <2>3. \A x : In(x)' <=> In(x)
    BY DEF In
  <2>4. \A x : Owns(t, x) => Owns(t, x)'
    BY Steps DEF Owns
  <2> QED BY <2>2, <2>3, <2>4, Steps DEF Adds, Removes
<1>2. ~In(v)
  BY <1>0, <1>1 DEF VportsInv, VportInv
<1>3. VportsInv'
  <2> SUFFICES ASSUME NEW x \in Vports, x # v
               PROVE  VportInv(x)'
    BY DEF VportsInv
  <2>1. VportInv(x) /\ vport[x].dev \in Devs \cup {NULL}
    BY <1>0 DEF VportsInv, VportType, OrNull
  <2>2. vport[x].dev # NULL => vport[x].dev \in alloc
    BY <2>1 DEF VportInv
  <2>3. vport[x].dev # NULL =>
           LET y == vport[x].dev
           IN  /\ y \in alloc => y \in alloc'
               /\ dev'[y].kind = dev[y].kind
               /\ dev[y].kind = "internal" => dev'[y].vport = dev[y].vport
    BY <2>1, <2>2
  <2>4. vport'[x] = vport[x] /\ dev_table'[x] = dev_table[x] /\ (x \in alloc' <=> x \in alloc) /\ (x \in pend' <=> x \in pend)
    OBVIOUS
  <2> QED BY <1>1, <2>1, <2>3, <2>4, VportFrame
<1>4. DpsInv'
  <2> SUFFICES ASSUME NEW x \in Dps
               PROVE  DpInv(x)'
    BY DEF DpsInv
  <2>1. DpInv(x) /\ dp[x].ports \subseteq Vports
    BY <1>0 DEF DpsInv, DpType
  <2>2. \A y \in dp[x].ports :
          /\ vport'[y] = vport[y] /\ y \in alloc' \ pend'
          /\ vport[y].no = OVSP_LOCAL => dev'[vport[y].dev].net = dev[vport[y].dev].net
    <3> SUFFICES ASSUME NEW y \in dp[x].ports
                 PROVE  /\ vport'[y] = vport[y] /\ y \in alloc' \ pend'
                        /\ vport[y].no = OVSP_LOCAL => dev'[vport[y].dev].net = dev[vport[y].dev].net
      OBVIOUS
    <3>1. y # v /\ y \in Vports /\ y \in alloc \ pend /\ In(y)
      BY <1>2, <2>1 DEF In, DpInv
    <3>2. VportInv(y) /\ vport[y].dev \in Devs /\ vport[y].dev \in alloc
      BY <1>0, <3>1 DEF VportsInv, VportInv, VportType, OrNull
    <3>3. vport[y].no = OVSP_LOCAL => dev[vport[y].dev].kind = "internal"
      BY <2>1, <3>2, Constants DEF DpInv, VportInv
    <3> QED BY <3>1, <3>2, <3>3
  <2> QED BY <1>1, <2>1, <2>2, DpFrame
<1>5. DevsInv'
  <2> SUFFICES ASSUME NEW x \in Devs, x # e
               PROVE  DevInv(x)'
    BY DEF DevsInv
  <2>1. DevInv(x)
    BY <1>0 DEF DevsInv
  <2>2. \A u \in Actors : cmd[u].pc # "synchronize_net"
    BY <1>1 DEF Holding, Removing
  <2>3. dev[x].kind = "internal" \/ dev[x].attached =>
           LET y == dev[x].vport IN y \in alloc' \ pend' /\ vport'[y].dev = x
    BY <2>1 DEF DevInv
  <2> QED BY <1>1, <2>1, <2>2, <2>3, DevFrame
<1>6. CmdsInv'
  BY <1>1 DEF CmdsInv
<1>7. RefsBalanced'
  BY DEF RefsBalanced, RefInv, Promisc, Held
<1> QED BY <1>3, <1>4, <1>5, <1>6, <1>7 DEF Inv

\* The port is hashed by the name of its device ...
LEMMA Hash ==
  ASSUME Inv, NEW t \in Actors, vport_hash(t)
  PROVE  Inv'
<1>0. /\ TypeInv /\ LockInv /\ VportsInv /\ DpsInv /\ CmdsInv /\ DevsInv /\ RefsBalanced /\ dev_table \in [Vports -> OrNull(Names)]
      /\ vport \in [Vports -> VportType]
  BY DEF Inv, TypeInv
<1>v. PICK v \in Vports, e \in Devs : v = cmd[t].vport /\ e = vport[v].dev /\ v \in alloc \ pend /\ dev_table[v] = NULL
  <2>1. cmd[t].pc = "hash" /\ cmd[t].pc \in Adding /\ AddInv(t)
    BY <1>0 DEF vport_hash, CmdsInv, Adding
  <2>2. LET v == cmd[t].vport IN v \in Vports /\ v \in alloc \ pend /\ dev_table[v] = NULL /\ vport[v].dev # NULL
    BY <2>1 DEF AddInv
  <2> QED BY <1>0, <2>2 DEF VportType, OrNull
<1>1. /\ cmd[t].pc = "hash" /\ AddInv(t) /\ cmd[t].pc \in Adding
      /\ UNCHANGED <<alloc, pend, wait, rcu, dp, vport, dev, rtnl, work, dead, ovs_mutex>>
      /\ dev_table' = [dev_table EXCEPT ![v] = dev[e].name] /\ Goto(t, "insert")
  BY <1>0, <1>v DEF vport_hash, others, readers, memory, CmdsInv, Goto, Adding
<1>2. /\ cmd' \in [Actors -> CmdType] /\ \A u \in Actors : u # t => cmd'[u] = cmd[u]
      /\ cmd'[t].pc = "insert" /\ cmd'[t].what = cmd[t].what /\ cmd'[t].dp = cmd[t].dp /\ cmd'[t].vport = v
      /\ cmd'[t].name = cmd[t].name /\ cmd'[t].type = cmd[t].type /\ cmd'[t].no = cmd[t].no
  <2>1. "insert" \in Holding \cup Lockless
    BY DEF Holding, Adding
  <2> QED BY <1>0, <1>1, <1>v, <2>1, GotoStep
<1>3. v \in Vports /\ v \in alloc \ pend /\ e # NULL /\ e \in Devs /\ VportInv(v) /\ dev_table[v] = NULL
  BY <1>0, <1>v, Constants DEF VportsInv
<1>4. dev[e].name \in Names /\ dev[e].name # NULL
  BY <1>0, <1>3, <1>v, Constants DEF VportInv, DevsInv, DevInv
<1>5. TypeInv'
  BY <1>0, <1>1, <1>2, <1>4 DEF TypeInv, OrNull
<1>6. LockInv'
  BY <1>0, <1>1, <1>2, LockStep DEF Holding, Adding
<1>7. dev_table'[v] # NULL /\ \A x \in Vports : x # v => dev_table'[x] = dev_table[x]
  BY <1>0, <1>1, <1>3, <1>4
<1>8. VportInv(v)' /\ InHand(v) /\ InHand(v)'
  <2>1. InHand(v) /\ InHand(v)'
    BY <1>1, <1>2, <1>v DEF InHand, Adds, Adding
  <2>2. ~In(v) /\ vport[v].dp \in Dps
    BY <1>3, <2>1 DEF VportInv
  <2>3. In(v)' <=> In(v)
    BY <1>1 DEF In
  <2>4. /\ e \in alloc
        /\ vport[v].type = "internal" <=> dev[e].kind = "internal"
        /\ vport[v].type = "internal" => dev[e].vport = v
    BY <1>3, <1>v DEF VportInv
  <2> QED BY <1>1, <1>3, <2>1, <2>2, <2>3, <2>4, <1>v, VportInHand
<1>9. AddInv(t)' /\ RemoveInv(t)' /\ CmdInv(t)'
  <2>1. AddInv(t)'
    BY <1>1, <1>2, <1>7, <1>v DEF AddInv, Adding
  <2>2. RemoveInv(t)'
    BY <1>2 DEF RemoveInv, Removing
  <2>3. CmdInv(t)'
    BY <1>0, <1>1, <1>2 DEF CmdInv, CmdsInv, AddInv, Removing
  <2> QED BY <2>1, <2>2, <2>3
<1>10. \A x \in Devs : RefInv(x)'
  BY <1>0, <1>1, RefFrame, RefsByDevice
<1>11. cmd'[t].pc \in Adding /\ cmd[t].pc # "synchronize_net"
  BY <1>1, <1>2 DEF Adding
<1>12. \A x \in Devs : dev[x].vport = v /\ (dev[x].kind = "internal" \/ dev[x].attached) => vport'[v].dev = x
  BY <1>0, <1>1 DEF DevsInv, DevInv
<1>13. NULL \notin Devs
  BY Constants
<1> QED BY <1>v, <1>1, <1>2, <1>3, <1>5, <1>6, <1>7, <1>8, <1>9, <1>10, <1>11, <1>12, <1>13, HandStep

\* ... and is no longer.
LEMMA Unhash ==
  ASSUME Inv, NEW t \in Actors, ovs_vport_del(t)
  PROVE  Inv'
<1>0. /\ TypeInv /\ LockInv /\ VportsInv /\ DpsInv /\ CmdsInv /\ DevsInv /\ RefsBalanced /\ dev_table \in [Vports -> OrNull(Names)]
      /\ vport \in [Vports -> VportType]
  BY DEF Inv, TypeInv
<1>v. PICK v \in Vports, e \in Devs \cup {NULL} : v = cmd[t].vport /\ e = vport[v].dev
  <2>1. cmd[t].pc = "unhash" /\ cmd[t].pc \in Removing /\ RemoveInv(t)
    BY <1>0 DEF ovs_vport_del, CmdsInv, Removing
  <2>2. cmd[t].vport \in Vports
    BY <2>1 DEF RemoveInv
  <2> QED BY <1>0, <2>2 DEF VportType, OrNull
<1>1. /\ cmd[t].pc = "unhash" /\ RemoveInv(t) /\ CmdInv(t) /\ cmd[t].pc \in Removing
      /\ UNCHANGED <<alloc, pend, wait, rcu, dp, vport, dev, rtnl, work, dead, ovs_mutex>>
      /\ dev_table' = [dev_table EXCEPT ![v] = NULL] /\ Goto(t, "destroy")
  BY <1>0, <1>v DEF ovs_vport_del, others, readers, memory, CmdsInv, Goto, Removing
<1>2. /\ cmd' \in [Actors -> CmdType] /\ \A u \in Actors : u # t => cmd'[u] = cmd[u]
      /\ cmd'[t].pc = "destroy" /\ cmd'[t].what = cmd[t].what /\ cmd'[t].dp = cmd[t].dp /\ cmd'[t].vport = v
      /\ cmd'[t].todo = cmd[t].todo
  <2>1. "destroy" \in Holding \cup Lockless
    BY DEF Holding, Removing
  <2> QED BY <1>0, <1>1, <1>v, <2>1, GotoStep
<1>3. v \in Vports /\ v \in alloc \ pend /\ ~In(v) /\ VportInv(v)
  BY <1>0, <1>1, <1>v DEF RemoveInv, VportsInv
<1>5. TypeInv'
  BY <1>0, <1>1, <1>2, <1>3 DEF TypeInv, OrNull
<1>6. LockInv'
  BY <1>0, <1>1, <1>2, LockStep DEF Holding, Removing
<1>7. dev_table'[v] = NULL /\ \A x \in Vports : x # v => dev_table'[x] = dev_table[x]
  BY <1>0, <1>1, <1>3
<1>8. VportInv(v)' /\ (\A x : In(x)' <=> In(x))
  <2>1. InHand(v) /\ InHand(v)'
    BY <1>1, <1>2, <1>v DEF InHand, Removes, Removing
  <2>2. \A x : In(x)' <=> In(x)
    BY <1>1 DEF In
  <2>3. vport[v].dp \in Dps
    BY <1>3 DEF VportInv
  <2>4. e # NULL =>
        /\ e \in alloc
        /\ vport[v].type = "internal" <=> dev[e].kind = "internal"
        /\ vport[v].type = "internal" => dev[e].vport = v
    BY <1>3, <1>v DEF VportInv
  <2> QED BY <1>1, <1>3, <2>1, <2>2, <2>3, <2>4, <1>v, VportInHand
<1>9. AddInv(t)' /\ RemoveInv(t)' /\ CmdInv(t)'
  <2>1. AddInv(t)'
    BY <1>2 DEF AddInv, Adding
  <2>2. RemoveInv(t)'
    BY <1>1, <1>2, <1>7, <1>8, <1>v DEF RemoveInv, Removing, Registered
  <2>3. CmdInv(t)'
    BY <1>1, <1>2, <1>8 DEF CmdInv, Removing
  <2> QED BY <2>1, <2>2, <2>3
<1>10. \A x \in Devs : RefInv(x)'
  BY <1>0, <1>1, RefFrame, RefsByDevice
<1>11. cmd'[t].pc \in Removing /\ cmd[t].pc # "synchronize_net"
  BY <1>1, <1>2 DEF Removing
<1>12. \A x \in Devs : dev[x].vport = v /\ (dev[x].kind = "internal" \/ dev[x].attached) => vport'[v].dev = x
  BY <1>0, <1>1 DEF DevsInv, DevInv
<1>13. NULL \notin Devs
  BY Constants
<1> QED BY <1>v, <1>1, <1>2, <1>3, <1>5, <1>6, <1>7, <1>8, <1>9, <1>10, <1>11, <1>12, <1>13, HandStep

\* A device is created for the port.
LEMMA DevCreates ==
  ASSUME Inv, NEW t \in Actors, dev_create(t), NEW e \in Devs \ alloc,
         alloc' = alloc \cup {e},
         ByName(dp[cmd[t].dp].net, cmd[t].name) = {},
         LET internal == cmd[t].type = "internal"
             v == cmd[t].vport
         IN  /\ dev' = [dev EXCEPT ![e] =
                  [NoDev EXCEPT !.kind = cmd[t].type, !.name = cmd[t].name,
                     !.net = dp[cmd[t].dp].net, !.reg = "registered",
                     !.vport = IF internal THEN v ELSE NULL,
                     !.promisc = IF internal THEN 1 ELSE 0]]
             /\ vport' = IF internal THEN [vport EXCEPT ![v].dev = e] ELSE vport
             /\ Goto(t, IF internal THEN "hash" ELSE "get_dev"),
         UNCHANGED dp
  PROVE  Inv'
<1>0. /\ TypeInv /\ LockInv /\ VportsInv /\ DpsInv /\ CmdsInv /\ DevsInv /\ RefsBalanced /\ dev \in [Devs -> DevLoose]
      /\ vport \in [Vports -> VportType] /\ cmd[t] \in CmdType
  BY DEF Inv, TypeInv
<1>v. PICK v \in Vports, d \in Dps, next \in {"hash", "get_dev"} :
        v = cmd[t].vport /\ d = cmd[t].dp /\ next = (IF cmd[t].type = "internal" THEN "hash" ELSE "get_dev")
  <2>1. cmd[t].pc = "create" /\ cmd[t].pc \in Adding /\ AddInv(t)
    BY <1>0 DEF dev_create, CmdsInv, Adding
  <2> QED BY <2>1 DEF AddInv
<1>1. /\ cmd[t].pc = "create" /\ AddInv(t) /\ cmd[t].pc \in Adding /\ next \in {"hash", "get_dev"}
      /\ UNCHANGED <<pend, wait, rcu, dp, dev_table, rtnl, work, dead, ovs_mutex>>
      /\ Goto(t, next)
  BY <1>0, <1>v DEF dev_create, others, readers, CmdsInv, Goto, Adding
<1>2. /\ cmd' \in [Actors -> CmdType] /\ \A u \in Actors : u # t => cmd'[u] = cmd[u]
      /\ cmd'[t].pc = next /\ cmd'[t].what = cmd[t].what /\ cmd'[t].dp = d /\ cmd'[t].vport = v
      /\ cmd'[t].name = cmd[t].name /\ cmd'[t].type = cmd[t].type /\ cmd'[t].no = cmd[t].no
  <2>1. next \in Holding \cup Lockless
    BY <1>1 DEF Holding, Adding
  <2> QED BY <1>0, <1>1, <1>v, <2>1, GotoStep
<1>3. /\ v \in Vports /\ v \in alloc \ pend /\ VportInv(v) /\ dev_table[v] = NULL /\ vport[v].dev = NULL /\ d \in Dps
      /\ cmd[t].name \in Names /\ dp[d].net \in Nets /\ cmd[t].type \in {"internal", "tunnel"} /\ vport[v].type = cmd[t].type
  <2>1. /\ v \in Vports /\ v \in alloc \ pend /\ VportInv(v) /\ dev_table[v] = NULL /\ vport[v].dev = NULL /\ d \in Dps
        /\ cmd[t].name \in Names /\ cmd[t].type # "netdev" /\ vport[v].type = cmd[t].type /\ d \in alloc
    BY <1>0, <1>1, <1>v DEF AddInv, VportsInv
  <2>2. dp[d].net \in Nets
    BY <1>0, <2>1 DEF DpsInv, DpInv
  <2> QED BY <1>0, <2>1, <2>2 DEF CmdType
<1>4. /\ dev' \in [Devs -> DevLoose] /\ \A x \in Devs : x # e => dev'[x] = dev[x]
      /\ dev'[e].kind = cmd[t].type /\ dev'[e].name = cmd[t].name /\ dev'[e].net = dp[d].net /\ dev'[e].reg = "registered"
      /\ ~dev'[e].attached /\ dev'[e].ref = 0
      /\ cmd[t].type = "internal" => dev'[e].vport = v /\ dev'[e].promisc = 1
      /\ cmd[t].type # "internal" => dev'[e].promisc = 0
  <2> DEFINE z == [NoDev EXCEPT !.kind = cmd[t].type, !.name = cmd[t].name,
                     !.net = dp[d].net, !.reg = "registered",
                     !.vport = IF cmd[t].type = "internal" THEN v ELSE NULL,
                     !.promisc = IF cmd[t].type = "internal" THEN 1 ELSE 0]
  <2>1. z \in DevLoose
    <3>1. \A y \in DevLoose, k \in {"internal", "tunnel"}, n \in OrNull(Names), nt \in OrNull(Nets), w \in OrNull(Vports), p \in Int :
            [y EXCEPT !.kind = k, !.name = n, !.net = nt, !.reg = "registered", !.vport = w, !.promisc = p] \in DevLoose
      BY ZenonT(60) DEF DevLoose
    <3>2. (IF cmd[t].type = "internal" THEN v ELSE NULL) \in OrNull(Vports) /\ (IF cmd[t].type = "internal" THEN 1 ELSE 0) \in Int
          /\ cmd[t].name \in OrNull(Names) /\ dp[d].net \in OrNull(Nets)
      BY <1>3 DEF OrNull
    <3>3. PICK k \in {"internal", "tunnel"}, w \in OrNull(Vports), p \in Int :
            /\ k = cmd[t].type /\ w = (IF cmd[t].type = "internal" THEN v ELSE NULL)
            /\ p = (IF cmd[t].type = "internal" THEN 1 ELSE 0)
      BY <1>3, <3>2
    <3>4. [NoDev EXCEPT !.kind = k, !.name = cmd[t].name, !.net = dp[d].net, !.reg = "registered", !.vport = w, !.promisc = p] \in DevLoose
      BY <3>1, <3>2, NoDevType
    <3> QED BY <3>3, <3>4
  <2>2. /\ z.kind = cmd[t].type /\ z.name = cmd[t].name /\ z.net = dp[d].net /\ z.reg = "registered"
        /\ ~z.attached /\ z.ref = 0
        /\ cmd[t].type = "internal" => z.vport = v /\ z.promisc = 1
        /\ cmd[t].type # "internal" => z.promisc = 0
    BY DEF NoDev
  <2>3. dev' = [dev EXCEPT ![e] = z]
    BY <1>v
  <2> HIDE DEF z
  <2> QED BY ZenonT(60), <1>0, <2>1, <2>2, <2>3
<1>5. /\ vport' \in [Vports -> VportType] /\ \A x \in Vports : x # v => vport'[x] = vport[x]
      /\ vport'[v].dp = vport[v].dp /\ vport'[v].no = vport[v].no /\ vport'[v].type = vport[v].type
      /\ vport'[v].dev = IF cmd[t].type = "internal" THEN e ELSE NULL
  <2>2. CASE cmd[t].type = "internal"
    <3> DEFINE z == [vport[v] EXCEPT !.dev = e]
    <3>1. vport' = [vport EXCEPT ![v] = z]
      BY <1>v, <2>2
    <3>2. z \in VportType /\ z.dev = e /\ z.dp = vport[v].dp /\ z.no = vport[v].no /\ z.type = vport[v].type
      BY <1>0, <1>3, VportFields DEF OrNull
    <3> HIDE DEF z
    <3> QED BY <1>0, <1>3, <2>2, <3>1, <3>2
  <2>3. CASE cmd[t].type # "internal"
    BY <1>0, <1>3, <1>v, <2>3
  <2> QED BY <2>2, <2>3
<1>6. TypeInv'
  BY <1>0, <1>1, <1>2, <1>4, <1>5, Constants DEF TypeInv
<1>7. LockInv'
  BY <1>0, <1>1, <1>2, LockStep DEF Holding, Adding
<1>8. InHand(v) /\ InHand(v)' /\ ~In(v) /\ ~In(v)'
  <2>1. InHand(v) /\ InHand(v)'
    BY <1>1, <1>2, <1>v DEF InHand, Adds, Adding
  <2>2. ~In(v)
    BY <1>3, <2>1 DEF VportInv
  <2>3. In(v)' <=> In(v)
    BY <1>1 DEF In
  <2> QED BY <2>1, <2>2, <2>3
<1>9. VportInv(v)'
  <2>1. vport[v].dp \in Dps
    BY <1>3 DEF VportInv
  <2> QED BY ONLY v \in Vports, e \in Devs \ alloc, alloc' = alloc \cup {e}, Constants, <1>1, <1>3, <1>4, <1>5, <1>8, <2>1, VportInHand
<1>10. AddInv(t)' /\ RemoveInv(t)' /\ CmdInv(t)'
  <2>1. AddInv(t)'
    <3>1. \A u \in dp[d].ports : vport'[u] = vport[u]
      <4>1. dp[d].ports \subseteq Vports /\ v \notin dp[d].ports
        BY <1>0, <1>3, <1>8 DEF TypeInv, DpType, In
      <4> QED BY <1>5, <4>1
    <3>2. v \in alloc' /\ d \in alloc' /\ dev_table'[v] = NULL /\ next \in Adding \ {"create", "insert", "link"}
      <4>1. v \in alloc /\ d \in alloc
        BY ONLY <1>1, <1>3, <1>v DEF AddInv
      <4>2. dev_table'[v] = NULL
        BY ONLY <1>1, <1>3
      <4>3. next \in Adding \ {"create", "insert", "link"}
        BY DEF Adding
      <4> QED BY <4>1, <4>2, <4>3
    <3>3. vport'[v].dev = NULL <=> next = "get_dev"
      BY <1>5, <1>v, Constants
    <3>4. next = "get_dev" => cmd[t].type # "internal"
      BY <1>v
    <3>5. next = "hash" => dev'[vport'[v].dev].net = dp[d].net
      BY <1>4, <1>5, <1>v
    <3> QED BY ONLY t \in Actors, v \in Vports, d \in Dps, dp' = dp, <1>1, <1>2, <1>5, <1>v, <3>1, <3>2, <3>3, <3>4, <3>5, AddStep
  <2>2. RemoveInv(t)'
    BY <1>1, <1>2 DEF RemoveInv, Removing
  <2>3. CmdInv(t)'
    BY <1>0, <1>1, <1>2 DEF CmdInv, CmdsInv, AddInv, Removing
  <2> QED BY <2>1, <2>2, <2>3
<1>11. \A x \in Devs : RefInv(x)'
  <2> TAKE x \in Devs
  <2>1. \A y \in Vports : vport'[y].dev = x /\ vport'[y].type # "internal" <=> vport[y].dev = x /\ vport[y].type # "internal"
    BY <1>3, <1>5, Constants
  <2>2. CASE x # e
    BY <1>0, <1>4, <2>1, <2>2, RefFrame, RefsByDevice
  <2>3. CASE x = e
    <3>1. Held(e)' = {}
      <4>1. \A y \in Vports : vport[y].dev # e
        BY <1>0, Constants DEF VportsInv, VportInv
      <4> QED BY <2>1, <2>3, <4>1 DEF Held
    <3> QED BY <1>3, <1>4, <2>3, <3>1, Counting DEF RefInv, Promisc, Registered
  <2> QED BY <2>2, <2>3
<1>12. DevInv(e)'
  BY <1>1, <1>3, <1>4, <1>5, <1>v DEF DevInv, Registered
<1>13. cmd'[t].pc \in Adding /\ cmd[t].pc # "synchronize_net"
  BY <1>1, <1>2 DEF Adding
<1>14. \A x \in Devs : x # e /\ dev[x].vport = v /\ (dev[x].kind = "internal" \/ dev[x].attached) => vport'[v].dev = x
  BY <1>0, <1>3, Constants DEF DevsInv, DevInv
<1>15. /\ \A x \in Dps \cup Vports : x \in alloc' <=> x \in alloc
       /\ \A x \in Devs : x # e => (x \in alloc' <=> x \in alloc)
       /\ e \notin alloc
  BY Constants
<1> QED BY ONLY Inv, t \in Actors, v \in Vports, e \in Devs, <1>v, <1>1, <1>2, <1>3, <1>4, <1>5, <1>6, <1>7, <1>9, <1>10, <1>11, <1>12, <1>13, <1>14, <1>15, HandStep

\* The port takes a device that it found.
LEMMA DevFound ==
  ASSUME Inv, NEW t \in Actors, dev_get_by_name(t), NEW e \in ByName(dp[cmd[t].dp].net, cmd[t].name), dev[e].kind # "internal",
         dev' = [dev EXCEPT ![e].ref = @ + 1], vport' = [vport EXCEPT ![cmd[t].vport].dev = e], Goto(t, "link"),
         UNCHANGED <<alloc, dp>>
  PROVE  Inv'
<1>0. /\ TypeInv /\ LockInv /\ VportsInv /\ DpsInv /\ CmdsInv /\ DevsInv /\ RefsBalanced /\ dev \in [Devs -> DevLoose]
      /\ vport \in [Vports -> VportType] /\ cmd[t] \in CmdType
  BY DEF Inv, TypeInv
<1>v. PICK v \in Vports, d \in Dps : v = cmd[t].vport /\ d = cmd[t].dp
  <2>1. cmd[t].pc = "get_dev" /\ cmd[t].pc \in Adding /\ AddInv(t)
    BY <1>0 DEF dev_get_by_name, CmdsInv, Adding
  <2> QED BY <2>1 DEF AddInv
<1>1. /\ cmd[t].pc = "get_dev" /\ AddInv(t) /\ cmd[t].pc \in Adding
      /\ UNCHANGED <<pend, wait, rcu, dp, dev_table, rtnl, work, dead, ovs_mutex>>
  BY <1>0 DEF dev_get_by_name, others, readers, CmdsInv, Goto, Adding
<1>2. /\ cmd' \in [Actors -> CmdType] /\ \A u \in Actors : u # t => cmd'[u] = cmd[u]
      /\ cmd'[t].pc = "link" /\ cmd'[t].what = cmd[t].what /\ cmd'[t].dp = d /\ cmd'[t].vport = v
      /\ cmd'[t].name = cmd[t].name /\ cmd'[t].type = cmd[t].type /\ cmd'[t].no = cmd[t].no
  <2>1. "link" \in Holding \cup Lockless
    BY DEF Holding, Adding
  <2> QED BY <1>0, <1>1, <1>v, <2>1, GotoStep
<1>3. /\ v \in alloc \ pend /\ VportInv(v) /\ dev_table[v] = NULL /\ vport[v].dev = NULL
      /\ vport[v].type # "internal"
  BY <1>0, <1>1, <1>v DEF AddInv, VportsInv
<1>e. e \in Devs /\ e \in alloc /\ DevInv(e) /\ e # NULL
  BY <1>0, Constants, NoDevType DEF ByName, Registered, DevsInv, DevInv
<1>4. /\ dev' \in [Devs -> DevLoose] /\ \A x \in Devs : x # e => dev'[x] = dev[x]
      /\ dev'[e].kind = dev[e].kind /\ dev'[e].name = dev[e].name /\ dev'[e].net = dev[e].net /\ dev'[e].reg = dev[e].reg
      /\ dev'[e].vport = dev[e].vport /\ dev'[e].attached = dev[e].attached /\ dev'[e].promisc = dev[e].promisc
      /\ dev'[e].ref = dev[e].ref + 1
  <2> DEFINE z == [dev[e] EXCEPT !.ref = @ + 1]
  <2>1. dev' = [dev EXCEPT ![e] = z]
    OBVIOUS
  <2>2. /\ z \in DevLoose /\ z.ref = dev[e].ref + 1
        /\ z.kind = dev[e].kind /\ z.name = dev[e].name /\ z.net = dev[e].net /\ z.reg = dev[e].reg
        /\ z.vport = dev[e].vport /\ z.attached = dev[e].attached /\ z.promisc = dev[e].promisc
    BY <1>0, <1>e, DevFields
  <2> HIDE DEF z
  <2> QED BY <1>0, <1>e, <2>1, <2>2
<1>5. /\ vport' \in [Vports -> VportType] /\ \A x \in Vports : x # v => vport'[x] = vport[x]
      /\ vport'[v].dp = vport[v].dp /\ vport'[v].no = vport[v].no /\ vport'[v].type = vport[v].type
      /\ vport'[v].dev = e
  <2> DEFINE z == [vport[v] EXCEPT !.dev = e]
  <2>1. vport' = [vport EXCEPT ![v] = z]
    BY <1>v
  <2>2. z \in VportType /\ z.dev = e /\ z.dp = vport[v].dp /\ z.no = vport[v].no /\ z.type = vport[v].type
    BY <1>0, <1>e, VportFields DEF OrNull
  <2> HIDE DEF z
  <2> QED BY <1>0, <2>1, <2>2
<1>6. TypeInv'
  BY <1>0, <1>1, <1>2, <1>4, <1>5 DEF TypeInv
<1>7. LockInv'
  BY <1>0, <1>1, <1>2, LockStep DEF Holding, Adding
<1>8. InHand(v) /\ InHand(v)' /\ ~In(v) /\ ~In(v)'
  <2>1. InHand(v) /\ InHand(v)'
    BY <1>1, <1>2, <1>v DEF InHand, Adds, Adding
  <2>2. ~In(v)
    BY <1>3, <2>1 DEF VportInv
  <2>3. In(v)' <=> In(v)
    BY <1>1 DEF In
  <2> QED BY <2>1, <2>2, <2>3
<1>9. VportInv(v)'
  <2>1. vport[v].dp \in Dps
    BY <1>3 DEF VportInv
  <2> QED BY <1>1, <1>3, <1>4, <1>5, <1>8, <1>e, <2>1, VportInHand
<1>10. AddInv(t)' /\ RemoveInv(t)' /\ CmdInv(t)'
  <2>1. AddInv(t)'
    <3>1. \A u \in dp[d].ports : vport'[u] = vport[u]
      <4>1. dp[d].ports \subseteq Vports /\ v \notin dp[d].ports
        BY <1>0, <1>3, <1>8 DEF TypeInv, DpType, In
      <4> QED BY <1>5, <4>1
    <3>2. dev'[e].attached => dev'[e].vport # v
      BY <1>3, <1>4, <1>e DEF DevInv
    <3>3. v \in alloc' /\ d \in alloc' /\ dev_table'[v] = NULL /\ "link" \in Adding \ {"create", "insert"}
      <4>1. v \in alloc /\ d \in alloc
        BY ONLY <1>1, <1>3, <1>v DEF AddInv
      <4>2. dev_table'[v] = NULL
        BY ONLY <1>1, <1>3
      <4>3. "link" \in Adding \ {"create", "insert"}
        BY DEF Adding
      <4> QED BY <4>1, <4>2, <4>3
    <3>4. cmd[t].type # "internal" /\ vport'[v].dev # NULL /\ vport'[v].dev = e
      <4>1. cmd[t].type # "internal"
        BY ONLY <1>1 DEF AddInv
      <4> QED BY <1>5, <1>e, <4>1
    <3> QED BY ONLY t \in Actors, v \in Vports, d \in Dps, dp' = dp, <1>1, <1>2, <1>5, <1>v, <3>1, <3>2, <3>3, <3>4, AddStep
  <2>2. RemoveInv(t)'
    BY <1>1, <1>2 DEF RemoveInv, Removing
  <2>3. CmdInv(t)'
    BY <1>0, <1>1, <1>2 DEF CmdInv, CmdsInv, AddInv, Removing
  <2> QED BY <2>1, <2>2, <2>3
<1>11. \A x \in Devs : RefInv(x)'
  <2> TAKE x \in Devs
  <2>1. \A y \in Vports : y # v => vport'[y] = vport[y]
    BY <1>5
  <2>2. CASE x # e
    <3>1. \A y \in Vports : vport'[y].dev = x /\ vport'[y].type # "internal" <=> vport[y].dev = x /\ vport[y].type # "internal"
      BY ZenonT(60), <1>3, <1>5, <2>1, <2>2, Constants
    <3> QED BY <1>0, <1>4, <2>2, <3>1, RefFrame, RefsByDevice
  <2>3. CASE x = e
    <3>1. Held(e)' = Held(e) \cup {v} /\ v \notin Held(e)
      BY <1>3, <1>5, <1>e, <2>1 DEF Held
    <3>2. RefInv(e)
      BY <1>0, <1>e, RefsByDevice
    <3>3. Promisc(e)'
      BY <1>4, <3>2 DEF RefInv, Promisc, Registered
    <3> QED BY <1>4, <1>e, <2>3, <3>1, <3>2, <3>3, RefTaken
  <2> QED BY <2>2, <2>3
<1>12. DevInv(e)'
  <2>1. dev[e].attached =>
           /\ dev[e].vport \in Vports /\ dev[e].vport \in alloc' \ pend' /\ vport'[dev[e].vport].dev = e /\ dev[e].vport # v
           /\ In(dev[e].vport) \/ InHand(dev[e].vport)
    BY <1>1, <1>3, <1>5, <1>e DEF DevInv
  <2>2. ASSUME NEW x \in Vports, x # v, In(x) \/ InHand(x)
        PROVE  In(x)' \/ InHand(x)'
    <3>1. cmd[t].pc \in Holding
      BY <1>1, Steps
    <3>2. \A y : InHand(y) <=> Adds(t, y) \/ Removes(t, y)
      BY <1>0, <1>2, <3>1, HolderStep
    <3>3. ~InHand(x)
      BY <1>v, <2>2, <3>2 DEF Adds, Removes
    <3>4. In(x)' <=> In(x)
      BY <1>1 DEF In
    <3> QED BY <2>2, <3>3, <3>4
  <2> QED BY <1>1, <1>4, <1>e, <2>1, <2>2 DEF DevInv, Registered
<1>13. cmd'[t].pc \in Adding /\ cmd[t].pc # "synchronize_net"
  BY <1>1, <1>2 DEF Adding
<1>14. \A x \in Devs : x # e /\ dev[x].vport = v /\ (dev[x].kind = "internal" \/ dev[x].attached) => vport'[v].dev = x
  BY <1>0, <1>3, Constants DEF DevsInv, DevInv
<1> QED BY <1>v, <1>1, <1>2, <1>3, <1>4, <1>5, <1>6, <1>7, <1>9, <1>10, <1>11, <1>12, <1>13, <1>14, HandStep

\* The port becomes the receiver of its device's packets.
LEMMA NetdevLinks ==
  ASSUME Inv, NEW t \in Actors, ovs_netdev_link(t), ~dev[vport[cmd[t].vport].dev].attached,
         dev' = [dev EXCEPT ![vport[cmd[t].vport].dev].attached = TRUE, ![vport[cmd[t].vport].dev].vport = cmd[t].vport,
                            ![vport[cmd[t].vport].dev].promisc = @ + 1],
         Goto(t, "hash"), UNCHANGED <<alloc, vport, dp>>
  PROVE  Inv'
<1>0. /\ TypeInv /\ LockInv /\ VportsInv /\ DpsInv /\ CmdsInv /\ DevsInv /\ RefsBalanced /\ dev \in [Devs -> DevLoose]
      /\ vport \in [Vports -> VportType]
  BY DEF Inv, TypeInv
<1>1. /\ cmd[t].pc = "link" /\ AddInv(t) /\ cmd[t].pc \in Adding
      /\ UNCHANGED <<pend, wait, rcu, dp, dev_table, rtnl, work, dead, ovs_mutex>>
  BY <1>0 DEF ovs_netdev_link, others, readers, CmdsInv, Goto, Adding
<1>v. PICK v \in Vports, d \in Dps, e \in Devs : v = cmd[t].vport /\ d = cmd[t].dp /\ e = vport[v].dev
  <2>1. cmd[t].vport \in Vports /\ cmd[t].dp \in Dps /\ vport[cmd[t].vport].dev # NULL
    BY <1>1 DEF AddInv
  <2> QED BY <1>0, <2>1 DEF VportType, OrNull
<1>2. /\ cmd' \in [Actors -> CmdType] /\ \A u \in Actors : u # t => cmd'[u] = cmd[u]
      /\ cmd'[t].pc = "hash" /\ cmd'[t].what = cmd[t].what /\ cmd'[t].dp = d /\ cmd'[t].vport = v
      /\ cmd'[t].name = cmd[t].name /\ cmd'[t].type = cmd[t].type /\ cmd'[t].no = cmd[t].no
  <2>1. "hash" \in Holding \cup Lockless
    BY DEF Holding, Adding
  <2> QED BY <1>0, <1>1, <1>v, <2>1, GotoStep
<1>3. /\ v \in alloc \ pend /\ VportInv(v) /\ dev_table[v] = NULL /\ vport[v].type # "internal"
  BY <1>0, <1>1, <1>v DEF AddInv, VportsInv
<1>e. e \in alloc /\ DevInv(e) /\ e # NULL /\ dev[e].kind # "internal" /\ ~dev[e].attached
  BY <1>0, <1>3, <1>v, Constants DEF DevsInv, VportInv
<1>4. /\ dev' \in [Devs -> DevLoose] /\ \A x \in Devs : x # e => dev'[x] = dev[x]
      /\ dev'[e].kind = dev[e].kind /\ dev'[e].name = dev[e].name /\ dev'[e].net = dev[e].net /\ dev'[e].reg = dev[e].reg
      /\ dev'[e].vport = v /\ dev'[e].attached /\ dev'[e].promisc = dev[e].promisc + 1
      /\ dev'[e].ref = dev[e].ref
  <2> DEFINE z == [dev[e] EXCEPT !.attached = TRUE, !.vport = v, !.promisc = @ + 1]
  <2>1. dev' = [dev EXCEPT ![e] = z]
    BY <1>v
  <2>2. z \in DevLoose
    BY <1>0, DevTypes
  <2>3. /\ z.vport = v /\ z.promisc = dev[e].promisc + 1
        /\ z.kind = dev[e].kind /\ z.name = dev[e].name /\ z.net = dev[e].net /\ z.reg = dev[e].reg /\ z.ref = dev[e].ref
    BY <1>0 DEF DevLoose
  <2>4. z.attached
    BY <1>0 DEF DevLoose
  <2> HIDE DEF z
  <2> QED BY <1>0, <2>1, <2>2, <2>3, <2>4
<1>6. TypeInv'
  BY <1>0, <1>1, <1>2, <1>4 DEF TypeInv
<1>7. LockInv'
  BY <1>0, <1>1, <1>2, LockStep DEF Holding, Adding
<1>8. InHand(v) /\ InHand(v)' /\ ~In(v) /\ ~In(v)'
  <2>1. InHand(v) /\ InHand(v)'
    BY <1>1, <1>2, <1>v DEF InHand, Adds, Adding
  <2>2. ~In(v)
    BY <1>3, <2>1 DEF VportInv
  <2>3. In(v)' <=> In(v)
    BY <1>1 DEF In
  <2> QED BY <2>1, <2>2, <2>3
<1>9. VportInv(v)'
  <2>1. vport[v].dp \in Dps
    BY <1>3 DEF VportInv
  <2> QED BY <1>1, <1>3, <1>4, <1>8, <1>e, <1>v, <2>1, VportInHand
<1>10. AddInv(t)' /\ RemoveInv(t)' /\ CmdInv(t)'
  <2>1. AddInv(t)'
    <3>1. /\ cmd[t].what = "vport_new" /\ dp[d].listed /\ cmd[t].no # OVSP_LOCAL /\ d \in alloc \ pend
          /\ vport[v].dp = d /\ vport[v].no = cmd[t].no /\ vport[v].type = cmd[t].type
          /\ \A u \in dp[d].ports : vport[u].no # cmd[t].no
      BY <1>1, <1>3, <1>v DEF AddInv
    <3>2. cmd'[t].what # "dp_new" /\ UNCHANGED <<vport, alloc, pend, dp, dev_table>>
      BY <1>1, <1>2, <3>1
    <3> QED BY <1>2, <1>3, <1>v, <1>e, <3>1, <3>2 DEF AddInv
  <2>2. RemoveInv(t)'
    BY <1>1, <1>2 DEF RemoveInv, Removing
  <2>3. CmdInv(t)'
    BY <1>0, <1>1, <1>2 DEF CmdInv, CmdsInv, AddInv, Removing
  <2> QED BY <2>1, <2>2, <2>3
<1>11. \A x \in Devs : RefInv(x)'
  <2> TAKE x \in Devs
  <2>1. RefInv(x)
    BY <1>0, RefsByDevice
  <2>2. CASE x # e
    BY <1>1, <1>4, <2>1, <2>2, RefFrame
  <2>3. CASE x = e
    <3>1. Held(e)' = Held(e)
      BY <1>1 DEF Held
    <3>2. dev[e].promisc = 0 /\ dev[e].ref = Cardinality(Held(e))
      BY <1>e, <2>1, <2>3 DEF RefInv, Promisc
    <3>3. dev'[e].ref = Cardinality(Held(e)')
      BY <1>4, <3>1, <3>2
    <3>4. dev'[e].promisc = 1
      <4>1. dev'[e].promisc = dev[e].promisc + 1
        BY <1>4
      <4> QED BY ONLY <3>2, <4>1
    <3>5. dev'[e].attached
      BY <1>4
    <3> QED BY <2>3, <3>3, <3>4, <3>5 DEF RefInv, Promisc
  <2> QED BY <2>2, <2>3
<1>12. DevInv(e)'
  BY <1>1, <1>3, <1>4, <1>8, <1>e, <1>v DEF DevInv, Registered
<1>13. cmd'[t].pc \in Adding /\ cmd[t].pc # "synchronize_net"
  BY <1>1, <1>2 DEF Adding
<1>14. \A x \in Devs : x # e /\ dev[x].vport = v /\ (dev[x].kind = "internal" \/ dev[x].attached) => vport'[v].dev = x
  BY <1>0, <1>3 DEF DevsInv, DevInv
<1>15. /\ \A x \in Vports : x # v => vport'[x] = vport[x] /\ dev_table'[x] = dev_table[x]
       /\ \A x \in Dps \cup Vports : x \in alloc' <=> x \in alloc
       /\ \A x \in Devs : x # e => dev'[x] = dev[x] /\ (x \in alloc' <=> x \in alloc)
       /\ e \in alloc' /\ dev'[e].kind = dev[e].kind
       /\ dev[e].kind = "internal" => dev'[e].net = dev[e].net /\ dev'[e].vport = dev[e].vport
       /\ v = cmd[t].vport /\ cmd'[t].vport = v /\ UNCHANGED <<dp, pend>>
       /\ cmd'[t].what = cmd[t].what /\ cmd'[t].dp = cmd[t].dp /\ \A u \in Actors : u # t => cmd'[u] = cmd[u]
       /\ cmd[t].pc \in Adding
  BY <1>v, <1>1, <1>2, <1>4, <1>e
<1> QED BY ONLY Inv, t \in Actors, v \in Vports, <1>6, <1>7, <1>9, <1>10, <1>11, <1>12, <1>13, <1>14, <1>15, HandStep

\* The device of an internal port is unregistered.
LEMMA InternalDestroys ==
  ASSUME Inv, NEW t \in Actors, internal_dev_destroy(t)
  PROVE  Inv'
<1>0. /\ TypeInv /\ LockInv /\ VportsInv /\ DpsInv /\ CmdsInv /\ DevsInv /\ RefsBalanced /\ dev \in [Devs -> DevLoose]
      /\ vport \in [Vports -> VportType]
  BY DEF Inv, TypeInv
<1>1. /\ cmd[t].pc = "destroy" /\ RemoveInv(t) /\ CmdInv(t) /\ cmd[t].pc \in Removing /\ rtnl = NULL /\ rtnl' = t
      /\ UNCHANGED <<alloc, pend, rcu, dp, dev_table, vport, work, dead, ovs_mutex>>
      /\ Goto(t, "synchronize_net")
  BY <1>0 DEF internal_dev_destroy, tables, others, readers, CmdsInv, Goto, Removing
<1>v. PICK v \in Vports, d \in Dps, e \in Devs :
        /\ v = cmd[t].vport /\ d = vport[v].dp /\ e = vport[v].dev
        /\ dev' = [dev EXCEPT ![e].promisc = @ - 1, ![e].reg = "unregistering"]
        /\ wait' = [wait EXCEPT ![e] = rcu]
  <2>1. cmd[t].vport \in Vports /\ vport[cmd[t].vport].dp \in Dps /\ vport[cmd[t].vport].dev # NULL
    BY <1>1 DEF RemoveInv
  <2>2. vport[cmd[t].vport].dev \in Devs
    BY <1>0, <2>1 DEF VportType, OrNull
  <2> QED BY <2>1, <2>2 DEF internal_dev_destroy
<1>2. /\ cmd' \in [Actors -> CmdType] /\ \A u \in Actors : u # t => cmd'[u] = cmd[u]
      /\ cmd'[t].pc = "synchronize_net" /\ cmd'[t].what = cmd[t].what /\ cmd'[t].dp = cmd[t].dp /\ cmd'[t].vport = v
      /\ cmd'[t].todo = cmd[t].todo
  <2>1. "synchronize_net" \in Holding \cup Lockless
    BY DEF Holding, Removing
  <2> QED BY <1>0, <1>1, <1>v, <2>1, GotoStep
<1>3. /\ v \in alloc \ pend /\ VportInv(v) /\ dev_table[v] = NULL /\ vport[v].type = "internal" /\ ~In(v) /\ e # NULL
  BY <1>0, <1>1, <1>v, Constants DEF RemoveInv, VportsInv, internal_dev_destroy
<1>e. e \in alloc /\ DevInv(e) /\ dev[e].kind = "internal" /\ ~dev[e].attached /\ dev[e].vport = v /\ RefInv(e) /\ e \in Obj
  <2>1. e \in alloc /\ dev[e].kind = "internal" /\ dev[e].vport = v /\ DevInv(e) /\ RefInv(e) /\ e \in Obj
    BY <1>0, <1>3, <1>v, Constants, RefsByDevice DEF DevsInv, VportInv
  <2> QED BY <2>1 DEF DevInv
<1>r. Registered(e) /\ dev[e].promisc = 1
  <2>1. cmd[t].pc \in Holding /\ cmd[t].pc # "synchronize_net"
    BY <1>1, Steps
  <2>2. \A u \in Actors : cmd[u].pc # "synchronize_net"
    BY <1>0, <2>1, Holder DEF Holding, Removing
  <2>3. Registered(e)
    BY <1>e, <2>2 DEF DevInv
  <2> QED BY <1>e, <2>3 DEF RefInv, Promisc
<1>4. /\ dev' \in [Devs -> DevLoose] /\ \A x \in Devs : x # e => dev'[x] = dev[x]
      /\ dev'[e].kind = dev[e].kind /\ dev'[e].name = dev[e].name /\ dev'[e].net = dev[e].net /\ dev'[e].reg = "unregistering"
      /\ dev'[e].vport = v /\ dev'[e].attached = dev[e].attached /\ dev'[e].promisc = 0
      /\ dev'[e].ref = dev[e].ref
  <2> DEFINE z == [dev[e] EXCEPT !.promisc = @ - 1, !.reg = "unregistering"]
  <2>1. dev' = [dev EXCEPT ![e] = z]
    BY <1>v
  <2>2. /\ z \in DevLoose /\ z.promisc = dev[e].promisc - 1 /\ z.reg = "unregistering"
        /\ z.kind = dev[e].kind /\ z.name = dev[e].name /\ z.net = dev[e].net /\ z.vport = dev[e].vport
        /\ z.attached = dev[e].attached /\ z.ref = dev[e].ref
    BY <1>0, DevFields
  <2> HIDE DEF z
  <2> QED BY <1>0, <1>e, <1>r, <2>1, <2>2
<1>6. TypeInv'
  <2>1. wait' \in [Obj -> SUBSET rcu]
    BY <1>0, <1>v DEF TypeInv
  <2> QED BY <1>0, <1>1, <1>2, <1>4, <2>1 DEF TypeInv
<1>7. LockInv'
  BY <1>0, <1>1, <1>2, LockStep DEF Holding, Removing
<1>8. InHand(v)' /\ (\A x : In(x)' <=> In(x))
  <2>1. InHand(v)'
    BY <1>2 DEF InHand, Removes, Removing
  <2>2. \A x : In(x)' <=> In(x)
    BY <1>1 DEF In
  <2> QED BY <2>1, <2>2
<1>9. VportInv(v)'
  <2>1. vport[v].dp \in Dps
    BY <1>v
  <2> QED BY <1>1, <1>3, <1>4, <1>8, <1>e, <1>v, <2>1, VportInHand
<1>10. AddInv(t)' /\ RemoveInv(t)' /\ CmdInv(t)'
  <2>1. AddInv(t)'
    BY <1>2 DEF AddInv, Adding
  <2>2. RemoveInv(t)'
    BY ZenonT(60), <1>1, <1>2, <1>3, <1>4, <1>8, <1>v DEF RemoveInv, Removing, Registered
  <2>3. CmdInv(t)'
    BY <1>1, <1>2, <1>8 DEF CmdInv, Removing
  <2> QED BY <2>1, <2>2, <2>3
<1>11. \A x \in Devs : RefInv(x)'
  <2> TAKE x \in Devs
  <2>1. RefInv(x)
    BY <1>0, RefsByDevice
  <2>2. CASE x # e
    BY <1>1, <1>4, <2>1, <2>2, RefFrame
  <2>3. CASE x = e
    <3>1. Held(e)' = Held(e)
      BY <1>1 DEF Held
    <3> QED BY <1>4, <1>e, <2>1, <2>3, <3>1 DEF RefInv, Promisc, Registered
  <2> QED BY <2>2, <2>3
<1>12. DevInv(e)'
  <2>1. \E u \in Actors : cmd'[u].pc = "synchronize_net" /\ cmd'[u].vport = v
    BY <1>2
  <2>2. v \in alloc' \ pend' /\ vport'[v].dev = e /\ e \in alloc' /\ ~dev'[e].attached
    BY <1>1, <1>3, <1>4, <1>e, <1>v
  <2>3. dev[e].name \in Names /\ dev[e].net \in Nets
    BY <1>e DEF DevInv
  <2> QED BY <1>4, <2>1, <2>2, <2>3 DEF DevInv
<1>13. cmd'[t].pc \in Removing /\ cmd[t].pc # "synchronize_net"
  BY <1>1, <1>2 DEF Removing
<1>14. \A x \in Devs : x # e /\ dev[x].vport = v /\ (dev[x].kind = "internal" \/ dev[x].attached) => vport'[v].dev = x
  BY <1>0, <1>1 DEF DevsInv, DevInv
<1>15. /\ \A x \in Vports : x # v => vport'[x] = vport[x] /\ dev_table'[x] = dev_table[x]
       /\ \A x \in Dps \cup Vports : x \in alloc' <=> x \in alloc
       /\ \A x \in Devs : x # e => dev'[x] = dev[x] /\ (x \in alloc' <=> x \in alloc)
       /\ e \in alloc' /\ dev'[e].kind = dev[e].kind
       /\ dev[e].kind = "internal" => dev'[e].net = dev[e].net /\ dev'[e].vport = dev[e].vport
       /\ v = cmd[t].vport /\ cmd'[t].vport = v /\ UNCHANGED <<dp, pend>>
  BY <1>v, <1>1, <1>2, <1>4, <1>e
<1> QED BY <1>1, <1>2, <1>6, <1>7, <1>9, <1>10, <1>11, <1>12, <1>13, <1>14, <1>15, HandStep

\* A step of command t about a port v, a datapath d and a device e, or some of them: the
\* others stay as they are, and do not depend on these.
Around(t, v, d, e) ==
  /\ cmd[t].pc \in Holding \/ ovs_mutex = NULL
  /\ \A u \in Actors : u # t => cmd'[u] = cmd[u]
  /\ cmd[t].pc \in Adding \cup Removing => cmd[t].vport = v
  /\ cmd'[t].pc \in Adding \cup Removing => cmd'[t].vport = v
  /\ \A x \in Vports : x # v => /\ vport'[x] = vport[x] /\ dev_table'[x] = dev_table[x] /\ (In(x)' <=> In(x))
                                /\ (x \in alloc' <=> x \in alloc) /\ (x \in pend' <=> x \in pend)
  /\ \A x \in Dps : x # d => /\ dp'[x].ports = dp[x].ports /\ dp'[x].listed = dp[x].listed /\ dp'[x].net = dp[x].net
                             /\ (x \in alloc' <=> x \in alloc) /\ (x \in pend' <=> x \in pend)
                             /\ v \notin dp[x].ports /\ (Owns(t, x) => Owns(t, x)')
  /\ \A x \in Devs : x # e => /\ SameDev(x) /\ (x \notin alloc => dev'[x] = dev[x]) /\ (x \in alloc' <=> x \in alloc)
  /\ \A x \in Devs : x # e /\ dev[x].vport = v /\ (dev[x].kind = "internal" \/ dev[x].attached) =>
       /\ v \in alloc' \ pend' /\ vport'[v].dev = x /\ (In(v)' \/ InHand(v)') /\ cmd[t].pc # "synchronize_net"
  /\ \A x \in Vports : x # v /\ vport[x].dev = e /\ e \in Devs =>
       e \in alloc' /\ dev'[e].kind = dev[e].kind /\ dev[e].kind # "internal"

LEMMA OneStep ==
  ASSUME Inv, NEW t \in Actors, NEW v \in OrNull(Vports), NEW d \in OrNull(Dps), NEW e \in OrNull(Devs),
         Around(t, v, d, e),
         TypeInv', LockInv', AddInv(t)' /\ RemoveInv(t)' /\ CmdInv(t)',
         v \in Vports => VportInv(v)', d \in Dps => DpInv(d)', e \in Devs => DevInv(e)', \A x \in Devs : RefInv(x)'
  PROVE  Inv'
<1> USE DEF Around
<1>0. /\ TypeInv /\ LockInv /\ VportsInv /\ DpsInv /\ CmdsInv /\ DevsInv
      /\ vport \in [Vports -> VportType] /\ dp \in [Dps -> DpType]
  BY DEF Inv, TypeInv
<1>1. /\ \A u \in Actors : u # t => cmd[u].pc \notin Holding /\ AddInv(u)' /\ RemoveInv(u)' /\ CmdInv(u)'
      /\ \A x : x # v => ~InHand(x) /\ ~InHand(x)'
      /\ \A u \in Actors : \A x : Owns(u, x) => u = t
  <2>2. /\ \A u \in Actors : u # t => cmd[u].pc \notin Holding /\ AddInv(u)' /\ RemoveInv(u)' /\ CmdInv(u)'
        /\ \A x : InHand(x) <=> Adds(t, x) \/ Removes(t, x)
        /\ \A x : InHand(x)' <=> Adds(t, x)' \/ Removes(t, x)'
        /\ \A u \in Actors : \A x : Owns(u, x) => u = t
    BY <1>0, HolderStep
  <2> QED BY <2>2 DEF Adds, Removes
<1>3. VportsInv'
  <2> SUFFICES ASSUME NEW x \in Vports, x # v
               PROVE  VportInv(x)'
    BY DEF VportsInv
  <2>1. VportInv(x) /\ vport[x].dev \in Devs \cup {NULL}
    BY <1>0 DEF VportsInv, VportType, OrNull
  <2>3. vport[x].dev # NULL =>
           LET y == vport[x].dev
           IN  /\ y \in alloc => y \in alloc'
               /\ dev'[y].kind = dev[y].kind
               /\ dev[y].kind = "internal" => dev'[y].vport = dev[y].vport
    BY <2>1 DEF SameDev
  <2> QED BY <1>1, <2>1, <2>3, VportFrame
<1>4. DpsInv'
  <2> SUFFICES ASSUME NEW x \in Dps, x # d
               PROVE  DpInv(x)'
    BY DEF DpsInv
  <2>1. DpInv(x) /\ dp[x].ports \subseteq Vports
    BY <1>0 DEF DpsInv, DpType
  <2>2. \A y \in dp[x].ports :
          /\ vport'[y] = vport[y] /\ y \in alloc' \ pend'
          /\ vport[y].no = OVSP_LOCAL => dev'[vport[y].dev].net = dev[vport[y].dev].net
    <3> SUFFICES ASSUME NEW y \in dp[x].ports
                 PROVE  /\ vport'[y] = vport[y] /\ y \in alloc' \ pend'
                        /\ vport[y].no = OVSP_LOCAL => dev'[vport[y].dev].net = dev[vport[y].dev].net
      OBVIOUS
    <3>1. y # v /\ y \in Vports /\ y \in alloc \ pend /\ In(y)
      BY <2>1 DEF In, DpInv
    <3>2. VportInv(y) /\ vport[y].dev \in Devs /\ vport[y].dev \in alloc
      BY <1>0, <3>1 DEF VportsInv, VportInv, VportType, OrNull
    <3>3. vport[y].no = OVSP_LOCAL => dev[vport[y].dev].kind = "internal"
      BY <2>1, <3>2, Constants DEF DpInv, VportInv
    <3> QED BY <3>1, <3>2, <3>3 DEF SameDev
  <2>3. (\E u \in Actors : Owns(u, x)) => \E u \in Actors : Owns(u, x)'
    BY <1>1
  <2> QED BY <2>1, <2>2, <2>3, DpFrame
<1>5. DevsInv'
  <2> SUFFICES ASSUME NEW x \in Devs, x # e
               PROVE  DevInv(x)'
    BY DEF DevsInv
  <2>1. DevInv(x)
    BY <1>0 DEF DevsInv
  <2>2. dev[x].kind = "internal" \/ dev[x].attached =>
           LET y == dev[x].vport IN y \in Vports /\ y \in alloc' \ pend' /\ vport'[y].dev = x
    BY <2>1 DEF DevInv
  <2>3. ASSUME NEW y, dev[x].attached, y = dev[x].vport, In(y) \/ InHand(y)
        PROVE  In(y)' \/ InHand(y)'
    BY <1>1, <2>2, <2>3
  <2>4. dev[x].kind = "internal" => \A u \in Actors : ~(cmd[u].pc = "synchronize_net" /\ cmd[u].vport = dev[x].vport)
    <3> SUFFICES ASSUME dev[x].kind = "internal", NEW u \in Actors, cmd[u].pc = "synchronize_net" /\ cmd[u].vport = dev[x].vport
                 PROVE  FALSE
      OBVIOUS
    <3>1. cmd[u].pc \in Holding /\ cmd[u].pc \in Adding \cup Removing
      BY DEF Holding, Removing
    <3>2. u = t
      BY <1>1, <3>1
    <3> QED BY <3>1, <3>2
  <2>5. SameDev(x) /\ (x \notin alloc => dev'[x] = dev[x]) /\ (x \in alloc' <=> x \in alloc)
    OBVIOUS
  <2> QED BY ONLY x \in Devs, <2>1, <2>2, <2>3, <2>4, <2>5, DevFrame DEF SameDev
<1>6. CmdsInv'
  BY <1>1 DEF CmdsInv
<1>7. RefsBalanced'
  BY DEF RefsBalanced, RefInv, Promisc, Held
<1> QED BY <1>3, <1>4, <1>5, <1>6, <1>7 DEF Inv

\* Command t takes port v out of datapath d and goes on with c, to destroy the port.
Taking(t, v, d, c) ==
  /\ cmd' = [cmd EXCEPT ![t] = c]
  /\ \/ cmd[t].pc \in Holding /\ ovs_mutex' = ovs_mutex
     \/ ovs_mutex = NULL /\ ovs_mutex' = t
  /\ cmd[t].pc \notin Adding \cup Removing
  /\ cmd[t].pc = "dp_ports" => cmd[t].dp = d
  /\ v \in dp[d].ports /\ dp' \in [Dps -> DpType] /\ \A x \in Dps : x # d => dp'[x] = dp[x]
  /\ dp'[d].ports = dp[d].ports \ {v} /\ dp'[d].net = dp[d].net
  /\ dp'[d].listed => dp[d].listed /\ vport[v].no # OVSP_LOCAL
  /\ ~dp'[d].listed => dp'[d].ports = {} /\ c.what \in {"dp_del", "exit_net"}
  /\ c.pc = "unhash" /\ c.vport = v
  /\ c.what \in {"vport_del", "dp_del", "exit_net", "exit_vports", "notify"}
  /\ c.what \in {"vport_del", "dp_del", "exit_net"} => c.dp = d /\ c.todo = {}
  /\ c.what = "notify" <=> t = Worker
  /\ \A x \in c.todo : x # v /\ In(x) /\ vport[x].no # OVSP_LOCAL
  /\ dev' \in [Devs -> DevLoose] /\ \A x \in Devs : SameDev(x) /\ (x \notin alloc => dev'[x] = dev[x])
  /\ UNCHANGED <<alloc, pend, wait, rcu, vport, dev_table, rtnl, work, dead>>

LEMMA DetachStep ==
  ASSUME Inv, NEW t \in Actors, NEW v \in Vports, NEW d \in Dps, NEW c \in CmdType, Taking(t, v, d, c)
  PROVE  Inv'
<1> USE DEF Taking
<1>0. /\ TypeInv /\ LockInv /\ VportsInv /\ DpsInv /\ CmdsInv /\ DevsInv /\ RefsBalanced
      /\ dp \in [Dps -> DpType] /\ vport \in [Vports -> VportType]
  BY DEF Inv, TypeInv
<1>1. cmd' \in [Actors -> CmdType] /\ cmd'[t] = c /\ \A u \in Actors : u # t => cmd'[u] = cmd[u]
  BY <1>0, CmdFrame
<1>2. TypeInv'
  BY <1>0, <1>1 DEF TypeInv
<1>3. LockInv'
  <2>1. c.pc \in Holding /\ c.pc # "synchronize_net" /\ cmd[t].pc # "synchronize_net"
    BY DEF Holding, Removing
  <2> QED BY <1>0, <1>1, <2>1, LockStep
<1>4. DpInv(d) /\ VportInv(v) /\ In(v)
  BY <1>0 DEF DpsInv, VportsInv, In
<1>5. /\ v \in alloc \ pend /\ vport[v].dp = d /\ dev_table[v] # NULL /\ vport[v].dev # NULL /\ d \in alloc \ pend
      /\ dp[d].listed
  BY <1>4 DEF DpInv, VportInv
<1>6. InHand(v)'
  BY <1>1 DEF InHand, Removes, Removing
<1>7. \A x \in Vports : x # v => (In(x)' <=> In(x))
  BY DEF In
<1>8. ~In(v)'
  <2>1. \A x \in Dps : x # d => v \notin dp[x].ports
    BY <1>0, <1>5 DEF DpsInv, DpInv
  <2> QED BY <2>1 DEF In
<1>9. VportInv(v)'
  <2>1. LET e == vport[v].dev
        IN  /\ e \in alloc
            /\ vport[v].type = "internal" <=> dev[e].kind = "internal"
            /\ vport[v].type = "internal" => dev[e].vport = v
    BY <1>4, <1>5 DEF VportInv
  <2>2. SameDev(vport[v].dev)
    BY <1>0, <1>5 DEF VportType, OrNull
  <2> QED BY <1>5, <1>6, <1>8, <2>1, <2>2, VportInHand DEF SameDev
<1>10. DpInv(d)'
  <2>1. \A y \in dp[d].ports : y \in Vports /\ y \in alloc \ pend /\ (vport[y].no = OVSP_LOCAL => dev'[vport[y].dev].net = dev[vport[y].dev].net)
    <3> SUFFICES ASSUME NEW y \in dp[d].ports
                 PROVE  y \in Vports /\ y \in alloc \ pend /\ (vport[y].no = OVSP_LOCAL => dev'[vport[y].dev].net = dev[vport[y].dev].net)
      OBVIOUS
    <3>1. y \in Vports /\ y \in alloc \ pend /\ In(y)
      BY <1>0, <1>4 DEF DpType, DpInv, In
    <3>2. vport[y].dev \in Devs
      BY <1>0, <3>1 DEF VportsInv, VportInv, VportType, OrNull
    <3> QED BY <3>1, <3>2 DEF SameDev
  <2>2. ~dp'[d].listed => Owns(t, d)'
    BY <1>1 DEF Owns, Removing
  <2>3. dp'[d].listed => \E l \in dp'[d].ports : vport'[l].no = OVSP_LOCAL
    BY <1>4, <1>5 DEF DpInv
  <2>4. /\ \A x, y \in dp'[d].ports : vport'[x].no = vport'[y].no => x = y
        /\ \A y \in dp'[d].ports :
             /\ y \in alloc' \ pend' /\ vport'[y].dp = d
             /\ vport'[y].no = OVSP_LOCAL => vport'[y].type = "internal" /\ dev'[vport'[y].dev].net = dp'[d].net
    BY <1>4, <2>1 DEF DpInv
  <2> QED BY <1>4, <1>5, <2>2, <2>3, <2>4 DEF DpInv
<1>11. AddInv(t)' /\ RemoveInv(t)' /\ CmdInv(t)'
  <2>1. AddInv(t)'
    BY <1>1 DEF AddInv, Adding
  <2>2. RemoveInv(t)'
    BY <1>1, <1>5, <1>8 DEF RemoveInv
  <2>3. CmdInv(t)'
    <3>1. \A x \in c.todo : In(x)' /\ vport'[x].no # OVSP_LOCAL
      <4>1. c.todo \subseteq Vports
        BY DEF CmdType
      <4> QED BY <1>7, <4>1
    <3> QED BY <1>1, <3>1 DEF CmdInv, Removing
  <2> QED BY <2>1, <2>2, <2>3
<1>12. \A x \in Devs : RefInv(x)'
  BY <1>0, RefFrame, RefsByDevice DEF SameDev
<1>13. \A x \in Dps : x # d => v \notin dp[x].ports /\ (Owns(t, x) => Owns(t, x)')
  <2>1. \A x \in Dps : x # d => v \notin dp[x].ports
    BY <1>0, <1>5 DEF DpsInv, DpInv
  <2>2. \A x \in Dps : x # d => ~Owns(t, x)
    BY DEF Owns
  <2> QED BY <2>1, <2>2
<1>14. \A x \in Devs : dev[x].vport = v /\ (dev[x].kind = "internal" \/ dev[x].attached) => vport'[v].dev = x
  BY <1>0 DEF DevsInv, DevInv
<1>15. cmd[t].pc # "synchronize_net"
  BY DEF Removing
<1>16. NULL \notin Devs /\ v \in OrNull(Vports) /\ d \in OrNull(Dps) /\ NULL \in OrNull(Devs)
  BY Constants DEF OrNull
<1>17. /\ cmd[t].pc \in Holding \/ ovs_mutex = NULL
       /\ cmd[t].pc \notin Adding \cup Removing /\ cmd'[t].vport = v
       /\ \A x \in Vports : x # v => /\ vport'[x] = vport[x] /\ dev_table'[x] = dev_table[x] /\ (In(x)' <=> In(x))
                                    /\ (x \in alloc' <=> x \in alloc) /\ (x \in pend' <=> x \in pend)
  BY <1>1, <1>7
<1>18. \A x \in Dps : x # d => /\ dp'[x].ports = dp[x].ports /\ dp'[x].listed = dp[x].listed /\ dp'[x].net = dp[x].net
                               /\ (x \in alloc' <=> x \in alloc) /\ (x \in pend' <=> x \in pend)
                               /\ v \notin dp[x].ports /\ (Owns(t, x) => Owns(t, x)')
  BY <1>13
<1>19. /\ \A x \in Devs : x # NULL => /\ SameDev(x) /\ (x \notin alloc => dev'[x] = dev[x]) /\ (x \in alloc' <=> x \in alloc)
       /\ \A x \in Devs : x # NULL /\ dev[x].vport = v /\ (dev[x].kind = "internal" \/ dev[x].attached) =>
            /\ v \in alloc' \ pend' /\ vport'[v].dev = x /\ (In(v)' \/ InHand(v)') /\ cmd[t].pc # "synchronize_net"
  BY <1>5, <1>6, <1>14, <1>15
<1>20. Around(t, v, d, NULL)
  BY ONLY <1>1, <1>16, <1>17, <1>18, <1>19 DEF Around
<1> QED BY <1>2, <1>3, <1>9, <1>10, <1>11, <1>12, <1>16, <1>20, OneStep

\* netdev_set_rx_headroom() of devices changes nothing else of them.
LEMMA SetsHeadroom ==
  ASSUME TypeInv, VportsInv, NEW ports \in SUBSET Vports, NEW h \in Nat
  PROVE  /\ SetHeadroom(ports, h) \in [Devs -> DevLoose]
         /\ dev' = SetHeadroom(ports, h) => \A x \in Devs : SameDev(x) /\ (x \notin alloc => dev'[x] = dev[x])
<1>0. dev \in [Devs -> DevLoose] /\ vport \in [Vports -> VportType]
  BY DEF TypeInv
<1>1. \A y \in DevLoose : [y EXCEPT !.rx = h] \in DevLoose
  BY DEF DevLoose
<1>2. \A y \in DevLoose : LET z == [y EXCEPT !.rx = h]
                          IN  /\ z.kind = y.kind /\ z.name = y.name /\ z.net = y.net /\ z.reg = y.reg
                              /\ z.vport = y.vport /\ z.promisc = y.promisc /\ z.ref = y.ref
  BY DEF DevLoose
<1>3. \A y \in DevLoose : [y EXCEPT !.rx = h].attached = y.attached
  BY DEF DevLoose
<1> DEFINE devs == {vport[v].dev : v \in {p \in ports : vport[p].type # "internal"}}
<1>4. \A x \in devs : x \in Devs => x \in alloc
  BY <1>0, Constants DEF VportsInv, VportInv
<1>5. SetHeadroom(ports, h) = [e \in Devs |-> IF e \in devs THEN [dev[e] EXCEPT !.rx = h] ELSE dev[e]]
  BY DEF SetHeadroom
<1> HIDE DEF devs
<1>6. SetHeadroom(ports, h) \in [Devs -> DevLoose]
  BY <1>0, <1>1, <1>5
<1>7. ASSUME dev' = SetHeadroom(ports, h), NEW x \in Devs
      PROVE  SameDev(x) /\ (x \notin alloc => dev'[x] = dev[x])
  <2>1. dev'[x] = IF x \in devs THEN [dev[x] EXCEPT !.rx = h] ELSE dev[x]
    BY <1>5, <1>7
  <2>2. CASE x \notin devs
    BY <2>1, <2>2 DEF SameDev
  <2>3. CASE x \in devs
    <3>1. x \in alloc /\ dev[x] \in DevLoose /\ dev'[x] = [dev[x] EXCEPT !.rx = h]
      BY <1>0, <1>4, <2>1, <2>3
    <3> QED BY ONLY <1>2, <1>3, <3>1 DEF SameDev
  <2> QED BY <2>2, <2>3
<1> QED BY <1>6, <1>7

\* ovs_dp_detach_port() of a port other than the local one; b is what the caller leaves.
LEMMA Detaches ==
  ASSUME Inv, NEW t \in Actors, NEW v \in Vports, NEW d \in Dps, NEW b \in CmdType,
         v \in dp[d].ports, vport[v].no # OVSP_LOCAL, ovs_dp_detach_port(t, v, b),
         \/ cmd[t].pc \in Holding /\ ovs_mutex' = ovs_mutex
         \/ ovs_mutex = NULL /\ ovs_mutex' = t,
         cmd[t].pc \notin Adding \cup Removing,
         b.what \in {"vport_del", "dp_del", "exit_net", "exit_vports", "notify"},
         b.what \in {"vport_del", "dp_del", "exit_net"} => b.dp = d /\ b.todo = {},
         b.what = "notify" <=> t = Worker,
         cmd[t].pc = "dp_ports" => cmd[t].dp = d,
         \A x \in b.todo : x # v /\ In(x) /\ vport[x].no # OVSP_LOCAL,
         dev' \in [Devs -> DevLoose], \A x \in Devs : SameDev(x) /\ (x \notin alloc => dev'[x] = dev[x]),
         UNCHANGED <<alloc, pend, wait, rcu, vport, dev_table, rtnl, work, dead>>
  PROVE  Inv'
<1>0. dp \in [Dps -> DpType] /\ dp[d].listed /\ vport[v].dp = d
  BY DEF Inv, TypeInv, DpsInv, DpInv
<1>1. PICK c \in CmdType : /\ cmd' = [cmd EXCEPT ![t] = c] /\ c.pc = "unhash" /\ c.vport = v
                           /\ c.what = b.what /\ c.dp = b.dp /\ c.todo = b.todo
  <2> DEFINE c == [b EXCEPT !.vport = v, !.pc = "unhash"]
  <2>1. \A y \in CmdType : [y EXCEPT !.vport = v, !.pc = "unhash"] \in CmdType
    BY ZenonT(60) DEF CmdType, Holding, Removing, OrNull
  <2>2. c \in CmdType
    BY <2>1
  <2>3. c.pc = "unhash" /\ c.vport = v /\ c.what = b.what /\ c.dp = b.dp /\ c.todo = b.todo
    BY DEF CmdType
  <2>4. cmd' = [cmd EXCEPT ![t] = c]
    BY DEF ovs_dp_detach_port
  <2> HIDE DEF c
  <2> QED BY <2>2, <2>3, <2>4
<1>2. /\ dp' \in [Dps -> DpType] /\ \A x \in Dps : x # d => dp'[x] = dp[x]
      /\ dp'[d].ports = dp[d].ports \ {v} /\ dp'[d].net = dp[d].net /\ dp'[d].listed
  <2> DEFINE z == [dp[d] EXCEPT !.ports = @ \ {v}]
  <2>1. dp' = [dp EXCEPT ![d] = z]
    BY <1>0 DEF ovs_dp_detach_port
  <2>2. \A y \in DpType : [y EXCEPT !.ports = @ \ {v}] \in DpType
    <3>1. \A y \in DpType, p \in SUBSET Vports : [y EXCEPT !.ports = p] \in DpType
      BY DEF DpType
    <3>2. \A y \in DpType : y.ports \ {v} \in SUBSET Vports
      BY DEF DpType
    <3> QED BY <3>1, <3>2
  <2>3. z \in DpType
    BY <1>0, <2>2
  <2>4. z.ports = dp[d].ports \ {v} /\ z.net = dp[d].net
    BY <1>0 DEF DpType
  <2>5. z.listed
    BY <1>0 DEF DpType
  <2> HIDE DEF z
  <2> QED BY <1>0, <2>1, <2>3, <2>4, <2>5
<1>3. /\ c.what \in {"vport_del", "dp_del", "exit_net", "exit_vports", "notify"}
      /\ c.what \in {"vport_del", "dp_del", "exit_net"} => c.dp = d /\ c.todo = {}
      /\ c.what = "notify" <=> t = Worker
      /\ \A x \in c.todo : x # v /\ In(x) /\ vport[x].no # OVSP_LOCAL
  BY <1>1
<1>4. /\ v \in dp[d].ports
      /\ \/ cmd[t].pc \in Holding /\ ovs_mutex' = ovs_mutex
         \/ ovs_mutex = NULL /\ ovs_mutex' = t
      /\ cmd[t].pc \notin Adding \cup Removing
      /\ cmd[t].pc = "dp_ports" => cmd[t].dp = d
      /\ dev' \in [Devs -> DevLoose] /\ \A x \in Devs : SameDev(x) /\ (x \notin alloc => dev'[x] = dev[x])
      /\ UNCHANGED <<alloc, pend, wait, rcu, vport, dev_table, rtnl, work, dead>>
      /\ dp'[d].listed => dp[d].listed /\ vport[v].no # OVSP_LOCAL
      /\ ~dp'[d].listed => dp'[d].ports = {} /\ c.what \in {"dp_del", "exit_net"}
  BY <1>0, <1>2
<1>5. Taking(t, v, d, c)
  BY ONLY <1>1, <1>2, <1>3, <1>4 DEF Taking
<1> QED BY <1>5, DetachStep

LEMMA VportDel ==
  ASSUME Inv, NEW t \in Threads, NEW v \in Vports, ovs_vport_cmd_del(t, v)
  PROVE  Inv'
<1>0. /\ TypeInv /\ LockInv /\ VportsInv /\ t \in Actors /\ t # Worker
      /\ dp \in [Dps -> DpType] /\ vport \in [Vports -> VportType]
  BY Constants, ConstantsAssumption DEF Inv, TypeInv
<1>1. /\ cmd[t].pc = "idle" /\ ovs_mutex = NULL /\ ovs_mutex' = t /\ v \in FoundVports /\ vport[v].no # OVSP_LOCAL
      /\ dev' = SetHeadroom({v}, 0)
      /\ UNCHANGED <<alloc, pend, wait, rcu, vport, dev_table, rtnl, work, dead>>
  BY DEF ovs_vport_cmd_del, memory, others, readers
<1>2. In(v)
  <2>1. CASE \E d \in FoundDps : v \in dp[d].ports
    <3>1. PICK x \in Devs : get_dp(x) # NULL /\ v \in dp[get_dp(x)].ports
      BY <2>1 DEF FoundDps
    <3>2. get_dp(x) \in Dps
      BY <1>1, <3>1, FoundDp, Constants
    <3> QED BY <3>1, <3>2 DEF In
  <2>2. CASE \E net \in Nets, n \in Names : v \in ovs_vport_locate(net, n)
    <3>1. dev_table[v] # NULL
      BY <2>2, Constants DEF ovs_vport_locate
    <3>2. ~InHand(v)
      BY <1>0, <1>1, Constants, Nobody
    <3> QED BY <1>0, <3>1, <3>2 DEF VportsInv, VportInv
  <2> QED BY <1>1, <2>1, <2>2 DEF FoundVports
<1>3. PICK d \in Dps : v \in dp[d].ports
  BY <1>2 DEF In
<1>4. vport[v].dp = d
  BY <1>3 DEF Inv, DpsInv, DpInv
<1>5. PICK b \in CmdType : ovs_dp_detach_port(t, v, b) /\ b.what = "vport_del" /\ b.dp = d /\ b.todo = {}
  <2>1. PICK h \in BOOLEAN : h = (FwdHeadroom(v) = dp[d].max_headroom)
    OBVIOUS
  <2> DEFINE a(y, n) == [y EXCEPT !.what = "vport_del", !.dp = d, !.net = n]
             b(y, n) == [y EXCEPT !.what = "vport_del", !.dp = d, !.net = n, !.headroom = h]
  <2>2. \A y \in CmdType, n \in OrNull(Nets) : a(y, n) \in CmdType
    BY DEF CmdType, OrNull
  <2>3. \A y \in CmdType : [y EXCEPT !.headroom = h] \in CmdType
    BY DEF CmdType
  <2>4. \A y \in CmdType, n \in OrNull(Nets) : b(y, n) = [a(y, n) EXCEPT !.headroom = h]
    <3> TAKE y \in CmdType, n \in OrNull(Nets)
    <3> QED BY DEF CmdType
  <2>5. \A y \in CmdType, n \in OrNull(Nets) : b(y, n).what = "vport_del" /\ b(y, n).dp = d /\ b(y, n).todo = y.todo
    BY DEF CmdType
  <2>6. ovs_dp_detach_port(t, v, b(Idle, dp[d].net))
    BY <1>4, <2>1 DEF ovs_vport_cmd_del
  <2>7. dp[d].net \in OrNull(Nets)
    BY <1>0 DEF DpType
  <2> HIDE DEF a, b
  <2>8. b(Idle, dp[d].net) \in CmdType
    BY <2>2, <2>3, <2>4, <2>7, IdleType
  <2>9. b(Idle, dp[d].net).what = "vport_del" /\ b(Idle, dp[d].net).dp = d /\ b(Idle, dp[d].net).todo = {}
    BY <2>5, <2>7, IdleType
  <2> QED BY <2>6, <2>8, <2>9
<1>6. dev' \in [Devs -> DevLoose] /\ \A x \in Devs : SameDev(x) /\ (x \notin alloc => dev'[x] = dev[x])
  <2>1. {v} \in SUBSET Vports /\ 0 \in Nat
    OBVIOUS
  <2> QED BY <1>0, <1>1, <2>1, SetsHeadroom
<1>7. cmd[t].pc \notin Adding \cup Removing \cup {"dp_ports"}
  BY <1>1 DEF Adding, Removing
<1> QED BY <1>0, <1>1, <1>3, <1>5, <1>6, <1>7, Detaches

\* A port that is not the local port is taken out of a datapath that is destroyed.
LEMMA DpDetaches ==
  ASSUME Inv, NEW t \in Actors, __dp_destroy(t), NEW v \in Vports, v \in dp[cmd[t].dp].ports, vport[v].no # OVSP_LOCAL,
         ovs_dp_detach_port(t, v, cmd[t]), UNCHANGED <<pend, wait, ovs_mutex>>
  PROVE  Inv'
<1>0. TypeInv /\ dev \in [Devs -> DevLoose] /\ cmd[t] \in CmdType
  BY DEF Inv, TypeInv
<1>1. /\ cmd[t].pc = "dp_ports" /\ CmdInv(t) /\ UNCHANGED <<alloc, rcu, vport, dev_table, dev, rtnl, work, dead>>
  BY DEF __dp_destroy, others, readers, Inv, CmdsInv
<1>2. PICK d \in Dps : d = cmd[t].dp
  BY <1>1 DEF CmdInv
<1>3. /\ cmd[t].what \in {"dp_del", "exit_net"} /\ cmd[t].todo = {} /\ t # Worker
      /\ cmd[t].pc \in Holding /\ cmd[t].pc \notin Adding \cup Removing
  BY <1>1 DEF CmdInv, Holding, Adding, Removing
<1>4. dev' \in [Devs -> DevLoose] /\ \A x \in Devs : SameDev(x) /\ (x \notin alloc => dev'[x] = dev[x])
  BY <1>0, <1>1 DEF SameDev
<1> QED BY <1>0, <1>1, <1>2, <1>3, <1>4, Detaches

\* The last one is the local port.
LEMMA DpDetachesLocal ==
  ASSUME Inv, NEW t \in Actors, __dp_destroy(t), {x \in dp[cmd[t].dp].ports : vport[x].no # OVSP_LOCAL} = {},
         NEW v \in Vports, v \in dp[cmd[t].dp].ports,
         dp' = [dp EXCEPT ![cmd[t].dp].ports = @ \ {v}, ![cmd[t].dp].listed = FALSE],
         cmd' = [cmd EXCEPT ![t].vport = v, ![t].pc = "unhash"], UNCHANGED <<pend, wait, ovs_mutex>>
  PROVE  Inv'
<1>0. TypeInv /\ dev \in [Devs -> DevLoose] /\ cmd[t] \in CmdType /\ dp \in [Dps -> DpType]
  BY DEF Inv, TypeInv
<1>1. /\ cmd[t].pc = "dp_ports" /\ CmdInv(t) /\ UNCHANGED <<alloc, rcu, vport, dev_table, dev, rtnl, work, dead>>
  BY DEF __dp_destroy, others, readers, Inv, CmdsInv
<1>2. PICK d \in Dps : d = cmd[t].dp
  BY <1>1 DEF CmdInv
<1>3. /\ cmd[t].what \in {"dp_del", "exit_net"} /\ cmd[t].todo = {} /\ t # Worker
      /\ cmd[t].pc \in Holding /\ cmd[t].pc \notin Adding \cup Removing
  BY <1>1 DEF CmdInv, Holding, Adding, Removing
<1>4. dev' \in [Devs -> DevLoose] /\ \A x \in Devs : SameDev(x) /\ (x \notin alloc => dev'[x] = dev[x])
  BY <1>0, <1>1 DEF SameDev
<1>5. dp[d].ports = {v}
  <2>1. DpInv(d) /\ dp[d].ports \subseteq Vports
    BY <1>0 DEF Inv, DpsInv, DpType
  <2>2. \A x \in dp[d].ports : vport[x].no = OVSP_LOCAL
    BY <1>2
  <2>3. \A x \in dp[d].ports : x = v
    BY <1>2, <2>1, <2>2 DEF DpInv
  <2> QED BY <1>2, <2>3
<1>6. PICK c \in CmdType : /\ cmd' = [cmd EXCEPT ![t] = c] /\ c.pc = "unhash" /\ c.vport = v
                           /\ c.what = cmd[t].what /\ c.dp = d /\ c.todo = {}
  <2> DEFINE c == [cmd[t] EXCEPT !.vport = v, !.pc = "unhash"]
  <2>1. \A y \in CmdType : [y EXCEPT !.vport = v, !.pc = "unhash"] \in CmdType
    BY ZenonT(60) DEF CmdType, Holding, Removing, OrNull
  <2>2. c \in CmdType
    BY <1>0, <2>1
  <2>3. c.pc = "unhash" /\ c.vport = v /\ c.what = cmd[t].what /\ c.dp = d /\ c.todo = {}
    BY <1>0, <1>2, <1>3 DEF CmdType
  <2>4. cmd' = [cmd EXCEPT ![t] = c]
    OBVIOUS
  <2> HIDE DEF c
  <2> QED BY <2>2, <2>3, <2>4
<1>7. /\ dp' \in [Dps -> DpType] /\ \A x \in Dps : x # d => dp'[x] = dp[x]
      /\ dp'[d].ports = {} /\ dp'[d].net = dp[d].net /\ ~dp'[d].listed
  <2> DEFINE z == [dp[d] EXCEPT !.ports = {}, !.listed = FALSE]
  <2>1. dp' = [dp EXCEPT ![d] = z]
    <3>1. dp' = [dp EXCEPT ![d] = [dp[d] EXCEPT !.ports = @ \ {v}, !.listed = FALSE]]
      BY <1>2
    <3>2. dp[d].ports \ {v} = {}
      BY <1>5
    <3> QED BY <3>1, <3>2
  <2>2. z \in DpType
    BY <1>0 DEF DpType
  <2>4. z.ports = {} /\ z.net = dp[d].net
    BY <1>0 DEF DpType
  <2>5. ~z.listed
    BY <1>0 DEF DpType
  <2> HIDE DEF z
  <2> QED BY <1>0, <2>1, <2>2, <2>4, <2>5
<1>8. dp[d].ports \ {v} = {}
  BY <1>5
<1>9. Taking(t, v, d, c)
  BY <1>1, <1>2, <1>3, <1>4, <1>5, <1>6, <1>7, <1>8 DEF Taking
<1> QED BY <1>9, DetachStep

\* list_vports_from_net() and the work take their ports one after the other.
LEMMA ListDetaches ==
  ASSUME Inv, NEW t \in Actors, cmd[t].pc \in {"exit_vports", "notify"}, NEW v \in cmd[t].todo,
         ovs_dp_detach_port(t, v, [cmd[t] EXCEPT !.todo = @ \ {v}]),
         UNCHANGED <<memory, vport, dev_table, dev, others, ovs_mutex, rtnl, readers>>
  PROVE  Inv'
<1>0. TypeInv /\ dev \in [Devs -> DevLoose] /\ cmd[t] \in CmdType /\ CmdInv(t)
  BY DEF Inv, TypeInv, CmdsInv
<1>1. UNCHANGED <<alloc, pend, wait, rcu, vport, dev_table, dev, rtnl, work, dead, ovs_mutex>>
  BY DEF memory, others, readers
<1>2. v \in Vports /\ In(v) /\ vport[v].no # OVSP_LOCAL
  BY <1>0 DEF CmdInv, CmdType
<1>3. PICK d \in Dps : v \in dp[d].ports
  BY <1>2 DEF In
<1>4. PICK b \in CmdType : ovs_dp_detach_port(t, v, b) /\ b.what = cmd[t].what /\ b.todo = cmd[t].todo \ {v}
  <2> DEFINE b == [cmd[t] EXCEPT !.todo = @ \ {v}]
  <2>1. \A y \in CmdType, s \in SUBSET Vports : [y EXCEPT !.todo = s] \in CmdType
    BY DEF CmdType
  <2>2. cmd[t].todo \ {v} \in SUBSET Vports
    BY <1>0 DEF CmdType
  <2>3. b \in CmdType
    BY <1>0, <2>1, <2>2
  <2>4. b.what = cmd[t].what /\ b.todo = cmd[t].todo \ {v}
    BY <1>0 DEF CmdType
  <2> HIDE DEF b
  <2>5. ovs_dp_detach_port(t, v, b)
    BY DEF b
  <2> QED BY <2>3, <2>4, <2>5
<1>5. /\ cmd[t].pc \in Holding /\ cmd[t].pc \notin Adding \cup Removing /\ cmd[t].pc # "dp_ports"
  BY DEF Holding, Adding, Removing
<1>6. b.what \in {"exit_vports", "notify"} /\ (b.what = "notify" <=> t = Worker)
  BY <1>0, <1>4 DEF CmdInv, Removing
<1>7. \A x \in b.todo : x # v /\ In(x) /\ vport[x].no # OVSP_LOCAL
  BY <1>0, <1>4 DEF CmdInv
<1>8. dev' \in [Devs -> DevLoose] /\ \A x \in Devs : SameDev(x) /\ (x \notin alloc => dev'[x] = dev[x])
  BY <1>0, <1>1 DEF SameDev
<1> QED BY <1>1, <1>2, <1>3, <1>4, <1>5, <1>6, <1>7, <1>8, Detaches

\* A command fails: what it has allocated, and the reference it has taken, are given back.
LEMMA Freed ==
  ASSUME Inv, NEW t \in Actors, cmd[t].pc \in {"create", "get_dev", "link"}, FreeNew(t), Finish(t),
         NEW e \in OrNull(Devs), e = vport[cmd[t].vport].dev,
         e = NULL => UNCHANGED dev, e # NULL => dev' = [dev EXCEPT ![e].ref = @ - 1],
         UNCHANGED <<pend, wait, dev_table, others, rtnl, readers>>
  PROVE  Inv'
<1>0. /\ TypeInv /\ LockInv /\ VportsInv /\ DpsInv /\ CmdsInv /\ DevsInv /\ RefsBalanced /\ dev \in [Devs -> DevLoose]
      /\ vport \in [Vports -> VportType] /\ dp \in [Dps -> DpType] /\ cmd \in [Actors -> CmdType]
  BY DEF Inv, TypeInv
<1>1. /\ AddInv(t) /\ cmd[t].pc \in Adding /\ cmd[t].pc \in Holding /\ cmd[t].pc # "synchronize_net" /\ ovs_mutex = t
      /\ UNCHANGED <<pend, wait, rcu, dev_table, rtnl, work, dead>> /\ ovs_mutex' = NULL /\ cmd' = [cmd EXCEPT ![t] = Idle]
  <2>1. cmd[t].pc \in Adding /\ cmd[t].pc \in Holding /\ cmd[t].pc # "synchronize_net"
    BY DEF Adding, Holding
  <2> QED BY <1>0, <2>1 DEF others, readers, CmdsInv, LockInv, Finish
<1>v. PICK v \in Vports, d \in Dps : v = cmd[t].vport /\ d = cmd[t].dp
  BY <1>1 DEF AddInv
<1>2. /\ cmd' \in [Actors -> CmdType] /\ cmd'[t] = Idle /\ \A u \in Actors : u # t => cmd'[u] = cmd[u]
  BY <1>0, <1>1, IdleType, CmdFrame
<1>3. /\ v \in alloc \ pend /\ VportInv(v) /\ dev_table[v] = NULL /\ d \in alloc \ pend
      /\ cmd[t].what \in {"dp_new", "vport_new"} /\ e = vport[v].dev
      /\ e # NULL => vport[v].type # "internal" /\ (dev[e].attached => dev[e].vport # v)
      /\ cmd[t].what = "dp_new" => ~dp[d].listed
  BY <1>0, <1>1, <1>v DEF AddInv, VportsInv
<1>e. e # NULL => /\ e \in Devs /\ e \in alloc /\ dev[e].kind # "internal"
  BY <1>3, <1>v, Constants DEF VportInv, OrNull
<1>4. PICK gone \in {{}, {d}} : gone = (IF cmd[t].what = "dp_new" THEN {d} ELSE {})
  OBVIOUS
<1>5. /\ alloc' = alloc \ ({v} \cup gone)
      /\ vport' = [vport EXCEPT ![v] = NoVport]
      /\ dp' = [x \in Dps |-> IF x \in gone THEN NoDp ELSE dp[x]]
  <2>1. CASE cmd[t].what = "dp_new"
    BY <1>0, <1>4, <1>v, <2>1 DEF FreeNew
  <2>2. CASE cmd[t].what # "dp_new"
    BY <1>0, <1>4, <1>v, <2>2 DEF FreeNew
  <2> QED BY <2>1, <2>2
<1>6. vport'[v] = NoVport /\ \A x \in Vports : x # v => vport'[x] = vport[x]
  BY <1>0, <1>5
<1>7. /\ dev' \in [Devs -> DevLoose] /\ \A x \in Devs : x # e => dev'[x] = dev[x]
      /\ e # NULL => /\ dev'[e].kind = dev[e].kind /\ dev'[e].name = dev[e].name /\ dev'[e].net = dev[e].net /\ dev'[e].reg = dev[e].reg
                     /\ dev'[e].vport = dev[e].vport /\ dev'[e].attached = dev[e].attached /\ dev'[e].promisc = dev[e].promisc
                     /\ dev'[e].ref = dev[e].ref - 1
  <2>1. CASE e = NULL
    BY <1>0, <2>1
  <2>2. CASE e # NULL
    <3> DEFINE z == [dev[e] EXCEPT !.ref = @ - 1]
    <3>1. dev' = [dev EXCEPT ![e] = z]
      BY <2>2
    <3>2. dev[e] \in DevLoose
      BY <1>0, <1>e, <2>2
    <3>3. /\ z \in DevLoose /\ z.ref = dev[e].ref - 1
          /\ z.kind = dev[e].kind /\ z.name = dev[e].name /\ z.net = dev[e].net /\ z.reg = dev[e].reg
          /\ z.vport = dev[e].vport /\ z.attached = dev[e].attached /\ z.promisc = dev[e].promisc
      BY <3>2, DevFields
    <3> HIDE DEF z
    <3> QED BY <1>0, <1>e, <2>2, <3>1, <3>3
  <2> QED BY <2>1, <2>2
<1>8. /\ \A x \in Vports : x # v => (x \in alloc' <=> x \in alloc)
      /\ \A x \in Devs : x \in alloc' <=> x \in alloc
      /\ \A x \in Dps : x # d => (x \in alloc' <=> x \in alloc) /\ dp'[x] = dp[x]
      /\ v \notin alloc'
  BY <1>4, <1>5, Constants
<1>9. TypeInv'
  <2>1. NoDp \in DpType
    BY DEF NoDp, DpType, OrNull
  <2>2. dp' \in [Dps -> DpType] /\ vport' \in [Vports -> VportType]
    BY <1>0, <1>5, <2>1, VportFields
  <2>3. alloc' \subseteq Obj /\ pend' \subseteq alloc' /\ pend' \cap Devs = {}
    BY <1>0, <1>1, <1>3, <1>4, <1>5 DEF TypeInv
  <2> QED BY <1>0, <1>1, <1>2, <1>7, <2>2, <2>3 DEF TypeInv
<1>10. LockInv'
  <2>1. Idle.pc \notin Holding /\ Idle.pc # "synchronize_net"
    BY IdleType DEF Holding, Adding, Removing
  <2> QED BY <1>0, <1>1, <1>2, <2>1, LockStep
<1>11. AddInv(t)' /\ RemoveInv(t)' /\ CmdInv(t)'
  BY <1>2, IdleType, IdleCmd DEF AddInv, RemoveInv, Adding, Removing
<1>12. ~In(v) /\ InHand(v)
  <2>1. InHand(v)
    BY <1>1, <1>v DEF InHand, Adds
  <2> QED BY <1>3, <2>1 DEF VportInv
<1>13. \A x \in Dps : dp'[x].ports = dp[x].ports
  <2>1. dp'[d].ports = dp[d].ports
    <3>1. d \in gone => dp[d].ports = {}
      BY <1>0, <1>3, <1>4 DEF DpsInv, DpInv
    <3> QED BY <1>5, <3>1 DEF NoDp
  <2> QED BY <1>8, <2>1
<1>14. \A x : In(x)' <=> In(x)
  BY <1>13 DEF In
<1>15. \A x : ~InHand(x)'
  <2>1. \A u \in Actors : u # t => cmd'[u].pc \notin Holding
    BY <1>0, <1>1, <1>2, HolderStep
  <2> QED BY <1>2, <2>1, Steps, IdleType DEF InHand, Adds, Removes, Adding, Removing
<1>16. VportInv(v)'
  BY <1>1, <1>3, <1>6, <1>8, <1>12, <1>14, <1>15, VportFields DEF VportInv
<1>17. DpInv(d)'
  <2>1. DpInv(d) /\ v \notin dp[d].ports /\ dp[d].ports \subseteq Vports
    BY <1>0, <1>12 DEF DpsInv, In, DpType
  <2>2. CASE cmd[t].what = "dp_new"
    <3>1. d \notin alloc' /\ dp'[d] = NoDp
      BY <1>4, <1>5, <2>2
    <3> QED BY <1>1, <1>3, <3>1 DEF DpInv, NoDp
  <2>3. CASE cmd[t].what # "dp_new"
    <3>1. d \in alloc' /\ dp'[d] = dp[d]
      <4>1. d # v
        BY Constants
      <4> QED BY <1>3, <1>4, <1>5, <2>3, <4>1
    <3>2. \A x \in dp[d].ports : /\ vport'[x] = vport[x] /\ x \in alloc' \ pend'
                                 /\ vport[x].no = OVSP_LOCAL => dev'[vport[x].dev].net = dev[vport[x].dev].net
      <4> SUFFICES ASSUME NEW x \in dp[d].ports
                   PROVE  /\ vport'[x] = vport[x] /\ x \in alloc' \ pend'
                          /\ vport[x].no = OVSP_LOCAL => dev'[vport[x].dev].net = dev[vport[x].dev].net
        OBVIOUS
      <4>1. x # v /\ x \in Vports /\ x \in alloc \ pend /\ In(x)
        BY <2>1 DEF In, DpInv
      <4>2. vport[x].dev \in Devs
        BY <1>0, <4>1 DEF VportsInv, VportInv, VportType, OrNull
      <4> QED BY <1>1, <1>6, <1>7, <1>8, <4>1, <4>2, Constants
    <3>3. dp[d].listed
      BY <1>1, <1>v, <2>3 DEF AddInv
    <3> QED BY <1>1, <1>3, <2>1, <3>1, <3>2, <3>3 DEF DpInv
  <2> QED BY <2>2, <2>3
<1>18. e \in Devs => DevInv(e)'
  <2> SUFFICES ASSUME e \in Devs
               PROVE  DevInv(e)'
    OBVIOUS
  <2>1. DevInv(e) /\ e # NULL
    BY <1>0, Constants DEF DevsInv
  <2>2. PICK w : w = dev[e].vport
    OBVIOUS
  <2>3. dev[e].attached => w \in Vports /\ w \in alloc' \ pend' /\ vport'[w].dev = e /\ In(w)'
    <3> SUFFICES ASSUME dev[e].attached
                 PROVE  w \in Vports /\ w \in alloc' \ pend' /\ vport'[w].dev = e /\ In(w)'
      OBVIOUS
    <3>1. w \in Vports /\ w \in alloc \ pend /\ vport[w].dev = e /\ (In(w) \/ InHand(w)) /\ w # v
      BY <1>3, <2>1, <2>2 DEF DevInv
    <3>2. ~InHand(w)
      BY <1>0, <1>1, <1>v, <3>1, Holder DEF Adds, Removes
    <3> QED BY <1>1, <1>6, <1>8, <1>14, <3>1, <3>2
  <2>4. /\ e \in alloc' /\ dev[e].reg # "none" /\ dev[e].name \in Names /\ dev[e].net \in Nets /\ dev[e].kind # "internal"
    BY <1>8, <1>e, <2>1 DEF DevInv
  <2> QED BY <1>7, <2>1, <2>2, <2>3, <2>4 DEF DevInv
<1>19. \A x \in Devs : RefInv(x)'
  <2> TAKE x \in Devs
  <2>1. RefInv(x)
    BY <1>0, RefsByDevice
  <2>2. CASE x # e
    <3>1. \A w \in Vports : vport'[w].dev = x /\ vport'[w].type # "internal" <=> vport[w].dev = x /\ vport[w].type # "internal"
      BY <1>3, <1>6, <2>2, VportFields
    <3> QED BY <1>7, <2>1, <2>2, <3>1, RefFrame
  <2>3. CASE x = e
    <3>1. e # NULL
      BY <2>3, Constants
    <3>2. v \in Held(e)
      BY <1>3, <3>1 DEF Held
    <3>3. Held(e)' = Held(e) \ {v}
      BY <1>6, VportFields DEF Held
    <3>4. Promisc(e)'
      BY <1>7, <2>1, <2>3, <3>1 DEF RefInv, Promisc, Registered
    <3> QED BY <1>7, <2>1, <2>3, <3>1, <3>2, <3>3, <3>4, RefDropped
  <2> QED BY <2>2, <2>3
<1>20. Around(t, v, d, e)
  <2>1. /\ \A x \in Dps : x # d => v \notin dp[x].ports /\ (Owns(t, x) => Owns(t, x)')
    <3>1. \A x \in Dps : x # d => ~Owns(t, x)
      BY <1>v DEF Owns
    <3> QED BY <1>12, <3>1 DEF In
  <2>2. \A x \in Devs : x # e => SameDev(x) /\ (x \notin alloc => dev'[x] = dev[x]) /\ (x \in alloc' <=> x \in alloc)
    BY <1>7, <1>8 DEF SameDev
  <2>3. \A x \in Devs : x # e /\ dev[x].vport = v /\ (dev[x].kind = "internal" \/ dev[x].attached) => FALSE
    BY <1>0, <1>3 DEF DevsInv, DevInv
  <2>4. \A x \in Vports : x # v /\ vport[x].dev = e /\ e \in Devs =>
           e \in alloc' /\ dev'[e].kind = dev[e].kind /\ dev[e].kind # "internal"
    BY <1>7, <1>8, <1>e, Constants
  <2>5. /\ \A x \in Vports : x # v => /\ vport'[x] = vport[x] /\ dev_table'[x] = dev_table[x] /\ (In(x)' <=> In(x))
                                     /\ (x \in alloc' <=> x \in alloc) /\ (x \in pend' <=> x \in pend)
        /\ cmd'[t].pc \notin Adding \cup Removing
    BY <1>1, <1>2, <1>6, <1>8, <1>14, IdleType DEF Adding, Removing
  <2>6. /\ \A x \in Dps : x # d => /\ dp'[x].ports = dp[x].ports /\ dp'[x].listed = dp[x].listed /\ dp'[x].net = dp[x].net
                                   /\ (x \in alloc' <=> x \in alloc) /\ (x \in pend' <=> x \in pend)
    BY <1>1, <1>8
  <2> QED BY ONLY <1>1, <1>2, <1>v, <2>1, <2>2, <2>3, <2>4, <2>5, <2>6 DEF Around
<1> QED BY <1>9, <1>10, <1>11, <1>16, <1>17, <1>18, <1>19, <1>20, OneStep DEF OrNull
================================================================================
