----------------------------- MODULE DatapathProofs -----------------------------
(***************************************************************************)
(* The rest of the proofs about datapaths, ports and devices: the commands *)
(* that destroy, the events of devices, RCU callbacks and readers, and     *)
(* what the inductive invariant of DatapathCommands is for.                *)
(***************************************************************************)
EXTENDS DatapathCommands

\* update_headroom(): among some ports one needs the most headroom.
LEMMA Greatest ==
  ASSUME NEW ports \in SUBSET Vports, ports # {}, NEW f \in [ports -> Nat]
  PROVE  \E v \in ports : \A u \in ports : f[u] <= f[v]
<1> DEFINE above(v) == {u \in ports : f[u] > f[v]}
           counts == {Cardinality(above(v)) : v \in ports}
<1>1. \A v \in ports : Cardinality(above(v)) \in Nat
  <2>1. \A v \in ports : above(v) \subseteq Vports
    OBVIOUS
  <2> HIDE DEF above
  <2> QED BY <2>1, Counting
<1>2. PICK v \in ports : \A u \in ports : ~(Cardinality(above(u)) < Cardinality(above(v)))
  <2>1. counts \subseteq Nat /\ counts # {}
    BY <1>1
  <2>2. \E n \in counts : \A m \in counts : <<m, n>> \notin OpToRel(<, Nat)
    BY <2>1, NatLessThanWellFounded, WFMin
  <2>3. PICK n \in counts : \A m \in counts : ~(m < n)
    BY <2>1, <2>2 DEF OpToRel
  <2>4. PICK v \in ports : n = Cardinality(above(v))
    OBVIOUS
  <2> QED BY <2>3, <2>4
<1>3. ASSUME NEW u \in ports, f[u] > f[v]
      PROVE  FALSE
  <2>1. above(u) \subseteq above(v) \ {u} /\ u \in above(v) /\ above(v) \subseteq Vports
    BY <1>3
  <2> HIDE DEF above
  <2>2. Cardinality(above(v) \ {u}) = Cardinality(above(v)) - 1
    BY <2>1, Counting
  <2>3. Cardinality(above(u)) <= Cardinality(above(v) \ {u})
    <3>1. IsFiniteSet(above(v) \ {u})
      BY <2>1, Counting
    <3> QED BY <2>1, <3>1, FS_Subset
  <2> QED BY <1>1, <1>2, <2>2, <2>3
<1>4. \A u \in ports : f[u] <= f[v]
  BY <1>3
<1> QED BY <1>4

LEMMA MaxHeadroomType ==
  ASSUME TypeInv, NEW ports \in SUBSET Vports, \A v \in ports : vport[v].dev \in Devs
  PROVE  /\ MaxHeadroom(ports) \in Nat
         /\ \A v \in ports : FwdHeadroom(v) \in Nat /\ FwdHeadroom(v) <= MaxHeadroom(ports)
<1>1. \A v \in ports : FwdHeadroom(v) \in Nat
  BY ConstantsAssumption DEF FwdHeadroom, TypeInv
<1> DEFINE h == {FwdHeadroom(v) : v \in ports} \cup {0}
<1>2. \E x \in h : x \in Nat /\ \A y \in h : y <= x
  <2>1. CASE ports = {}
    BY <2>1
  <2>2. CASE ports # {}
    <3> DEFINE f == [v \in ports |-> FwdHeadroom(v)]
    <3>1. f \in [ports -> Nat] /\ \A v \in ports : f[v] = FwdHeadroom(v)
      BY <1>1
    <3> HIDE DEF f
    <3>2. PICK v \in ports : \A u \in ports : f[u] <= f[v]
      BY <2>2, <3>1, Greatest
    <3>3. FwdHeadroom(v) \in h /\ FwdHeadroom(v) \in Nat /\ \A y \in h : y <= FwdHeadroom(v)
      BY <1>1, <3>1, <3>2
    <3> QED BY <3>3
  <2> QED BY <2>1, <2>2
<1>3. h \subseteq Nat
  BY <1>1
<1>4. MaxHeadroom(ports) = CHOOSE x \in h : \A y \in h : y <= x
  BY DEF MaxHeadroom
<1>5. \A v \in ports : FwdHeadroom(v) \in h
  OBVIOUS
<1> HIDE DEF h
<1>6. MaxHeadroom(ports) \in h /\ \A y \in h : y <= MaxHeadroom(ports)
  BY <1>2, <1>4
<1> QED BY <1>1, <1>3, <1>5, <1>6

\* The port a command has made is put into its datapath.
LEMMA Inserts ==
  ASSUME Inv, NEW t \in Actors, new_vport(t)
  PROVE  Inv'
<1>0. /\ TypeInv /\ LockInv /\ VportsInv /\ DpsInv /\ CmdsInv /\ DevsInv /\ RefsBalanced /\ dev \in [Devs -> DevLoose]
      /\ vport \in [Vports -> VportType] /\ dp \in [Dps -> DpType] /\ cmd \in [Actors -> CmdType]
  BY DEF Inv, TypeInv
<1>1. /\ AddInv(t) /\ cmd[t].pc = "insert" /\ cmd[t].pc \in Adding /\ cmd[t].pc \in Holding /\ ovs_mutex = t
      /\ UNCHANGED <<alloc, pend, wait, rcu, vport, dev_table, rtnl, work, dead>> /\ ovs_mutex' = NULL /\ cmd' = [cmd EXCEPT ![t] = Idle]
  <2>1. cmd[t].pc \in Adding /\ cmd[t].pc \in Holding /\ cmd[t].pc = "insert"
    BY DEF Adding, Holding, new_vport
  <2> QED BY <1>0, <2>1 DEF others, readers, memory, CmdsInv, LockInv, Finish, new_vport
<1>v. PICK v \in Vports, d \in Dps : v = cmd[t].vport /\ d = cmd[t].dp
  BY <1>1 DEF AddInv
<1>2. /\ cmd' \in [Actors -> CmdType] /\ cmd'[t] = Idle /\ \A u \in Actors : u # t => cmd'[u] = cmd[u]
  BY <1>0, <1>1, IdleType, CmdFrame
<1>3. /\ v \in alloc \ pend /\ VportInv(v) /\ dev_table[v] # NULL /\ d \in alloc \ pend /\ vport[v].dev \in Devs
      /\ vport[v].dp = d /\ DpInv(d) /\ dp[d].ports \in SUBSET Vports
  BY <1>0, <1>1, <1>v DEF AddInv, VportsInv, VportType, OrNull, DpsInv, DpType
<1>4. ~In(v) /\ InHand(v)
  <2>1. InHand(v)
    BY <1>1, <1>v DEF InHand, Adds
  <2> QED BY <1>3, <2>1 DEF VportInv
<1>5. \A x \in dp[d].ports \cup {v} : vport[x].dev \in Devs
  <2>1. \A x \in dp[d].ports : x \in Vports /\ In(x)
    BY <1>3 DEF In
  <2> QED BY <1>0, <1>3, <2>1 DEF VportsInv, VportInv, VportType, OrNull
<1>6. /\ dp' \in [Dps -> DpType] /\ \A x \in Dps : x # d => dp'[x] = dp[x]
      /\ dp'[d].ports = dp[d].ports \cup {v} /\ dp'[d].net = dp[d].net /\ dp'[d].listed
      /\ dev' \in [Devs -> DevLoose] /\ \A x \in Devs : SameDev(x) /\ (x \notin alloc => dev'[x] = dev[x])
  <2> DEFINE ports == dp[d].ports \cup {v}
  <2>1. ports \in SUBSET Vports
    BY <1>3
  <2>2. MaxHeadroom(ports) \in Nat
    BY <1>0, <1>5, <2>1, MaxHeadroomType
  <2>3. UNCHANGED dev => dev' \in [Devs -> DevLoose] /\ \A x \in Devs : SameDev(x) /\ (x \notin alloc => dev'[x] = dev[x])
    BY <1>0 DEF SameDev
  <2>4. \A y \in DpType : /\ [y EXCEPT !.ports = ports] \in DpType /\ [y EXCEPT !.ports = ports].ports = ports
                          /\ [y EXCEPT !.ports = ports].net = y.net /\ [y EXCEPT !.ports = ports].max_headroom = y.max_headroom
    BY <2>1 DEF DpType
  <2>5. \A y \in DpType : [y EXCEPT !.ports = ports].listed = y.listed
    BY DEF DpType
  <2>6. \A y \in DpType, h \in Nat :
          /\ [y EXCEPT !.ports = ports, !.max_headroom = h] \in DpType
          /\ [y EXCEPT !.ports = ports, !.max_headroom = h].ports = ports
          /\ [y EXCEPT !.ports = ports, !.max_headroom = h].net = y.net
    BY <2>1 DEF DpType
  <2>7. \A y \in DpType, h \in Nat : [y EXCEPT !.ports = ports, !.max_headroom = h].listed = y.listed
    BY DEF DpType
  <2>8. \A y \in DpType :
          /\ [y EXCEPT !.ports = ports, !.listed = TRUE] \in DpType
          /\ [y EXCEPT !.ports = ports, !.listed = TRUE].ports = ports
          /\ [y EXCEPT !.ports = ports, !.listed = TRUE].net = y.net
    BY <2>1 DEF DpType
  <2>9. \A y \in DpType : [y EXCEPT !.ports = ports, !.listed = TRUE].listed
    BY DEF DpType
  <2>10. CASE cmd[t].what = "dp_new"
    <3>1. dp' = [dp EXCEPT ![d] = [dp[d] EXCEPT !.ports = ports, !.listed = TRUE]] /\ UNCHANGED dev
      BY <1>v, <2>10 DEF new_vport
    <3> DEFINE z == [dp[d] EXCEPT !.ports = ports, !.listed = TRUE]
    <3>2. z \in DpType /\ z.ports = ports /\ z.net = dp[d].net /\ z.listed
      BY <1>0, <2>8, <2>9
    <3>3. dp' = [dp EXCEPT ![d] = z]
      BY <3>1
    <3> HIDE DEF z
    <3> QED BY <1>0, <2>3, <3>1, <3>2, <3>3
  <2>11. CASE cmd[t].what # "dp_new"
    <3>0. dp[d].listed /\ dp[d] \in DpType /\ dp[d].max_headroom \in Nat
      BY <1>0, <1>1, <1>v, <2>11 DEF AddInv, DpType
    <3>1. CASE FwdHeadroom(v) > dp[d].max_headroom
      <4> DEFINE h == MaxHeadroom(ports)
                 z == [dp[d] EXCEPT !.ports = ports, !.max_headroom = h]
      <4>1. dp' = [dp EXCEPT ![d] = z] /\ dev' = SetHeadroom(ports, h)
        BY <1>v, <2>11, <3>1 DEF new_vport
      <4>2. z \in DpType /\ z.ports = ports /\ z.net = dp[d].net /\ z.listed
        BY <2>2, <2>6, <2>7, <3>0
      <4> HIDE DEF z, h, ports
      <4>3. h \in Nat
        BY <2>2 DEF h
      <4>4. dev' \in [Devs -> DevLoose] /\ \A x \in Devs : SameDev(x) /\ (x \notin alloc => dev'[x] = dev[x])
        BY <1>0, <2>1, <4>1, <4>3, SetsHeadroom
      <4>5. ports = dp[d].ports \cup {v}
        BY DEF ports
      <4> QED BY <1>0, <4>1, <4>2, <4>4, <4>5
    <3>2. CASE ~(FwdHeadroom(v) > dp[d].max_headroom)
      <4> DEFINE z == [dp[d] EXCEPT !.ports = ports]
      <4>1. dp' = [dp EXCEPT ![d] = z] /\ dev' = SetHeadroom({v}, dp[d].max_headroom)
        BY <1>v, <2>11, <3>2 DEF new_vport
      <4>2. z \in DpType /\ z.ports = ports /\ z.net = dp[d].net /\ z.listed
        BY <2>4, <2>5, <3>0
      <4> HIDE DEF z, ports
      <4>3. {v} \in SUBSET Vports
        OBVIOUS
      <4>4. dev' \in [Devs -> DevLoose] /\ \A x \in Devs : SameDev(x) /\ (x \notin alloc => dev'[x] = dev[x])
        BY <1>0, <3>0, <4>1, <4>3, SetsHeadroom
      <4>5. ports = dp[d].ports \cup {v}
        BY DEF ports
      <4> QED BY <1>0, <4>1, <4>2, <4>4, <4>5
    <3> QED BY <3>1, <3>2
  <2> QED BY <2>10, <2>11
<1>7. TypeInv'
  BY <1>0, <1>1, <1>2, <1>6 DEF TypeInv
<1>8. LockInv'
  <2>1. Idle.pc \notin Holding /\ Idle.pc # "synchronize_net" /\ cmd[t].pc # "synchronize_net"
    BY <1>1, IdleType DEF Holding, Adding, Removing
  <2> QED BY <1>0, <1>1, <1>2, <2>1, LockStep
<1>9. AddInv(t)' /\ RemoveInv(t)' /\ CmdInv(t)'
  BY <1>2, IdleType, IdleCmd DEF AddInv, RemoveInv, Adding, Removing
<1>10. In(v)' /\ ~InHand(v)' /\ \A x \in Vports : x # v => (In(x)' <=> In(x))
  <2>1. In(v)'
    BY <1>6 DEF In
  <2>2. \A x \in Vports : x # v => (In(x)' <=> In(x))
    BY <1>6 DEF In
  <2>3. \A u \in Actors : u # t => cmd'[u].pc \notin Holding
    BY <1>0, <1>1, <1>2, HolderStep
  <2>4. ~InHand(v)'
    BY <1>2, <2>3, Steps, IdleType DEF InHand, Adds, Removes, Adding, Removing
  <2> QED BY <2>1, <2>2, <2>4
<1>11. PICK e \in Devs : e = vport[v].dev
  BY <1>3
<1>12. VportInv(v)'
  <2>1. /\ e \in alloc
        /\ vport[v].type = "internal" <=> dev[e].kind = "internal"
        /\ vport[v].type = "internal" => dev[e].vport = v
    BY <1>3, <1>11, Constants DEF VportInv
  <2> QED BY <1>1, <1>3, <1>6, <1>10, <1>11, <2>1, Constants DEF VportInv, SameDev
<1>13. DpInv(d)'
  <2>1. /\ cmd[t].what = "dp_new" => ~dp[d].listed /\ vport[v].no = OVSP_LOCAL /\ vport[v].type = "internal" /\ dev[e].net = dp[d].net
        /\ cmd[t].what # "dp_new" => dp[d].listed /\ vport[v].no # OVSP_LOCAL /\ \A x \in dp[d].ports : vport[x].no # vport[v].no
    BY <1>1, <1>v, <1>11 DEF AddInv
  <2>2. ~dp[d].listed => dp[d].ports = {}
    BY <1>3 DEF DpInv
  <2>3. dp'[d].listed /\ \E l \in dp'[d].ports : vport'[l].no = OVSP_LOCAL
    <3>1. dp[d].listed => \E l \in dp[d].ports : vport[l].no = OVSP_LOCAL
      BY <1>3 DEF DpInv
    <3> QED BY <1>1, <1>6, <2>1, <3>1
  <2>4. \A x, y \in dp'[d].ports : vport'[x].no = vport'[y].no => x = y
    <3>1. \A x, y \in dp[d].ports : vport[x].no = vport[y].no => x = y
      BY <1>3 DEF DpInv
    <3>2. \A x \in dp[d].ports : vport[x].no # vport[v].no
      BY <2>1, <2>2
    <3> QED BY <1>1, <1>6, <3>1, <3>2
  <2>5. \A x \in dp'[d].ports : /\ x \in alloc' \ pend' /\ vport'[x].dp = d
                                /\ vport'[x].no = OVSP_LOCAL => vport'[x].type = "internal" /\ dev'[vport'[x].dev].net = dp'[d].net
    <3> SUFFICES ASSUME NEW x \in dp'[d].ports
                 PROVE  /\ x \in alloc' \ pend' /\ vport'[x].dp = d
                        /\ vport'[x].no = OVSP_LOCAL => vport'[x].type = "internal" /\ dev'[vport'[x].dev].net = dp'[d].net
      OBVIOUS
    <3>1. CASE x = v
      BY <1>1, <1>3, <1>6, <1>11, <2>1, <3>1 DEF SameDev
    <3>2. CASE x \in dp[d].ports
      <4>1. /\ x \in alloc \ pend /\ vport[x].dp = d
            /\ vport[x].no = OVSP_LOCAL => vport[x].type = "internal" /\ dev[vport[x].dev].net = dp[d].net
        BY <1>3, <3>2 DEF DpInv
      <4>2. dev'[vport[x].dev].net = dev[vport[x].dev].net
        BY <1>5, <1>6, <3>2 DEF SameDev
      <4> QED BY <1>1, <1>6, <4>1, <4>2
    <3> QED BY <1>6, <3>1, <3>2
  <2>6. d \in alloc' \ pend' /\ dp'[d].net \in Nets
    BY <1>1, <1>3, <1>6 DEF DpInv
  <2> QED BY ONLY <2>3, <2>4, <2>5, <2>6 DEF DpInv
<1>14. \A x \in Devs : RefInv(x)'
  BY <1>0, <1>1, <1>6, RefFrame, RefsByDevice DEF SameDev
<1>15. Around(t, v, d, NULL)
  <2>1. /\ \A x \in Dps : x # d => v \notin dp[x].ports /\ (Owns(t, x) => Owns(t, x)')
    <3>1. \A x \in Dps : x # d => ~Owns(t, x)
      BY <1>v DEF Owns
    <3> QED BY <1>4, <3>1 DEF In
  <2>2. \A x \in Devs : SameDev(x) /\ (x \notin alloc => dev'[x] = dev[x]) /\ (x \in alloc' <=> x \in alloc)
    BY <1>1, <1>6
  <2>3. \A x \in Devs : dev[x].vport = v /\ (dev[x].kind = "internal" \/ dev[x].attached) =>
           /\ v \in alloc' \ pend' /\ vport'[v].dev = x /\ (In(v)' \/ InHand(v)') /\ cmd[t].pc # "synchronize_net"
    BY <1>0, <1>1, <1>3, <1>10 DEF DevsInv, DevInv
  <2>4. NULL \notin Devs
    BY Constants
  <2>5. /\ \A x \in Vports : x # v => /\ vport'[x] = vport[x] /\ dev_table'[x] = dev_table[x] /\ (In(x)' <=> In(x))
                                     /\ (x \in alloc' <=> x \in alloc) /\ (x \in pend' <=> x \in pend)
        /\ cmd'[t].pc \notin Adding \cup Removing
    BY <1>1, <1>2, <1>10, IdleType DEF Adding, Removing
  <2>6. /\ \A x \in Dps : x # d => /\ dp'[x].ports = dp[x].ports /\ dp'[x].listed = dp[x].listed /\ dp'[x].net = dp[x].net
                                   /\ (x \in alloc' <=> x \in alloc) /\ (x \in pend' <=> x \in pend)
    BY <1>1, <1>6
  <2> QED BY ONLY <1>1, <1>2, <1>v, <2>1, <2>2, <2>3, <2>4, <2>5, <2>6 DEF Around
<1>16. NULL \notin Devs /\ NULL \in OrNull(Devs) /\ v \in OrNull(Vports) /\ d \in OrNull(Dps)
  BY Constants DEF OrNull
<1> QED BY <1>7, <1>8, <1>9, <1>12, <1>13, <1>14, <1>15, <1>16, OneStep

\* The command adapts the headroom of the ports that are left, and ends.
LEMMA DelHeadroom ==
  ASSUME Inv, NEW t \in Actors, vport_del_headroom(t)
  PROVE  Inv'
<1>0. /\ TypeInv /\ LockInv /\ VportsInv /\ DpsInv /\ CmdsInv /\ DevsInv /\ RefsBalanced /\ dev \in [Devs -> DevLoose]
      /\ vport \in [Vports -> VportType] /\ dp \in [Dps -> DpType] /\ cmd \in [Actors -> CmdType]
  BY DEF Inv, TypeInv
<1>1. /\ CmdInv(t) /\ cmd[t].pc = "headroom" /\ cmd[t].pc \in Holding /\ cmd[t].pc \notin Adding \cup Removing /\ ovs_mutex = t
      /\ UNCHANGED <<alloc, pend, wait, rcu, vport, dev_table, rtnl, work, dead>> /\ ovs_mutex' = NULL /\ cmd' = [cmd EXCEPT ![t] = Idle]
  <2>1. cmd[t].pc \in Holding /\ cmd[t].pc = "headroom" /\ cmd[t].pc \notin Adding \cup Removing
    BY DEF Adding, Removing, Holding, vport_del_headroom
  <2> QED BY <1>0, <2>1 DEF others, readers, memory, CmdsInv, LockInv, Finish, vport_del_headroom
<1>v. PICK d \in Dps : d = cmd[t].dp
  BY <1>1 DEF CmdInv
<1>2. /\ cmd' \in [Actors -> CmdType] /\ cmd'[t] = Idle /\ \A u \in Actors : u # t => cmd'[u] = cmd[u]
  BY <1>0, <1>1, IdleType, CmdFrame
<1>3. /\ dp' \in [Dps -> DpType]
      /\ \A x \in Dps : dp'[x].ports = dp[x].ports /\ dp'[x].listed = dp[x].listed /\ dp'[x].net = dp[x].net
      /\ dev' \in [Devs -> DevLoose] /\ \A x \in Devs : SameDev(x) /\ (x \notin alloc => dev'[x] = dev[x])
  <2>1. CASE ~cmd[t].headroom
    BY <1>0, <2>1 DEF vport_del_headroom, SameDev
  <2>2. CASE cmd[t].headroom
    <3>1. dp[d].ports \in SUBSET Vports /\ \A x \in dp[d].ports : vport[x].dev \in Devs
      <4>1. dp[d].ports \in SUBSET Vports
        BY <1>0 DEF DpType
      <4>2. \A x \in dp[d].ports : x \in Vports /\ In(x)
        BY <4>1 DEF In
      <4> QED BY <1>0, <4>1, <4>2 DEF VportsInv, VportInv, VportType, OrNull
    <3> DEFINE h == MaxHeadroom(dp[d].ports)
    <3>2. h \in Nat
      BY <1>0, <3>1, MaxHeadroomType
    <3>3. dp' = [dp EXCEPT ![d] = [dp[d] EXCEPT !.max_headroom = h]] /\ dev' = SetHeadroom(dp[d].ports, h)
      BY <1>v, <2>2 DEF vport_del_headroom
    <3> HIDE DEF h
    <3>4. dev' \in [Devs -> DevLoose] /\ \A x \in Devs : SameDev(x) /\ (x \notin alloc => dev'[x] = dev[x])
      BY <1>0, <3>1, <3>2, <3>3, SetsHeadroom
    <3> DEFINE z == [dp[d] EXCEPT !.max_headroom = h]
    <3>5. z \in DpType /\ z.ports = dp[d].ports /\ z.net = dp[d].net
      BY <1>0, <3>2 DEF DpType
    <3>6. z.listed = dp[d].listed
      BY <1>0 DEF DpType
    <3>7. dp' = [dp EXCEPT ![d] = z]
      BY <3>3
    <3> HIDE DEF z
    <3>8. \A x \in Dps : dp'[x] = IF x = d THEN z ELSE dp[x]
      BY <1>0, <3>7
    <3>9. dp' \in [Dps -> DpType]
      BY <1>0, <3>5, <3>7
    <3>10. \A x \in Dps : dp'[x].ports = dp[x].ports /\ dp'[x].net = dp[x].net
      BY <3>5, <3>8
    <3>11. \A x \in Dps : dp'[x].listed = dp[x].listed
      BY <3>6, <3>8
    <3> QED BY <3>4, <3>9, <3>10, <3>11
  <2> QED BY <2>1, <2>2
<1>7. TypeInv'
  BY <1>0, <1>1, <1>2, <1>3 DEF TypeInv
<1>8. LockInv'
  <2>1. Idle.pc \notin Holding /\ Idle.pc # "synchronize_net" /\ cmd[t].pc # "synchronize_net"
    BY <1>1, IdleType DEF Holding, Adding, Removing
  <2> QED BY <1>0, <1>1, <1>2, <2>1, LockStep
<1>9. AddInv(t)' /\ RemoveInv(t)' /\ CmdInv(t)'
  BY <1>2, IdleType, IdleCmd DEF AddInv, RemoveInv, Adding, Removing
<1>14. \A x \in Devs : RefInv(x)'
  BY <1>0, <1>1, <1>3, RefFrame, RefsByDevice DEF SameDev
<1>16. /\ NULL \notin Devs /\ NULL \notin Vports /\ NULL \notin Dps
       /\ NULL \in OrNull(Devs) /\ NULL \in OrNull(Vports) /\ NULL \in OrNull(Dps)
  BY Constants DEF OrNull
<1>15. Around(t, NULL, NULL, NULL)
  <2>1. \A x \in Dps : NULL \notin dp[x].ports /\ ~Owns(t, x)
    BY <1>0, <1>1, <1>16 DEF DpType, Owns
  <2>2. \A x \in Devs : SameDev(x) /\ (x \notin alloc => dev'[x] = dev[x]) /\ (x \in alloc' <=> x \in alloc)
    BY <1>1, <1>3
  <2>3. \A x \in Devs : dev[x].vport = NULL /\ (dev[x].kind = "internal" \/ dev[x].attached) => FALSE
    BY <1>0, <1>16 DEF DevsInv, DevInv
  <2>4. \A x : In(x)' <=> In(x)
    BY <1>3 DEF In
  <2>5. cmd'[t].pc \notin Adding \cup Removing
    BY <1>2, IdleType DEF Adding, Removing
  <2>6. /\ \A x \in Dps : /\ dp'[x].ports = dp[x].ports /\ dp'[x].listed = dp[x].listed /\ dp'[x].net = dp[x].net
                          /\ (x \in alloc' <=> x \in alloc) /\ (x \in pend' <=> x \in pend)
        /\ \A x \in Vports : /\ vport'[x] = vport[x] /\ dev_table'[x] = dev_table[x]
                             /\ (x \in alloc' <=> x \in alloc) /\ (x \in pend' <=> x \in pend)
    BY <1>1, <1>3
  <2> QED BY ONLY <1>1, <1>2, <1>16, <2>1, <2>2, <2>3, <2>4, <2>5, <2>6 DEF Around
<1> QED BY <1>7, <1>8, <1>9, <1>14, <1>15, <1>16, OneStep

\* What follows the destruction of a port.
LEMMA AfterDestroyIs ==
  ASSUME NEW what \in {"vport_del", "dp_del", "exit_net", "exit_vports", "notify"}
  PROVE  /\ what = "vport_del" => AfterDestroy(what) = "headroom"
         /\ what \in {"dp_del", "exit_net"} => AfterDestroy(what) = "dp_ports"
         /\ what \in {"exit_vports", "notify"} => AfterDestroy(what) = what
         /\ AfterDestroy(what) \in Holding \cup Lockless /\ AfterDestroy(what) \in Holding
         /\ AfterDestroy(what) \notin Adding \cup Removing /\ AfterDestroy(what) # "synchronize_net"
<1>1. /\ what = "vport_del" => AfterDestroy(what) = "headroom"
      /\ what \in {"dp_del", "exit_net"} => AfterDestroy(what) = "dp_ports"
      /\ what \in {"exit_vports", "notify"} => AfterDestroy(what) = what
  BY DEF AfterDestroy
<1> QED BY <1>1 DEF Adding, Removing, Holding

\* Command t has destroyed port v, which goes to an RCU callback or is freed, and its device e.
Releasing(t, v, e) ==
  /\ cmd[t].pc \in Removing \ {"unhash"} /\ cmd[t].vport = v
  /\ \A u \in Actors : u # t => cmd'[u] = cmd[u]
  /\ cmd'[t].pc = AfterDestroy(cmd[t].what) /\ cmd'[t].what = cmd[t].what /\ cmd'[t].dp = cmd[t].dp /\ cmd'[t].todo = cmd[t].todo
  /\ UNCHANGED <<dp, dev_table>>
  /\ \A x \in Vports : x # v => vport'[x] = vport[x] /\ (x \in alloc' <=> x \in alloc) /\ (x \in pend' <=> x \in pend)
  /\ \A x \in Dps : (x \in alloc' <=> x \in alloc) /\ (x \in pend' <=> x \in pend)
  /\ \A x \in Devs : x # e => dev'[x] = dev[x] /\ (x \in alloc' <=> x \in alloc)
  /\ v \in pend' <=> v \in alloc'
  /\ v \notin alloc' => vport'[v] = NoVport
  /\ v \in alloc' => vport'[v].dp \in Dps /\ vport'[v].type # "internal"
  /\ vport[v].dev \in {e, NULL} /\ vport'[v].dev \in {e, NULL}
  /\ vport'[v].dev # NULL => e \in alloc' /\ dev'[e].kind # "internal" /\ v \in alloc'
  /\ \A x \in Vports : x # v /\ vport[x].dev = e => e \in alloc' /\ dev'[e].kind = dev[e].kind /\ dev[e].kind # "internal"

LEMMA Releases ==
  ASSUME Inv, NEW t \in Actors, NEW v \in Vports, NEW e \in Devs, Releasing(t, v, e),
         TypeInv', LockInv', DevInv(e)', RefInv(e)'
  PROVE  Inv'
<1>0. /\ TypeInv /\ LockInv /\ VportsInv /\ DpsInv /\ CmdsInv /\ DevsInv /\ RefsBalanced
      /\ vport \in [Vports -> VportType] /\ dp \in [Dps -> DpType]
  BY DEF Inv, TypeInv
<1>1. /\ RemoveInv(t) /\ CmdInv(t) /\ cmd[t].pc \in Removing /\ cmd[t].vport = v /\ cmd[t].pc \in Holding
  BY <1>0, Steps DEF CmdsInv, Releasing
<1>v. PICK d \in Dps : d = vport[v].dp
  BY <1>1 DEF RemoveInv
<1>2. /\ v \in alloc \ pend /\ ~In(v) /\ d \in alloc \ pend /\ dev_table[v] = NULL
      /\ cmd[t].what \in {"vport_del", "dp_del", "exit_net", "exit_vports", "notify"}
      /\ cmd[t].what \in {"vport_del", "dp_del", "exit_net"} => cmd[t].dp = d
      /\ dp[d].listed \/ cmd[t].what \in {"dp_del", "exit_net"}
  BY <1>1, <1>v DEF RemoveInv, Releasing
<1>3. /\ cmd[t].what = "vport_del" => cmd'[t].pc = "headroom"
      /\ cmd[t].what \in {"dp_del", "exit_net"} => cmd'[t].pc = "dp_ports"
      /\ cmd[t].what \in {"exit_vports", "notify"} => cmd'[t].pc = cmd[t].what
      /\ cmd'[t].pc \in Holding /\ cmd'[t].pc \notin Adding \cup Removing /\ cmd'[t].pc # "synchronize_net"
      /\ \A u \in Actors : u # t => cmd'[u] = cmd[u]
      /\ cmd'[t].what = cmd[t].what /\ cmd'[t].dp = cmd[t].dp /\ cmd'[t].todo = cmd[t].todo
  <2>1. cmd'[t].pc = AfterDestroy(cmd[t].what)
    BY DEF Releasing
  <2>2. /\ cmd[t].what = "vport_del" => cmd'[t].pc = "headroom"
        /\ cmd[t].what \in {"dp_del", "exit_net"} => cmd'[t].pc = "dp_ports"
        /\ cmd[t].what \in {"exit_vports", "notify"} => cmd'[t].pc = cmd[t].what
        /\ cmd'[t].pc \in Holding /\ cmd'[t].pc \notin Adding \cup Removing /\ cmd'[t].pc # "synchronize_net"
    BY <1>2, <2>1, AfterDestroyIs
  <2> QED BY <2>2 DEF Releasing
<1>4. \A x : In(x)' <=> In(x)
  BY DEF In, Releasing
<1>5. \A x : ~InHand(x)'
  <2>1. \A u \in Actors : u # t => cmd'[u].pc \notin Holding
    BY <1>0, <1>1, <1>3, HolderStep
  <2> QED BY <1>3, <2>1, Steps DEF InHand, Adds, Removes
<1>6. VportInv(v)'
  <2>1. /\ v \notin alloc' => vport'[v] = NoVport
        /\ v \in alloc' => vport'[v].dp \in Dps /\ vport'[v].type # "internal"
        /\ dev_table'[v] = NULL /\ (v \in pend' <=> v \in alloc')
        /\ vport'[v].dev # NULL => vport'[v].dev = e /\ e \in alloc' /\ dev'[e].kind # "internal" /\ v \in alloc'
    BY <1>2 DEF Releasing
  <2>2. ~In(v)' /\ ~InHand(v)'
    BY <1>2, <1>4, <1>5
  <2> QED BY ONLY <2>1, <2>2 DEF VportInv
<1>7. DpInv(d)'
  <2>1. DpInv(d) /\ dp[d].ports \subseteq Vports
    BY <1>0 DEF DpsInv, DpType
  <2>2. dp[d].listed \/ Owns(t, d)'
    BY <1>2, <1>3 DEF Owns
  <2>3. \A x \in dp[d].ports :
          /\ vport'[x] = vport[x] /\ x \in alloc' \ pend'
          /\ vport[x].no = OVSP_LOCAL => dev'[vport[x].dev].net = dev[vport[x].dev].net
    <3> SUFFICES ASSUME NEW x \in dp[d].ports
                 PROVE  /\ vport'[x] = vport[x] /\ x \in alloc' \ pend'
                        /\ vport[x].no = OVSP_LOCAL => dev'[vport[x].dev].net = dev[vport[x].dev].net
      OBVIOUS
    <3>1. x # v /\ x \in Vports /\ x \in alloc \ pend /\ In(x)
      BY <1>2, <2>1 DEF In, DpInv
    <3>2. VportInv(x) /\ vport[x].dev \in Devs
      BY <1>0, <3>1 DEF VportsInv, VportInv, VportType, OrNull
    <3>3. vport[x].no = OVSP_LOCAL => dev[vport[x].dev].kind = "internal"
      BY <2>1, <3>2, Constants DEF DpInv, VportInv
    <3> QED BY <3>1, <3>2, <3>3 DEF Releasing
  <2>4. UNCHANGED dp /\ (d \in alloc' <=> d \in alloc) /\ (d \in pend' <=> d \in pend)
    BY DEF Releasing
  <2> QED BY <1>2, <2>1, <2>2, <2>3, <2>4 DEF DpInv
<1>8. AddInv(t)' /\ RemoveInv(t)' /\ CmdInv(t)'
  <2>1. AddInv(t)' /\ RemoveInv(t)'
    BY <1>3 DEF AddInv, RemoveInv
  <2>2. \A x \in cmd[t].todo : In(x)' /\ vport'[x].no # OVSP_LOCAL
    <3> SUFFICES ASSUME NEW x \in cmd[t].todo
                 PROVE  In(x)' /\ vport'[x].no # OVSP_LOCAL
      OBVIOUS
    <3>1. In(x) /\ vport[x].no # OVSP_LOCAL
      BY <1>1 DEF CmdInv
    <3>2. x \in Vports /\ x # v
      BY <1>0, <1>2, <3>1 DEF In, DpType
    <3> QED BY <1>4, <3>1, <3>2 DEF Releasing
  <2>3. d \in alloc' \ pend' /\ UNCHANGED dp
    BY <1>2 DEF Releasing
  <2>4. /\ cmd[t].what \in {"vport_del", "dp_del", "exit_net"} => cmd[t].todo = {}
        /\ cmd[t].what = "notify" => t = Worker
        /\ t = Worker => cmd[t].what = "notify"
    <3>1. cmd[t].pc # "idle"
      BY <1>1 DEF Removing
    <3> QED BY <1>1, <3>1 DEF CmdInv
  <2>5. CmdInv(t)'
    BY <1>2, <1>3, <2>2, <2>3, <2>4 DEF CmdInv
  <2> QED BY <2>1, <2>5
<1>9. \A x \in Devs : RefInv(x)'
  <2> TAKE x \in Devs
  <2>1. RefInv(x)
    BY <1>0, RefsByDevice
  <2>2. CASE x # e
    <3>1. vport[v].dev # x /\ vport'[v].dev # x /\ dev'[x] = dev[x]
      BY <2>2, Constants DEF Releasing
    <3>2. \A w \in Vports : vport'[w].dev = x /\ vport'[w].type # "internal" <=> vport[w].dev = x /\ vport[w].type # "internal"
      BY <3>1 DEF Releasing
    <3> QED BY <2>1, <3>1, <3>2, RefFrame
  <2> QED BY <2>2
<1>10. Around(t, v, d, e)
  <2>1. \A x \in Dps : x # d => v \notin dp[x].ports /\ (Owns(t, x) => Owns(t, x)')
    <3>1. \A x \in Dps : x # d => ~Owns(t, x)
      BY <1>1, <1>2, Steps DEF Owns
    <3> QED BY <1>2, <3>1 DEF In
  <2>2. \A x \in Devs : x # e => SameDev(x) /\ (x \notin alloc => dev'[x] = dev[x]) /\ (x \in alloc' <=> x \in alloc)
    BY DEF SameDev, Releasing
  <2>3. \A x \in Devs : x # e /\ dev[x].vport = v /\ (dev[x].kind = "internal" \/ dev[x].attached) => FALSE
    BY <1>0, Constants DEF DevsInv, DevInv, Releasing
  <2>4. \A x \in Vports : x # v /\ vport[x].dev = e /\ e \in Devs =>
           e \in alloc' /\ dev'[e].kind = dev[e].kind /\ dev[e].kind # "internal"
    BY DEF Releasing
  <2>5. \A x \in Vports : x # v => /\ vport'[x] = vport[x] /\ dev_table'[x] = dev_table[x] /\ (In(x)' <=> In(x))
                                  /\ (x \in alloc' <=> x \in alloc) /\ (x \in pend' <=> x \in pend)
    BY <1>4 DEF Releasing
  <2>6. /\ \A x \in Dps : x # d => /\ dp'[x].ports = dp[x].ports /\ dp'[x].listed = dp[x].listed /\ dp'[x].net = dp[x].net
                                   /\ (x \in alloc' <=> x \in alloc) /\ (x \in pend' <=> x \in pend)
    BY DEF Releasing
  <2> QED BY ONLY <1>1, <1>3, <2>1, <2>2, <2>3, <2>4, <2>5, <2>6 DEF Around
<1> QED BY <1>6, <1>7, <1>8, <1>9, <1>10, OneStep DEF OrNull

\* What a command that destroys a port knows of it and of its device.
LEMMA Destroyed ==
  ASSUME Inv, NEW t \in Actors, cmd[t].pc = "destroy", NEW v, v = cmd[t].vport, vport[v].type # "internal"
  PROVE  /\ v \in Vports /\ v \in alloc \ pend /\ ~In(v) /\ VportInv(v) /\ vport[v].dp \in Dps /\ InHand(v)
         /\ LET e == vport[v].dev
            IN  /\ e \in Devs /\ e # NULL /\ e \in alloc /\ dev[e].kind # "internal" /\ DevInv(e) /\ RefInv(e) /\ v \in Held(e)
                /\ \A x \in Devs : dev[x].vport = v /\ (dev[x].kind = "internal" \/ dev[x].attached) => x = e
         /\ cmd[t].what \in {"vport_del", "dp_del", "exit_net", "exit_vports", "notify"}
         /\ cmd[t].pc \in Removing \ {"unhash"} /\ cmd[t].pc \in Holding /\ cmd[t].pc # "synchronize_net"
         /\ RemoveInv(t) /\ CmdInv(t)
<1>0. /\ VportsInv /\ CmdsInv /\ DevsInv /\ RefsBalanced /\ vport \in [Vports -> VportType]
  BY DEF Inv, TypeInv
<1>1. /\ cmd[t].pc \in Removing \ {"unhash"} /\ cmd[t].pc \in Holding /\ cmd[t].pc # "synchronize_net" /\ RemoveInv(t) /\ CmdInv(t)
  BY <1>0 DEF Removing, Holding, CmdsInv
<1>2. /\ v \in Vports /\ v \in alloc \ pend /\ ~In(v) /\ VportInv(v) /\ vport[v].dp \in Dps /\ vport[v].dev # NULL
      /\ cmd[t].what \in {"vport_del", "dp_del", "exit_net", "exit_vports", "notify"}
  BY <1>0, <1>1 DEF RemoveInv, VportsInv
<1>3. PICK e \in Devs : e = vport[v].dev
  BY <1>0, <1>2 DEF VportType, OrNull
<1>4. e \in alloc /\ dev[e].kind # "internal" /\ DevInv(e) /\ RefInv(e) /\ v \in Held(e)
  BY <1>0, <1>2, <1>3, RefsByDevice DEF VportInv, DevsInv, Held
<1>5. \A x \in Devs : dev[x].vport = v /\ (dev[x].kind = "internal" \/ dev[x].attached) => x = e
  BY <1>0, <1>3 DEF DevsInv, DevInv
<1>6. InHand(v)
  BY <1>1 DEF InHand, Removes
<1> QED BY <1>1, <1>2, <1>3, <1>4, <1>5, <1>6

\* netdev_destroy()
LEMMA NetdevDestroys ==
  ASSUME Inv, NEW t \in Actors, netdev_destroy(t)
  PROVE  Inv'
<1>0. /\ TypeInv /\ LockInv /\ VportsInv /\ DevsInv /\ RefsBalanced /\ dev \in [Devs -> DevLoose] /\ cmd[t] \in CmdType
  BY DEF Inv, TypeInv
<1>1. /\ cmd[t].pc = "destroy" /\ UNCHANGED <<alloc, dp, vport, dev_table, rcu, work, dead, rtnl>>
  BY DEF netdev_destroy, tables, others, readers
<1>v. PICK v \in Vports, e \in Devs : v = cmd[t].vport /\ e = vport[v].dev
  BY <1>1, Destroyed DEF netdev_destroy
<1>2. /\ v \in alloc \ pend /\ ~In(v) /\ VportInv(v) /\ vport[v].dp \in Dps /\ vport[v].type # "internal"
      /\ e # NULL /\ e \in alloc /\ dev[e].kind # "internal" /\ DevInv(e) /\ RefInv(e)
      /\ cmd[t].what \in {"vport_del", "dp_del", "exit_net", "exit_vports", "notify"}
      /\ cmd[t].pc \in Removing \ {"unhash"} /\ cmd[t].pc \in Holding /\ cmd[t].pc # "synchronize_net"
  BY <1>1, <1>v, Destroyed DEF netdev_destroy
<1>3. /\ dev' = [dev EXCEPT ![e] = ovs_netdev_detach_dev(dev[e])]
      /\ pend' = pend \cup {v} /\ wait' = [wait EXCEPT ![v] = rcu]
  BY <1>v DEF netdev_destroy, call_rcu
<1>p. PICK p \in Holding \cup Lockless : p = AfterDestroy(cmd[t].what)
  BY <1>2, AfterDestroyIs
<1>4. Goto(t, p)
  BY <1>p DEF netdev_destroy
<1>5. /\ ovs_mutex' = ovs_mutex /\ cmd' \in [Actors -> CmdType]
      /\ \A u \in Actors : u # t => cmd'[u] = cmd[u]
      /\ cmd'[t].pc = p /\ cmd'[t].what = cmd[t].what /\ cmd'[t].dp = cmd[t].dp /\ cmd'[t].todo = cmd[t].todo
  BY <1>0, <1>4, GotoStep
<1>6. /\ dev' \in [Devs -> DevLoose] /\ \A x \in Devs : x # e => dev'[x] = dev[x]
      /\ dev'[e].kind = dev[e].kind /\ dev'[e].name = dev[e].name /\ dev'[e].net = dev[e].net /\ dev'[e].reg = dev[e].reg
      /\ ~dev'[e].attached /\ dev'[e].promisc = (IF dev[e].attached THEN dev[e].promisc - 1 ELSE dev[e].promisc)
      /\ dev'[e].ref = dev[e].ref
  <2> DEFINE z == ovs_netdev_detach_dev(dev[e])
  <2>1. /\ z \in DevLoose /\ ~z.attached /\ z.promisc = (IF dev[e].attached THEN dev[e].promisc - 1 ELSE dev[e].promisc)
        /\ z.kind = dev[e].kind /\ z.name = dev[e].name /\ z.net = dev[e].net /\ z.reg = dev[e].reg /\ z.ref = dev[e].ref
    BY <1>0, DetachType
  <2> HIDE DEF z
  <2>2. dev' = [dev EXCEPT ![e] = z]
    BY <1>3 DEF z
  <2> QED BY <1>0, <2>1, <2>2
<1>7. TypeInv'
  <2>1. wait' \in [Obj -> SUBSET rcu]
    BY <1>0, <1>3 DEF TypeInv
  <2>2. pend' \subseteq alloc /\ pend' \cap Devs = {}
    BY <1>0, <1>2, <1>3, Constants DEF TypeInv
  <2> QED BY <1>0, <1>1, <1>5, <1>6, <2>1, <2>2 DEF TypeInv
<1>8. LockInv'
  <2>1. p \in Holding /\ p # "synchronize_net"
    BY <1>2, <1>p, AfterDestroyIs
  <2> QED BY <1>0, <1>1, <1>2, <1>5, <2>1, LockStep
<1>9. DevInv(e)'
  BY <1>1, <1>2, <1>6 DEF DevInv
<1>10. RefInv(e)'
  <2>1. Held(e)' = Held(e)
    BY <1>1 DEF Held
  <2>2. dev[e].promisc = IF dev[e].attached THEN 1 ELSE 0
    BY <1>2 DEF RefInv, Promisc
  <2>3. dev'[e].promisc = 0
    BY <1>6, <2>2
  <2> QED BY <1>2, <1>6, <2>1, <2>3 DEF RefInv, Promisc
<1>11. Releasing(t, v, e)
  <2>1. \A x \in Vports : x # v /\ vport[x].dev = e => e \in alloc' /\ dev'[e].kind = dev[e].kind /\ dev[e].kind # "internal"
    BY <1>1, <1>2, <1>6
  <2>2. \A x \in Dps : (x \in alloc' <=> x \in alloc) /\ (x \in pend' <=> x \in pend)
    BY <1>1, <1>3, Constants
  <2> QED BY <1>1, <1>2, <1>3, <1>5, <1>6, <1>p, <1>v, <2>1, <2>2 DEF Releasing
<1> QED BY <1>7, <1>8, <1>9, <1>10, <1>11, Releases

LEMMA DroppedType ==
  \A y \in DevLoose :
    LET z == Dropped(y)
    IN  /\ z \in DevLoose /\ ~z.attached /\ z.promisc = (IF y.attached THEN y.promisc - 1 ELSE y.promisc)
        /\ z.kind = y.kind /\ z.name = y.name /\ z.net = y.net /\ z.reg = "unregistering" /\ z.ref = y.ref - 1
<1> TAKE y \in DevLoose
<1>1. PICK x \in DevLoose : x = ovs_netdev_detach_dev(y)
  BY DetachType
<1>2. /\ ~x.attached /\ x.promisc = (IF y.attached THEN y.promisc - 1 ELSE y.promisc)
      /\ x.kind = y.kind /\ x.name = y.name /\ x.net = y.net /\ x.ref = y.ref
  BY <1>1, DetachType
<1>3. PICK r \in Int : r = x.ref - 1
  BY DEF DevLoose
<1>4. Dropped(y) = [x EXCEPT !.reg = "unregistering", !.ref = r]
  BY <1>1, <1>3 DEF Dropped
<1>5. /\ \A w \in DevLoose, q \in Int : [w EXCEPT !.reg = "unregistering", !.ref = q] \in DevLoose
  BY DEF DevLoose
<1>6. LET z == [x EXCEPT !.reg = "unregistering", !.ref = r]
      IN  z.promisc = x.promisc /\ z.kind = x.kind /\ z.name = x.name /\ z.net = x.net /\ z.reg = "unregistering" /\ z.ref = r
  BY DEF DevLoose
<1>7. [x EXCEPT !.reg = "unregistering", !.ref = r].attached = x.attached
  BY DEF DevLoose
<1> QED BY ONLY <1>2, <1>3, <1>4, <1>5, <1>6, <1>7, x \in DevLoose, r \in Int

\* ovs_netdev_tunnel_destroy() of a device that is registered ...
LEMMA TunnelDestroys ==
  ASSUME Inv, NEW t \in Actors, ovs_netdev_tunnel_destroy(t), Registered(vport[cmd[t].vport].dev)
  PROVE  Inv'
<1>0. /\ TypeInv /\ LockInv /\ VportsInv /\ DevsInv /\ RefsBalanced /\ dev \in [Devs -> DevLoose] /\ cmd[t] \in CmdType
      /\ vport \in [Vports -> VportType]
  BY DEF Inv, TypeInv
<1>1. /\ cmd[t].pc = "destroy" /\ UNCHANGED <<alloc, dp, dev_table, rcu, work, dead, rtnl, ovs_mutex, pend>>
  BY DEF ovs_netdev_tunnel_destroy, others, readers
<1>v. PICK v \in Vports, e \in Devs : v = cmd[t].vport /\ e = vport[v].dev
  BY <1>1, Destroyed DEF ovs_netdev_tunnel_destroy
<1>2. /\ v \in alloc \ pend /\ ~In(v) /\ VportInv(v) /\ vport[v].dp \in Dps /\ vport[v].type = "tunnel" /\ InHand(v)
      /\ e # NULL /\ e \in alloc /\ dev[e].kind # "internal" /\ DevInv(e) /\ RefInv(e) /\ v \in Held(e)
      /\ cmd[t].what \in {"vport_del", "dp_del", "exit_net", "exit_vports", "notify"}
      /\ cmd[t].pc \in Removing \ {"unhash"} /\ cmd[t].pc \in Holding /\ cmd[t].pc # "synchronize_net"
      /\ RemoveInv(t) /\ CmdInv(t)
      /\ \A x \in Devs : dev[x].vport = v /\ (dev[x].kind = "internal" \/ dev[x].attached) => x = e
  BY <1>1, <1>v, Destroyed DEF ovs_netdev_tunnel_destroy
<1>3. /\ dev' = [dev EXCEPT ![e] = Dropped(dev[e])] /\ vport' = [vport EXCEPT ![v].dev = NULL]
      /\ wait' = [wait EXCEPT ![e] = rcu] /\ cmd' = [cmd EXCEPT ![t].pc = "run_todo", ![t].dev = e]
  BY <1>v DEF ovs_netdev_tunnel_destroy
<1>5. /\ cmd' \in [Actors -> CmdType] /\ \A u \in Actors : u # t => cmd'[u] = cmd[u]
      /\ cmd'[t].pc = "run_todo" /\ cmd'[t].what = cmd[t].what /\ cmd'[t].dp = cmd[t].dp /\ cmd'[t].todo = cmd[t].todo
      /\ cmd'[t].dev = e /\ cmd'[t].vport = v
  <2> DEFINE c == [cmd[t] EXCEPT !.pc = "run_todo", !.dev = e]
  <2>1. \A y \in CmdType : [y EXCEPT !.pc = "run_todo", !.dev = e] \in CmdType
    BY ZenonT(60) DEF CmdType, Holding, Removing, OrNull
  <2>2. c \in CmdType /\ cmd' = [cmd EXCEPT ![t] = c]
    BY <1>0, <1>3, <2>1
  <2>3. c.pc = "run_todo" /\ c.what = cmd[t].what /\ c.dp = cmd[t].dp /\ c.todo = cmd[t].todo /\ c.dev = e /\ c.vport = v
    BY <1>0, <1>v DEF CmdType
  <2> HIDE DEF c
  <2> QED BY <1>0, <2>2, <2>3, CmdFrame
<1>6. /\ dev' \in [Devs -> DevLoose] /\ \A x \in Devs : x # e => dev'[x] = dev[x]
      /\ dev'[e].kind = dev[e].kind /\ dev'[e].name = dev[e].name /\ dev'[e].net = dev[e].net /\ dev'[e].reg = "unregistering"
      /\ ~dev'[e].attached /\ dev'[e].promisc = (IF dev[e].attached THEN dev[e].promisc - 1 ELSE dev[e].promisc)
      /\ dev'[e].ref = dev[e].ref - 1
  <2> DEFINE z == Dropped(dev[e])
  <2>1. /\ z \in DevLoose /\ ~z.attached /\ z.promisc = (IF dev[e].attached THEN dev[e].promisc - 1 ELSE dev[e].promisc)
        /\ z.kind = dev[e].kind /\ z.name = dev[e].name /\ z.net = dev[e].net /\ z.reg = "unregistering" /\ z.ref = dev[e].ref - 1
    BY <1>0, DroppedType
  <2> HIDE DEF z
  <2>2. dev' = [dev EXCEPT ![e] = z]
    BY <1>3 DEF z
  <2> QED BY <1>0, <2>1, <2>2
<1>7. /\ vport' \in [Vports -> VportType] /\ \A x \in Vports : x # v => vport'[x] = vport[x]
      /\ vport'[v].dev = NULL /\ vport'[v].dp = vport[v].dp /\ vport'[v].type = "tunnel" /\ vport'[v].no = vport[v].no
  <2>1. NULL \in OrNull(Devs)
    BY DEF OrNull
  <2> QED BY <1>0, <1>2, <1>3, <2>1, VportFields
<1>8. TypeInv'
  <2>1. wait' \in [Obj -> SUBSET rcu]
    BY <1>0, <1>3 DEF TypeInv
  <2> QED BY <1>0, <1>1, <1>5, <1>6, <1>7, <2>1 DEF TypeInv
<1>9. LockInv'
  <2>1. "run_todo" \in Holding
    BY DEF Holding, Removing
  <2> QED BY <1>0, <1>1, <1>2, <1>5, <2>1, LockStep
<1>10. InHand(v)' /\ ~In(v)' /\ (\A x : In(x)' <=> In(x))
  <2>1. InHand(v)'
    BY <1>5 DEF InHand, Removes, Removing
  <2>2. \A x : In(x)' <=> In(x)
    BY <1>1 DEF In
  <2> QED BY <1>2, <2>1, <2>2
<1>11. VportInv(v)'
  BY <1>1, <1>2, <1>7, <1>10, VportInHand
<1>12. AddInv(t)' /\ RemoveInv(t)' /\ CmdInv(t)'
  <2>1. AddInv(t)'
    BY <1>5 DEF AddInv, Adding
  <2>2. RemoveInv(t)'
    BY ZenonT(60), <1>1, <1>2, <1>5, <1>6, <1>7, <1>10, <1>v DEF RemoveInv, Removing
  <2>3. CmdInv(t)'
    <3>1. \A x \in cmd[t].todo : In(x)' /\ vport'[x].no # OVSP_LOCAL
      <4>1. \A x \in cmd[t].todo : In(x) /\ vport[x].no # OVSP_LOCAL /\ x \in Vports
        BY <1>0, <1>2 DEF CmdInv, CmdType
      <4> QED BY <1>2, <1>7, <1>10, <4>1
    <3> QED BY <1>2, <1>5, <3>1 DEF CmdInv, Removing
  <2> QED BY <2>1, <2>2, <2>3
<1>13. DevInv(e)'
  BY <1>1, <1>2, <1>6 DEF DevInv
<1>14. \A x \in Devs : RefInv(x)'
  <2> TAKE x \in Devs
  <2>1. RefInv(x)
    BY <1>0, RefsByDevice
  <2>2. CASE x # e
    <3>1. \A w \in Vports : vport'[w].dev = x /\ vport'[w].type # "internal" <=> vport[w].dev = x /\ vport[w].type # "internal"
      BY <1>7, <1>v, <2>2, Constants
    <3> QED BY <1>6, <2>1, <2>2, <3>1, RefFrame
  <2>3. CASE x = e
    <3>1. Held(e)' = Held(e) \ {v}
      BY <1>7, Constants DEF Held
    <3>2. dev[e].promisc = IF dev[e].attached THEN 1 ELSE 0
      BY <1>2 DEF RefInv, Promisc
    <3>3. dev'[e].promisc = 0
      BY <1>6, <3>2
    <3>4. Promisc(e)'
      BY <1>2, <1>6, <3>3 DEF Promisc
    <3> QED BY <1>2, <1>6, <2>3, <3>1, <3>4, RefDropped
  <2> QED BY <2>2, <2>3
<1>15. /\ cmd[t].pc \in Removing /\ cmd'[t].pc \in Removing
       /\ \A x \in Vports : x # v => vport'[x] = vport[x] /\ dev_table'[x] = dev_table[x]
       /\ \A x \in Dps \cup Vports : x \in alloc' <=> x \in alloc
       /\ \A x \in Devs : x # e => dev'[x] = dev[x] /\ (x \in alloc' <=> x \in alloc)
       /\ \A x \in Devs : x # e /\ dev[x].vport = v /\ (dev[x].kind = "internal" \/ dev[x].attached) => vport'[v].dev = x
       /\ e \in alloc' /\ dev'[e].kind = dev[e].kind
       /\ dev[e].kind = "internal" => dev'[e].net = dev[e].net /\ dev'[e].vport = dev[e].vport
       /\ v = cmd[t].vport /\ cmd'[t].vport = v /\ UNCHANGED <<dp, pend>>
  BY <1>v, <1>1, <1>2, <1>5, <1>6, <1>7 DEF Removing
<1> QED BY <1>1, <1>2, <1>5, <1>8, <1>9, <1>11, <1>12, <1>13, <1>14, <1>15, HandStep

\* ... and of one that is already being unregistered.
LEMMA TunnelLetsGo ==
  ASSUME Inv, NEW t \in Actors, ovs_netdev_tunnel_destroy(t), ~Registered(vport[cmd[t].vport].dev)
  PROVE  Inv'
<1>0. /\ TypeInv /\ LockInv /\ VportsInv /\ DevsInv /\ RefsBalanced /\ dev \in [Devs -> DevLoose] /\ cmd[t] \in CmdType
      /\ vport \in [Vports -> VportType]
  BY DEF Inv, TypeInv
<1>1. /\ cmd[t].pc = "destroy" /\ UNCHANGED <<alloc, dp, dev_table, rcu, work, dead, rtnl, ovs_mutex>>
  BY DEF ovs_netdev_tunnel_destroy, others, readers
<1>v. PICK v \in Vports, e \in Devs : v = cmd[t].vport /\ e = vport[v].dev
  BY <1>1, Destroyed DEF ovs_netdev_tunnel_destroy
<1>2. /\ v \in alloc \ pend /\ ~In(v) /\ VportInv(v) /\ vport[v].dp \in Dps /\ vport[v].type = "tunnel"
      /\ e # NULL /\ e \in alloc /\ dev[e].kind # "internal" /\ DevInv(e) /\ RefInv(e) /\ v \in Held(e)
      /\ cmd[t].what \in {"vport_del", "dp_del", "exit_net", "exit_vports", "notify"}
      /\ cmd[t].pc \in Removing \ {"unhash"} /\ cmd[t].pc \in Holding /\ cmd[t].pc # "synchronize_net"
  BY <1>1, <1>v, Destroyed DEF ovs_netdev_tunnel_destroy
<1>3. /\ dev' = [dev EXCEPT ![e] = Dropped(dev[e])] /\ vport' = [vport EXCEPT ![v].dev = NULL]
      /\ pend' = pend \cup {v} /\ wait' = [wait EXCEPT ![v] = rcu] /\ cmd' = [cmd EXCEPT ![t].pc = AfterDestroy(cmd[t].what)]
  BY <1>v DEF ovs_netdev_tunnel_destroy, call_rcu
<1>p. PICK p \in Holding \cup Lockless : p = AfterDestroy(cmd[t].what)
  BY <1>2, AfterDestroyIs
<1>4. Goto(t, p)
  BY <1>1, <1>3, <1>p DEF Goto
<1>5. /\ ovs_mutex' = ovs_mutex /\ cmd' \in [Actors -> CmdType]
      /\ \A u \in Actors : u # t => cmd'[u] = cmd[u]
      /\ cmd'[t].pc = p /\ cmd'[t].what = cmd[t].what /\ cmd'[t].dp = cmd[t].dp /\ cmd'[t].todo = cmd[t].todo
  BY <1>0, <1>4, GotoStep
<1>6. /\ dev' \in [Devs -> DevLoose] /\ \A x \in Devs : x # e => dev'[x] = dev[x]
      /\ dev'[e].kind = dev[e].kind /\ dev'[e].name = dev[e].name /\ dev'[e].net = dev[e].net /\ dev'[e].reg = "unregistering"
      /\ ~dev'[e].attached /\ dev'[e].promisc = (IF dev[e].attached THEN dev[e].promisc - 1 ELSE dev[e].promisc)
      /\ dev'[e].ref = dev[e].ref - 1
  <2> DEFINE z == Dropped(dev[e])
  <2>1. /\ z \in DevLoose /\ ~z.attached /\ z.promisc = (IF dev[e].attached THEN dev[e].promisc - 1 ELSE dev[e].promisc)
        /\ z.kind = dev[e].kind /\ z.name = dev[e].name /\ z.net = dev[e].net /\ z.reg = "unregistering" /\ z.ref = dev[e].ref - 1
    BY <1>0, DroppedType
  <2> HIDE DEF z
  <2>2. dev' = [dev EXCEPT ![e] = z]
    BY <1>3 DEF z
  <2> QED BY <1>0, <2>1, <2>2
<1>7. /\ vport' \in [Vports -> VportType] /\ \A x \in Vports : x # v => vport'[x] = vport[x]
      /\ vport'[v].dev = NULL /\ vport'[v].dp = vport[v].dp /\ vport'[v].type = "tunnel" /\ vport'[v].no = vport[v].no
  <2>1. NULL \in OrNull(Devs)
    BY DEF OrNull
  <2> QED BY <1>0, <1>2, <1>3, <2>1, VportFields
<1>8. TypeInv'
  <2>1. wait' \in [Obj -> SUBSET rcu]
    BY <1>0, <1>3 DEF TypeInv
  <2>2. pend' \subseteq alloc /\ pend' \cap Devs = {}
    BY <1>0, <1>2, <1>3, Constants DEF TypeInv
  <2> QED BY <1>0, <1>1, <1>5, <1>6, <1>7, <2>1, <2>2 DEF TypeInv
<1>9. LockInv'
  <2>1. p \in Holding /\ p # "synchronize_net"
    BY <1>2, <1>p, AfterDestroyIs
  <2> QED BY <1>0, <1>1, <1>2, <1>5, <2>1, LockStep
<1>10. DevInv(e)'
  BY <1>1, <1>2, <1>6 DEF DevInv
<1>11. RefInv(e)'
  <2>1. Held(e)' = Held(e) \ {v}
    BY <1>7, Constants DEF Held
  <2>2. dev[e].promisc = IF dev[e].attached THEN 1 ELSE 0
    BY <1>2 DEF RefInv, Promisc
  <2>3. dev'[e].promisc = 0
    BY <1>6, <2>2
  <2>4. Promisc(e)'
    BY <1>2, <1>6, <2>3 DEF Promisc
  <2> QED BY <1>2, <1>6, <2>1, <2>4, RefDropped
<1>12. Releasing(t, v, e)
  <2>1. \A x \in Vports : x # v /\ vport[x].dev = e => e \in alloc' /\ dev'[e].kind = dev[e].kind /\ dev[e].kind # "internal"
    BY <1>1, <1>2, <1>6
  <2>2. \A x \in Dps : (x \in alloc' <=> x \in alloc) /\ (x \in pend' <=> x \in pend)
    BY <1>1, <1>3, Constants
  <2>3. v \in alloc' /\ v \in pend'
    BY <1>1, <1>2, <1>3
  <2> QED BY <1>1, <1>2, <1>3, <1>5, <1>6, <1>7, <1>p, <1>v, <2>1, <2>2, <2>3 DEF Releasing
<1> QED BY <1>8, <1>9, <1>10, <1>11, <1>12, Releases

\* rtnl_unlock() frees the tunnel's device once nobody holds it, and the port goes to its callback.
LEMMA TunnelFreed ==
  ASSUME Inv, NEW t \in Actors, tunnel_run_todo(t)
  PROVE  Inv'
<1>0. /\ TypeInv /\ LockInv /\ VportsInv /\ DevsInv /\ RefsBalanced /\ dev \in [Devs -> DevLoose] /\ cmd[t] \in CmdType
      /\ vport \in [Vports -> VportType]
  BY DEF Inv, TypeInv
<1>1. /\ cmd[t].pc = "run_todo" /\ UNCHANGED <<dp, vport, dev_table, rcu, work, dead, rtnl, ovs_mutex>>
      /\ cmd[t].pc \in Removing \ {"unhash"} /\ cmd[t].pc \in Holding /\ cmd[t].pc # "synchronize_net" /\ RemoveInv(t)
  BY DEF tunnel_run_todo, tables, others, readers, Inv, CmdsInv, Removing, Holding
<1>v. PICK v \in Vports, e \in Devs : v = cmd[t].vport /\ e = cmd[t].dev
  BY <1>1 DEF RemoveInv
<1>2. /\ v \in alloc \ pend /\ ~In(v) /\ VportInv(v) /\ vport[v].dp \in Dps /\ vport[v].type # "internal" /\ vport[v].dev = NULL
      /\ e # NULL /\ e \in alloc /\ dev[e].kind # "internal" /\ DevInv(e) /\ RefInv(e)
      /\ cmd[t].what \in {"vport_del", "dp_del", "exit_net", "exit_vports", "notify"}
  <2>1. /\ v \in alloc \ pend /\ ~In(v) /\ vport[v].dp \in Dps /\ vport[v].type # "internal" /\ vport[v].dev = NULL
        /\ e \in alloc /\ dev[e].kind # "internal"
        /\ cmd[t].what \in {"vport_del", "dp_del", "exit_net", "exit_vports", "notify"}
    BY <1>1, <1>v DEF RemoveInv
  <2>2. VportInv(v) /\ DevInv(e) /\ RefInv(e)
    BY <1>0, RefsByDevice DEF VportsInv, DevsInv
  <2>3. e # NULL
    BY Constants
  <2> QED BY <2>1, <2>2, <2>3
<1>3. /\ dev' = [dev EXCEPT ![e] = NoDev] /\ alloc' = alloc \ {e} /\ dev[e].ref = 0
      /\ pend' = pend \cup {v} /\ wait' = [wait EXCEPT ![v] = rcu]
      /\ cmd' = [cmd EXCEPT ![t].pc = AfterDestroy(cmd[t].what), ![t].dev = NULL]
  BY <1>v DEF tunnel_run_todo, call_rcu
<1>p. PICK p \in Holding : p = AfterDestroy(cmd[t].what)
  BY <1>2, AfterDestroyIs
<1>5. /\ cmd' \in [Actors -> CmdType]
      /\ \A u \in Actors : u # t => cmd'[u] = cmd[u]
      /\ cmd'[t].pc = p /\ cmd'[t].what = cmd[t].what /\ cmd'[t].dp = cmd[t].dp /\ cmd'[t].todo = cmd[t].todo
  <2> DEFINE c == [cmd[t] EXCEPT !.pc = p, !.dev = NULL]
  <2>1. \A y \in CmdType : [y EXCEPT !.pc = p, !.dev = NULL] \in CmdType
    BY DEF CmdType, OrNull
  <2>2. c \in CmdType /\ cmd' = [cmd EXCEPT ![t] = c]
    BY <1>0, <1>3, <1>p, <2>1
  <2>3. c.pc = p /\ c.what = cmd[t].what /\ c.dp = cmd[t].dp /\ c.todo = cmd[t].todo
    BY <1>0 DEF CmdType
  <2> HIDE DEF c
  <2> QED BY <1>0, <2>2, <2>3, CmdFrame
<1>6. /\ dev' \in [Devs -> DevLoose] /\ dev'[e] = NoDev /\ \A x \in Devs : x # e => dev'[x] = dev[x]
  BY <1>0, <1>3, NoDevType
<1>8. TypeInv'
  <2>1. wait' \in [Obj -> SUBSET rcu]
    BY <1>0, <1>3 DEF TypeInv
  <2>2. alloc' \subseteq Obj /\ pend' \subseteq alloc' /\ pend' \cap Devs = {}
    BY <1>0, <1>2, <1>3, Constants DEF TypeInv
  <2> QED BY <1>0, <1>1, <1>5, <1>6, <2>1, <2>2 DEF TypeInv
<1>9. LockInv'
  <2>1. p \in Holding /\ p # "synchronize_net"
    BY <1>2, <1>p, AfterDestroyIs
  <2> QED BY <1>0, <1>1, <1>5, <2>1, LockStep
<1>10. DevInv(e)'
  BY <1>3, <1>6, NoDevType DEF DevInv
<1>11. Held(e) = {}
  <2> SUFFICES ASSUME NEW w \in Held(e)
               PROVE  FALSE
    OBVIOUS
  <2>1. Held(e) \subseteq Vports /\ Cardinality(Held(e)) = 0
    BY <1>2, <1>3 DEF Held, RefInv
  <2>2. Cardinality(Held(e) \ {w}) = -1 /\ Cardinality(Held(e) \ {w}) \in Nat
    BY <2>1, Counting
  <2> QED BY <2>2
<1>12. RefInv(e)'
  <2>1. Held(e)' = {}
    BY <1>1, <1>11 DEF Held
  <2> QED BY <1>6, <2>1, Counting, NoDevType DEF RefInv, Promisc
<1>13. Releasing(t, v, e)
  <2>1. \A x \in Vports : vport[x].dev # e
    <3> SUFFICES ASSUME NEW x \in Vports, vport[x].dev = e
                 PROVE  FALSE
      OBVIOUS
    <3>1. x \in Held(e)
      BY <1>0, <1>2 DEF VportsInv, VportInv, Held
    <3> QED BY <1>11, <3>1
  <2>2. \A x \in Dps : (x \in alloc' <=> x \in alloc) /\ (x \in pend' <=> x \in pend)
    BY <1>3, Constants
  <2>3. /\ \A x \in Vports : x # v => (x \in alloc' <=> x \in alloc) /\ (x \in pend' <=> x \in pend)
        /\ v \in alloc' /\ v \in pend'
        /\ \A x \in Devs : x # e => (x \in alloc' <=> x \in alloc)
    BY <1>2, <1>3, Constants
  <2>4. cmd[t].vport = v /\ cmd'[t].pc = AfterDestroy(cmd[t].what)
    BY <1>v, <1>p, <1>5
  <2> QED BY <1>1, <1>2, <1>5, <1>6, <2>1, <2>2, <2>3, <2>4 DEF Releasing
<1> QED BY <1>8, <1>9, <1>10, <1>12, <1>13, Releases

\* The destructor of an internal device frees the device and its port.
LEMMA InternalFreed ==
  ASSUME Inv, NEW t \in Actors, internal_dev_destructor(t)
  PROVE  Inv'
<1>0. /\ TypeInv /\ LockInv /\ VportsInv /\ DevsInv /\ RefsBalanced /\ dev \in [Devs -> DevLoose] /\ cmd[t] \in CmdType
      /\ vport \in [Vports -> VportType]
  BY DEF Inv, TypeInv
<1>1. /\ cmd[t].pc = "synchronize_net" /\ UNCHANGED <<pend, wait, dp, dev_table, rcu, work, dead>>
      /\ cmd[t].pc \in Removing \ {"unhash"} /\ cmd[t].pc \in Holding /\ RemoveInv(t) /\ rtnl = t /\ rtnl' = NULL
  <2>1. cmd[t].pc \in Removing \ {"unhash"} /\ cmd[t].pc \in Holding
    BY DEF internal_dev_destructor, Removing, Holding
  <2> QED BY <1>0, <2>1 DEF internal_dev_destructor, others, readers, Inv, CmdsInv, LockInv
<1>v. PICK v \in Vports, e \in Devs : v = cmd[t].vport /\ e = vport[v].dev
  <2>1. cmd[t].vport \in Vports /\ vport[cmd[t].vport].dev # NULL
    BY <1>1 DEF RemoveInv
  <2> QED BY <1>0, <2>1 DEF VportType, OrNull
<1>2. /\ v \in alloc \ pend /\ VportInv(v) /\ vport[v].type = "internal" /\ vport[v].dev = e
      /\ e # NULL /\ e \in alloc /\ dev[e].kind = "internal" /\ dev[e].vport = v
      /\ cmd[t].what \in {"vport_del", "dp_del", "exit_net", "exit_vports", "notify"}
  <2>1. /\ v \in alloc \ pend /\ vport[v].type = "internal"
        /\ cmd[t].what \in {"vport_del", "dp_del", "exit_net", "exit_vports", "notify"}
    BY <1>1, <1>v DEF RemoveInv
  <2>2. VportInv(v) /\ e # NULL
    BY <1>0, Constants DEF VportsInv
  <2> QED BY <1>v, <2>1, <2>2 DEF VportInv
<1>3. /\ dev' = [dev EXCEPT ![e] = NoDev] /\ alloc' = alloc \ {v, e} /\ vport' = [vport EXCEPT ![v] = NoVport]
  BY <1>v DEF internal_dev_destructor
<1>p. PICK p \in Holding \cup Lockless : p = AfterDestroy(cmd[t].what)
  BY <1>2, AfterDestroyIs
<1>4. Goto(t, p)
  BY <1>p DEF internal_dev_destructor
<1>5. /\ ovs_mutex' = ovs_mutex /\ cmd' \in [Actors -> CmdType]
      /\ \A u \in Actors : u # t => cmd'[u] = cmd[u]
      /\ cmd'[t].pc = p /\ cmd'[t].what = cmd[t].what /\ cmd'[t].dp = cmd[t].dp /\ cmd'[t].todo = cmd[t].todo
  BY <1>0, <1>4, GotoStep
<1>6. /\ dev' \in [Devs -> DevLoose] /\ dev'[e] = NoDev /\ \A x \in Devs : x # e => dev'[x] = dev[x]
      /\ vport' \in [Vports -> VportType] /\ vport'[v] = NoVport /\ \A x \in Vports : x # v => vport'[x] = vport[x]
  BY <1>0, <1>3, NoDevType, VportFields
<1>7. \A x \in Vports : x # v => vport[x].dev # e
  BY <1>0, <1>2 DEF VportsInv, VportInv
<1>8. TypeInv'
  <2>1. alloc' \subseteq Obj /\ pend' \subseteq alloc' /\ pend' \cap Devs = {}
    BY <1>0, <1>1, <1>2, <1>3 DEF TypeInv
  <2> QED BY <1>0, <1>1, <1>5, <1>6, <2>1 DEF TypeInv
<1>9. LockInv'
  <2>1. p \in Holding /\ p # "synchronize_net"
    BY <1>2, <1>p, AfterDestroyIs
  <2> QED BY <1>0, <1>1, <1>5, <2>1, LockStep
<1>10. e \notin alloc' /\ v \notin alloc' /\ v \notin pend'
  BY <1>1, <1>2, <1>3
<1>11. DevInv(e)'
  BY <1>6, <1>10, NoDevType DEF DevInv
<1>12. RefInv(e)'
  <2>1. Held(e)' = {}
    BY <1>6, <1>7, VportFields DEF Held
  <2> QED BY <1>6, <2>1, Counting, NoDevType DEF RefInv, Promisc
<1>13. Releasing(t, v, e)
  <2>2. \A x \in Dps : (x \in alloc' <=> x \in alloc) /\ (x \in pend' <=> x \in pend)
    BY <1>1, <1>3, Constants
  <2>3. /\ \A x \in Vports : x # v => (x \in alloc' <=> x \in alloc) /\ (x \in pend' <=> x \in pend)
        /\ \A x \in Devs : x # e => (x \in alloc' <=> x \in alloc)
    BY <1>1, <1>3, Constants
  <2>4. cmd[t].vport = v /\ cmd'[t].pc = AfterDestroy(cmd[t].what)
    BY <1>v, <1>p, <1>5
  <2> QED BY <1>1, <1>2, <1>5, <1>6, <1>7, <1>10, <2>2, <2>3, <2>4, VportFields DEF Releasing
<1> QED BY <1>8, <1>9, <1>11, <1>12, <1>13, Releases

\* The datapath that has no port left goes to its callback.
LEMMA DpDestroyed ==
  ASSUME Inv, NEW t \in Actors, __dp_destroy(t), dp[cmd[t].dp].ports = {}, call_rcu(cmd[t].dp),
         IF cmd[t].what = "dp_del" THEN Finish(t) ELSE Goto(t, "exit_dps"), UNCHANGED dp
  PROVE  Inv'
<1>0. /\ TypeInv /\ LockInv /\ VportsInv /\ DpsInv /\ CmdsInv /\ DevsInv /\ RefsBalanced
      /\ vport \in [Vports -> VportType] /\ dp \in [Dps -> DpType] /\ cmd \in [Actors -> CmdType]
  BY DEF Inv, TypeInv
<1>1. /\ CmdInv(t) /\ cmd[t].pc = "dp_ports" /\ cmd[t].pc \in Holding /\ cmd[t].pc \notin Adding \cup Removing /\ ovs_mutex = t
      /\ UNCHANGED <<alloc, rcu, dp, vport, dev_table, dev, rtnl, work, dead>>
  <2>1. cmd[t].pc \in Holding /\ cmd[t].pc = "dp_ports" /\ cmd[t].pc \notin Adding \cup Removing
    BY DEF Adding, Removing, Holding, __dp_destroy
  <2> QED BY <1>0, <2>1 DEF others, readers, CmdsInv, LockInv, __dp_destroy
<1>v. PICK d \in Dps : d = cmd[t].dp
  BY <1>1 DEF CmdInv
<1>2. /\ d \in alloc \ pend /\ dp[d].ports = {} /\ cmd[t].what \in {"dp_del", "exit_net"}
      /\ pend' = pend \cup {d} /\ wait' = [wait EXCEPT ![d] = rcu] /\ DpInv(d) /\ ~dp[d].listed
  <2>1. /\ d \in alloc \ pend /\ dp[d].ports = {} /\ cmd[t].what \in {"dp_del", "exit_net"}
        /\ pend' = pend \cup {d} /\ wait' = [wait EXCEPT ![d] = rcu] /\ DpInv(d)
    BY <1>0, <1>1, <1>v DEF CmdInv, call_rcu, DpsInv
  <2> QED BY <2>1 DEF DpInv
<1>3. /\ cmd' \in [Actors -> CmdType] /\ \A u \in Actors : u # t => cmd'[u] = cmd[u]
      /\ \/ cmd'[t] = Idle /\ ovs_mutex' = NULL
         \/ /\ cmd'[t].pc = "exit_dps" /\ cmd'[t].what = "exit_net" /\ cmd'[t].todo = cmd[t].todo
            /\ ovs_mutex' = ovs_mutex
  <2>1. CASE cmd[t].what = "dp_del"
    BY <1>0, <2>1, IdleType, CmdFrame DEF Finish
  <2>2. CASE cmd[t].what # "dp_del"
    <3>1. "exit_dps" \in Holding \cup Lockless /\ Goto(t, "exit_dps")
      BY <2>2 DEF Holding
    <3> QED BY <1>0, <1>2, <2>2, <3>1, GotoStep
  <2> QED BY <2>1, <2>2
<1>7. TypeInv'
  <2>1. wait' \in [Obj -> SUBSET rcu]
    BY <1>0, <1>2 DEF TypeInv
  <2>2. pend' \subseteq alloc /\ pend' \cap Devs = {}
    BY <1>0, <1>2, Constants DEF TypeInv
  <2> QED BY <1>0, <1>1, <1>3, <2>1, <2>2 DEF TypeInv
<1>8. LockInv'
  <2>1. /\ Idle.pc \notin Holding /\ Idle.pc # "synchronize_net" /\ cmd[t].pc # "synchronize_net"
        /\ "exit_dps" \in Holding /\ "exit_dps" # "synchronize_net"
    BY <1>1, IdleType DEF Holding, Adding, Removing
  <2> QED BY <1>0, <1>1, <1>3, <2>1, LockStep
<1>9. AddInv(t)' /\ RemoveInv(t)' /\ CmdInv(t)'
  <2>1. CASE cmd'[t] = Idle
    BY <2>1, IdleType, IdleCmd DEF AddInv, RemoveInv, Adding, Removing
  <2>2. CASE cmd'[t].pc = "exit_dps" /\ cmd'[t].what = "exit_net" /\ cmd'[t].todo = cmd[t].todo
    <3>1. cmd[t].todo = {} /\ t # Worker
      BY <1>1, <1>2, Steps DEF CmdInv
    <3> QED BY <2>2, <3>1 DEF AddInv, RemoveInv, CmdInv, Adding, Removing
  <2> QED BY <1>3, <2>1, <2>2
<1>10. cmd'[t].pc \notin Adding \cup Removing
  BY <1>3, IdleType DEF Adding, Removing
<1>11. DpInv(d)'
  BY <1>1, <1>2 DEF DpInv
<1>14. \A x \in Devs : RefInv(x)'
  BY <1>0, <1>1, RefFrame, RefsByDevice
<1>16. /\ NULL \notin Devs /\ NULL \notin Vports
       /\ NULL \in OrNull(Devs) /\ NULL \in OrNull(Vports) /\ d \in OrNull(Dps) /\ d \notin Vports
  BY Constants DEF OrNull
<1>15. Around(t, NULL, d, NULL)
  <2>1. \A x \in Dps : NULL \notin dp[x].ports /\ (x # d => ~Owns(t, x))
    BY <1>0, <1>v, <1>16 DEF DpType, Owns
  <2>2. \A x \in Devs : SameDev(x) /\ (x \notin alloc => dev'[x] = dev[x]) /\ (x \in alloc' <=> x \in alloc)
    BY <1>1 DEF SameDev
  <2>3. \A x \in Devs : dev[x].vport = NULL /\ (dev[x].kind = "internal" \/ dev[x].attached) => FALSE
    BY <1>0, <1>16 DEF DevsInv, DevInv
  <2>4. \A x : In(x)' <=> In(x)
    BY <1>1 DEF In
  <2>5. \A x \in Vports : x \in pend' <=> x \in pend
    BY <1>2, <1>16
  <2>6. /\ \A x \in Dps : x # d => /\ dp'[x].ports = dp[x].ports /\ dp'[x].listed = dp[x].listed /\ dp'[x].net = dp[x].net
                                   /\ (x \in alloc' <=> x \in alloc) /\ (x \in pend' <=> x \in pend)
        /\ \A x \in Vports : /\ vport'[x] = vport[x] /\ dev_table'[x] = dev_table[x]
                             /\ (x \in alloc' <=> x \in alloc) /\ (x \in pend' <=> x \in pend)
    BY <1>1, <1>2, <2>5
  <2> QED BY ONLY <1>1, <1>3, <1>10, <1>16, <2>1, <2>2, <2>3, <2>4, <2>6 DEF Around
<1> QED BY <1>7, <1>8, <1>9, <1>11, <1>14, <1>15, <1>16, OneStep

-----------------------------------------------------------------------------
(* Steps that are no command's: what happens to devices, and RCU callbacks. *)

\* Something happens to a port or datapath that waits for its callback, or to device e; no command
\* notices.
Aside(o, d, e) ==
  /\ UNCHANGED <<dev_table, ovs_mutex, rtnl, cmd>>
  /\ o \in Vports => o \in pend
  /\ d \in Dps => d \in pend /\ dp'[d].ports = {}
  /\ \A x \in Vports : x # o => vport'[x] = vport[x] /\ (x \in alloc' <=> x \in alloc) /\ (x \in pend' <=> x \in pend)
  /\ \A x \in Dps : x # d => dp'[x] = dp[x] /\ (x \in alloc' <=> x \in alloc) /\ (x \in pend' <=> x \in pend)
  /\ \A x \in Devs : x # e => dev'[x] = dev[x] /\ (x \in alloc' <=> x \in alloc)
  /\ \A x \in Vports : x # o /\ vport[x].dev = e /\ e \in Devs =>
       /\ e \in alloc' /\ dev'[e].kind = dev[e].kind
       /\ vport[x].no = OVSP_LOCAL /\ (In(x) \/ \E t \in Actors : Adds(t, x)) => dev'[e].net = dev[e].net
       /\ dev[e].kind = "internal" => dev'[e].vport = dev[e].vport /\ dev'[e].reg = dev[e].reg
       /\ dev'[e].attached => dev[e].attached /\ dev'[e].vport = dev[e].vport
  /\ \A t \in Actors : cmd[t].pc = "run_todo" /\ cmd[t].dev = e /\ e \in Devs =>
       e \in alloc' /\ dev'[e].kind = dev[e].kind /\ dev'[e].reg = dev[e].reg

LEMMA AsideStep ==
  ASSUME Inv, NEW o \in OrNull(Vports), NEW d \in OrNull(Dps), NEW e \in OrNull(Devs), Aside(o, d, e), TypeInv',
         o \in Vports => VportInv(o)', d \in Dps => DpInv(d)', e \in Devs => DevInv(e)', \A x \in Devs : RefInv(x)'
  PROVE  Inv'
<1> USE DEF Aside
<1>0. /\ TypeInv /\ LockInv /\ VportsInv /\ DpsInv /\ CmdsInv /\ DevsInv
      /\ vport \in [Vports -> VportType] /\ dp \in [Dps -> DpType]
  BY DEF Inv, TypeInv
<1>1. /\ \A x : InHand(x)' <=> InHand(x)
      /\ \A x : \A u \in Actors : Owns(u, x)' <=> Owns(u, x)
  BY DEF InHand, Adds, Removes, Owns
<1>2. d \in Dps => dp[d].ports = {} /\ ~dp[d].listed
  BY <1>0 DEF DpsInv, DpInv
<1>3. \A x : In(x)' <=> In(x)
  BY <1>2 DEF In
<1>4. o \in Vports => ~In(o) /\ ~InHand(o)
  BY <1>0 DEF VportsInv, VportInv
<1>5. VportsInv'
  <2> SUFFICES ASSUME NEW x \in Vports, x # o
               PROVE  VportInv(x)'
    BY DEF VportsInv
  <2>1. VportInv(x) /\ vport[x].dev \in Devs \cup {NULL}
    BY <1>0 DEF VportsInv, VportType, OrNull
  <2>2. vport[x].dev # NULL =>
           LET y == vport[x].dev
           IN  /\ y \in alloc => y \in alloc'
               /\ dev'[y].kind = dev[y].kind
               /\ dev[y].kind = "internal" => dev'[y].vport = dev[y].vport
    BY <2>1
  <2>3. vport'[x] = vport[x] /\ dev_table'[x] = dev_table[x] /\ (x \in alloc' <=> x \in alloc) /\ (x \in pend' <=> x \in pend)
    OBVIOUS
  <2> QED BY ONLY x \in Vports, <1>1, <1>3, <2>1, <2>2, <2>3, VportFrame
<1>6. DpsInv'
  <2> SUFFICES ASSUME NEW x \in Dps, x # d
               PROVE  DpInv(x)'
    BY DEF DpsInv
  <2>1. DpInv(x) /\ dp[x].ports \subseteq Vports
    BY <1>0 DEF DpsInv, DpType
  <2>2. \A y \in dp[x].ports :
          /\ vport'[y] = vport[y] /\ y \in alloc' \ pend'
          /\ vport[y].no = OVSP_LOCAL => dev'[vport[y].dev].net = dev[vport[y].dev].net
    <3> SUFFICES ASSUME NEW y \in dp[x].ports
                 PROVE  /\ vport'[y] = vport[y] /\ y \in alloc' \ pend'
                        /\ vport[y].no = OVSP_LOCAL => dev'[vport[y].dev].net = dev[vport[y].dev].net
      OBVIOUS
    <3>1. y \in Vports /\ y \in alloc \ pend /\ In(y)
      BY <2>1 DEF In, DpInv
    <3>2. y # o
      BY <3>1
    <3>3. VportInv(y) /\ vport[y].dev \in Devs
      BY <1>0, <3>1 DEF VportsInv, VportInv, VportType, OrNull
    <3> QED BY <3>1, <3>2, <3>3
  <2>3. dp'[x] = dp[x] /\ (x \in alloc' <=> x \in alloc) /\ (x \in pend' <=> x \in pend)
    OBVIOUS
  <2> QED BY ONLY x \in Dps, <1>1, <2>1, <2>2, <2>3, DpFrame
<1>7. DevsInv'
  <2> SUFFICES ASSUME NEW x \in Devs, x # e
               PROVE  DevInv(x)'
    BY DEF DevsInv
  <2>1. DevInv(x)
    BY <1>0 DEF DevsInv
  <2>2. dev[x].kind = "internal" \/ dev[x].attached =>
           LET y == dev[x].vport IN y \in alloc' \ pend' /\ vport'[y].dev = x
    BY <2>1 DEF DevInv
  <2>3. dev'[x] = dev[x] /\ (x \in alloc' <=> x \in alloc) /\ cmd' = cmd
    OBVIOUS
  <2> QED BY ONLY x \in Devs, <1>1, <1>3, <2>1, <2>2, <2>3, DevFrame
<1>8. CmdsInv'
  <2> SUFFICES ASSUME NEW t \in Actors
               PROVE  AddInv(t)' /\ RemoveInv(t)' /\ CmdInv(t)'
    BY DEF CmdsInv
  <2>1. AddInv(t) /\ RemoveInv(t) /\ CmdInv(t)
    BY <1>0 DEF CmdsInv
  <2>2. ASSUME NEW w \in Vports, w \in alloc \ pend
        PROVE  /\ w \in alloc' \ pend' /\ vport'[w] = vport[w] /\ dev_table'[w] = dev_table[w] /\ w # o
               /\ vport[w].dev \in Devs => vport[w].dev \in alloc'
               /\ vport[w].dev = NULL \/ vport[w].dev \in Devs
    <3>1. w # o /\ w \in alloc' \ pend' /\ vport'[w] = vport[w] /\ dev_table'[w] = dev_table[w]
      BY <2>2
    <3>2. vport[w].dev = NULL \/ vport[w].dev \in Devs
      BY <1>0 DEF VportType, OrNull
    <3>3. vport[w].dev \in Devs => vport[w].dev \in alloc
      BY <1>0, Constants DEF VportsInv, VportInv
    <3> QED BY <3>1, <3>2, <3>3
  <2>3. \A x \in Dps : x \in alloc \ pend => x \in alloc' \ pend' /\ dp'[x] = dp[x]
    OBVIOUS
  <2>4. \A x \in Dps : dp[x].listed => dp'[x] = dp[x]
    BY <1>2
  <2>5. AddInv(t)'
    <3> SUFFICES ASSUME cmd[t].pc \in Adding
                 PROVE  AddInv(t)'
      BY DEF AddInv
    <3>v. PICK w \in Vports, x \in Dps : w = cmd[t].vport /\ x = cmd[t].dp
      BY <2>1 DEF AddInv
    <3>1. /\ w \in alloc \ pend /\ x \in alloc \ pend /\ vport[w].no = cmd[t].no
      BY <2>1, <3>v DEF AddInv
    <3>2. \A u \in dp[x].ports : vport'[u] = vport[u]
      <4>1. DpInv(x) /\ dp[x].ports \subseteq Vports
        BY <1>0 DEF DpsInv, DpType
      <4> QED BY <2>2, <4>1 DEF DpInv
    <3>3. /\ w \in alloc' \ pend' /\ vport'[w] = vport[w] /\ dev_table'[w] = dev_table[w] /\ w # o
          /\ x \in alloc' \ pend' /\ dp'[x] = dp[x] /\ cmd'[t] = cmd[t]
      BY <2>2, <2>3, <3>1
    <3>4. cmd[t].pc \in {"hash", "insert"} /\ cmd[t].what = "dp_new" => dev'[vport[w].dev].net = dev[vport[w].dev].net
      <4>1. cmd[t].pc \in {"hash", "insert"} /\ cmd[t].what = "dp_new" => vport[w].no = OVSP_LOCAL /\ vport[w].dev # NULL
        BY <2>1, <3>1, <3>v DEF AddInv
      <4>2. vport[w].dev = NULL \/ vport[w].dev \in Devs
        BY <2>2, <3>1
      <4>3. Adds(t, w)
        BY <3>v DEF Adds
      <4> QED BY <3>3, <4>1, <4>2, <4>3
    <3>5. cmd[t].pc = "link" => (dev'[vport[w].dev].attached => dev[vport[w].dev].attached /\ dev'[vport[w].dev].vport = dev[vport[w].dev].vport)
      <4>1. cmd[t].pc = "link" => vport[w].dev # NULL
        BY <2>1, <3>1, <3>v DEF AddInv
      <4>2. vport[w].dev = NULL \/ vport[w].dev \in Devs
        BY <2>2, <3>1
      <4> QED BY <3>3, <4>1, <4>2
    <3> QED BY ONLY <2>1, <3>v, <3>1, <3>2, <3>3, <3>4, <3>5 DEF AddInv
  <2>6. RemoveInv(t)'
    <3> SUFFICES ASSUME cmd[t].pc \in Removing
                 PROVE  RemoveInv(t)'
      BY DEF RemoveInv
    <3>v. PICK w \in Vports, x \in Dps : w = cmd[t].vport /\ x = vport[w].dp
      BY <2>1 DEF RemoveInv
    <3>1. w \in alloc \ pend /\ x \in alloc \ pend
      BY <2>1, <3>v DEF RemoveInv
    <3>3. /\ w \in alloc' \ pend' /\ vport'[w] = vport[w] /\ dev_table'[w] = dev_table[w] /\ w # o
          /\ x \in alloc' \ pend' /\ dp'[x] = dp[x] /\ cmd'[t] = cmd[t] /\ (In(w)' <=> In(w))
      BY <1>3, <2>2, <2>3, <3>1
    <3>4. cmd[t].pc = "run_todo" => LET y == cmd[t].dev IN y \in alloc' /\ dev'[y].kind = dev[y].kind /\ dev'[y].reg = dev[y].reg
      BY <2>1 DEF RemoveInv
    <3>5. cmd[t].pc = "synchronize_net" => (Registered(vport[w].dev)' <=> Registered(vport[w].dev))
      <4> SUFFICES ASSUME cmd[t].pc = "synchronize_net"
                   PROVE  Registered(vport[w].dev)' <=> Registered(vport[w].dev)
        OBVIOUS
      <4>1. vport[w].dev # NULL /\ vport[w].type = "internal"
        BY <2>1, <3>v DEF RemoveInv
      <4>2. vport[w].dev \in Devs /\ dev[vport[w].dev].kind = "internal"
        BY <1>0, <2>2, <3>1, <4>1 DEF VportsInv, VportInv
      <4> QED BY <3>3, <4>2 DEF Registered
    <3> QED BY ONLY <2>1, <3>v, <3>1, <3>3, <3>4, <3>5 DEF RemoveInv, Registered
  <2>7. CmdInv(t)'
    <3>1. cmd[t].pc \in {"exit_vports", "notify"} \cup Removing =>
             \A v \in cmd[t].todo : In(v)' /\ vport'[v].no # OVSP_LOCAL
      <4> SUFFICES ASSUME cmd[t].pc \in {"exit_vports", "notify"} \cup Removing, NEW v \in cmd[t].todo
                   PROVE  In(v)' /\ vport'[v].no # OVSP_LOCAL
        OBVIOUS
      <4>1. In(v) /\ vport[v].no # OVSP_LOCAL
        BY <2>1 DEF CmdInv
      <4>2. v \in Vports /\ v # o
        BY <1>0, <1>4, <4>1 DEF In, DpType
      <4> QED BY <1>3, <4>1, <4>2
    <3>2. cmd[t].pc = "vport_add" => \A u \in dp[cmd[t].dp].ports : vport'[u] = vport[u]
      <4> SUFFICES ASSUME cmd[t].pc = "vport_add", NEW u \in dp[cmd[t].dp].ports
                   PROVE  vport'[u] = vport[u]
        OBVIOUS
      <4>1. cmd[t].dp \in Dps
        BY <2>1 DEF CmdInv
      <4>2. DpInv(cmd[t].dp) /\ dp[cmd[t].dp].ports \subseteq Vports
        BY <1>0, <4>1 DEF DpsInv, DpType
      <4> QED BY <2>2, <4>2 DEF DpInv
    <3>3. cmd' = cmd
      OBVIOUS
    <3> QED BY ONLY <2>1, <2>3, <2>4, <3>1, <3>2, <3>3 DEF CmdInv
  <2> QED BY <2>5, <2>6, <2>7
<1>9. LockInv'
  BY <1>0 DEF LockInv
<1>10. RefsBalanced'
  BY DEF RefsBalanced, RefInv, Promisc, Held
<1> QED BY <1>5, <1>6, <1>7, <1>8, <1>9, <1>10 DEF Inv

\* A change of device e alone.
DevChange(e) ==
  /\ UNCHANGED <<pend, rcu, dp, vport, dev_table, dead, ovs_mutex, rtnl, cmd>>
  /\ \A x \in Devs : x # e => dev'[x] = dev[x]
  /\ dev' \in [Devs -> DevLoose] /\ wait' \in [Obj -> SUBSET rcu] /\ work' \subseteq Nets

LEMMA NotHeld ==
  ASSUME NEW e \in Devs, RefInv(e), dev[e].ref = 0
  PROVE  Held(e) = {}
<1> SUFFICES ASSUME NEW w \in Held(e)
             PROVE  FALSE
  OBVIOUS
<1>1. Held(e) \subseteq Vports /\ Cardinality(Held(e)) = 0
  BY DEF Held, RefInv
<1>2. Cardinality(Held(e) \ {w}) = -1 /\ Cardinality(Held(e) \ {w}) \in Nat
  BY <1>1, Counting
<1> QED BY <1>2

\* A device that stays, keeps what commands rely on and is attached only if it was.
LEMMA DevChanges ==
  ASSUME Inv, NEW e \in Devs, e \in alloc, UNCHANGED alloc, DevChange(e),
         dev'[e].kind = dev[e].kind, dev'[e].reg # "none", dev'[e].name \in Names, dev'[e].net \in Nets, dev'[e].ref = dev[e].ref,
         dev[e].kind = "internal" => /\ dev'[e].vport = dev[e].vport /\ dev'[e].reg = dev[e].reg
                                     /\ dev'[e].promisc = dev[e].promisc /\ ~dev'[e].attached,
         dev[e].reg = "unregistering" => dev'[e].reg = "unregistering",
         \/ dev'[e].attached = dev[e].attached /\ dev'[e].vport = dev[e].vport /\ dev'[e].promisc = dev[e].promisc
         \/ ~dev'[e].attached /\ dev'[e].promisc = (IF dev[e].attached THEN dev[e].promisc - 1 ELSE dev[e].promisc),
         \A x \in Vports : vport[x].dev = e /\ vport[x].no = OVSP_LOCAL /\ (In(x) \/ \E t \in Actors : Adds(t, x)) =>
           dev'[e].net = dev[e].net
  PROVE  Inv'
<1> USE DEF DevChange
<1>0. TypeInv /\ DevsInv /\ RefsBalanced /\ CmdsInv /\ dev \in [Devs -> DevLoose]
  BY DEF Inv, TypeInv
<1>1. DevInv(e) /\ RefInv(e)
  BY <1>0, RefsByDevice DEF DevsInv
<1>2. TypeInv'
  BY <1>0 DEF TypeInv
<1>3. DevInv(e)'
  <2>1. \A x : (In(x)' <=> In(x)) /\ (InHand(x)' <=> InHand(x))
    BY DEF In, InHand, Adds, Removes
  <2>2. dev'[e].attached => dev[e].attached /\ dev'[e].vport = dev[e].vport
    OBVIOUS
  <2> QED BY <1>1, <2>1, <2>2 DEF DevInv, Registered
<1>4. Promisc(e)'
  <2>0. dev[e].attached \in BOOLEAN /\ dev'[e].attached \in BOOLEAN
    BY <1>0 DEF DevLoose
  <2>1. Promisc(e)
    BY <1>1 DEF RefInv
  <2>2. CASE dev[e].kind = "internal"
    <3>1. ~dev[e].attached
      BY <1>1, <2>2 DEF DevInv
    <3> QED BY <2>1, <2>2, <3>1 DEF Promisc, Registered
  <2>3. CASE dev[e].kind # "internal"
    <3>1. dev[e].promisc = IF dev[e].attached THEN 1 ELSE 0
      BY <2>1, <2>3 DEF Promisc
    <3>3. CASE dev'[e].attached = dev[e].attached /\ dev'[e].promisc = dev[e].promisc
      <4>1. dev'[e].attached <=> dev[e].attached
        BY <3>3
      <4>2. dev'[e].promisc = IF dev'[e].attached THEN 1 ELSE 0
        BY ONLY <3>1, <3>3, <4>1
      <4> QED BY <2>3, <4>2 DEF Promisc
    <3>4. CASE ~dev'[e].attached /\ dev'[e].promisc = (IF dev[e].attached THEN dev[e].promisc - 1 ELSE dev[e].promisc)
      <4>1. dev'[e].promisc = 0
        BY <3>1, <3>4
      <4> QED BY <2>3, <3>4, <4>1 DEF Promisc
    <3> QED BY <3>3, <3>4
  <2> QED BY <2>2, <2>3
<1>5. \A x \in Devs : RefInv(x)'
  <2>1. \A x \in Devs : x # e => RefInv(x)'
    BY ZenonT(60), <1>0, RefsByDevice DEF RefInv, Promisc, Held, Registered
  <2>2. RefInv(e)'
    BY <1>1, <1>4 DEF RefInv, Held
  <2> QED BY <2>1, <2>2
<1>6. \A t \in Actors : cmd[t].pc = "run_todo" /\ cmd[t].dev = e => dev[e].reg = "unregistering"
  BY <1>0 DEF CmdsInv, RemoveInv, Removing
<1>7. NULL \notin Vports /\ NULL \notin Dps /\ NULL \in OrNull(Vports) /\ NULL \in OrNull(Dps) /\ e \in OrNull(Devs)
  BY Constants DEF OrNull
<1>8. Aside(NULL, NULL, e)
  <2>1. \A x \in Vports : vport[x].dev = e =>
       /\ e \in alloc' /\ dev'[e].kind = dev[e].kind
       /\ vport[x].no = OVSP_LOCAL /\ (In(x) \/ \E t \in Actors : Adds(t, x)) => dev'[e].net = dev[e].net
       /\ dev[e].kind = "internal" => dev'[e].vport = dev[e].vport /\ dev'[e].reg = dev[e].reg
       /\ dev'[e].attached => dev[e].attached /\ dev'[e].vport = dev[e].vport
    OBVIOUS
  <2>2. \A t \in Actors : cmd[t].pc = "run_todo" /\ cmd[t].dev = e =>
       e \in alloc' /\ dev'[e].kind = dev[e].kind /\ dev'[e].reg = dev[e].reg
    BY <1>6
  <2>3. UNCHANGED <<dev_table, ovs_mutex, rtnl, cmd, vport, alloc, pend, dp>> /\ \A x \in Devs : x # e => dev'[x] = dev[x]
    OBVIOUS
  <2> QED BY ONLY <1>7, <2>1, <2>2, <2>3 DEF Aside
<1> QED BY <1>2, <1>3, <1>5, <1>7, <1>8, AsideStep

\* Registered is only a device nobody has heard of, and only one nobody holds goes.
LEMMA DevComesOrGoes ==
  ASSUME Inv, NEW e \in Devs, DevChange(e), \A x \in Obj : x # e => (x \in alloc' <=> x \in alloc), alloc' \subseteq Obj,
         e \notin alloc \/ (Leaving(e) /\ dev[e].ref = 0),
         \/ e \notin alloc' /\ dev'[e] = NoDev
         \/ /\ e \in alloc' /\ dev'[e].kind = "phys" /\ ~dev'[e].attached /\ dev'[e].promisc = 0 /\ dev'[e].ref = 0
            /\ dev'[e].reg # "none" /\ dev'[e].name \in Names /\ dev'[e].net \in Nets
  PROVE  Inv'
<1> USE DEF DevChange
<1>0. TypeInv /\ DevsInv /\ RefsBalanced /\ CmdsInv /\ VportsInv /\ dev \in [Devs -> DevLoose]
  BY DEF Inv, TypeInv
<1>1. DevInv(e) /\ RefInv(e)
  BY <1>0, RefsByDevice DEF DevsInv
<1>2. TypeInv'
  <2>1. pend' \subseteq alloc' /\ pend' \cap Devs = {}
    BY <1>0 DEF TypeInv
  <2> QED BY <1>0, <2>1 DEF TypeInv
<1>3. \A x \in Vports : vport[x].dev # e
  <2> SUFFICES ASSUME NEW x \in Vports, vport[x].dev = e
               PROVE  FALSE
    OBVIOUS
  <2>1. VportInv(x) /\ e # NULL
    BY <1>0, Constants DEF VportsInv
  <2>2. e \in alloc /\ (vport[x].type = "internal" <=> dev[e].kind = "internal")
    BY <2>1 DEF VportInv
  <2>3. Leaving(e) /\ dev[e].ref = 0 /\ dev[e].kind # "internal"
    BY <2>2 DEF Leaving
  <2> QED BY <1>1, <2>2, <2>3, NotHeld DEF Held
<1>4. \A t \in Actors : ~(cmd[t].pc = "run_todo" /\ cmd[t].dev = e)
  <2>1. \A t \in Actors : cmd[t].pc = "run_todo" => cmd[t].dev \in alloc
    BY <1>0 DEF CmdsInv, RemoveInv, Removing
  <2> QED BY <2>1 DEF Leaving
<1>5. DevInv(e)'
  BY NoDevType DEF DevInv
<1>6. \A x \in Devs : RefInv(x)'
  <2>1. \A x \in Devs : x # e => RefInv(x)'
    BY <1>0, RefsByDevice DEF RefInv, Promisc, Held, Registered
  <2>2. Held(e)' = {}
    BY <1>3 DEF Held
  <2>3. Promisc(e)' /\ dev'[e].ref = 0
    BY NoDevType DEF Promisc
  <2> QED BY <2>1, <2>2, <2>3, Counting DEF RefInv
<1>7. NULL \notin Vports /\ NULL \notin Dps /\ NULL \in OrNull(Vports) /\ NULL \in OrNull(Dps) /\ e \in OrNull(Devs)
  BY Constants DEF OrNull
<1>8. Aside(NULL, NULL, e)
  <2>1. /\ \A x \in Vports : x \in alloc' <=> x \in alloc
        /\ \A x \in Dps : x \in alloc' <=> x \in alloc
        /\ \A x \in Devs : x # e => (x \in alloc' <=> x \in alloc)
    BY Constants
  <2>2. UNCHANGED <<dev_table, ovs_mutex, rtnl, cmd, vport, pend, dp>> /\ \A x \in Devs : x # e => dev'[x] = dev[x]
    OBVIOUS
  <2> QED BY ONLY <1>3, <1>4, <1>7, <2>1, <2>2 DEF Aside
<1> QED BY <1>2, <1>5, <1>6, <1>7, <1>8, AsideStep

LEMMA Registers ==
  ASSUME Inv, NEW e \in Devs, NEW n \in Names, NEW net \in Nets, register_netdevice(e, n, net)
  PROVE  Inv'
<1>0. TypeInv /\ dev \in [Devs -> DevLoose] /\ e \in Obj
  BY Constants DEF Inv, TypeInv
<1> DEFINE z == [NoDev EXCEPT !.name = n, !.net = net, !.reg = "registered"]
<1>1. /\ z \in DevLoose /\ z.name = n /\ z.net = net /\ z.reg = "registered" /\ z.kind = "phys" /\ ~z.attached
      /\ z.promisc = 0 /\ z.ref = 0
  <2>1. \A y \in DevLoose : [y EXCEPT !.name = n, !.net = net, !.reg = "registered"] \in DevLoose
    BY DEF DevLoose, OrNull
  <2> QED BY <2>1, NoDevType DEF NoDev
<1>2. dev' = [dev EXCEPT ![e] = z] /\ alloc' = alloc \cup {e} /\ e \notin alloc
      /\ UNCHANGED <<pend, rcu, wait, work, dp, vport, dev_table, dead, ovs_mutex, rtnl, cmd>>
  BY DEF register_netdevice, UNCHANGED_by_devices, tables
<1> HIDE DEF z
<1>3. dev' \in [Devs -> DevLoose] /\ dev'[e] = z /\ \A x \in Devs : x # e => dev'[x] = dev[x]
  BY <1>0, <1>1, <1>2
<1>4. DevChange(e)
  BY <1>0, <1>2, <1>3 DEF DevChange, TypeInv
<1>5. alloc' \subseteq Obj /\ \A x \in Obj : x # e => (x \in alloc' <=> x \in alloc)
  BY <1>0, <1>2 DEF TypeInv
<1>6. /\ e \in alloc' /\ dev'[e].kind = "phys" /\ dev'[e].promisc = 0 /\ dev'[e].ref = 0
      /\ dev'[e].reg # "none" /\ dev'[e].name \in Names /\ dev'[e].net \in Nets
  BY <1>1, <1>2, <1>3
<1>7. ~dev'[e].attached
  BY <1>1, <1>3
<1>8. \/ e \notin alloc' /\ dev'[e] = NoDev
      \/ /\ e \in alloc' /\ dev'[e].kind = "phys" /\ ~dev'[e].attached /\ dev'[e].promisc = 0 /\ dev'[e].ref = 0
         /\ dev'[e].reg # "none" /\ dev'[e].name \in Names /\ dev'[e].net \in Nets
  BY ONLY <1>6, <1>7
<1>9. e \notin alloc \/ (Leaving(e) /\ dev[e].ref = 0)
  BY <1>2
<1> QED BY ONLY Inv, e \in Devs, <1>4, <1>5, <1>8, <1>9, DevComesOrGoes

LEMMA RunTodo ==
  ASSUME Inv, NEW e \in Devs, netdev_run_todo(e)
  PROVE  Inv'
<1>0. TypeInv /\ dev \in [Devs -> DevLoose] /\ e \in Obj
  BY Constants DEF Inv, TypeInv
<1>2. /\ dev' = [dev EXCEPT ![e] = NoDev] /\ alloc' = alloc \ {e} /\ Leaving(e) /\ dev[e].ref = 0
      /\ UNCHANGED <<pend, rcu, wait, work, dp, vport, dev_table, dead, ovs_mutex, rtnl, cmd>>
  BY DEF netdev_run_todo, UNCHANGED_by_devices, tables
<1>3. dev' \in [Devs -> DevLoose] /\ dev'[e] = NoDev /\ \A x \in Devs : x # e => dev'[x] = dev[x]
  BY <1>0, <1>2, NoDevType
<1>4. DevChange(e)
  BY <1>0, <1>2, <1>3 DEF DevChange, TypeInv
<1>5. alloc' \subseteq Obj /\ e \notin alloc' /\ \A x \in Obj : x # e => (x \in alloc' <=> x \in alloc)
  BY <1>0, <1>2 DEF TypeInv
<1> QED BY <1>2, <1>3, <1>4, <1>5, DevComesOrGoes

\* dp_device_event() queues the work of a namespace that exists.
LEMMA NotifyType ==
  ASSUME Inv, NEW e \in Devs, e \in alloc
  PROVE  NotifyWork(e) \subseteq Nets
  BY DEF NotifyWork, Inv, TypeInv, DevsInv, DevInv

LEMMA Unregisters ==
  ASSUME Inv, NEW e \in Devs, unregister_netdevice(e)
  PROVE  Inv'
<1>0. TypeInv /\ dev \in [Devs -> DevLoose] /\ e \in Obj /\ DevInv(e)
  BY Constants DEF Inv, TypeInv, DevsInv
<1> DEFINE y == [dev[e] EXCEPT !.reg = "unregistering"]
<1>1. /\ y \in DevLoose /\ y.kind = dev[e].kind /\ y.name = dev[e].name /\ y.net = dev[e].net /\ y.reg = "unregistering"
      /\ y.promisc = dev[e].promisc /\ y.ref = dev[e].ref /\ y.vport = dev[e].vport
  BY <1>0 DEF DevLoose
<1>2. y.attached = dev[e].attached
  BY <1>0 DEF DevLoose
<1>3. /\ dev' = [dev EXCEPT ![e] = ovs_netdev_detach_dev(y)] /\ work' = NotifyWork(e) /\ wait' = [wait EXCEPT ![e] = rcu]
      /\ dev[e].reg = "registered" /\ dev[e].kind # "internal"
      /\ UNCHANGED <<alloc, pend, rcu, dp, vport, dev_table, dead, ovs_mutex, rtnl, cmd>>
  BY DEF unregister_netdevice, UNCHANGED_by_devices, tables, dp_device_event, Registered
<1> HIDE DEF y
<1> DEFINE z == ovs_netdev_detach_dev(y)
<1>4. /\ z \in DevLoose /\ ~z.attached /\ z.promisc = (IF y.attached THEN y.promisc - 1 ELSE y.promisc)
      /\ z.kind = y.kind /\ z.name = y.name /\ z.net = y.net /\ z.reg = y.reg /\ z.ref = y.ref
  BY <1>1, DetachType
<1> HIDE DEF z
<1>5. dev' \in [Devs -> DevLoose] /\ dev'[e] = z /\ \A x \in Devs : x # e => dev'[x] = dev[x]
  BY <1>0, <1>3, <1>4 DEF z
<1>6. e \in alloc /\ dev[e].name \in Names /\ dev[e].net \in Nets
  BY <1>0, <1>3, NoDevType DEF DevInv
<1>7. DevChange(e)
  <2>1. wait' \in [Obj -> SUBSET rcu] /\ work' \subseteq Nets
    BY <1>0, <1>3, <1>6, NotifyType DEF TypeInv
  <2> QED BY <1>3, <1>5, <2>1 DEF DevChange
<1>8. dev'[e].promisc = (IF dev[e].attached THEN dev[e].promisc - 1 ELSE dev[e].promisc)
  BY <1>1, <1>2, <1>4, <1>5
<1>9. /\ dev'[e].kind = dev[e].kind /\ dev'[e].reg = "unregistering" /\ dev'[e].name = dev[e].name /\ dev'[e].net = dev[e].net
      /\ dev'[e].ref = dev[e].ref /\ ~dev'[e].attached
  BY <1>1, <1>4, <1>5
<1> QED BY <1>3, <1>6, <1>7, <1>8, <1>9, DevChanges

LEMMA WaitsAllrefs ==
  ASSUME Inv, NEW e \in Devs, netdev_wait_allrefs(e)
  PROVE  Inv'
<1>0. TypeInv /\ dev \in [Devs -> DevLoose] /\ DevInv(e)
  BY Constants DEF Inv, TypeInv, DevsInv
<1>3. /\ dev' = [dev EXCEPT ![e] = ovs_netdev_detach_dev(dev[e])] /\ work' = NotifyWork(e)
      /\ dev[e].reg = "unregistering" /\ dev[e].kind # "internal"
      /\ UNCHANGED <<alloc, pend, rcu, wait, dp, vport, dev_table, dead, ovs_mutex, rtnl, cmd>>
  BY DEF netdev_wait_allrefs, UNCHANGED_by_devices, tables, dp_device_event, Leaving
<1> DEFINE z == ovs_netdev_detach_dev(dev[e])
<1>4. /\ z \in DevLoose /\ ~z.attached /\ z.promisc = (IF dev[e].attached THEN dev[e].promisc - 1 ELSE dev[e].promisc)
      /\ z.kind = dev[e].kind /\ z.name = dev[e].name /\ z.net = dev[e].net /\ z.reg = dev[e].reg /\ z.ref = dev[e].ref
  BY <1>0, DetachType
<1> HIDE DEF z
<1>5. dev' \in [Devs -> DevLoose] /\ dev'[e] = z /\ \A x \in Devs : x # e => dev'[x] = dev[x]
  BY <1>0, <1>3, <1>4 DEF z
<1>6. e \in alloc /\ dev[e].name \in Names /\ dev[e].net \in Nets
  BY <1>0, <1>3, NoDevType DEF DevInv
<1>7. DevChange(e)
  <2>1. wait' \in [Obj -> SUBSET rcu] /\ work' \subseteq Nets
    BY <1>0, <1>3, <1>6, NotifyType DEF TypeInv
  <2> QED BY <1>3, <1>5, <2>1 DEF DevChange
<1>8. dev'[e].promisc = (IF dev[e].attached THEN dev[e].promisc - 1 ELSE dev[e].promisc)
  BY <1>4, <1>5
<1>9. /\ dev'[e].kind = dev[e].kind /\ dev'[e].reg = "unregistering" /\ dev'[e].name = dev[e].name /\ dev'[e].net = dev[e].net
      /\ dev'[e].ref = dev[e].ref /\ ~dev'[e].attached
  BY <1>3, <1>4, <1>5
<1> QED BY <1>3, <1>6, <1>7, <1>8, <1>9, DevChanges

LEMMA Renames ==
  ASSUME Inv, NEW e \in Devs, NEW n \in Names, dev_change_name(e, n)
  PROVE  Inv'
<1>0. TypeInv /\ dev \in [Devs -> DevLoose] /\ DevInv(e)
  BY Constants DEF Inv, TypeInv, DevsInv
<1> DEFINE z == [dev[e] EXCEPT !.name = n]
<1>1. /\ z \in DevLoose /\ z.kind = dev[e].kind /\ z.name = n /\ z.net = dev[e].net /\ z.reg = dev[e].reg
      /\ z.promisc = dev[e].promisc /\ z.ref = dev[e].ref /\ z.vport = dev[e].vport
  BY <1>0 DEF DevLoose, OrNull
<1>2. z.attached = dev[e].attached
  BY <1>0 DEF DevLoose
<1>3. /\ dev' = [dev EXCEPT ![e] = z] /\ dev[e].reg = "registered"
      /\ UNCHANGED <<alloc, pend, rcu, wait, work, dp, vport, dev_table, dead, ovs_mutex, rtnl, cmd>>
  BY DEF dev_change_name, UNCHANGED_by_devices, tables, Registered
<1> HIDE DEF z
<1>5. dev' \in [Devs -> DevLoose] /\ dev'[e] = z /\ \A x \in Devs : x # e => dev'[x] = dev[x]
  BY <1>0, <1>1, <1>3
<1>6. e \in alloc /\ dev[e].net \in Nets /\ (dev[e].kind = "internal" => ~dev[e].attached)
  BY <1>0, <1>3, NoDevType DEF DevInv
<1>7. DevChange(e)
  BY <1>0, <1>3, <1>5 DEF DevChange, TypeInv
<1>8. dev'[e].attached = dev[e].attached
  BY <1>2, <1>5
<1>9. /\ dev'[e].kind = dev[e].kind /\ dev'[e].reg = "registered" /\ dev'[e].name = n /\ dev'[e].net = dev[e].net
      /\ dev'[e].ref = dev[e].ref /\ dev'[e].promisc = dev[e].promisc /\ dev'[e].vport = dev[e].vport
  BY <1>1, <1>3, <1>5
<1>10. dev[e].kind = "internal" => ~dev'[e].attached
  BY <1>6, <1>8
<1> QED BY <1>3, <1>6, <1>7, <1>8, <1>9, <1>10, DevChanges

\* A device moves to another namespace: an internal one that is no local port's, or one that
\* is detached from its port on the way.
LEMMA Moves ==
  ASSUME Inv, NEW e \in Devs, NEW net \in Nets, dev_change_net_namespace(e, net)
  PROVE  Inv'
<1>0. TypeInv /\ dev \in [Devs -> DevLoose] /\ DevInv(e) /\ VportsInv /\ vport \in [Vports -> VportType] /\ e # NULL
  BY Constants DEF Inv, TypeInv, DevsInv
<1> DEFINE y == [dev[e] EXCEPT !.net = net]
<1>1. /\ y \in DevLoose /\ y.kind = dev[e].kind /\ y.name = dev[e].name /\ y.net = net /\ y.reg = dev[e].reg
      /\ y.promisc = dev[e].promisc /\ y.ref = dev[e].ref /\ y.vport = dev[e].vport
  BY <1>0 DEF DevLoose, OrNull
<1>2. y.attached = dev[e].attached
  BY <1>0 DEF DevLoose
<1>3. /\ dev[e].reg = "registered"
      /\ UNCHANGED <<alloc, pend, rcu, wait, dp, vport, dev_table, dead, ovs_mutex, rtnl, cmd>>
      /\ \/ dev[e].kind = "internal" /\ vport[dev[e].vport].no # OVSP_LOCAL /\ dev' = [dev EXCEPT ![e] = y] /\ work' = work
         \/ dev[e].kind = "phys" /\ dev' = [dev EXCEPT ![e] = ovs_netdev_detach_dev(y)] /\ work' = NotifyWork(e)
  BY DEF dev_change_net_namespace, UNCHANGED_by_devices, tables, Registered, dp_device_event
<1>6. e \in alloc /\ dev[e].name \in Names /\ (dev[e].kind = "internal" => ~dev[e].attached)
  BY <1>0, <1>3, NoDevType DEF DevInv
<1>l. ASSUME NEW x \in Vports, vport[x].dev = e, vport[x].no = OVSP_LOCAL, In(x) \/ \E t \in Actors : Adds(t, x)
      PROVE  dev[e].kind = "internal" /\ dev[e].vport = x
  <2>1. VportInv(x)
    BY <1>0 DEF VportsInv
  <2>2. vport[x].type = "internal"
    <3>1. CASE In(x)
      BY <1>l, <3>1 DEF In, Inv, DpsInv, DpInv
    <3>2. CASE \E t \in Actors : Adds(t, x)
      BY <1>l, <3>2 DEF Adds, Inv, CmdsInv, AddInv
    <3> QED BY <1>l, <3>1, <3>2
  <2> QED BY <1>0, <1>l, <2>1, <2>2 DEF VportInv
<1> HIDE DEF y
<1>7. CASE dev[e].kind = "internal"
  <2>3. dev' = [dev EXCEPT ![e] = y] /\ work' = work /\ vport[dev[e].vport].no # OVSP_LOCAL
    BY <1>3, <1>7
  <2>5. dev' \in [Devs -> DevLoose] /\ dev'[e] = y /\ \A x \in Devs : x # e => dev'[x] = dev[x]
    BY <1>0, <1>1, <2>3
  <2>7. DevChange(e)
    BY <1>0, <1>3, <2>3, <2>5 DEF DevChange, TypeInv
  <2>8. dev'[e].attached = dev[e].attached
    BY <1>2, <2>5
  <2>9. /\ dev'[e].kind = dev[e].kind /\ dev'[e].reg = "registered" /\ dev'[e].name = dev[e].name /\ dev'[e].net = net
        /\ dev'[e].ref = dev[e].ref /\ dev'[e].promisc = dev[e].promisc /\ dev'[e].vport = dev[e].vport
    BY <1>1, <1>3, <2>5
  <2>10. ~dev'[e].attached
    BY <1>6, <1>7, <2>8
  <2>11. \A x \in Vports : ~(vport[x].dev = e /\ vport[x].no = OVSP_LOCAL /\ (In(x) \/ \E t \in Actors : Adds(t, x)))
    BY <1>l, <2>3
  <2> QED BY <1>3, <1>6, <2>7, <2>8, <2>9, <2>10, <2>11, DevChanges
<1>8. CASE dev[e].kind = "phys"
  <2> DEFINE z == ovs_netdev_detach_dev(y)
  <2>3. dev' = [dev EXCEPT ![e] = z] /\ work' = NotifyWork(e)
    BY <1>3, <1>8
  <2>4. /\ z \in DevLoose /\ ~z.attached /\ z.promisc = (IF y.attached THEN y.promisc - 1 ELSE y.promisc)
        /\ z.kind = y.kind /\ z.name = y.name /\ z.net = y.net /\ z.reg = y.reg /\ z.ref = y.ref
    BY <1>1, DetachType
  <2> HIDE DEF z
  <2>5. dev' \in [Devs -> DevLoose] /\ dev'[e] = z /\ \A x \in Devs : x # e => dev'[x] = dev[x]
    BY <1>0, <2>3, <2>4
  <2>7. DevChange(e)
    <3>1. work' \subseteq Nets
      BY <1>6, <2>3, NotifyType
    <3> QED BY <1>0, <1>3, <2>5, <3>1 DEF DevChange, TypeInv
  <2>8. dev'[e].promisc = (IF dev[e].attached THEN dev[e].promisc - 1 ELSE dev[e].promisc)
    BY <1>1, <1>2, <2>4, <2>5
  <2>9. /\ dev'[e].kind = dev[e].kind /\ dev'[e].reg = "registered" /\ dev'[e].name = dev[e].name /\ dev'[e].net = net
        /\ dev'[e].ref = dev[e].ref /\ ~dev'[e].attached
    BY <1>1, <1>3, <2>4, <2>5
  <2>11. \A x \in Vports : ~(vport[x].dev = e /\ vport[x].no = OVSP_LOCAL /\ (In(x) \/ \E t \in Actors : Adds(t, x)))
    BY <1>8, <1>l
  <2> QED BY <1>3, <1>6, <1>8, <2>7, <2>8, <2>9, <2>11, DevChanges
<1> QED BY <1>3, <1>7, <1>8

\* vport_netdev_free() lets go of the device, if the port still has one.
LEMMA PortFreed ==
  ASSUME Inv, NEW o \in Vports, rcu_callback(o)
  PROVE  Inv'
<1>0. /\ TypeInv /\ VportsInv /\ DevsInv /\ RefsBalanced /\ CmdsInv /\ dev \in [Devs -> DevLoose] /\ vport \in [Vports -> VportType]
      /\ o \notin Dps /\ o \notin Devs
  BY Constants DEF Inv, TypeInv
<1>1. /\ o \in pend /\ pend' = pend \ {o} /\ alloc' = alloc \ {o} /\ dev' = DevPut(o) /\ vport' = [vport EXCEPT ![o] = NoVport]
      /\ UNCHANGED <<dp, wait, dev_table, rcu, work, dead, ovs_mutex, rtnl, cmd>>
  BY DEF rcu_callback, GraceEnded, others, readers
<1>2. VportInv(o) /\ o \in alloc
  BY <1>0, <1>1 DEF VportsInv, TypeInv
<1>3. ~In(o) /\ ~InHand(o) /\ dev_table[o] = NULL /\ vport[o].type # "internal"
  BY <1>1, <1>2 DEF VportInv
<1>4. /\ vport' \in [Vports -> VportType] /\ vport'[o] = NoVport /\ \A x \in Vports : x # o => vport'[x] = vport[x]
  BY <1>0, <1>1, VportFields
<1>5. \A x \in Obj : x # o => (x \in alloc' <=> x \in alloc) /\ (x \in pend' <=> x \in pend)
  BY <1>1
<1>6. alloc' \subseteq Obj /\ pend' \subseteq alloc' /\ pend' \cap Devs = {}
  BY <1>0, <1>1 DEF TypeInv
<1>7. VportInv(o)'
  <2>1. ~In(o)' /\ ~InHand(o)'
    BY <1>1, <1>3 DEF In, InHand, Adds, Removes
  <2> QED BY <1>1, <1>3, <1>4, <2>1, VportFields DEF VportInv
<1>8. /\ NULL \notin Vports /\ NULL \notin Dps /\ NULL \notin Devs /\ o \in OrNull(Vports) /\ NULL \in OrNull(Dps) /\ NULL \in OrNull(Devs)
  BY Constants DEF OrNull
<1>9. \A x \in Vports : x # o => x \in Obj
  BY Constants
<1>10. \A x \in Dps : x \in Obj /\ x # o
  BY Constants
<1>11. \A x \in Devs : x \in Obj /\ x # o
  BY Constants
<1>12. CASE vport[o].dev = NULL
  <2>1. dev' = dev
    BY <1>1, <1>12 DEF DevPut
  <2>2. TypeInv'
    BY <1>0, <1>1, <1>4, <1>6, <2>1 DEF TypeInv
  <2>3. \A x \in Devs : RefInv(x)'
    <3> TAKE x \in Devs
    <3>1. \A w \in Vports : vport'[w].dev = x /\ vport'[w].type # "internal" <=> vport[w].dev = x /\ vport[w].type # "internal"
      BY <1>4, <1>8, <1>12, VportFields
    <3> QED BY <1>0, <2>1, <3>1, RefFrame, RefsByDevice
  <2>4. Aside(o, NULL, NULL)
    BY ONLY <1>1, <1>4, <1>5, <1>8, <1>9, <1>10, <1>11, <2>1 DEF Aside
  <2> QED BY <1>7, <1>8, <2>2, <2>3, <2>4, AsideStep
<1>13. CASE vport[o].dev # NULL
  <2>v. PICK e \in Devs : e = vport[o].dev
    BY <1>0, <1>13 DEF VportType, OrNull
  <2>1. dev' = [dev EXCEPT ![e].ref = @ - 1]
    BY <1>1, <1>13, <2>v DEF DevPut
  <2>2. e \in alloc /\ dev[e].kind # "internal" /\ DevInv(e) /\ RefInv(e) /\ o \in Held(e)
    BY <1>0, <1>2, <1>3, <1>13, <2>v, RefsByDevice DEF VportInv, DevsInv, Held
  <2> DEFINE z == [dev[e] EXCEPT !.ref = @ - 1]
  <2>3. /\ z \in DevLoose /\ z.ref = dev[e].ref - 1
        /\ z.kind = dev[e].kind /\ z.name = dev[e].name /\ z.net = dev[e].net /\ z.reg = dev[e].reg
        /\ z.vport = dev[e].vport /\ z.attached = dev[e].attached /\ z.promisc = dev[e].promisc
    BY <1>0, DevFields
  <2>4. dev' = [dev EXCEPT ![e] = z]
    BY <2>1
  <2> HIDE DEF z
  <2>5. /\ dev' \in [Devs -> DevLoose] /\ dev'[e] = z /\ \A x \in Devs : x # e => dev'[x] = dev[x]
    BY <1>0, <2>3, <2>4
  <2>6. /\ dev'[e].kind = dev[e].kind /\ dev'[e].name = dev[e].name /\ dev'[e].net = dev[e].net /\ dev'[e].reg = dev[e].reg
        /\ dev'[e].vport = dev[e].vport /\ dev'[e].promisc = dev[e].promisc /\ dev'[e].ref = dev[e].ref - 1
    BY <2>3, <2>5
  <2>7. dev'[e].attached = dev[e].attached
    BY <2>3, <2>5
  <2>8. TypeInv'
    BY <1>0, <1>1, <1>4, <1>6, <2>5 DEF TypeInv
  <2>9. \A x : (In(x)' <=> In(x)) /\ (InHand(x)' <=> InHand(x))
    BY <1>1 DEF In, InHand, Adds, Removes
  <2>10. DevInv(e)'
    <3>1. \A x : dev[e].attached /\ x = dev[e].vport /\ (In(x) \/ InHand(x)) => In(x)' \/ InHand(x)'
      BY <2>9
    <3>2. dev[e].attached => LET x == dev[e].vport IN x \in alloc' \ pend' /\ vport'[x].dev = e
      <4> SUFFICES ASSUME dev[e].attached
                   PROVE  dev[e].vport \in alloc' \ pend' /\ vport'[dev[e].vport].dev = e
        OBVIOUS
      <4>1. PICK x \in Vports : x = dev[e].vport /\ x \in alloc \ pend /\ vport[x].dev = e
        BY <2>2 DEF DevInv
      <4>2. x # o
        BY <1>1, <4>1
      <4>3. x \in alloc' \ pend' /\ vport'[x] = vport[x]
        BY <1>4, <1>5, <1>9, <4>1, <4>2
      <4> QED BY <4>1, <4>3
    <3>3. e \in alloc'
      BY <1>5, <1>11, <2>2
    <3> QED BY ONLY e \in Devs, <2>2, <2>6, <2>7, <3>1, <3>2, <3>3, DevFrame
  <2>11. RefInv(e)'
    <3>1. Held(e)' = Held(e) \ {o}
      BY <1>4, <1>8, VportFields DEF Held
    <3>2. Promisc(e)
      BY <2>2 DEF RefInv
    <3>3. Promisc(e)'
      BY ONLY <2>6, <2>7, <3>2 DEF Promisc, Registered
    <3> QED BY <2>2, <2>6, <3>1, <3>3, RefDropped
  <2>12. \A x \in Devs : RefInv(x)'
    <3> TAKE x \in Devs
    <3>1. CASE x # e
      <4>1. \A w \in Vports : vport'[w].dev = x /\ vport'[w].type # "internal" <=> vport[w].dev = x /\ vport[w].type # "internal"
        BY <1>4, <1>8, <2>v, <3>1, VportFields
      <4> QED BY <1>0, <2>5, <3>1, <4>1, RefFrame, RefsByDevice
    <3> QED BY <2>11, <3>1
  <2>13. \A x \in Vports : x # o /\ vport[x].dev = e /\ e \in Devs =>
           /\ e \in alloc' /\ dev'[e].kind = dev[e].kind
           /\ vport[x].no = OVSP_LOCAL /\ (In(x) \/ \E t \in Actors : Adds(t, x)) => dev'[e].net = dev[e].net
           /\ dev[e].kind = "internal" => dev'[e].vport = dev[e].vport /\ dev'[e].reg = dev[e].reg
           /\ dev'[e].attached => dev[e].attached /\ dev'[e].vport = dev[e].vport
    <3>1. e \in alloc'
      BY <1>5, <1>11, <2>2
    <3>2. dev'[e].attached => dev[e].attached
      BY <2>7
    <3> QED BY ONLY <2>6, <3>1, <3>2
  <2>14. \A t \in Actors : cmd[t].pc = "run_todo" /\ cmd[t].dev = e /\ e \in Devs =>
           e \in alloc' /\ dev'[e].kind = dev[e].kind /\ dev'[e].reg = dev[e].reg
    BY <1>5, <1>11, <2>2, <2>6
  <2>15. Aside(o, NULL, e)
    BY ONLY <1>1, <1>4, <1>5, <1>8, <1>9, <1>10, <1>11, <2>5, <2>13, <2>14 DEF Aside
  <2>16. e \in OrNull(Devs)
    BY DEF OrNull
  <2> QED BY <1>7, <1>8, <2>8, <2>10, <2>12, <2>15, <2>16, AsideStep
<1> QED BY <1>12, <1>13

\* destroy_dp_rcu()
LEMMA DpFreed ==
  ASSUME Inv, NEW d \in Dps, rcu_callback(d)
  PROVE  Inv'
<1>0. TypeInv /\ DpsInv /\ RefsBalanced /\ dp \in [Dps -> DpType] /\ d \notin Vports /\ d \notin Devs
  BY Constants DEF Inv, TypeInv
<1>1. /\ d \in pend /\ pend' = pend \ {d} /\ alloc' = alloc \ {d} /\ dp' = [dp EXCEPT ![d] = NoDp]
      /\ UNCHANGED <<vport, dev, wait, dev_table, rcu, work, dead, ovs_mutex, rtnl, cmd>>
  BY <1>0 DEF rcu_callback, GraceEnded, others, readers
<1>2. NoDp \in DpType /\ NoDp.ports = {} /\ ~NoDp.listed
  BY ConstantsAssumption DEF NoDp, DpType, OrNull
<1>3. dp' \in [Dps -> DpType] /\ dp'[d] = NoDp /\ \A x \in Dps : x # d => dp'[x] = dp[x]
  BY <1>0, <1>1, <1>2
<1>4. TypeInv'
  <2>1. alloc' \subseteq Obj /\ pend' \subseteq alloc' /\ pend' \cap Devs = {}
    BY <1>0, <1>1 DEF TypeInv
  <2> QED BY <1>0, <1>1, <1>3, <2>1 DEF TypeInv
<1>5. DpInv(d)'
  BY <1>1, <1>2, <1>3 DEF DpInv
<1>6. \A x \in Devs : RefInv(x)'
  BY <1>0, <1>1, RefFrame, RefsByDevice
<1>7. \A x \in Vports \cup Devs : (x \in alloc' <=> x \in alloc) /\ (x \in pend' <=> x \in pend)
  BY <1>0, <1>1
<1>8. /\ NULL \notin Vports /\ NULL \notin Devs /\ NULL \in OrNull(Vports) /\ d \in OrNull(Dps) /\ NULL \in OrNull(Devs)
  BY Constants DEF OrNull
<1>9. Aside(NULL, d, NULL)
  <2>1. \A x \in Dps : x # d => (x \in alloc' <=> x \in alloc) /\ (x \in pend' <=> x \in pend)
    BY <1>1
  <2> QED BY ONLY <1>1, <1>2, <1>3, <1>7, <1>8, <2>1 DEF Aside
<1> QED BY <1>4, <1>5, <1>6, <1>8, <1>9, AsideStep

\* Readers change nothing but what they hold.
LEMMA Reads ==
  ASSUME Inv, UNCHANGED <<alloc, pend, dp, vport, dev_table, dev, work, dead, ovs_mutex, rtnl, cmd>>,
         rcu' \subseteq Readers, wait' \in [Obj -> SUBSET rcu']
  PROVE  Inv'
<1>1. TypeInv'
  BY DEF Inv, TypeInv
<1>2. LockInv'
  BY DEF Inv, LockInv
<1>3. VportsInv'
  BY DEF Inv, VportsInv, VportInv, In, InHand, Adds, Removes
<1>4. DpsInv'
  BY DEF Inv, DpsInv, DpInv, Owns
<1>5. CmdsInv'
  <2> SUFFICES ASSUME NEW t \in Actors
               PROVE  AddInv(t)' /\ RemoveInv(t)' /\ CmdInv(t)'
    BY DEF CmdsInv
  <2>1. AddInv(t) /\ RemoveInv(t) /\ CmdInv(t)
    BY DEF Inv, CmdsInv
  <2>2. AddInv(t)'
    BY <2>1 DEF AddInv
  <2>3. RemoveInv(t)'
    BY <2>1 DEF RemoveInv, In, Registered
  <2>4. CmdInv(t)'
    BY <2>1 DEF CmdInv, In
  <2> QED BY <2>2, <2>3, <2>4
<1>6. DevsInv'
  BY DEF Inv, DevsInv, DevInv, In, InHand, Adds, Removes, Registered
<1>7. RefsBalanced'
  BY DEF Inv, RefsBalanced, Registered
<1> QED BY <1>1, <1>2, <1>3, <1>4, <1>5, <1>6, <1>7 DEF Inv

LEMMA ReaderSteps ==
  ASSUME Inv, NEW r \in Readers, Read(r)
  PROVE  Inv'
<1>0. rcu \subseteq Readers /\ wait \in [Obj -> SUBSET rcu]
  BY DEF Inv, TypeInv
<1>1. UNCHANGED <<alloc, pend, dp, vport, dev_table, dev, work, dead, ovs_mutex, rtnl, cmd>>
  BY DEF Read, receive, lookup_dp, lookup_port, read, reader_done, UNCHANGED_by_readers, memory, tables, others
<1>2. \/ rcu' = rcu \cup {r} /\ wait' = wait
      \/ rcu' = rcu /\ wait' = wait
      \/ rcu' = rcu \ {r} /\ wait' = [o \in Obj |-> wait[o] \ {r}]
  BY DEF Read, receive, lookup_dp, lookup_port, read, reader_done, UNCHANGED_by_readers, memory, Enter, rcu_read_lock, rcu_read_unlock
<1>3. rcu' \subseteq Readers /\ wait' \in [Obj -> SUBSET rcu']
  BY <1>0, <1>2
<1> QED BY <1>1, <1>3, Reads

-----------------------------------------------------------------------------
(* The invariant is inductive. *)

LEMMA InitInv == Init => Inv
<1> SUFFICES ASSUME Init
             PROVE  Inv
  OBVIOUS
<1> USE DEF Init
<1>1. TypeInv
  <2>1. NoDp \in DpType
    BY ConstantsAssumption DEF NoDp, DpType, OrNull
  <2> QED BY <2>1, VportFields, NoDevType, IdleType DEF TypeInv, OrNull
<1>2. /\ \A t \in Actors : cmd[t] = Idle
      /\ \A t \in Actors : cmd[t].pc = "idle" /\ cmd[t].pc \notin Holding /\ cmd[t].pc \notin Adding /\ cmd[t].pc \notin Removing
  BY IdleType DEF Holding, Adding, Removing
<1>3. LockInv
  BY <1>2, Constants DEF LockInv, OrNull
<1>4. \A x : ~In(x) /\ ~InHand(x)
  BY <1>2 DEF In, InHand, Adds, Removes, NoDp
<1>5. VportsInv
  BY <1>4, VportFields DEF VportsInv, VportInv
<1>6. DpsInv
  BY DEF DpsInv, DpInv, NoDp
<1>7. CmdsInv
  BY <1>2, IdleType DEF CmdsInv, AddInv, RemoveInv, CmdInv
<1>8. DevsInv
  BY NoDevType DEF DevsInv, DevInv
<1>9. RefsBalanced
  <2>1. \A e \in Devs : Held(e) = {}
    BY VportFields, Constants DEF Held
  <2>2. \A e \in Devs : RefInv(e)
    BY <2>1, Counting, NoDevType DEF RefInv, Promisc
  <2> QED BY <2>2, RefsByDevice
<1> QED BY <1>1, <1>3, <1>5, <1>6, <1>7, <1>8, <1>9 DEF Inv

\* ovs_vport_add(), internal_dev_create() and the other steps with more than one outcome.
LEMMA VportAdds ==
  ASSUME Inv, NEW t \in Actors, ovs_vport_add(t)
  PROVE  Inv'
<1>1. CASE UNCHANGED <<alloc, vport>>
  BY <1>1, AddRefused
<1>2. CASE ~UNCHANGED <<alloc, vport>>
  <2>1. PICK v \in Vports \ alloc :
             /\ alloc' = alloc \cup {v}
             /\ vport' = [vport EXCEPT ![v] = [dp |-> cmd[t].dp, no |-> cmd[t].no,
                                               type |-> cmd[t].type, dev |-> NULL]]
             /\ cmd' = [cmd EXCEPT ![t].vport = v,
                          ![t].pc = IF cmd[t].type = "netdev" THEN "get_dev" ELSE "create"]
             /\ UNCHANGED ovs_mutex
    BY <1>2 DEF ovs_vport_add
  <2> QED BY <2>1, AddAllocates
<1> QED BY <1>1, <1>2

LEMMA DevCreateStep ==
  ASSUME Inv, NEW t \in Actors, dev_create(t)
  PROVE  Inv'
<1>0. cmd[t].pc = "create" /\ UNCHANGED <<pend, wait, dev_table, others, rtnl, readers>>
  BY DEF dev_create
<1>1. CASE FreeNew(t) /\ Finish(t) /\ UNCHANGED dev
  <2>1. AddInv(t) /\ cmd[t].pc \in Adding
    BY <1>0 DEF Inv, CmdsInv, Adding
  <2>2. vport[cmd[t].vport].dev = NULL /\ NULL \in OrNull(Devs)
    BY <1>0, <2>1 DEF AddInv, OrNull
  <2> QED BY ONLY Inv, t \in Actors, <1>0, <1>1, <2>2, Freed
<1>2. CASE \E e \in Devs \ alloc :
             LET internal == cmd[t].type = "internal"
                 v == cmd[t].vport
             IN  /\ alloc' = alloc \cup {e}
                 /\ ByName(dp[cmd[t].dp].net, cmd[t].name) = {}
                 /\ dev' = [dev EXCEPT ![e] =
                      [NoDev EXCEPT !.kind = cmd[t].type, !.name = cmd[t].name,
                         !.net = dp[cmd[t].dp].net, !.reg = "registered",
                         !.vport = IF internal THEN v ELSE NULL,
                         !.promisc = IF internal THEN 1 ELSE 0]]
                 /\ vport' = IF internal THEN [vport EXCEPT ![v].dev = e] ELSE vport
                 /\ Goto(t, IF internal THEN "hash" ELSE "get_dev")
                 /\ UNCHANGED dp
  BY <1>2, DevCreates
<1> QED BY <1>1, <1>2 DEF dev_create

LEMMA DevGetStep ==
  ASSUME Inv, NEW t \in Actors, dev_get_by_name(t)
  PROVE  Inv'
<1>0. cmd[t].pc = "get_dev" /\ UNCHANGED <<pend, wait, dev_table, others, rtnl, readers>>
  BY DEF dev_get_by_name
<1>1. CASE FreeNew(t) /\ Finish(t) /\ UNCHANGED dev
  <2>1. AddInv(t) /\ cmd[t].pc \in Adding
    BY <1>0 DEF Inv, CmdsInv, Adding
  <2>2. vport[cmd[t].vport].dev = NULL /\ NULL \in OrNull(Devs)
    BY <1>0, <2>1 DEF AddInv, OrNull
  <2> QED BY ONLY Inv, t \in Actors, <1>0, <1>1, <2>2, Freed
<1>2. CASE \E e \in ByName(dp[cmd[t].dp].net, cmd[t].name) :
             /\ dev[e].kind # "internal"
             /\ dev' = [dev EXCEPT ![e].ref = @ + 1]
             /\ vport' = [vport EXCEPT ![cmd[t].vport].dev = e]
             /\ Goto(t, "link")
             /\ UNCHANGED <<alloc, dp>>
  BY <1>2, DevFound
<1> QED BY <1>1, <1>2 DEF dev_get_by_name

LEMMA LinkStep ==
  ASSUME Inv, NEW t \in Actors, ovs_netdev_link(t)
  PROVE  Inv'
<1>0. cmd[t].pc = "link" /\ UNCHANGED <<pend, wait, dev_table, others, rtnl, readers>>
  BY DEF ovs_netdev_link
<1>1. CASE dev' = [dev EXCEPT ![vport[cmd[t].vport].dev].ref = @ - 1] /\ FreeNew(t) /\ Finish(t)
  <2>1. AddInv(t) /\ cmd[t].pc \in Adding
    BY <1>0 DEF Inv, CmdsInv, Adding
  <2>2. cmd[t].vport \in Vports /\ vport[cmd[t].vport].dev # NULL
    BY <1>0, <2>1 DEF AddInv
  <2>3. vport[cmd[t].vport].dev \in Devs
    BY <2>2 DEF Inv, TypeInv, VportType, OrNull
  <2>4. PICK e \in OrNull(Devs) : e = vport[cmd[t].vport].dev
    BY <2>3 DEF OrNull
  <2> QED BY <1>0, <1>1, <2>2, <2>4, Freed
<1>2. CASE /\ ~dev[vport[cmd[t].vport].dev].attached
           /\ dev' = [dev EXCEPT ![vport[cmd[t].vport].dev].attached = TRUE, ![vport[cmd[t].vport].dev].vport = cmd[t].vport,
                                 ![vport[cmd[t].vport].dev].promisc = @ + 1]
           /\ Goto(t, "hash")
           /\ UNCHANGED <<alloc, vport, dp>>
  BY <1>2, NetdevLinks
<1> QED BY <1>1, <1>2 DEF ovs_netdev_link

LEMMA DpDestroyStep ==
  ASSUME Inv, NEW t \in Actors, __dp_destroy(t)
  PROVE  Inv'
<1>0. CmdInv(t) /\ cmd[t].pc = "dp_ports" /\ dp \in [Dps -> DpType]
  BY DEF __dp_destroy, Inv, CmdsInv, TypeInv
<1>1. dp[cmd[t].dp].ports \subseteq Vports
  BY <1>0 DEF CmdInv, DpType
<1>2. CASE \E v \in {x \in dp[cmd[t].dp].ports : vport[x].no # OVSP_LOCAL} :
             ovs_dp_detach_port(t, v, cmd[t]) /\ UNCHANGED <<pend, wait, ovs_mutex>>
  BY <1>1, <1>2, DpDetaches
<1>3. CASE /\ {x \in dp[cmd[t].dp].ports : vport[x].no # OVSP_LOCAL} = {}
           /\ \E v \in dp[cmd[t].dp].ports :
                /\ dp' = [dp EXCEPT ![cmd[t].dp].ports = @ \ {v}, ![cmd[t].dp].listed = FALSE]
                /\ cmd' = [cmd EXCEPT ![t].vport = v, ![t].pc = "unhash"]
           /\ UNCHANGED <<pend, wait, ovs_mutex>>
  BY <1>1, <1>3, DpDetachesLocal
<1>4. CASE /\ dp[cmd[t].dp].ports = {}
           /\ call_rcu(cmd[t].dp)
           /\ IF cmd[t].what = "dp_del" THEN Finish(t) ELSE Goto(t, "exit_dps")
           /\ UNCHANGED dp
  BY <1>4, DpDestroyed
<1> QED BY <1>2, <1>3, <1>4 DEF __dp_destroy

LEMMA ExitVportsStep ==
  ASSUME Inv, NEW t \in Actors, exit_vports(t)
  PROVE  Inv'
<1>0. cmd[t].pc = "exit_vports" /\ UNCHANGED <<memory, vport, dev_table, dev, others, rtnl, readers>>
  BY DEF exit_vports
<1>1. CASE /\ \E v \in cmd[t].todo : ovs_dp_detach_port(t, v, [cmd[t] EXCEPT !.todo = @ \ {v}])
           /\ UNCHANGED ovs_mutex
  BY <1>0, <1>1, ListDetaches
<1>2. CASE /\ ovs_mutex' = NULL
           /\ cmd' = [cmd EXCEPT ![t].pc = "cancel_work"]
           /\ UNCHANGED dp
  BY <1>0, <1>2, ExitVportsEnds
<1> QED BY <1>1, <1>2 DEF exit_vports

LEMMA NotifyStep ==
  ASSUME Inv, dp_detach_port_notify
  PROVE  Inv'
<1>0. cmd[Worker].pc = "notify" /\ UNCHANGED <<memory, vport, dev_table, dev, others, rtnl, readers>> /\ Worker \in Actors
  BY Constants DEF dp_detach_port_notify
<1>1. ASSUME NEW v \in cmd[Worker].todo, ovs_dp_detach_port(Worker, v, [cmd[Worker] EXCEPT !.todo = @ \ {v}]), UNCHANGED ovs_mutex
      PROVE  Inv'
  BY <1>0, <1>1, ListDetaches
<1>2. ASSUME NEW v \in cmd[Worker].todo, cmd' = [cmd EXCEPT ![Worker] = [cmd[Worker] EXCEPT !.todo = @ \ {v}]],
             UNCHANGED <<dp, ovs_mutex>>
      PROVE  Inv'
  BY <1>0, <1>2, WorkSkips
<1>3. CASE Finish(Worker) /\ UNCHANGED dp
  <2>1. ovs_mutex = Worker /\ cmd[Worker].pc \notin Adding \cup Removing \cup {"dp_ports"}
    BY <1>0 DEF Inv, LockInv, Holding, Adding, Removing
  <2>2. work' \subseteq Nets /\ UNCHANGED <<memory, dp, vport, dev_table, dev, dead, rtnl, rcu>>
    BY <1>0, <1>3 DEF others, readers, Inv, TypeInv
  <2> QED BY <1>0, <1>3, <2>1, <2>2, Ends DEF Finish
<1> QED BY <1>1, <1>2, <1>3 DEF dp_detach_port_notify

LEMMA CallbackStep ==
  ASSUME Inv, NEW o \in Obj, rcu_callback(o)
  PROVE  Inv'
<1>1. o \notin Devs
  BY DEF rcu_callback, GraceEnded, Inv, TypeInv
<1> QED BY <1>1, PortFreed, DpFreed DEF Obj

LEMMA RequestStep ==
  ASSUME Inv, NEW t \in Threads, Request(t)
  PROVE  Inv'
<1>1. CASE NewDatapath(t)
  BY <1>1, DpNew DEF NewDatapath
<1>2. CASE NewVport(t)
  BY <1>2, VportNew DEF NewVport
<1>3. CASE DelVport(t)
  BY <1>3, VportDel DEF DelVport
<1>4. CASE DelDatapath(t)
  BY <1>4, DpDel DEF DelDatapath
<1>5. CASE ExitNet(t)
  BY <1>5, ExitNetBegins DEF ExitNet
<1> QED BY <1>1, <1>2, <1>3, <1>4, <1>5 DEF Request

LEMMA CommandStep ==
  ASSUME Inv, NEW t \in Actors, Contend(t) \/ Proceed(t)
  PROVE  Inv'
<1>1. ASSUME ovs_netdev_tunnel_destroy(t)
      PROVE  Inv'
  BY <1>1, TunnelDestroys, TunnelLetsGo
<1>2. ASSUME Contend(t)
      PROVE  Inv'
  BY <1>1, <1>2, Restart, DevCreateStep, LinkStep, NetdevDestroys, InternalDestroys DEF Contend
<1>3. ASSUME Proceed(t)
      PROVE  Inv'
  BY <1>3, VportAdds, RequestModule, DevGetStep, Hash, Inserts, DelHeadroom, Unhash, TunnelFreed, InternalFreed,
     DpDestroyStep, ExitDps, ExitVportsStep, CancelWork DEF Proceed
<1> QED BY <1>2, <1>3

LEMMA DeviceStep ==
  ASSUME Inv, NEW e \in Devs, DeviceEvent(e)
  PROVE  Inv'
<1>1. CASE \E n \in Names, net \in Nets : register_netdevice(e, n, net)
  BY <1>1, Registers
<1>2. CASE unregister_netdevice(e)
  BY <1>2, Unregisters
<1>3. CASE netdev_wait_allrefs(e)
  BY <1>3, WaitsAllrefs
<1>4. CASE netdev_run_todo(e)
  BY <1>4, RunTodo
<1>5. CASE \E n \in Names : dev_change_name(e, n)
  BY <1>5, Renames
<1>6. CASE \E net \in Nets : dev_change_net_namespace(e, net)
  BY <1>6, Moves
<1> QED BY <1>1, <1>2, <1>3, <1>4, <1>5, <1>6 DEF DeviceEvent

LEMMA StutterStep == Inv /\ UNCHANGED vars => Inv'
<1> SUFFICES ASSUME Inv, UNCHANGED vars
             PROVE  Inv'
  OBVIOUS
<1>1. rcu' \subseteq Readers /\ wait' \in [Obj -> SUBSET rcu']
  BY DEF Inv, TypeInv, vars
<1> QED BY <1>1, Reads DEF vars

\* Every step keeps the invariant.
LEMMA NextInv == Inv /\ [Next]_vars => Inv'
<1> SUFFICES ASSUME Inv, [Next]_vars
             PROVE  Inv'
  OBVIOUS
<1>1. CASE \E t \in Threads : Request(t)
  BY <1>1, RequestStep
<1>2. CASE \E t \in Actors : Contend(t) \/ Proceed(t)
  BY <1>2, CommandStep
<1>3. CASE Work
  BY <1>3, WorkStarts, WorkLocks, NotifyStep DEF Work
<1>4. CASE \E e \in Devs : DeviceEvent(e)
  BY <1>4, DeviceStep
<1>5. CASE \E o \in Obj : rcu_callback(o)
  BY <1>5, CallbackStep
<1>6. CASE \E r \in Readers : Read(r)
  BY <1>6, ReaderSteps
<1>7. CASE UNCHANGED vars
  BY <1>7, StutterStep
<1> QED BY <1>1, <1>2, <1>3, <1>4, <1>5, <1>6, <1>7 DEF Next

\* The types of commands, the mutexes, where every port, datapath and device is and who refers to
\* it: what each step of the commands, of the work and of the kernel keeps.
THEOREM PlacesInductive == Spec => []Inv
  BY InitInv, NextInv, PTL DEF Spec

\* Whenever ovs_mutex is free (ovs_unlock), no command has a port in hand, and the datapaths, with
\* their ports and dev_table, are whole; and the local port, which get_dpdev() asks for, is there
\* while a port is linked (BUG_ON(!local), vport-netdev.c).
LEMMA InvPorts == Inv => PortsInv
<1> SUFFICES ASSUME Inv
             PROVE  PortsInv
  OBVIOUS
<1>0. /\ TypeInv /\ LockInv /\ VportsInv /\ DpsInv /\ CmdsInv /\ dp \in [Dps -> DpType]
  BY DEF Inv, TypeInv
<1>1. ASSUME ovs_mutex = NULL, NEW d \in Dps
      PROVE  IF dp[d].listed THEN d \in alloc \ pend /\ Wired(d)
             ELSE dp[d].ports = {} /\ (d \in alloc => d \in pend)
  <2>1. DpInv(d) /\ \A t \in Actors : ~Owns(t, d)
    <3>1. \A t \in Actors : cmd[t].pc \notin Holding
      BY <1>0, <1>1, Constants, Nobody
    <3> QED BY <1>0, <3>1, Steps DEF DpsInv, Owns, Holding
  <2>2. CASE ~dp[d].listed
    BY <2>1, <2>2 DEF DpInv
  <2>3. CASE dp[d].listed
    <3>1. PICK l \in dp[d].ports : vport[l].no = OVSP_LOCAL
      BY <2>1, <2>3 DEF DpInv
    <3>2. {v \in dp[d].ports : vport[v].no = OVSP_LOCAL} = {l}
      BY <2>1, <3>1 DEF DpInv
    <3>3. Cardinality({v \in dp[d].ports : vport[v].no = OVSP_LOCAL}) = 1
      BY <3>2, FS_Singleton
    <3> QED BY <2>1, <2>3, <3>3 DEF DpInv, Wired
  <2> QED BY <2>2, <2>3
<1>2. ASSUME ovs_mutex = NULL
      PROVE  {v \in Vports : dev_table[v] # NULL} = UNION {dp[d].ports : d \in Dps}
  <2>1. \A v : ~InHand(v)
    BY <1>0, <1>2, Constants, Nobody
  <2>2. \A d \in Dps : dp[d].ports \subseteq Vports
    BY <1>0 DEF DpType
  <2>3. \A v \in Vports : dev_table[v] # NULL <=> In(v)
    BY <1>0, <2>1 DEF VportsInv, VportInv
  <2> QED BY <2>2, <2>3 DEF In
<1>3. NoBugOn
  <2> SUFFICES ASSUME NEW t \in Threads, cmd[t].pc = "link"
               PROVE  \E v \in dp[cmd[t].dp].ports : vport[v].no = OVSP_LOCAL
    BY DEF NoBugOn
  <2>1. AddInv(t) /\ cmd[t].pc \in Adding
    BY <1>0, Constants DEF CmdsInv, Adding
  <2>2. cmd[t].dp \in Dps /\ dp[cmd[t].dp].listed
    BY <2>1 DEF AddInv
  <2> QED BY <1>0, <2>2 DEF DpsInv, DpInv
<1> QED BY <1>1, <1>2, <1>3 DEF PortsInv, PortsWired

\* Datapaths are whole whenever ovs_mutex is free, however commands, the work, the end of a
\* namespace and the events of devices interleave (ovs_dp_cmd_new, ovs_vport_cmd_new, __dp_destroy).
THEOREM PortsWhole == Spec => []PortsInv
  BY PlacesInductive, InvPorts, PTL

\* A device never sends its packets to a port that is on its way out, and its counts are natural
\* numbers.
LEMMA InvDevices ==
  Inv => /\ RefsBalanced /\ RxHandlerLive /\ dev \in [Devs -> DevType]
<1> SUFFICES ASSUME Inv
             PROVE  /\ RefsBalanced /\ RxHandlerLive /\ dev \in [Devs -> DevType]
  OBVIOUS
<1>0. /\ TypeInv /\ LockInv /\ VportsInv /\ DpsInv /\ DevsInv /\ RefsBalanced /\ dev \in [Devs -> DevLoose]
  BY DEF Inv, TypeInv
<1>1. RxHandlerLive
  <2> SUFFICES ASSUME NEW e \in Devs, dev[e].attached
               PROVE  LET v == dev[e].vport
                      IN  /\ v \in alloc \ pend /\ vport[v].dev = e
                          /\ v \in dp[vport[v].dp].ports \/ \E t \in Actors : ovs_mutex = t /\ cmd[t].vport = v
    BY DEF RxHandlerLive
  <2>1. PICK v \in Vports : v = dev[e].vport /\ v \in alloc \ pend /\ vport[v].dev = e /\ (In(v) \/ InHand(v))
    BY <1>0 DEF DevsInv, DevInv
  <2>2. CASE In(v)
    BY <1>0, <2>1, <2>2 DEF In, DpsInv, DpInv
  <2>3. CASE InHand(v)
    BY <1>0, <2>1, <2>3, Steps DEF InHand, Adds, Removes, LockInv
  <2> QED BY <2>1, <2>2, <2>3
<1>2. \A e \in Devs : dev[e] \in DevType
  <2> TAKE e \in Devs
  <2>1. dev[e].ref \in 0..Cardinality(Vports)
    <3>1. dev[e].ref = Cardinality(Held(e)) /\ Held(e) \subseteq Vports
      BY <1>0 DEF RefsBalanced, Held
    <3>2. Cardinality(Held(e)) \in Nat /\ Cardinality(Held(e)) <= Cardinality(Vports) /\ Cardinality(Vports) \in Nat
      BY <3>1, Counting
    <3> QED BY <3>1, <3>2
  <2>2. dev[e].promisc \in 0..1
    <3>1. dev[e].promisc = 0 \/ dev[e].promisc = 1
      BY <1>0, Zenon DEF RefsBalanced
    <3> QED BY <3>1
  <2>3. dev[e] \in DevLoose
    BY <1>0
  <2> QED BY ONLY <2>1, <2>2, <2>3 DEF DevLoose, DevType
<1> QED BY <1>0, <1>1, <1>2

-----------------------------------------------------------------------------
(* What readers hold is of its type. *)

RdType == [vport : OrNull(Vports), dp : OrNull(Dps), dev : OrNull(Devs)]

\* Only readers change what they hold.
LEMMA RdKept ==
  ASSUME \/ \E t \in Threads : Request(t)
         \/ \E t \in Actors : Contend(t) \/ Proceed(t)
         \/ Work
         \/ \E e \in Devs : DeviceEvent(e)
         \/ \E o \in Obj : rcu_callback(o)
  PROVE  UNCHANGED readers
<1>1. ASSUME NEW t \in Threads, Request(t)
      PROVE  UNCHANGED readers
  <2>1. /\ \A d, v, net, n : ovs_dp_cmd_new(t, d, v, net, n) => UNCHANGED readers
        /\ \A e, type, n, auto, no : ovs_vport_cmd_new(t, e, type, n, auto, no) => UNCHANGED readers
        /\ \A v : ovs_vport_cmd_del(t, v) => UNCHANGED readers
        /\ \A d : ovs_dp_cmd_del(t, d) => UNCHANGED readers
        /\ \A net : ovs_exit_net(t, net) => UNCHANGED readers
    BY DEF ovs_dp_cmd_new, ovs_vport_cmd_new, ovs_vport_cmd_del, ovs_dp_cmd_del, ovs_exit_net
  <2> QED BY <1>1, <2>1 DEF Request, NewDatapath, NewVport, DelVport, DelDatapath, ExitNet
<1>2. ASSUME NEW t \in Actors, Contend(t)
      PROVE  UNCHANGED readers
  BY <1>2 DEF Contend, restart, dev_create, ovs_netdev_link, netdev_destroy, ovs_netdev_tunnel_destroy, internal_dev_destroy
<1>3. ASSUME NEW t \in Actors, Proceed(t)
      PROVE  UNCHANGED readers
  BY <1>3 DEF Proceed, ovs_vport_add, request_module, dev_get_by_name, vport_hash, new_vport, vport_del_headroom, ovs_vport_del,
     tunnel_run_todo, internal_dev_destructor, __dp_destroy, exit_dps, exit_vports, cancel_work_sync
<1>4. CASE Work
  BY <1>4 DEF Work, dp_notify_work, ovs_dp_notify_wq, dp_detach_port_notify
<1>5. CASE \E e \in Devs : DeviceEvent(e)
  BY <1>5 DEF DeviceEvent, register_netdevice, unregister_netdevice, netdev_wait_allrefs, netdev_run_todo, dev_change_name,
     dev_change_net_namespace, UNCHANGED_by_devices, readers
<1>6. CASE \E o \in Obj : rcu_callback(o)
  BY <1>6 DEF rcu_callback
<1> QED BY <1>1, <1>2, <1>3, <1>4, <1>5, <1>6

LEMMA ReadsTyped ==
  ASSUME Inv, rd \in [Readers -> RdType], NEW r \in Readers, Read(r)
  PROVE  rd' \in [Readers -> RdType]
<1>0. /\ dp \in [Dps -> DpType] /\ vport \in [Vports -> VportType] /\ dev \in [Devs -> DevLoose] /\ rd[r] \in RdType
  BY DEF Inv, TypeInv
<1>1. Outside \in RdType
  BY DEF Outside, RdType, OrNull
<1>2. /\ \A y \in RdType, x \in OrNull(Vports) : [y EXCEPT !.vport = x] \in RdType
      /\ \A y \in RdType, x \in OrNull(Dps) : [y EXCEPT !.dp = x] \in RdType
      /\ \A y \in RdType, x \in OrNull(Devs) : [y EXCEPT !.dev = x] \in RdType
  BY DEF RdType
<1>3. \A y \in RdType : y.vport \in OrNull(Vports) /\ y.dp \in OrNull(Dps) /\ y.dev \in OrNull(Devs)
  BY DEF RdType
<1>4. SUFFICES \E y \in RdType : rd' = [rd EXCEPT ![r] = y]
  OBVIOUS
<1>5. CASE \E e \in Devs : receive(r, e)
  <2>1. PICK e \in Devs : rd' = [rd EXCEPT ![r] = [Outside EXCEPT !.vport = dev[e].vport]]
    BY <1>5 DEF receive, Enter
  <2>2. dev[e].vport \in OrNull(Vports)
    BY <1>0 DEF DevLoose
  <2> QED BY <1>1, <1>2, <2>1, <2>2
<1>6. CASE \E d \in Dps : lookup_dp(r, d)
  BY <1>1, <1>2, <1>6 DEF lookup_dp, Enter, OrNull
<1>7. CASE \E v \in Vports : lookup_port(r, v)
  BY <1>1, <1>2, <1>7 DEF lookup_port, Enter, OrNull
<1>8. CASE ReadDp(r)
  <2>1. rd[r].vport \in Vports
    BY <1>0, <1>3, <1>8 DEF ReadDp, OrNull
  <2>2. vport[rd[r].vport].dp \in OrNull(Dps)
    BY <1>0, <2>1 DEF VportType
  <2>3. rd' = [rd EXCEPT ![r] = [rd[r] EXCEPT !.dp = vport[rd[r].vport].dp]]
    BY <1>8 DEF ReadDp
  <2> QED BY <1>0, <1>2, <2>2, <2>3
<1>9. CASE ReadDev(r)
  <2>1. rd[r].vport \in Vports
    BY <1>0, <1>3, <1>9 DEF ReadDev, OrNull
  <2>2. vport[rd[r].vport].dev \in OrNull(Devs)
    BY <1>0, <2>1 DEF VportType
  <2>3. rd' = [rd EXCEPT ![r] = [rd[r] EXCEPT !.dev = vport[rd[r].vport].dev]]
    BY <1>9 DEF ReadDev
  <2> QED BY <1>0, <1>2, <2>2, <2>3
<1>10. CASE ReadPort(r)
  <2>1. rd[r].dp \in Dps
    BY <1>0, <1>3, <1>10 DEF ReadPort, OrNull
  <2>2. PICK v \in dp[rd[r].dp].ports : rd' = [rd EXCEPT ![r] = [rd[r] EXCEPT !.vport = v]]
    BY <1>10 DEF ReadPort
  <2>3. v \in OrNull(Vports)
    BY <1>0, <2>1 DEF DpType, OrNull
  <2> QED BY <1>0, <1>2, <2>2, <2>3
<1>11. CASE reader_done(r)
  BY <1>1, <1>11 DEF reader_done
<1> QED BY <1>5, <1>6, <1>7, <1>8, <1>9, <1>10, <1>11 DEF Read, read

LEMMA NextTyped ==
  Inv /\ rd \in [Readers -> RdType] /\ [Next]_vars => rd' \in [Readers -> RdType]
<1> SUFFICES ASSUME Inv, rd \in [Readers -> RdType], [Next]_vars
             PROVE  rd' \in [Readers -> RdType]
  OBVIOUS
<1>1. CASE \E r \in Readers : Read(r)
  BY <1>1, ReadsTyped
<1>2. CASE UNCHANGED vars
  BY <1>2 DEF vars
<1>3. CASE \/ \E t \in Threads : Request(t)
           \/ \E t \in Actors : Contend(t) \/ Proceed(t)
           \/ Work
           \/ \E e \in Devs : DeviceEvent(e)
           \/ \E o \in Obj : rcu_callback(o)
  BY <1>3, RdKept DEF readers
<1> QED BY <1>1, <1>2, <1>3 DEF Next

\* Every reference to a device is held by one port, which drops it once, and a device sends its
\* packets only to a port that lives (ovs_netdev_link, ovs_netdev_detach_dev, vport_netdev_free),
\* however the notifier, the work, the commands and RCU callbacks interleave.
THEOREM DevicesSafe == Spec => []DevicesHeld
<1>1. Init => rd \in [Readers -> RdType]
  BY DEF Init, Outside, RdType, OrNull
<1>2. Spec => [](Inv /\ rd \in [Readers -> RdType])
  <2>1. Init => Inv /\ rd \in [Readers -> RdType]
    BY <1>1, InitInv
  <2>2. Inv /\ rd \in [Readers -> RdType] /\ [Next]_vars => (Inv /\ rd \in [Readers -> RdType])'
    BY NextInv, NextTyped
  <2> QED BY <2>1, <2>2, PTL DEF Spec
<1>3. Inv /\ rd \in [Readers -> RdType] => DevicesHeld
  <2> SUFFICES ASSUME Inv, rd \in [Readers -> RdType]
               PROVE  DevicesHeld
    OBVIOUS
  <2>1. RefsBalanced /\ RxHandlerLive /\ dev \in [Devs -> DevType]
    BY InvDevices
  <2>2. ovs_mutex \in OrNull(Actors) /\ rtnl \in OrNull(Threads \cup {Worker})
    BY DEF Inv, LockInv, Actors
  <2>3. TypeOK
    BY <2>1, <2>2 DEF Inv, TypeInv, RdType, TypeOK
  <2> QED BY <2>1, <2>3 DEF DevicesHeld
<1> QED BY <1>2, <1>3, PTL

-----------------------------------------------------------------------------
(* What readers hold. *)

Unseen == {"create", "get_dev", "link"}

\* Nobody but the command that makes it has seen port v, or datapath d, yet.
Fresh(v) == \E t \in Actors : cmd[t].pc \in Unseen /\ cmd[t].vport = v
Private(d) == \E t \in Actors : cmd[t].pc = "create" /\ cmd[t].what = "dp_new" /\ cmd[t].dp = d

\* The callback of o has to wait for r.
WaitsFor(o, r) == o \in pend => r \in wait[o]

DpHeld(r, d) == d \in Dps /\ d \in alloc /\ WaitsFor(d, r) /\ ~Private(d)
PortHeld(r, v) ==
  /\ v \in Vports /\ v \in alloc /\ WaitsFor(v, r) /\ ~Fresh(v) /\ DpHeld(r, vport[v].dp)
  /\ LET e == vport[v].dev
     IN  vport[v].type = "internal" => /\ e \in Devs /\ e \in alloc /\ dev[e].kind = "internal"
                                       /\ Registered(e) \/ r \in wait[e]
\* The device is an internal one, or a port holds it that waits for r.
DevHeld(r, e) ==
  /\ e \in Devs /\ e \in alloc
  /\ \/ dev[e].kind = "internal" /\ (Registered(e) \/ r \in wait[e])
     \/ \E v \in Vports : vport[v].type = "netdev" /\ vport[v].dev = e /\ v \in alloc /\ WaitsFor(v, r) /\ ~Fresh(v)

ReadInv(r) ==
  /\ r \notin rcu => rd[r] = Outside
  /\ rd[r].vport # NULL => PortHeld(r, rd[r].vport)
  /\ rd[r].dp # NULL => DpHeld(r, rd[r].dp)
ReadersInv == rd \in [Readers -> RdType] /\ \A r \in Readers : ReadInv(r)
DevsRead == \A r \in Readers : rd[r].dev # NULL => DevHeld(r, rd[r].dev)

\* The types of ports are those commands ask for.
Asked == Types \cup {"internal"}
AskedInv == /\ \A v \in Vports : vport[v].type \in Asked
            /\ \A t \in Actors : cmd[t].type \in Asked

-----------------------------------------------------------------------------
(* What a step that is no reader's does to what readers hold. *)

\* Nothing is freed that is published, unless its callback or its unregistration has waited for
\* every reader; what is about to be freed waits for those that are there; and what is published
\* stays what it is.
MemKeeps(x) ==
  /\ wait'[x] = wait[x] \/ wait'[x] = rcu
  /\ x \in pend' => x \in pend \/ wait'[x] = rcu
PortKeeps(v) ==
  /\ v \notin alloc' => \/ v \in pend /\ wait[v] = {}
                        \/ Fresh(v)
                        \/ vport[v].type = "internal" /\ wait[vport[v].dev] = {} /\ ~Registered(vport[v].dev)
  /\ v \in alloc' => /\ vport'[v].dp = vport[v].dp /\ vport'[v].type = vport[v].type
                     /\ vport[v].type # "tunnel" /\ ~Fresh(v) => vport'[v].dev = vport[v].dev
DpKeeps(d) == d \notin alloc' => Private(d) \/ (d \in pend /\ wait[d] = {})
DevKeeps(e) ==
  /\ e \notin alloc' => ~Registered(e) /\ wait[e] = {} /\ (dev[e].kind = "internal" \/ Held(e) = {})
  /\ e \in alloc' => dev'[e].kind = dev[e].kind /\ (Registered(e) /\ ~Registered(e)' => wait'[e] = rcu)
Seen ==
  /\ \A v \in Vports : v \in alloc /\ Fresh(v)' => Fresh(v)
  /\ \A d \in Dps : d \in alloc /\ Private(d)' => Private(d)
Gentle ==
  /\ UNCHANGED <<rcu, rd>>
  /\ Seen
  /\ \A x \in Obj : MemKeeps(x)
  /\ \A v \in Vports : v \in alloc => PortKeeps(v)
  /\ \A d \in Dps : d \in alloc => DpKeeps(d)
  /\ \A e \in Devs : e \in alloc => DevKeeps(e)

\* Command t goes on, and brings nothing new out.
CmdMoves(t) ==
  /\ \A u \in Actors : u # t => cmd'[u] = cmd[u]
  /\ cmd'[t].pc \in Unseen => cmd[t].pc \in Unseen /\ cmd'[t].pc # "create" /\ cmd'[t].vport = cmd[t].vport
  /\ cmd'[t].type \in Asked

LEMMA Moved ==
  ASSUME TypeInv, NEW t \in Actors, NEW c, cmd' = [cmd EXCEPT ![t] = c], c.pc \notin Unseen, c.type \in Asked
  PROVE  CmdMoves(t)
  BY DEF TypeInv, CmdMoves

LEMMA MovedIdle ==
  ASSUME TypeInv, NEW t \in Actors, cmd' = [cmd EXCEPT ![t] = Idle]
  PROVE  CmdMoves(t)
<1>1. Idle.pc \notin Unseen /\ Idle.type \in Asked
  BY DEF Idle, Unseen, Asked
<1> QED BY <1>1, Moved

LEMMA MovedPc ==
  ASSUME TypeInv, AskedInv, NEW t \in Actors, NEW x \in Holding \cup Lockless, x \notin Unseen, cmd' = [cmd EXCEPT ![t].pc = x]
  PROVE  CmdMoves(t)
<1>1. PICK c \in CmdType :
           /\ [cmd EXCEPT ![t].pc = x] = [cmd EXCEPT ![t] = c]
           /\ c.pc = x /\ c.what = cmd[t].what /\ c.dp = cmd[t].dp /\ c.vport = cmd[t].vport
           /\ c.dev = cmd[t].dev /\ c.name = cmd[t].name /\ c.type = cmd[t].type /\ c.no = cmd[t].no
           /\ c.todo = cmd[t].todo
  BY PcType
<1>2. c.type \in Asked /\ cmd' = [cmd EXCEPT ![t] = c]
  BY <1>1 DEF AskedInv
<1> QED BY <1>1, <1>2, Moved

LEMMA MovedGoto ==
  ASSUME TypeInv, AskedInv, NEW t \in Actors, NEW x \in Holding \cup Lockless, x # "create", Goto(t, x),
         x \in Unseen => cmd[t].pc \in Unseen
  PROVE  CmdMoves(t)
  BY GotoStep DEF CmdMoves, AskedInv

LEMMA CmdSeen ==
  ASSUME AskedInv, NEW t \in Actors, CmdMoves(t) \/ UNCHANGED cmd
  PROVE  Seen /\ \A u \in Actors : cmd'[u].type \in Asked
<1>0. \A u \in Actors : cmd[u].type \in Asked
  BY DEF AskedInv
<1>1. \A u \in Actors : cmd'[u] = cmd[u] \/ ( /\ cmd'[u].pc \in Unseen => cmd[u].pc \in Unseen /\ cmd'[u].pc # "create" /\ cmd'[u].vport = cmd[u].vport
                                             /\ cmd'[u].type \in Asked)
  BY DEF CmdMoves
<1>2. "create" \in Unseen
  BY DEF Unseen
<1>3. \A v : Fresh(v)' => Fresh(v)
  BY ONLY <1>1 DEF Fresh
<1>4. \A d : Private(d)' => Private(d)
  BY ONLY <1>1, <1>2 DEF Private
<1> QED BY <1>0, <1>1, <1>3, <1>4 DEF Seen

LEMMA GentleParts ==
  ASSUME UNCHANGED <<rcu, rd>>, Seen, \A u \in Actors : cmd'[u].type \in Asked,
         \A x \in Obj : MemKeeps(x),
         \A v \in Vports : vport'[v].type \in Asked,
         \A v \in Vports : v \in alloc => PortKeeps(v),
         \A d \in Dps : d \in alloc => DpKeeps(d),
         \A e \in Devs : e \in alloc => DevKeeps(e)
  PROVE  Gentle /\ AskedInv'
  BY DEF Gentle, AskedInv

LEMMA GentleStep ==
  ASSUME AskedInv, NEW t \in Actors, CmdMoves(t) \/ UNCHANGED cmd, UNCHANGED <<rcu, rd>>,
         \A x \in Obj : MemKeeps(x),
         \A v \in Vports : vport'[v].type \in Asked,
         \A v \in Vports : v \in alloc => PortKeeps(v),
         \A d \in Dps : d \in alloc => DpKeeps(d),
         \A e \in Devs : e \in alloc => DevKeeps(e)
  PROVE  Gentle /\ AskedInv'
  BY CmdSeen, GentleParts

\* What stays as it is.
LEMMA Keeps ==
  /\ \A x \in Obj : wait'[x] = wait[x] /\ (x \in pend' => x \in pend) => MemKeeps(x)
  /\ \A v \in Vports : v \in alloc' /\ vport'[v] = vport[v] => PortKeeps(v)
  /\ \A d \in Dps : d \in alloc' => DpKeeps(d)
  /\ \A e \in Devs : e \in alloc' /\ dev'[e].kind = dev[e].kind /\ dev'[e].reg = dev[e].reg => DevKeeps(e)
  BY DEF MemKeeps, PortKeeps, DpKeeps, DevKeeps, Registered

\* A step that allocates and frees nothing.
LEMMA StillStep ==
  ASSUME AskedInv, NEW t \in Actors, CmdMoves(t) \/ UNCHANGED cmd,
         UNCHANGED <<alloc, pend, wait, vport, rcu, rd>>,
         \A e \in Devs : dev'[e].kind = dev[e].kind /\ dev'[e].reg = dev[e].reg
  PROVE  Gentle /\ AskedInv'
<1>1. \A v \in Vports : vport'[v].type \in Asked
  BY DEF AskedInv
<1> QED BY <1>1, Keeps, GentleStep

LEMMA HeadroomKeeps ==
  ASSUME TypeInv, NEW ports, NEW x, dev' = SetHeadroom(ports, x)
  PROVE  \A e \in Devs : dev'[e].kind = dev[e].kind /\ dev'[e].reg = dev[e].reg
<1>1. \A e \in Devs : dev[e] \in DevLoose
  BY DEF TypeInv
<1>2. \A y \in DevLoose : [y EXCEPT !.rx = x].kind = y.kind /\ [y EXCEPT !.rx = x].reg = y.reg
  BY DEF DevLoose
<1> QED BY <1>1, <1>2 DEF SetHeadroom

\* The requests, except for a new datapath.
LEMMA RequestsStill ==
  ASSUME Inv, AskedInv, NEW t \in Threads, NewVport(t) \/ DelVport(t) \/ DelDatapath(t) \/ ExitNet(t)
  PROVE  Gentle /\ AskedInv'
<1>0. TypeInv /\ t \in Actors
  BY Constants DEF Inv
<1>1. CASE NewVport(t)
  <2>1. PICK e \in Devs, type \in Types, n \in Names, auto \in BOOLEAN, no \in PortNos \ {OVSP_LOCAL} :
          ovs_vport_cmd_new(t, e, type, n, auto, no)
    BY <1>1 DEF NewVport
  <2>2. PICK x \in ChosenNo(get_dp(e), auto, no) :
        cmd' = [cmd EXCEPT ![t] = [Idle EXCEPT !.pc = "vport_add", !.what = "vport_new",
                                    !.dp = get_dp(e), !.dev = e, !.net = dev[e].net,
                                    !.name = n, !.type = type, !.auto = auto, !.no = x]]
    BY <2>1 DEF ovs_vport_cmd_new
  <2> DEFINE c == [Idle EXCEPT !.pc = "vport_add", !.what = "vport_new",
                                    !.dp = get_dp(e), !.dev = e, !.net = dev[e].net,
                                    !.name = n, !.type = type, !.auto = auto, !.no = x]
  <2>3. c.pc \notin Unseen /\ c.type \in Asked
    BY DEF Idle, Unseen, Asked
  <2> HIDE DEF c
  <2>4. cmd' = [cmd EXCEPT ![t] = c]
    BY <2>2 DEF c
  <2>5. CmdMoves(t)
    BY <1>0, <2>3, <2>4, Moved
  <2>6. UNCHANGED <<alloc, pend, wait, vport, rcu, rd, dev>>
    BY <2>1 DEF ovs_vport_cmd_new, memory, tables, readers
  <2> QED BY <1>0, <2>5, <2>6, StillStep
<1>2. CASE DelVport(t)
  <2>1. PICK v \in Vports : ovs_vport_cmd_del(t, v)
    BY <1>2 DEF DelVport
  <2>2. PICK b : b = [Idle EXCEPT !.what = "vport_del", !.dp = vport[v].dp, !.net = dp[vport[v].dp].net,
                                 !.headroom = FwdHeadroom(v) = dp[vport[v].dp].max_headroom]
    OBVIOUS
  <2>3. cmd' = [cmd EXCEPT ![t] = [b EXCEPT !.vport = v, !.pc = "unhash"]]
    BY <2>1, <2>2 DEF ovs_vport_cmd_del, ovs_dp_detach_port
  <2> DEFINE c == [b EXCEPT !.vport = v, !.pc = "unhash"]
  <2>4. c.pc \notin Unseen /\ c.type \in Asked
    BY <2>2 DEF Idle, Unseen, Asked
  <2> HIDE DEF c
  <2>5. CmdMoves(t)
    BY <1>0, <2>3, <2>4, Moved DEF c
  <2>6. UNCHANGED <<alloc, pend, wait, vport, rcu, rd>> /\ dev' = SetHeadroom({v}, 0)
    BY <2>1 DEF ovs_vport_cmd_del, memory, readers
  <2> QED BY <1>0, <2>5, <2>6, HeadroomKeeps, StillStep
<1>3. CASE DelDatapath(t)
  <2>1. PICK d \in Dps : ovs_dp_cmd_del(t, d)
    BY <1>3 DEF DelDatapath
  <2> DEFINE c == [Idle EXCEPT !.pc = "dp_ports", !.what = "dp_del", !.dp = d, !.net = dp[d].net]
  <2>2. c.pc \notin Unseen /\ c.type \in Asked
    BY DEF Idle, Unseen, Asked
  <2>3. cmd' = [cmd EXCEPT ![t] = c]
    BY <2>1 DEF ovs_dp_cmd_del
  <2> HIDE DEF c
  <2>5. CmdMoves(t)
    BY <1>0, <2>2, <2>3, Moved
  <2>6. UNCHANGED <<alloc, pend, wait, vport, rcu, rd, dev>>
    BY <2>1 DEF ovs_dp_cmd_del, memory, tables, readers
  <2> QED BY <1>0, <2>5, <2>6, StillStep
<1>4. CASE ExitNet(t)
  <2>1. PICK net \in Nets : ovs_exit_net(t, net)
    BY <1>4 DEF ExitNet
  <2> DEFINE c == [Idle EXCEPT !.pc = "exit_dps", !.what = "exit_net", !.net = net]
  <2>2. c.pc \notin Unseen /\ c.type \in Asked
    BY DEF Idle, Unseen, Asked
  <2>3. cmd' = [cmd EXCEPT ![t] = c]
    BY <2>1 DEF ovs_exit_net
  <2> HIDE DEF c
  <2>5. CmdMoves(t)
    BY <1>0, <2>2, <2>3, Moved
  <2>6. UNCHANGED <<alloc, pend, wait, vport, rcu, rd, dev>>
    BY <2>1 DEF ovs_exit_net, memory, tables, readers
  <2> QED BY <1>0, <2>5, <2>6, StillStep
<1> QED BY <1>1, <1>2, <1>3, <1>4

\* What a step of command t does to its locals leaves the type.
LEMMA CmdFields ==
  \A y \in CmdType : \A p, v, d, s, w, e :
    /\ [y EXCEPT !.pc = p].pc = p /\ [y EXCEPT !.pc = p].type = y.type
    /\ [y EXCEPT !.pc = p, !.dp = d].pc = p /\ [y EXCEPT !.pc = p, !.dp = d].type = y.type
    /\ [y EXCEPT !.pc = p, !.dev = e].pc = p /\ [y EXCEPT !.pc = p, !.dev = e].type = y.type
    /\ [y EXCEPT !.vport = v, !.pc = p].pc = p /\ [y EXCEPT !.vport = v, !.pc = p].type = y.type
    /\ [y EXCEPT !.pc = p, !.todo = s].pc = p /\ [y EXCEPT !.pc = p, !.todo = s].type = y.type
    /\ [y EXCEPT !.pc = p, !.what = w, !.todo = s].pc = p /\ [y EXCEPT !.pc = p, !.what = w, !.todo = s].type = y.type
    /\ [y EXCEPT !.todo = s].pc = y.pc /\ [y EXCEPT !.todo = s].type = y.type
    /\ [[y EXCEPT !.todo = s] EXCEPT !.vport = v, !.pc = p].pc = p
    /\ [[y EXCEPT !.todo = s] EXCEPT !.vport = v, !.pc = p].type = y.type
  BY DEF CmdType

LEMMA MovedAs ==
  ASSUME TypeInv, AskedInv, NEW t \in Actors, NEW c, cmd' = [cmd EXCEPT ![t] = c], c.pc \notin Unseen, c.type = cmd[t].type
  PROVE  CmdMoves(t)
<1>1. c.type \in Asked
  BY DEF AskedInv
<1> QED BY <1>1, Moved

\* A step of a command that allocates and frees nothing, and leaves devices alone but for their headroom.
LEMMA StillCmd ==
  ASSUME Inv, AskedInv, NEW t \in Actors, CmdMoves(t), UNCHANGED <<alloc, pend, wait, vport, rcu, rd>>,
         dev' = dev \/ \E ports, x : dev' = SetHeadroom(ports, x)
  PROVE  Gentle /\ AskedInv'
<1>1. \A e \in Devs : dev'[e].kind = dev[e].kind /\ dev'[e].reg = dev[e].reg
  BY HeadroomKeeps DEF Inv
<1> QED BY <1>1, StillStep

LEMMA RestartStill ==
  ASSUME Inv, AskedInv, NEW t \in Actors, restart(t)
  PROVE  Gentle /\ AskedInv'
<1>0. TypeInv /\ cmd[t] \in CmdType
  BY DEF Inv, TypeInv
<1>2. PICK d : d = RestartDp(t)
  OBVIOUS
<1>3. ASSUME cmd' = [cmd EXCEPT ![t].pc = "vport_add", ![t].dp = d]
      PROVE  CmdMoves(t)
  <2>1. PICK c : c = [cmd[t] EXCEPT !.pc = "vport_add", !.dp = d]
    OBVIOUS
  <2>2. c.pc \notin Unseen /\ c.type = cmd[t].type
    BY <1>0, <2>1, CmdFields DEF Unseen
  <2>3. cmd' = [cmd EXCEPT ![t] = c]
    BY <1>3, <2>1
  <2> QED BY ONLY <1>0, AskedInv, t \in Actors, <2>2, <2>3, MovedAs
<1>4. ASSUME NEW a, cmd' = [cmd EXCEPT ![t] = [Idle EXCEPT !.what = "EBUSY", !.auto = a]]
      PROVE  CmdMoves(t)
  <2>1. PICK c : c = [Idle EXCEPT !.what = "EBUSY", !.auto = a]
    OBVIOUS
  <2>2. c.pc \notin Unseen /\ c.type \in Asked
    BY <2>1 DEF Idle, Unseen, Asked
  <2>3. cmd' = [cmd EXCEPT ![t] = c]
    BY <1>4, <2>1
  <2> QED BY <1>0, <2>2, <2>3, Moved
<1>5. CmdMoves(t)
  BY <1>0, <1>2, <1>3, <1>4, MovedIdle DEF restart, Finish
<1>6. UNCHANGED <<alloc, pend, wait, vport, rcu, rd, dev>>
  BY DEF restart, memory, tables, readers
<1> QED BY <1>5, <1>6, StillCmd

LEMMA CommandsStill ==
  ASSUME Inv, AskedInv, NEW t \in Actors,
         \/ request_module(t) \/ vport_hash(t) \/ new_vport(t) \/ vport_del_headroom(t) \/ ovs_vport_del(t) \/ cancel_work_sync(t)
  PROVE  Gentle /\ AskedInv'
<1>0. TypeInv
  BY DEF Inv
<1>1. CASE request_module(t)
  <2>1. cmd' = [cmd EXCEPT ![t].pc = "relock"] /\ UNCHANGED <<alloc, pend, wait, vport, rcu, rd, dev>>
    BY <1>1 DEF request_module, memory, tables, readers
  <2>2. "relock" \in Holding \cup Lockless /\ "relock" \notin Unseen
    BY DEF Lockless, Unseen
  <2> QED BY <1>0, <2>1, <2>2, MovedPc, StillCmd
<1>2. CASE vport_hash(t)
  <2>1. cmd' = [cmd EXCEPT ![t].pc = "insert"] /\ UNCHANGED <<alloc, pend, wait, vport, rcu, rd, dev>>
    BY <1>2 DEF vport_hash, Goto, memory, readers
  <2>2. "insert" \in Holding \cup Lockless /\ "insert" \notin Unseen
    BY DEF Holding, Adding, Unseen
  <2> QED BY <1>0, <2>1, <2>2, MovedPc, StillCmd
<1>3. CASE new_vport(t)
  <2>1. cmd' = [cmd EXCEPT ![t] = Idle] /\ UNCHANGED <<alloc, pend, wait, vport, rcu, rd>>
    BY <1>3 DEF new_vport, Finish, memory, readers
  <2>2. dev' = dev \/ \E ports, x : dev' = SetHeadroom(ports, x)
    BY <1>3 DEF new_vport
  <2> QED BY <1>0, <2>1, <2>2, MovedIdle, StillCmd
<1>4. CASE vport_del_headroom(t)
  <2>1. cmd' = [cmd EXCEPT ![t] = Idle] /\ UNCHANGED <<alloc, pend, wait, vport, rcu, rd>>
    BY <1>4 DEF vport_del_headroom, Finish, memory, readers
  <2>2. dev' = dev \/ \E ports, x : dev' = SetHeadroom(ports, x)
    BY <1>4 DEF vport_del_headroom
  <2> QED BY <1>0, <2>1, <2>2, MovedIdle, StillCmd
<1>5. CASE ovs_vport_del(t)
  <2>1. cmd' = [cmd EXCEPT ![t].pc = "destroy"] /\ UNCHANGED <<alloc, pend, wait, vport, rcu, rd, dev>>
    BY <1>5 DEF ovs_vport_del, Goto, memory, readers
  <2>2. "destroy" \in Holding \cup Lockless /\ "destroy" \notin Unseen
    BY DEF Holding, Removing, Unseen
  <2> QED BY <1>0, <2>1, <2>2, MovedPc, StillCmd
<1>6. CASE cancel_work_sync(t)
  <2>1. cmd' = [cmd EXCEPT ![t] = Idle] /\ UNCHANGED <<alloc, pend, wait, vport, rcu, rd, dev>>
    BY <1>6 DEF cancel_work_sync, memory, tables, readers
  <2> QED BY <1>0, <2>1, MovedIdle, StillCmd
<1> QED BY <1>1, <1>2, <1>3, <1>4, <1>5, <1>6

\* The steps that take ports out of their datapaths.
LEMMA ListsStill ==
  ASSUME Inv, AskedInv, NEW t \in Actors, exit_dps(t) \/ exit_vports(t)
  PROVE  Gentle /\ AskedInv'
<1>0. TypeInv /\ cmd[t] \in CmdType
  BY DEF Inv, TypeInv
<1>1. CASE exit_dps(t)
  <2>0. UNCHANGED <<alloc, pend, wait, vport, rcu, rd, dev>>
    BY <1>1 DEF exit_dps, memory, tables, readers
  <2>1. PICK c : cmd' = [cmd EXCEPT ![t] = c] /\ c.pc \notin Unseen /\ c.type = cmd[t].type
    <3>1. ASSUME NEW d \in Dps, cmd' = [cmd EXCEPT ![t].pc = "dp_ports", ![t].dp = d]
          PROVE  \E c : cmd' = [cmd EXCEPT ![t] = c] /\ c.pc \notin Unseen /\ c.type = cmd[t].type
      <4>1. PICK c : c = [cmd[t] EXCEPT !.pc = "dp_ports", !.dp = d]
        OBVIOUS
      <4>2. c.pc \notin Unseen /\ c.type = cmd[t].type
        BY <1>0, <4>1, CmdFields DEF Unseen
      <4> QED BY <3>1, <4>1, <4>2
    <3>2. ASSUME NEW s, cmd' = [cmd EXCEPT ![t].pc = "exit_vports", ![t].what = "exit_vports", ![t].todo = s]
          PROVE  \E c : cmd' = [cmd EXCEPT ![t] = c] /\ c.pc \notin Unseen /\ c.type = cmd[t].type
      <4>1. PICK c : c = [cmd[t] EXCEPT !.pc = "exit_vports", !.what = "exit_vports", !.todo = s]
        OBVIOUS
      <4>2. c.pc \notin Unseen /\ c.type = cmd[t].type
        BY <1>0, <4>1, CmdFields DEF Unseen
      <4> QED BY <3>2, <4>1, <4>2
    <3> QED BY <1>1, <3>1, <3>2 DEF exit_dps
  <2>2. CmdMoves(t)
    BY <1>0, <2>1, MovedAs
  <2> QED BY <2>0, <2>2, StillCmd
<1>2. CASE exit_vports(t)
  <2>0. UNCHANGED <<alloc, pend, wait, vport, rcu, rd, dev>>
    BY <1>2 DEF exit_vports, memory, readers
  <2>1. PICK c : cmd' = [cmd EXCEPT ![t] = c] /\ c.pc \notin Unseen /\ c.type = cmd[t].type
    <3>1. ASSUME NEW v \in cmd[t].todo, ovs_dp_detach_port(t, v, [cmd[t] EXCEPT !.todo = @ \ {v}])
          PROVE  \E c : cmd' = [cmd EXCEPT ![t] = c] /\ c.pc \notin Unseen /\ c.type = cmd[t].type
      <4>1. PICK c : c = [[cmd[t] EXCEPT !.todo = @ \ {v}] EXCEPT !.vport = v, !.pc = "unhash"]
        OBVIOUS
      <4>2. c.pc \notin Unseen /\ c.type = cmd[t].type
        BY <1>0, <4>1, CmdFields DEF Unseen
      <4> QED BY <3>1, <4>1, <4>2 DEF ovs_dp_detach_port
    <3>2. ASSUME cmd' = [cmd EXCEPT ![t].pc = "cancel_work"]
          PROVE  \E c : cmd' = [cmd EXCEPT ![t] = c] /\ c.pc \notin Unseen /\ c.type = cmd[t].type
      <4>1. PICK c : c = [cmd[t] EXCEPT !.pc = "cancel_work"]
        OBVIOUS
      <4>2. c.pc \notin Unseen /\ c.type = cmd[t].type
        BY <1>0, <4>1, CmdFields DEF Unseen
      <4> QED BY <3>2, <4>1, <4>2
    <3> QED BY <1>2, <3>1, <3>2 DEF exit_vports
  <2>2. CmdMoves(t)
    BY <1>0, <2>1, MovedAs
  <2> QED BY <2>0, <2>2, StillCmd
<1> QED BY <1>1, <1>2

LEMMA WorkStill ==
  ASSUME Inv, AskedInv, Work
  PROVE  Gentle /\ AskedInv'
<1>0. TypeInv /\ Worker \in Actors /\ cmd[Worker] \in CmdType
  BY Constants DEF Inv, TypeInv
<1>1. UNCHANGED <<alloc, pend, wait, vport, rcu, rd, dev>>
  BY DEF Work, dp_notify_work, ovs_dp_notify_wq, dp_detach_port_notify, memory, tables, readers
<1>2. CASE \E net \in Nets : dp_notify_work(net)
  <2>1. PICK net \in Nets : cmd' = [cmd EXCEPT ![Worker] = [Idle EXCEPT !.pc = "wq_lock", !.what = "notify", !.net = net]]
    BY <1>2 DEF dp_notify_work
  <2>2. PICK c : c = [Idle EXCEPT !.pc = "wq_lock", !.what = "notify", !.net = net]
    OBVIOUS
  <2>3. c.pc \notin Unseen /\ c.type \in Asked
    BY <2>2 DEF Idle, Unseen, Asked
  <2>4. CmdMoves(Worker)
    BY <1>0, <2>1, <2>2, <2>3, Moved
  <2> QED BY <1>0, <1>1, <2>4, StillCmd
<1>3. ASSUME NEW c, cmd' = [cmd EXCEPT ![Worker] = c], c.pc \notin Unseen, c.type = cmd[Worker].type
      PROVE  Gentle /\ AskedInv'
  <2>1. CmdMoves(Worker)
    BY <1>0, <1>3, MovedAs
  <2> QED BY <1>0, <1>1, <2>1, StillCmd
<1>4. CASE ovs_dp_notify_wq
  <2>1. PICK s : cmd' = [cmd EXCEPT ![Worker].pc = "notify", ![Worker].todo = s]
    BY <1>4 DEF ovs_dp_notify_wq
  <2>2. PICK c : c = [cmd[Worker] EXCEPT !.pc = "notify", !.todo = s]
    OBVIOUS
  <2>3. c.pc \notin Unseen /\ c.type = cmd[Worker].type
    BY <1>0, <2>2, CmdFields DEF Unseen
  <2> QED BY <1>3, <2>1, <2>2, <2>3
<1>5. ASSUME NEW v \in cmd[Worker].todo, ovs_dp_detach_port(Worker, v, [cmd[Worker] EXCEPT !.todo = @ \ {v}])
      PROVE  Gentle /\ AskedInv'
  <2>1. PICK c : c = [[cmd[Worker] EXCEPT !.todo = @ \ {v}] EXCEPT !.vport = v, !.pc = "unhash"]
    OBVIOUS
  <2>2. c.pc \notin Unseen /\ c.type = cmd[Worker].type
    BY <1>0, <2>1, CmdFields DEF Unseen
  <2>3. cmd' = [cmd EXCEPT ![Worker] = c]
    BY <1>5, <2>1 DEF ovs_dp_detach_port
  <2> QED BY <1>3, <2>2, <2>3
<1>6. ASSUME cmd[Worker].pc = "notify", NEW v \in cmd[Worker].todo, cmd' = [cmd EXCEPT ![Worker] = [cmd[Worker] EXCEPT !.todo = @ \ {v}]]
      PROVE  Gentle /\ AskedInv'
  <2>1. PICK c : c = [cmd[Worker] EXCEPT !.todo = @ \ {v}]
    OBVIOUS
  <2>2. c.pc \notin Unseen /\ c.type = cmd[Worker].type
    BY <1>0, <1>6, <2>1, CmdFields DEF Unseen
  <2> QED BY <1>3, <1>6, <2>1, <2>2
<1>7. CASE Finish(Worker)
  BY <1>0, <1>1, <1>7, MovedIdle, StillCmd DEF Finish
<1>8. CASE dp_detach_port_notify
  BY <1>5, <1>6, <1>7, <1>8 DEF dp_detach_port_notify
<1> QED BY <1>2, <1>4, <1>8 DEF Work

\* A new datapath, or a new port, is seen by nobody yet.
LEMMA NewDpGentle ==
  ASSUME Inv, AskedInv, NEW t \in Threads, NewDatapath(t)
  PROVE  Gentle /\ AskedInv'
<1>1. PICK d \in Dps, v \in Vports, net \in Nets, n \in Names : ovs_dp_cmd_new(t, d, v, net, n)
  BY DEF NewDatapath
<1>2. /\ d \notin alloc /\ v \notin alloc /\ alloc' = alloc \cup {d, v}
      /\ UNCHANGED <<pend, wait, rcu, rd, dev>>
      /\ vport' = [vport EXCEPT ![v] = [NoVport EXCEPT !.dp = d]]
      /\ cmd' = [cmd EXCEPT ![t] = [Idle EXCEPT !.pc = "create", !.what = "dp_new", !.dp = d, !.vport = v, !.net = net, !.name = n]]
  BY <1>1 DEF ovs_dp_cmd_new, readers
<1>3. t \in Actors /\ TypeInv /\ vport \in [Vports -> VportType]
  BY Constants DEF Inv, TypeInv
<1>4. /\ \A u \in Actors : u # t => cmd'[u] = cmd[u]
      /\ cmd'[t].vport = v /\ cmd'[t].dp = d /\ cmd'[t].type = "internal"
  BY <1>2, <1>3 DEF TypeInv, Idle
<1>5. Seen
  BY <1>2, <1>4 DEF Seen, Fresh, Private
<1>6. \A u \in Actors : cmd'[u].type \in Asked
  BY <1>4 DEF AskedInv, Asked
<1>7. /\ vport'[v].type = "internal" /\ \A w \in Vports : w # v => vport'[w] = vport[w]
  BY <1>2, <1>3 DEF NoVport
<1>8. \A w \in Vports : vport'[w].type \in Asked
  BY <1>7 DEF AskedInv, Asked
<1> QED BY <1>2, <1>5, <1>6, <1>7, <1>8, Keeps, GentleParts

LEMMA AddGentle ==
  ASSUME Inv, AskedInv, NEW t \in Actors, ovs_vport_add(t)
  PROVE  Gentle /\ AskedInv'
<1>0. /\ TypeInv /\ cmd[t] \in CmdType /\ cmd \in [Actors -> CmdType] /\ vport \in [Vports -> VportType] /\ CmdInv(t)
      /\ cmd[t].pc = "vport_add" /\ UNCHANGED <<pend, wait, dev, rcu, rd>>
  BY DEF Inv, TypeInv, CmdsInv, ovs_vport_add, readers
<1>1. ASSUME NEW v \in Vports \ alloc, alloc' = alloc \cup {v},
             vport' = [vport EXCEPT ![v] = [dp |-> cmd[t].dp, no |-> cmd[t].no, type |-> cmd[t].type, dev |-> NULL]],
             cmd' = [cmd EXCEPT ![t].vport = v, ![t].pc = IF cmd[t].type = "netdev" THEN "get_dev" ELSE "create"]
      PROVE  Gentle /\ AskedInv'
  <2>1. PICK p : p = IF cmd[t].type = "netdev" THEN "get_dev" ELSE "create"
    OBVIOUS
  <2>2. PICK c : c = [cmd[t] EXCEPT !.vport = v, !.pc = p]
    OBVIOUS
  <2>3. c.vport = v /\ c.what = "vport_new" /\ c.type = cmd[t].type
    BY <1>0, <2>2 DEF CmdType, CmdInv
  <2>4. cmd' = [cmd EXCEPT ![t] = c]
    BY <1>1, <2>1, <2>2
  <2>5. cmd'[t] = c /\ \A u \in Actors : u # t => cmd'[u] = cmd[u]
    BY <1>0, <2>4
  <2>6. Seen
    BY <1>1, <2>3, <2>5 DEF Seen, Fresh, Private
  <2>7. \A u \in Actors : cmd'[u].type \in Asked
    BY <2>3, <2>5 DEF AskedInv
  <2>8. vport'[v].type = cmd[t].type /\ \A w \in Vports : w # v => vport'[w] = vport[w]
    BY <1>0, <1>1
  <2>9. \A w \in Vports : vport'[w].type \in Asked
    BY <2>8 DEF AskedInv
  <2> QED BY <1>0, <1>1, <2>6, <2>7, <2>8, <2>9, Keeps, GentleParts
<1>2. ASSUME Finish(t), UNCHANGED <<alloc, vport>>
      PROVE  Gentle /\ AskedInv'
  <2>1. CmdMoves(t)
    BY <1>0, <1>2, MovedIdle DEF Finish
  <2> QED BY <1>0, <1>2, <2>1, StillCmd
<1>3. ASSUME cmd' = [cmd EXCEPT ![t].pc = "request_module"], UNCHANGED <<alloc, vport>>
      PROVE  Gentle /\ AskedInv'
  <2>1. "request_module" \in Holding \cup Lockless /\ "request_module" \notin Unseen
    BY DEF Lockless, Unseen
  <2>2. CmdMoves(t)
    BY <1>0, <1>3, <2>1, MovedPc
  <2> QED BY <1>0, <1>3, <2>2, StillCmd
<1> QED BY <1>1, <1>2, <1>3 DEF ovs_vport_add

\* A command that has only changed its own new port.
LEMMA FreshGentle ==
  ASSUME AskedInv, NEW t \in Actors, CmdMoves(t), UNCHANGED <<pend, wait, rcu, rd>>, alloc \subseteq alloc',
         NEW v \in Vports, Fresh(v), vport'[v].dp = vport[v].dp, vport'[v].type = vport[v].type,
         \A w \in Vports : w # v => vport'[w] = vport[w],
         \A e \in Devs : e \in alloc => dev'[e].kind = dev[e].kind /\ dev'[e].reg = dev[e].reg
  PROVE  Gentle /\ AskedInv'
<1>1. \A w \in Vports : vport'[w].type \in Asked
  BY DEF AskedInv
<1>2. PortKeeps(v) \/ v \notin alloc
  BY DEF PortKeeps
<1> QED BY <1>1, <1>2, Keeps, GentleStep

\* ... or gives up and frees it, and the datapath it was to make.
LEMMA FailGentle ==
  ASSUME Inv, AskedInv, NEW t \in Actors, cmd[t].pc \in Unseen, FreeNew(t), Finish(t), UNCHANGED <<pend, wait, rcu, rd>>,
         \A e \in Devs : dev'[e].kind = dev[e].kind /\ dev'[e].reg = dev[e].reg
  PROVE  Gentle /\ AskedInv'
<1>0. TypeInv /\ AddInv(t) /\ cmd[t].pc \in Adding /\ vport \in [Vports -> VportType] /\ dp \in [Dps -> DpType]
  BY DEF Inv, TypeInv, CmdsInv, Unseen, Adding
<1>v. PICK v \in Vports, d \in Dps : v = cmd[t].vport /\ d = cmd[t].dp
  BY <1>0 DEF AddInv
<1>1. PICK gone \in {{}, {d}} : gone = (IF cmd[t].what = "dp_new" THEN {d} ELSE {})
  OBVIOUS
<1>2. /\ alloc' = alloc \ ({v} \cup gone)
      /\ vport' = [vport EXCEPT ![v] = NoVport]
  <2>1. CASE cmd[t].what = "dp_new"
    BY <1>1, <1>v, <2>1 DEF FreeNew
  <2>2. CASE cmd[t].what # "dp_new"
    BY <1>1, <1>v, <2>2 DEF FreeNew
  <2> QED BY <2>1, <2>2
<1>3. Fresh(v) /\ (gone # {} => Private(d))
  <2>1. Fresh(v)
    BY <1>v DEF Fresh
  <2>2. ASSUME cmd[t].what = "dp_new"
        PROVE  cmd[t].pc = "create"
    BY <1>0, <2>2 DEF AddInv, Unseen
  <2> QED BY <1>1, <1>v, <2>1, <2>2 DEF Private
<1>4. vport'[v].type = "internal" /\ \A w \in Vports : w # v => vport'[w] = vport[w]
  BY <1>0, <1>2, VportFields
<1>5. \A w \in Vports : vport'[w].type \in Asked
  BY <1>4 DEF AskedInv, Asked
<1>6. \A w \in Vports : w \in alloc => PortKeeps(w)
  <2>1. PortKeeps(v)
    BY <1>2, <1>3 DEF PortKeeps
  <2>2. \A w \in Vports : w # v /\ w \in alloc => w \in alloc'
    BY <1>1, <1>2, Constants
  <2> QED BY <1>4, <2>1, <2>2, Keeps
<1>7. \A x \in Dps : x \in alloc => DpKeeps(x)
  <2>1. \A x \in Dps : x \in alloc /\ x \notin alloc' => Private(x)
    BY <1>1, <1>2, <1>3, Constants
  <2> QED BY <2>1 DEF DpKeeps
<1>8. \A e \in Devs : e \in alloc => DevKeeps(e)
  <2>1. \A e \in Devs : e \in alloc => e \in alloc'
    BY <1>1, <1>2, Constants
  <2> QED BY <2>1, Keeps
<1>9. CmdMoves(t) /\ \A x \in Obj : MemKeeps(x)
  BY <1>0, MovedIdle, Keeps DEF Finish
<1> QED BY ONLY AskedInv, t \in Actors, UNCHANGED <<pend, wait, rcu, rd>>, <1>5, <1>6, <1>7, <1>8, <1>9, GentleStep

LEMMA CreateGentle ==
  ASSUME Inv, AskedInv, NEW t \in Actors, dev_create(t)
  PROVE  Gentle /\ AskedInv'
<1>0. /\ TypeInv /\ cmd[t].pc = "create" /\ cmd[t].pc \in Unseen /\ cmd[t].vport \in Vports /\ UNCHANGED <<pend, wait, rcu, rd>>
      /\ vport \in [Vports -> VportType] /\ dev \in [Devs -> DevLoose]
  <2>1. AddInv(t) /\ cmd[t].pc = "create" /\ cmd[t].pc \in Adding
    BY DEF Inv, CmdsInv, dev_create, Adding
  <2> QED BY <2>1 DEF Inv, TypeInv, AddInv, Unseen, dev_create, readers
<1>v. PICK v \in Vports : v = cmd[t].vport
  BY <1>0
<1>1. ASSUME NEW e \in Devs \ alloc, alloc' = alloc \cup {e}, NEW x, dev' = [dev EXCEPT ![e] = x],
             vport' = IF cmd[t].type = "internal" THEN [vport EXCEPT ![v].dev = e] ELSE vport,
             Goto(t, IF cmd[t].type = "internal" THEN "hash" ELSE "get_dev")
      PROVE  Gentle /\ AskedInv'
  <2>1. CmdMoves(t)
    <3>1. PICK p \in {"hash", "get_dev"} : p = IF cmd[t].type = "internal" THEN "hash" ELSE "get_dev"
      OBVIOUS
    <3>2. p \in Holding \cup Lockless /\ p # "create" /\ Goto(t, p)
      BY <1>1, <3>1 DEF Holding, Adding
    <3> QED BY <1>0, <3>2, MovedGoto
  <2>2. Fresh(v)
    BY <1>0, <1>v DEF Fresh
  <2>3. /\ vport'[v].dp = vport[v].dp /\ vport'[v].type = vport[v].type
        /\ \A w \in Vports : w # v => vport'[w] = vport[w]
    <3>1. vport[v] \in VportType /\ e \in OrNull(Devs)
      BY <1>0 DEF OrNull
    <3>2. CASE cmd[t].type = "internal"
      <4>1. vport' = [vport EXCEPT ![v] = [vport[v] EXCEPT !.dev = e]]
        BY <1>1, <3>2
      <4> QED BY <1>0, <3>1, <4>1, VportFields
    <3>3. CASE cmd[t].type # "internal"
      BY <1>1, <3>3
    <3> QED BY <3>2, <3>3
  <2>4. \A y \in Devs : y \in alloc => dev'[y].kind = dev[y].kind /\ dev'[y].reg = dev[y].reg
    BY <1>0, <1>1
  <2> QED BY <1>0, <1>1, <2>1, <2>2, <2>3, <2>4, FreshGentle
<1>2. ASSUME FreeNew(t), Finish(t), UNCHANGED dev
      PROVE  Gentle /\ AskedInv'
  BY <1>0, <1>2, FailGentle
<1> QED BY <1>v, <1>1, <1>2 DEF dev_create

LEMMA GetGentle ==
  ASSUME Inv, AskedInv, NEW t \in Actors, dev_get_by_name(t)
  PROVE  Gentle /\ AskedInv'
<1>0. /\ TypeInv /\ cmd[t].pc = "get_dev" /\ cmd[t].pc \in Unseen /\ cmd[t].vport \in Vports /\ UNCHANGED <<pend, wait, rcu, rd>>
      /\ vport \in [Vports -> VportType] /\ dev \in [Devs -> DevLoose]
  <2>1. AddInv(t) /\ cmd[t].pc = "get_dev" /\ cmd[t].pc \in Adding
    BY DEF Inv, CmdsInv, dev_get_by_name, Adding
  <2> QED BY <2>1 DEF Inv, TypeInv, AddInv, Unseen, dev_get_by_name, readers
<1>v. PICK v \in Vports : v = cmd[t].vport
  BY <1>0
<1>1. ASSUME NEW e \in Devs, dev' = [dev EXCEPT ![e].ref = @ + 1], vport' = [vport EXCEPT ![v].dev = e], Goto(t, "link"),
             UNCHANGED alloc
      PROVE  Gentle /\ AskedInv'
  <2>1. CmdMoves(t)
    <3>1. "link" \in Holding \cup Lockless
      BY DEF Holding, Adding
    <3> QED BY <1>0, <1>1, <3>1, MovedGoto
  <2>2. Fresh(v)
    BY <1>0, <1>v DEF Fresh
  <2>3. /\ vport'[v].dp = vport[v].dp /\ vport'[v].type = vport[v].type
        /\ \A w \in Vports : w # v => vport'[w] = vport[w]
    <3>1. vport[v] \in VportType /\ e \in OrNull(Devs)
      BY <1>0 DEF OrNull
    <3>2. vport' = [vport EXCEPT ![v] = [vport[v] EXCEPT !.dev = e]]
      BY <1>1
    <3> QED BY <1>0, <3>1, <3>2, VportFields
  <2>4. \A y \in Devs : dev'[y].kind = dev[y].kind /\ dev'[y].reg = dev[y].reg
    <3>1. PICK z : z = [dev[e] EXCEPT !.ref = @ + 1]
      OBVIOUS
    <3>2. z.kind = dev[e].kind /\ z.reg = dev[e].reg
      BY <1>0, <3>1, DevFields
    <3>3. dev' = [dev EXCEPT ![e] = z]
      BY <1>1, <3>1
    <3> QED BY <1>0, <3>2, <3>3
  <2> QED BY <1>0, <1>1, <2>1, <2>2, <2>3, <2>4, FreshGentle
<1>2. ASSUME FreeNew(t), Finish(t), UNCHANGED dev
      PROVE  Gentle /\ AskedInv'
  BY <1>0, <1>2, FailGentle
<1> QED BY <1>v, <1>1, <1>2 DEF dev_get_by_name, ByName

LEMMA LinkGentle ==
  ASSUME Inv, AskedInv, NEW t \in Actors, ovs_netdev_link(t)
  PROVE  Gentle /\ AskedInv'
<1>0. /\ TypeInv /\ cmd[t].pc = "link" /\ cmd[t].pc \in Unseen /\ UNCHANGED <<pend, wait, rcu, rd>> /\ dev \in [Devs -> DevLoose]
  BY DEF Inv, TypeInv, Unseen, ovs_netdev_link, readers
<1>v. PICK v \in Vports, e \in Devs : v = cmd[t].vport /\ e = vport[v].dev
  <2>1. AddInv(t) /\ cmd[t].pc \in Adding
    BY <1>0 DEF Inv, CmdsInv, Adding
  <2>2. cmd[t].vport \in Vports /\ vport[cmd[t].vport].dev # NULL
    BY <1>0, <2>1 DEF AddInv
  <2>3. vport[cmd[t].vport].dev \in OrNull(Devs)
    BY <1>0, <2>2 DEF TypeInv, VportType
  <2> QED BY <2>2, <2>3 DEF OrNull
<1>1. ASSUME dev' = [dev EXCEPT ![e].attached = TRUE, ![e].vport = v, ![e].promisc = @ + 1], Goto(t, "hash"), UNCHANGED <<alloc, vport>>
      PROVE  Gentle /\ AskedInv'
  <2>1. CmdMoves(t)
    <3>1. "hash" \in Holding \cup Lockless /\ "hash" \notin Unseen
      BY DEF Holding, Adding, Unseen
    <3> QED BY <1>0, <1>1, <3>1, MovedPc DEF Goto
  <2>2. \A y \in Devs : dev'[y].kind = dev[y].kind /\ dev'[y].reg = dev[y].reg
    <3>1. PICK z : z = [dev[e] EXCEPT !.attached = TRUE, !.vport = v, !.promisc = @ + 1]
      OBVIOUS
    <3>0. dev[e] \in DevLoose
      BY <1>0
    <3>2. z.kind = dev[e].kind /\ z.reg = dev[e].reg
      BY ONLY <3>0, <3>1, v \in Vports, DevFields
    <3>3. dev' = [dev EXCEPT ![e] = z]
      BY <1>1, <3>1
    <3> QED BY <1>0, <3>2, <3>3
  <2> QED BY <1>0, <1>1, <2>1, <2>2, StillStep
<1>2. ASSUME dev' = [dev EXCEPT ![e].ref = @ - 1], FreeNew(t), Finish(t)
      PROVE  Gentle /\ AskedInv'
  <2>1. \A y \in Devs : dev'[y].kind = dev[y].kind /\ dev'[y].reg = dev[y].reg
    <3>1. PICK z : z = [dev[e] EXCEPT !.ref = @ - 1]
      OBVIOUS
    <3>2. z.kind = dev[e].kind /\ z.reg = dev[e].reg
      BY <1>0, <3>1, DevFields
    <3>3. dev' = [dev EXCEPT ![e] = z]
      BY <1>2, <3>1
    <3> QED BY <1>0, <3>2, <3>3
  <2> QED BY <1>0, <1>2, <2>1, FailGentle
<1> QED BY <1>v, <1>1, <1>2 DEF ovs_netdev_link

\* A command that destroys a port goes on.
LEMMA DestroyMoves ==
  ASSUME Inv, AskedInv, NEW t \in Actors, cmd[t].pc \in Removing \ {"unhash"},
         \/ cmd' = [cmd EXCEPT ![t].pc = AfterDestroy(cmd[t].what)]
         \/ cmd' = [cmd EXCEPT ![t].pc = AfterDestroy(cmd[t].what), ![t].dev = NULL]
  PROVE  CmdMoves(t)
<1>1. TypeInv /\ cmd[t] \in CmdType /\ RemoveInv(t)
  BY DEF Inv, TypeInv, CmdsInv
<1>2. PICK p : p = AfterDestroy(cmd[t].what) /\ p \notin Unseen
  <2>1. AfterDestroy(cmd[t].what) \notin Adding
    BY <1>1, AfterDestroyIs DEF RemoveInv
  <2> QED BY <2>1 DEF Unseen, Adding
<1>3. PICK c : cmd' = [cmd EXCEPT ![t] = c] /\ c.pc = p /\ c.type = cmd[t].type
  <2>1. CASE cmd' = [cmd EXCEPT ![t].pc = AfterDestroy(cmd[t].what)]
    <3>1. PICK c : c = [cmd[t] EXCEPT !.pc = p]
      OBVIOUS
    <3>2. c.pc = p /\ c.type = cmd[t].type
      BY <1>1, <3>1, CmdFields
    <3> QED BY <1>2, <2>1, <3>1, <3>2
  <2>2. CASE cmd' = [cmd EXCEPT ![t].pc = AfterDestroy(cmd[t].what), ![t].dev = NULL]
    <3>1. PICK c : c = [cmd[t] EXCEPT !.pc = p, !.dev = NULL]
      OBVIOUS
    <3>2. c.pc = p /\ c.type = cmd[t].type
      BY <1>1, <3>1, CmdFields
    <3> QED BY <1>2, <2>2, <3>1, <3>2
  <2> QED BY <2>1, <2>2
<1> QED BY <1>1, <1>2, <1>3, MovedAs

\* call_rcu()
LEMMA CallRcuKeeps ==
  ASSUME TypeInv, NEW o \in Obj, call_rcu(o)
  PROVE  \A x \in Obj : MemKeeps(x)
<1>1. wait \in [Obj -> SUBSET rcu]
  BY DEF TypeInv
<1>2. wait'[o] = rcu /\ \A x \in Obj : x # o => wait'[x] = wait[x] /\ (x \in pend' <=> x \in pend)
  BY <1>1 DEF call_rcu
<1> QED BY <1>2 DEF MemKeeps

LEMMA NetdevDestroyGentle ==
  ASSUME Inv, AskedInv, NEW t \in Actors, netdev_destroy(t)
  PROVE  Gentle /\ AskedInv'
<1>0. TypeInv /\ cmd[t].pc = "destroy" /\ dev \in [Devs -> DevLoose] /\ cmd[t].pc \in Removing \ {"unhash"}
  BY DEF Inv, TypeInv, netdev_destroy, Removing
<1>v. PICK v \in Vports, e \in Devs : v = cmd[t].vport /\ e = vport[v].dev
  BY <1>0, Destroyed DEF netdev_destroy
<1>1. /\ dev' = [dev EXCEPT ![e] = ovs_netdev_detach_dev(dev[e])] /\ call_rcu(v)
      /\ cmd' = [cmd EXCEPT ![t].pc = AfterDestroy(cmd[t].what)]
      /\ UNCHANGED <<alloc, vport, rcu, rd>>
  BY <1>v DEF netdev_destroy, Goto, tables, readers
<1>2. CmdMoves(t)
  BY <1>0, <1>1, DestroyMoves
<1>3. \A x \in Obj : MemKeeps(x)
  BY <1>0, <1>1, CallRcuKeeps DEF Obj
<1>4. \A y \in Devs : dev'[y].kind = dev[y].kind /\ dev'[y].reg = dev[y].reg
  <2>1. PICK z : z = ovs_netdev_detach_dev(dev[e])
    OBVIOUS
  <2>2. z.kind = dev[e].kind /\ z.reg = dev[e].reg
    BY <1>0, <2>1, DetachType
  <2> QED BY <1>0, <1>1, <2>1, <2>2
<1>5. \A w \in Vports : vport'[w].type \in Asked
  BY <1>1 DEF AskedInv
<1> QED BY <1>1, <1>2, <1>3, <1>4, <1>5, Keeps, GentleStep

LEMMA TunnelDestroyGentle ==
  ASSUME Inv, AskedInv, NEW t \in Actors, ovs_netdev_tunnel_destroy(t)
  PROVE  Gentle /\ AskedInv'
<1>0. /\ TypeInv /\ cmd[t].pc = "destroy" /\ dev \in [Devs -> DevLoose] /\ vport \in [Vports -> VportType]
      /\ cmd[t].pc \in Removing \ {"unhash"} /\ cmd[t] \in CmdType /\ wait \in [Obj -> SUBSET rcu]
  BY DEF Inv, TypeInv, ovs_netdev_tunnel_destroy, Removing
<1>v. PICK v \in Vports, e \in Devs : v = cmd[t].vport /\ e = vport[v].dev /\ vport[v].type = "tunnel" /\ e \in alloc
  BY <1>0, Destroyed DEF ovs_netdev_tunnel_destroy
<1>1. /\ dev' = [dev EXCEPT ![e] = Dropped(dev[e])]
      /\ vport' = [vport EXCEPT ![v].dev = NULL]
      /\ UNCHANGED <<alloc, rcu, rd>>
      /\ \/ /\ Registered(e) /\ wait' = [wait EXCEPT ![e] = rcu] /\ UNCHANGED pend
            /\ cmd' = [cmd EXCEPT ![t].pc = "run_todo", ![t].dev = e]
         \/ /\ ~Registered(e) /\ call_rcu(v)
            /\ cmd' = [cmd EXCEPT ![t].pc = AfterDestroy(cmd[t].what)]
  BY <1>v DEF ovs_netdev_tunnel_destroy, readers
<1>2. CmdMoves(t)
  <2>1. CASE cmd' = [cmd EXCEPT ![t].pc = "run_todo", ![t].dev = e]
    <3>1. PICK c : c = [cmd[t] EXCEPT !.pc = "run_todo", !.dev = e]
      OBVIOUS
    <3>2. c.pc \notin Unseen /\ c.type = cmd[t].type
      BY <1>0, <3>1, CmdFields DEF Unseen
    <3>3. cmd' = [cmd EXCEPT ![t] = c]
      BY <2>1, <3>1
    <3> QED BY ONLY <1>0, AskedInv, t \in Actors, <3>2, <3>3, MovedAs
  <2>2. CASE cmd' = [cmd EXCEPT ![t].pc = AfterDestroy(cmd[t].what)]
    BY <1>0, <2>2, DestroyMoves
  <2> QED BY <1>1, <2>1, <2>2
<1>3. \A x \in Obj : MemKeeps(x)
  <2>1. CASE wait' = [wait EXCEPT ![e] = rcu] /\ UNCHANGED pend
    BY <1>0, <2>1 DEF MemKeeps
  <2>2. CASE call_rcu(v)
    BY <1>0, <2>2, CallRcuKeeps DEF Obj
  <2> QED BY <1>1, <2>1, <2>2
<1>4. vport'[v].dp = vport[v].dp /\ vport'[v].type = vport[v].type /\ \A w \in Vports : w # v => vport'[w] = vport[w]
  <2>1. vport[v] \in VportType /\ NULL \in OrNull(Devs)
    BY <1>0 DEF OrNull
  <2>2. vport' = [vport EXCEPT ![v] = [vport[v] EXCEPT !.dev = NULL]]
    BY <1>1
  <2> QED BY <1>0, <2>1, <2>2, VportFields
<1>5. \A w \in Vports : vport'[w].type \in Asked
  BY <1>4 DEF AskedInv
<1>6. \A w \in Vports : w \in alloc => PortKeeps(w)
  <2>1. PortKeeps(v) \/ v \notin alloc
    BY <1>1, <1>4, <1>v DEF PortKeeps
  <2> QED BY <1>1, <1>4, <2>1, Keeps
<1>7. \A y \in Devs : y \in alloc => DevKeeps(y)
  <2>1. PICK z : z = Dropped(dev[e])
    OBVIOUS
  <2>2. z.kind = dev[e].kind /\ z.reg = "unregistering"
    BY <1>0, <2>1, DroppedType
  <2>3. dev' = [dev EXCEPT ![e] = z]
    BY <1>1, <2>1
  <2>4. dev'[e].kind = dev[e].kind /\ \A y \in Devs : y # e => dev'[y] = dev[y]
    BY <1>0, <2>2, <2>3
  <2>5. Registered(e) => wait'[e] = rcu
    BY <1>0, <1>1 DEF Obj
  <2>6. DevKeeps(e)
    BY <1>1, <1>v, <2>4, <2>5 DEF DevKeeps
  <2> QED BY <1>1, <2>4, <2>6, Keeps
<1>8. \A d \in Dps : d \in alloc => DpKeeps(d)
  BY <1>1, Keeps
<1> QED BY ONLY AskedInv, t \in Actors, <1>1, <1>2, <1>3, <1>5, <1>6, <1>7, <1>8, GentleStep

\* A device that nobody holds is freed, when its grace period is over.
LEMMA FreedDevKeeps ==
  ASSUME Inv, NEW e \in Devs, dev[e].reg = "unregistering", dev[e].ref = 0, wait[e] = {},
         alloc' = alloc \ {e}, dev' = [dev EXCEPT ![e] = NoDev], UNCHANGED vport
  PROVE  /\ \A y \in Devs : y \in alloc => DevKeeps(y)
         /\ \A w \in Vports : w \in alloc => PortKeeps(w)
         /\ \A d \in Dps : d \in alloc => DpKeeps(d)
<1>1. RefInv(e) /\ dev \in [Devs -> DevLoose]
  BY RefsByDevice DEF Inv, TypeInv
<1>2. Held(e) = {}
  BY <1>1, NotHeld
<1>3. DevKeeps(e)
  BY <1>2 DEF DevKeeps, Registered
<1>4. \A y \in Devs : y # e => dev'[y] = dev[y] /\ (y \in alloc => y \in alloc')
  BY <1>1
<1>5. /\ \A w \in Vports : w \in alloc => w \in alloc'
      /\ \A d \in Dps : d \in alloc => d \in alloc'
  BY Constants
<1> QED BY <1>3, <1>4, <1>5, Keeps

LEMMA TunnelTodoGentle ==
  ASSUME Inv, AskedInv, NEW t \in Actors, tunnel_run_todo(t)
  PROVE  Gentle /\ AskedInv'
<1>0. TypeInv /\ cmd[t].pc = "run_todo" /\ cmd[t].pc \in Removing \ {"unhash"} /\ RemoveInv(t)
  BY DEF Inv, TypeInv, CmdsInv, tunnel_run_todo, Removing
<1>v. PICK v \in Vports, e \in Devs : v = cmd[t].vport /\ e = cmd[t].dev /\ dev[e].reg = "unregistering"
  BY <1>0 DEF RemoveInv
<1>1. /\ wait[e] = {} /\ dev[e].ref = 0 /\ alloc' = alloc \ {e} /\ dev' = [dev EXCEPT ![e] = NoDev]
      /\ call_rcu(v) /\ UNCHANGED <<vport, rcu, rd>>
      /\ cmd' = [cmd EXCEPT ![t].pc = AfterDestroy(cmd[t].what), ![t].dev = NULL]
  BY <1>v DEF tunnel_run_todo, tables, readers
<1>2. CmdMoves(t)
  BY <1>0, <1>1, DestroyMoves
<1>3. \A x \in Obj : MemKeeps(x)
  BY <1>0, <1>1, CallRcuKeeps DEF Obj
<1>4. \A w \in Vports : vport'[w].type \in Asked
  BY <1>1 DEF AskedInv
<1> QED BY <1>1, <1>2, <1>3, <1>4, <1>v, FreedDevKeeps, GentleStep

\* unregister_netdevice() of an internal device, which waits for a grace period ...
LEMMA InternalDestroyGentle ==
  ASSUME Inv, AskedInv, NEW t \in Actors, internal_dev_destroy(t)
  PROVE  Gentle /\ AskedInv'
<1>0. /\ TypeInv /\ cmd[t].pc = "destroy" /\ dev \in [Devs -> DevLoose] /\ wait \in [Obj -> SUBSET rcu] /\ RemoveInv(t)
      /\ cmd[t].pc \in Removing /\ vport \in [Vports -> VportType]
  BY DEF Inv, TypeInv, CmdsInv, internal_dev_destroy, Removing
<1>v. PICK v \in Vports, e \in Devs : v = cmd[t].vport /\ e = vport[v].dev
  <2>1. cmd[t].vport \in Vports /\ vport[cmd[t].vport].dev # NULL
    BY <1>0 DEF RemoveInv
  <2> QED BY <1>0, <2>1 DEF VportType, OrNull
<1>1. /\ dev' = [dev EXCEPT ![e].promisc = @ - 1, ![e].reg = "unregistering"]
      /\ wait' = [wait EXCEPT ![e] = rcu] /\ Goto(t, "synchronize_net")
      /\ UNCHANGED <<alloc, pend, vport, rcu, rd>>
  BY <1>v DEF internal_dev_destroy, tables, readers
<1>2. CmdMoves(t)
  <2>1. "synchronize_net" \in Holding \cup Lockless /\ "synchronize_net" \notin Unseen
    BY DEF Holding, Removing, Unseen
  <2> QED BY <1>0, <1>1, <2>1, MovedPc DEF Goto
<1>3. \A x \in Obj : MemKeeps(x)
  BY <1>0, <1>1 DEF MemKeeps
<1>4. \A w \in Vports : vport'[w].type \in Asked
  BY <1>1 DEF AskedInv
<1>5. \A y \in Devs : y \in alloc => DevKeeps(y)
  <2>1. PICK z : z = [dev[e] EXCEPT !.promisc = @ - 1, !.reg = "unregistering"]
    OBVIOUS
  <2>2. z.kind = dev[e].kind
    <3>1. dev[e] \in DevLoose
      BY <1>0
    <3> QED BY ONLY <2>1, <3>1, DevFields
  <2>3. dev' = [dev EXCEPT ![e] = z]
    BY <1>1, <2>1
  <2>4. dev'[e].kind = dev[e].kind /\ wait'[e] = rcu /\ \A y \in Devs : y # e => dev'[y] = dev[y]
    BY <1>0, <1>1, <2>2, <2>3 DEF Obj
  <2>5. DevKeeps(e) \/ e \notin alloc
    BY <1>1, <2>4 DEF DevKeeps
  <2> QED BY <1>1, <2>4, <2>5, Keeps
<1> QED BY <1>1, <1>2, <1>3, <1>4, <1>5, Keeps, GentleStep

\* ... and frees it with its port.
LEMMA DestructorGentle ==
  ASSUME Inv, AskedInv, NEW t \in Actors, internal_dev_destructor(t)
  PROVE  Gentle /\ AskedInv'
<1>0. /\ TypeInv /\ cmd[t].pc = "synchronize_net" /\ dev \in [Devs -> DevLoose] /\ RemoveInv(t)
      /\ cmd[t].pc \in Removing \ {"unhash"} /\ vport \in [Vports -> VportType] /\ VportsInv
  BY DEF Inv, TypeInv, CmdsInv, internal_dev_destructor, Removing
<1>v. PICK v \in Vports, e \in Devs : v = cmd[t].vport /\ e = vport[v].dev /\ vport[v].type = "internal" /\ ~Registered(e)
  <2>1. cmd[t].vport \in Vports /\ vport[cmd[t].vport].dev # NULL
    BY <1>0 DEF RemoveInv
  <2> QED BY <1>0, <2>1 DEF VportType, OrNull, RemoveInv
<1>1. /\ wait[e] = {} /\ alloc' = alloc \ {v, e} /\ vport' = [vport EXCEPT ![v] = NoVport] /\ dev' = [dev EXCEPT ![e] = NoDev]
      /\ UNCHANGED <<pend, wait, rcu, rd>> /\ cmd' = [cmd EXCEPT ![t].pc = AfterDestroy(cmd[t].what)]
  BY <1>v DEF internal_dev_destructor, Goto, readers
<1>2. CmdMoves(t)
  BY <1>0, <1>1, DestroyMoves
<1>3. vport'[v].type = "internal" /\ \A w \in Vports : w # v => vport'[w] = vport[w]
  BY <1>0, <1>1, VportFields
<1>4. \A w \in Vports : vport'[w].type \in Asked
  BY <1>3 DEF AskedInv, Asked
<1>5. \A w \in Vports : w \in alloc => PortKeeps(w)
  <2>1. PortKeeps(v)
    BY <1>1, <1>v DEF PortKeeps
  <2>2. \A w \in Vports : w # v /\ w \in alloc => w \in alloc'
    BY <1>1, Constants
  <2> QED BY <1>3, <2>1, <2>2, Keeps
<1>6. \A y \in Devs : y \in alloc => DevKeeps(y)
  <2>1. dev[e].kind = "internal"
    BY <1>0, <1>v, Constants DEF VportsInv, VportInv
  <2>2. DevKeeps(e)
    BY <1>1, <1>v, <2>1 DEF DevKeeps
  <2>3. \A y \in Devs : y # e => dev'[y] = dev[y] /\ (y \in alloc => y \in alloc')
    BY <1>0, <1>1, Constants
  <2> QED BY <2>2, <2>3, Keeps
<1>7. \A d \in Dps : d \in alloc => DpKeeps(d)
  <2>1. \A d \in Dps : d \in alloc => d \in alloc'
    BY <1>1, Constants
  <2> QED BY <2>1, Keeps
<1>8. \A x \in Obj : MemKeeps(x)
  BY <1>1, Keeps
<1> QED BY ONLY AskedInv, t \in Actors, <1>1, <1>2, <1>4, <1>5, <1>6, <1>7, <1>8, GentleStep

LEMMA DpDestroyGentle ==
  ASSUME Inv, AskedInv, NEW t \in Actors, __dp_destroy(t)
  PROVE  Gentle /\ AskedInv'
<1>0. TypeInv /\ cmd[t] \in CmdType /\ CmdInv(t) /\ cmd[t].pc = "dp_ports" /\ UNCHANGED <<alloc, vport, dev, rcu, rd>>
  BY DEF Inv, TypeInv, CmdsInv, __dp_destroy, readers
<1>d. PICK d \in Dps : d = cmd[t].dp
  BY <1>0 DEF CmdInv
<1>1. ASSUME NEW v, cmd' = [cmd EXCEPT ![t] = [cmd[t] EXCEPT !.vport = v, !.pc = "unhash"]], UNCHANGED <<pend, wait>>
      PROVE  Gentle /\ AskedInv'
  <2>1. PICK c : c = [cmd[t] EXCEPT !.vport = v, !.pc = "unhash"]
    OBVIOUS
  <2>2. c.pc \notin Unseen /\ c.type = cmd[t].type
    BY <1>0, <2>1, CmdFields DEF Unseen
  <2>3. CmdMoves(t)
    BY <1>0, <1>1, <2>1, <2>2, MovedAs
  <2> QED BY <1>0, <1>1, <2>3, StillCmd
<1>2. ASSUME NEW v, cmd' = [cmd EXCEPT ![t].vport = v, ![t].pc = "unhash"], UNCHANGED <<pend, wait>>
      PROVE  Gentle /\ AskedInv'
  <2>1. cmd' = [cmd EXCEPT ![t] = [cmd[t] EXCEPT !.vport = v, !.pc = "unhash"]]
    BY <1>2
  <2> QED BY <1>1, <1>2, <2>1
<1>3. ASSUME call_rcu(d), Finish(t) \/ Goto(t, "exit_dps")
      PROVE  Gentle /\ AskedInv'
  <2>1. CmdMoves(t)
    <3>1. CASE Finish(t)
      BY <1>0, <3>1, MovedIdle DEF Finish
    <3>2. CASE Goto(t, "exit_dps")
      <4>1. "exit_dps" \in Holding \cup Lockless /\ "exit_dps" \notin Unseen
        BY DEF Holding, Unseen
      <4> QED BY <1>0, <3>2, <4>1, MovedPc DEF Goto
    <3> QED BY <1>3, <3>1, <3>2
  <2>2. \A x \in Obj : MemKeeps(x)
    BY <1>0, <1>3, CallRcuKeeps DEF Obj
  <2>3. \A w \in Vports : vport'[w].type \in Asked
    BY <1>0 DEF AskedInv
  <2> QED BY <1>0, <2>1, <2>2, <2>3, Keeps, GentleStep
<1> QED BY <1>d, <1>1, <1>2, <1>3 DEF __dp_destroy, ovs_dp_detach_port

\* What happens to devices is no command's step.
LEMMA EventGentle ==
  ASSUME AskedInv, UNCHANGED cmd, UNCHANGED <<vport, rcu, rd>>,
         \A x \in Obj : MemKeeps(x),
         \A w \in Vports : w \in alloc => PortKeeps(w),
         \A d \in Dps : d \in alloc => DpKeeps(d),
         \A e \in Devs : e \in alloc => DevKeeps(e)
  PROVE  Gentle /\ AskedInv'
<1>1. Worker \in Actors /\ \A w \in Vports : vport'[w].type \in Asked
  BY Constants DEF AskedInv
<1> QED BY <1>1, GentleStep

\* ovs_netdev_detach_dev() of a device whose own change is x.
LEMMA DetachKeeps ==
  ASSUME dev \in [Devs -> DevLoose], NEW e \in Devs, NEW x \in DevLoose, x.kind = dev[e].kind, dp_device_event(e, x)
  PROVE  dev'[e].kind = dev[e].kind /\ dev'[e].reg = x.reg /\ \A y \in Devs : y # e => dev'[y] = dev[y]
<1>1. PICK z : z = ovs_netdev_detach_dev(x)
  OBVIOUS
<1>2. z.kind = x.kind /\ z.reg = x.reg
  BY <1>1, DetachType
<1>3. dev' = [dev EXCEPT ![e] = z]
  BY <1>1 DEF dp_device_event
<1> QED BY <1>2, <1>3

LEMMA DeviceGentle ==
  ASSUME Inv, AskedInv, NEW e \in Devs, DeviceEvent(e)
  PROVE  Gentle /\ AskedInv'
<1>0. /\ TypeInv /\ dev \in [Devs -> DevLoose] /\ dev[e] \in DevLoose /\ wait \in [Obj -> SUBSET rcu]
      /\ UNCHANGED <<pend, rcu, vport, cmd, rd>>
  BY DEF Inv, TypeInv, DeviceEvent, register_netdevice, unregister_netdevice, netdev_wait_allrefs, netdev_run_todo, dev_change_name,
     dev_change_net_namespace, UNCHANGED_by_devices, tables
<1>1. ASSUME UNCHANGED <<alloc, wait>>, dev'[e].kind = dev[e].kind, dev'[e].reg = dev[e].reg, \A y \in Devs : y # e => dev'[y] = dev[y]
      PROVE  Gentle /\ AskedInv'
  BY <1>0, <1>1, Keeps, EventGentle
<1>2. ASSUME NEW n, NEW net, register_netdevice(e, n, net)
      PROVE  Gentle /\ AskedInv'
  <2>1. e \notin alloc /\ alloc' = alloc \cup {e} /\ UNCHANGED wait /\ \A y \in Devs : y # e => dev'[y] = dev[y]
    BY <1>0, <1>2 DEF register_netdevice
  <2> QED BY <1>0, <2>1, Keeps, EventGentle
<1>3. CASE unregister_netdevice(e)
  <2>1. PICK x : x = [dev[e] EXCEPT !.reg = "unregistering"]
    OBVIOUS
  <2>2. x \in DevLoose /\ x.kind = dev[e].kind
    BY <1>0, <2>1 DEF DevLoose
  <2>3. UNCHANGED alloc /\ wait' = [wait EXCEPT ![e] = rcu] /\ dp_device_event(e, x)
    BY <1>3, <2>1 DEF unregister_netdevice
  <2>4. dev'[e].kind = dev[e].kind /\ \A y \in Devs : y # e => dev'[y] = dev[y]
    BY <1>0, <2>2, <2>3, DetachKeeps
  <2>5. \A y \in Obj : MemKeeps(y)
    BY <1>0, <2>3 DEF MemKeeps
  <2>6. e \in alloc => DevKeeps(e)
    BY <1>0, <2>3, <2>4 DEF DevKeeps, Obj
  <2> QED BY <1>0, <2>3, <2>4, <2>5, <2>6, Keeps, EventGentle
<1>4. CASE netdev_wait_allrefs(e)
  <2>1. UNCHANGED <<alloc, wait>> /\ dp_device_event(e, dev[e])
    BY <1>4 DEF netdev_wait_allrefs
  <2> QED BY <1>0, <1>1, <2>1, DetachKeeps
<1>5. CASE netdev_run_todo(e)
  <2>1. /\ dev[e].reg = "unregistering" /\ dev[e].ref = 0 /\ wait[e] = {} /\ alloc' = alloc \ {e} /\ dev' = [dev EXCEPT ![e] = NoDev]
        /\ UNCHANGED wait
    BY <1>5 DEF netdev_run_todo, Leaving
  <2> QED BY <1>0, <2>1, FreedDevKeeps, Keeps, EventGentle
<1>6. ASSUME NEW n \in Names, dev_change_name(e, n)
      PROVE  Gentle /\ AskedInv'
  <2>1. PICK x : x = [dev[e] EXCEPT !.name = n]
    OBVIOUS
  <2>2. x.kind = dev[e].kind /\ x.reg = dev[e].reg
    BY <1>0, <2>1 DEF DevLoose
  <2>3. UNCHANGED <<alloc, wait>> /\ dev' = [dev EXCEPT ![e] = x]
    BY <1>6, <2>1 DEF dev_change_name
  <2> QED BY <1>0, <1>1, <2>2, <2>3
<1>7. ASSUME NEW net \in Nets, dev_change_net_namespace(e, net)
      PROVE  Gentle /\ AskedInv'
  <2>1. PICK x : x = [dev[e] EXCEPT !.net = net]
    OBVIOUS
  <2>2. x \in DevLoose /\ x.kind = dev[e].kind /\ x.reg = dev[e].reg
    BY <1>0, <2>1 DEF DevLoose, OrNull
  <2>3. UNCHANGED <<alloc, wait>> /\ (dev' = [dev EXCEPT ![e] = x] \/ dp_device_event(e, x))
    BY <1>7, <2>1 DEF dev_change_net_namespace
  <2> QED BY <1>0, <1>1, <2>2, <2>3, DetachKeeps
<1> QED BY <1>2, <1>3, <1>4, <1>5, <1>6, <1>7 DEF DeviceEvent

LEMMA CallbackGentle ==
  ASSUME Inv, AskedInv, NEW o \in Obj, rcu_callback(o)
  PROVE  Gentle /\ AskedInv'
<1>0. /\ TypeInv /\ dev \in [Devs -> DevLoose] /\ vport \in [Vports -> VportType] /\ o \in pend /\ wait[o] = {} /\ o \notin Devs
      /\ pend' = pend \ {o} /\ alloc' = alloc \ {o} /\ UNCHANGED <<wait, rcu, rd, cmd>>
  BY DEF Inv, TypeInv, rcu_callback, GraceEnded, readers
<1>1. Worker \in Actors /\ \A x \in Obj : MemKeeps(x)
  BY <1>0, Constants, Keeps
<1>2. CASE o \in Vports
  <2>1. vport' = [vport EXCEPT ![o] = NoVport] /\ dev' = DevPut(o)
    BY <1>2 DEF rcu_callback
  <2>2. vport'[o].type = "internal" /\ \A w \in Vports : w # o => vport'[w] = vport[w]
    BY <1>0, <1>2, <2>1, VportFields
  <2>3. \A w \in Vports : vport'[w].type \in Asked
    BY <2>2 DEF AskedInv, Asked
  <2>4. \A w \in Vports : w \in alloc => PortKeeps(w)
    <3>1. PortKeeps(o)
      BY <1>0 DEF PortKeeps
    <3> QED BY <1>0, <2>2, <3>1, Keeps
  <2>5. \A y \in Devs : dev'[y].kind = dev[y].kind /\ dev'[y].reg = dev[y].reg
    <3>1. CASE vport[o].dev = NULL
      BY <2>1, <3>1 DEF DevPut
    <3>2. CASE vport[o].dev # NULL
      <4>1. PICK e \in Devs : e = vport[o].dev
        BY <1>0, <1>2, <3>2 DEF VportType, OrNull
      <4>2. PICK z : z = [dev[e] EXCEPT !.ref = @ - 1]
        OBVIOUS
      <4>3. z.kind = dev[e].kind /\ z.reg = dev[e].reg
        BY <1>0, <4>2, DevFields
      <4>4. dev' = [dev EXCEPT ![e] = z]
        BY <2>1, <3>2, <4>1, <4>2 DEF DevPut
      <4> QED BY <1>0, <4>3, <4>4
    <3> QED BY <3>1, <3>2
  <2>6. /\ \A y \in Devs : y \in alloc => y \in alloc'
        /\ \A d \in Dps : d \in alloc => d \in alloc'
    BY <1>0, <1>2, Constants
  <2> QED BY <1>0, <1>1, <2>3, <2>4, <2>5, <2>6, Keeps, GentleStep
<1>3. CASE o \notin Vports
  <2>1. o \in Dps /\ UNCHANGED <<dev, vport>>
    BY <1>0, <1>3 DEF rcu_callback, Obj
  <2>2. \A w \in Vports : vport'[w].type \in Asked
    BY <2>1 DEF AskedInv
  <2>3. \A d \in Dps : d \in alloc => DpKeeps(d)
    <3>1. DpKeeps(o)
      BY <1>0 DEF DpKeeps
    <3> QED BY <1>0, <3>1, Keeps
  <2>4. /\ \A y \in Devs : y \in alloc => y \in alloc'
        /\ \A w \in Vports : w \in alloc => w \in alloc'
    BY <1>0, <1>3
  <2> QED BY <1>0, <1>1, <2>1, <2>2, <2>3, <2>4, Keeps, GentleStep
<1> QED BY <1>2, <1>3

\* Every step but the readers' own.
Others ==
  \/ \E t \in Threads : Request(t)
  \/ \E t \in Actors : Contend(t) \/ Proceed(t)
  \/ Work
  \/ \E e \in Devs : DeviceEvent(e)
  \/ \E o \in Obj : rcu_callback(o)

LEMMA OthersGentle ==
  ASSUME Inv, AskedInv, Others
  PROVE  Gentle /\ AskedInv'
<1>1. ASSUME NEW t \in Threads, Request(t)
      PROVE  Gentle /\ AskedInv'
  BY <1>1, NewDpGentle, RequestsStill DEF Request
<1>2. ASSUME NEW t \in Actors, Contend(t)
      PROVE  Gentle /\ AskedInv'
  BY <1>2, RestartStill, CreateGentle, LinkGentle, NetdevDestroyGentle, TunnelDestroyGentle, InternalDestroyGentle DEF Contend
<1>3. ASSUME NEW t \in Actors, Proceed(t)
      PROVE  Gentle /\ AskedInv'
  BY <1>3, AddGentle, CommandsStill, ListsStill, GetGentle, TunnelTodoGentle, DestructorGentle, DpDestroyGentle DEF Proceed
<1> QED BY <1>1, <1>2, <1>3, WorkStill, DeviceGentle, CallbackGentle DEF Others

\* What a reader holds, it still holds after such a step.
LEMMA WaitsKept ==
  ASSUME Gentle, NEW r \in rcu, NEW o \in Obj
  PROVE  /\ WaitsFor(o, r) => WaitsFor(o, r)'
         /\ r \in wait[o] => r \in wait'[o]
<1>1. MemKeeps(o) /\ rcu' = rcu
  BY DEF Gentle
<1> QED BY <1>1 DEF MemKeeps, WaitsFor

LEMMA DpStays ==
  ASSUME Gentle, NEW r \in rcu, NEW d, DpHeld(r, d)
  PROVE  DpHeld(r, d)'
<1>1. d \in Dps /\ d \in alloc /\ WaitsFor(d, r) /\ ~Private(d) /\ d \in Obj
  BY Constants DEF DpHeld
<1>2. DpKeeps(d) /\ WaitsFor(d, r)'
  BY <1>1, WaitsKept DEF Gentle
<1>3. d \in alloc'
  BY <1>1, <1>2 DEF DpKeeps, WaitsFor
<1>4. ~Private(d)'
  BY <1>1 DEF Gentle, Seen
<1> QED BY <1>1, <1>2, <1>3, <1>4 DEF DpHeld

LEMMA DevStays ==
  ASSUME Gentle, NEW r \in rcu, NEW e \in Devs, e \in alloc, dev[e].kind = "internal", Registered(e) \/ r \in wait[e]
  PROVE  e \in alloc' /\ dev'[e].kind = "internal" /\ (Registered(e)' \/ r \in wait'[e])
<1>1. DevKeeps(e) /\ (r \in wait[e] => r \in wait'[e])
  BY WaitsKept, Constants DEF Gentle
<1>2. e \in alloc'
  BY <1>1 DEF DevKeeps
<1> QED BY <1>1, <1>2 DEF DevKeeps

LEMMA PortStays ==
  ASSUME Gentle, NEW r \in rcu, NEW v, PortHeld(r, v)
  PROVE  PortHeld(r, v)' /\ vport'[v].type = vport[v].type /\ (vport[v].type # "tunnel" => vport'[v].dev = vport[v].dev)
<1>1. /\ v \in Vports /\ v \in alloc /\ WaitsFor(v, r) /\ ~Fresh(v) /\ DpHeld(r, vport[v].dp) /\ v \in Obj
      /\ vport[v].type = "internal" =>
           /\ vport[v].dev \in Devs /\ vport[v].dev \in alloc /\ dev[vport[v].dev].kind = "internal"
           /\ Registered(vport[v].dev) \/ r \in wait[vport[v].dev]
  BY Constants DEF PortHeld
<1>2. PortKeeps(v) /\ WaitsFor(v, r)' /\ ~Fresh(v)'
  BY <1>1, WaitsKept DEF Gentle, Seen
<1>3. v \in alloc'
  BY <1>1, <1>2 DEF PortKeeps, WaitsFor
<1>4. vport'[v].dp = vport[v].dp /\ vport'[v].type = vport[v].type /\ (vport[v].type # "tunnel" => vport'[v].dev = vport[v].dev)
  BY <1>1, <1>2, <1>3 DEF PortKeeps
<1>5. DpHeld(r, vport[v].dp)'
  <2>1. PICK d : d = vport[v].dp
    OBVIOUS
  <2>2. DpHeld(r, d)'
    BY <1>1, <2>1, DpStays
  <2> QED BY <1>4, <2>1, <2>2 DEF DpHeld, WaitsFor, Private
<1>6. vport'[v].type = "internal" =>
        /\ vport'[v].dev \in Devs /\ vport'[v].dev \in alloc' /\ dev'[vport'[v].dev].kind = "internal"
        /\ Registered(vport[v].dev)' \/ r \in wait'[vport'[v].dev]
  <2> SUFFICES ASSUME vport'[v].type = "internal"
               PROVE  /\ vport'[v].dev \in Devs /\ vport'[v].dev \in alloc' /\ dev'[vport'[v].dev].kind = "internal"
                      /\ Registered(vport[v].dev)' \/ r \in wait'[vport'[v].dev]
    OBVIOUS
  <2>1. PICK e \in Devs : e = vport[v].dev
    BY <1>1, <1>4
  <2>2. e \in alloc' /\ dev'[e].kind = "internal" /\ (Registered(e)' \/ r \in wait'[e])
    BY <1>1, <1>4, <2>1, DevStays
  <2>3. vport'[v].dev = e
    BY <1>4, <2>1
  <2> QED BY <2>2, <2>3 DEF Registered
<1> QED BY <1>1, <1>2, <1>3, <1>4, <1>5, <1>6 DEF PortHeld

LEMMA DevHeldStays ==
  ASSUME Inv, Gentle, NEW r \in rcu, NEW e, DevHeld(r, e)
  PROVE  DevHeld(r, e)'
<1>0. e \in Devs /\ e \in alloc
  BY DEF DevHeld
<1>1. CASE dev[e].kind = "internal" /\ (Registered(e) \/ r \in wait[e])
  BY <1>0, <1>1, DevStays DEF DevHeld
<1>2. CASE \E v \in Vports : vport[v].type = "netdev" /\ vport[v].dev = e /\ v \in alloc /\ WaitsFor(v, r) /\ ~Fresh(v)
  <2>1. PICK v \in Vports : vport[v].type = "netdev" /\ vport[v].dev = e /\ v \in alloc /\ WaitsFor(v, r) /\ ~Fresh(v)
    BY <1>2
  <2>2. PortKeeps(v) /\ WaitsFor(v, r)' /\ ~Fresh(v)' /\ DevKeeps(e)
    BY <1>0, <2>1, WaitsKept, Constants DEF Gentle, Seen
  <2>3. v \in alloc'
    BY <2>1, <2>2 DEF PortKeeps, WaitsFor
  <2>4. vport'[v].type = "netdev" /\ vport'[v].dev = e
    BY <2>1, <2>2, <2>3 DEF PortKeeps
  <2>5. v \in Held(e) /\ dev[e].kind # "internal"
    <3>1. VportInv(v) /\ e # NULL
      BY <1>0, Constants DEF Inv, VportsInv
    <3> QED BY <2>1, <3>1 DEF VportInv, Held
  <2>6. e \in alloc'
    BY <2>2, <2>5 DEF DevKeeps
  <2> QED BY <1>0, <2>2, <2>3, <2>4, <2>6 DEF DevHeld
<1> QED BY <1>1, <1>2 DEF DevHeld

LEMMA ReadersKept ==
  ASSUME Inv, Gentle, ReadersInv
  PROVE  ReadersInv' /\ (DevsRead => DevsRead')
<1>0. rd' = rd /\ rcu' = rcu /\ rcu \subseteq Readers
  BY DEF Gentle, Inv, TypeInv
<1>1. ASSUME NEW r \in Readers
      PROVE  ReadInv(r)'
  <2>1. ReadInv(r)
    BY DEF ReadersInv
  <2>2. CASE r \notin rcu
    <3>1. rd[r] = Outside /\ rd'[r] = Outside
      BY <1>0, <2>1, <2>2 DEF ReadInv
    <3> QED BY <1>0, <2>2, <3>1 DEF ReadInv, Outside
  <2>3. CASE r \in rcu
    <3>1. PICK v, d : v = rd[r].vport /\ d = rd[r].dp
      OBVIOUS
    <3>2. (v # NULL => PortHeld(r, v)) /\ (d # NULL => DpHeld(r, d))
      BY <2>1, <3>1 DEF ReadInv
    <3>3. (v # NULL => PortHeld(r, v)') /\ (d # NULL => DpHeld(r, d)')
      BY <2>3, <3>2, PortStays, DpStays
    <3>4. rd'[r].vport = v /\ rd'[r].dp = d
      BY <1>0, <3>1
    <3>5. PortHeld(r, rd[r].vport)' <=> PortHeld(r, v)'
      BY <3>4 DEF PortHeld, DpHeld, WaitsFor, Fresh, Private, Registered
    <3>6. DpHeld(r, rd[r].dp)' <=> DpHeld(r, d)'
      BY <3>4 DEF DpHeld, WaitsFor, Private
    <3> QED BY <1>0, <2>3, <3>3, <3>4, <3>5, <3>6 DEF ReadInv
  <2> QED BY <2>2, <2>3
<1>2. DevsRead => DevsRead'
  <2> SUFFICES ASSUME DevsRead, NEW r \in Readers
               PROVE  (rd[r].dev # NULL => DevHeld(r, rd[r].dev))'
    BY DEF DevsRead
  <2>1. PICK e : e = rd[r].dev /\ e = rd'[r].dev
    BY <1>0
  <2>2. CASE e = NULL
    BY <2>1, <2>2
  <2>3. CASE e # NULL
    <3>1. r \in rcu
      <4>1. r \notin rcu => rd[r] = Outside
        BY DEF ReadersInv, ReadInv
      <4>2. Outside.dev = NULL
        BY DEF Outside
      <4>3. rd[r] # Outside
        BY ONLY <2>1, <2>3, <4>2
      <4> QED BY <4>1, <4>3
    <3>2. DevHeld(r, e)'
      BY <2>1, <2>3, <3>1, DevHeldStays DEF DevsRead
    <3> QED BY <2>1, <3>2 DEF DevHeld, WaitsFor, Fresh, Registered
  <2> QED BY <2>2, <2>3
<1> QED BY <1>0, <1>1, <1>2 DEF ReadersInv

\* What a reader finds of a port that is published.
LEMMA PortSeen ==
  ASSUME Inv, NEW r, NEW v \in Vports, v \in alloc \ pend, vport[v].dev # NULL, In(v) \/ InHand(v),
         \A t \in Actors : cmd[t].pc = "link" => cmd[t].vport # v,
         vport[v].type = "internal" => Registered(vport[v].dev)
  PROVE  PortHeld(r, v)
<1>0. /\ LockInv /\ CmdsInv /\ VportInv(v) /\ DpsInv /\ vport[v] \in VportType /\ dp \in [Dps -> DpType]
  BY DEF Inv, TypeInv, VportsInv
<1>1. PICK e \in Devs : e = vport[v].dev
  BY <1>0 DEF VportType, OrNull
<1>2. e \in alloc /\ (vport[v].type = "internal" => dev[e].kind = "internal")
  BY <1>0, <1>1 DEF VportInv
<1>3. ~Fresh(v)
  <2> SUFFICES ASSUME NEW t \in Actors, cmd[t].pc \in Unseen, cmd[t].vport = v
               PROVE  FALSE
    BY DEF Fresh
  <2>1. AddInv(t) /\ cmd[t].pc \in Adding /\ cmd[t].pc \in {"create", "get_dev", "link"}
    BY <1>0 DEF CmdsInv, Unseen, Adding
  <2> QED BY <2>1 DEF AddInv
<1>4. PICK d \in Dps : d = vport[v].dp
  BY <1>0 DEF VportInv
<1>5. d \in alloc \ pend /\ ~Private(d)
  <2>1. CASE In(v)
    <3>1. PICK x \in Dps : v \in dp[x].ports
      BY <2>1 DEF In
    <3>2. DpInv(x) /\ x = d
      BY <1>0, <1>4, <3>1 DEF DpsInv, DpInv
    <3>3. dp[d].listed /\ d \in alloc \ pend
      BY <3>1, <3>2 DEF DpInv
    <3>4. ASSUME NEW t \in Actors, cmd[t].pc = "create", cmd[t].what = "dp_new", cmd[t].dp = d
          PROVE  FALSE
      <4>1. AddInv(t) /\ cmd[t].pc \in Adding
        BY <1>0, <3>4 DEF CmdsInv, Adding
      <4> QED BY <3>3, <3>4, <4>1 DEF AddInv
    <3> QED BY <3>3, <3>4 DEF Private
  <2>2. CASE InHand(v)
    <3>1. PICK t \in Actors : Adds(t, v) \/ Removes(t, v)
      BY <2>2 DEF InHand
    <3>2. d \in alloc \ pend /\ cmd[t].pc \in Holding
      BY <1>0, <1>4, <3>1, Steps DEF CmdsInv, AddInv, RemoveInv, Adds, Removes
    <3>3. ASSUME NEW u \in Actors, cmd[u].pc = "create"
          PROVE  FALSE
      <4>1. cmd[u].pc \in Holding /\ cmd[u].pc \in Adding /\ cmd[u].pc \in Unseen
        BY <3>3 DEF Holding, Adding, Unseen
      <4>2. u = t
        BY <1>0, <3>2, <4>1, Holder
      <4>3. cmd[t].vport = v
        BY <3>1 DEF Adds, Removes
      <4> QED BY <1>3, <4>1, <4>2, <4>3 DEF Fresh
    <3> QED BY <3>2, <3>3 DEF Private
  <2> QED BY <2>1, <2>2
<1>6. WaitsFor(v, r) /\ WaitsFor(d, r)
  BY <1>5 DEF WaitsFor
<1> QED BY <1>1, <1>2, <1>3, <1>4, <1>5, <1>6 DEF PortHeld, DpHeld

\* The port of a device that sends to it,
LEMMA ReceivesSeen ==
  ASSUME Inv, NEW r, NEW e \in Devs,
         (dev[e].kind # "internal" /\ dev[e].attached) \/ (dev[e].kind = "internal" /\ Registered(e))
  PROVE  dev[e].vport \in Vports /\ PortHeld(r, dev[e].vport)
<1>1. DevInv(e) /\ CmdsInv
  BY DEF Inv, DevsInv
<1>2. PICK v \in Vports : v = dev[e].vport /\ v \in alloc \ pend /\ vport[v].dev = e
  BY <1>1 DEF DevInv
<1>3. VportInv(v) /\ e # NULL
  BY Constants DEF Inv, VportsInv
<1>4. In(v) \/ InHand(v)
  BY <1>1, <1>2, <1>3 DEF VportInv, DevInv
<1>5. vport[v].type = "internal" => Registered(vport[v].dev)
  BY <1>2, <1>3 DEF VportInv
<1>6. ASSUME NEW t \in Actors, cmd[t].pc = "link", cmd[t].vport = v
      PROVE  FALSE
  <2>1. AddInv(t) /\ cmd[t].pc \in Adding
    BY <1>1, <1>6 DEF CmdsInv, Adding
  <2>2. vport[v].type # "internal" /\ ~dev[e].attached
    BY <1>2, <1>6, <2>1 DEF AddInv
  <2> QED BY <1>2, <1>3, <2>2 DEF VportInv
<1> QED BY <1>2, <1>3, <1>4, <1>5, <1>6, PortSeen

\* a port in the table of names,
LEMMA HashedSeen ==
  ASSUME Inv, NEW r, NEW v \in Vports, dev_table[v] # NULL
  PROVE  PortHeld(r, v)
<1>0. VportInv(v) /\ CmdsInv /\ DevsInv /\ vport[v] \in VportType
  BY DEF Inv, VportsInv, TypeInv
<1>1. v \in alloc \ pend /\ (In(v) \/ InHand(v))
  BY <1>0 DEF VportInv
<1>2. vport[v].dev # NULL
  <2>1. CASE In(v)
    BY <1>0, <2>1 DEF VportInv
  <2>2. CASE InHand(v)
    BY <1>0, <2>2 DEF InHand, Adds, Removes, CmdsInv, AddInv, RemoveInv
  <2> QED BY <1>1, <2>1, <2>2
<1>3. ASSUME NEW t \in Actors, cmd[t].pc = "link", cmd[t].vport = v
      PROVE  FALSE
  <2>1. AddInv(t) /\ cmd[t].pc \in Adding
    BY <1>0, <1>3 DEF CmdsInv, Adding
  <2> QED BY <1>3, <2>1 DEF AddInv
<1>4. vport[v].type = "internal" => Registered(vport[v].dev)
  <2> SUFFICES ASSUME vport[v].type = "internal"
               PROVE  Registered(vport[v].dev)
    OBVIOUS
  <2>1. PICK e \in Devs : e = vport[v].dev
    BY <1>0, <1>2 DEF VportType, OrNull
  <2>2. dev[e].kind = "internal" /\ dev[e].vport = v /\ DevInv(e)
    BY <1>0, <2>1, Constants DEF VportInv, DevsInv
  <2>3. ASSUME NEW t \in Actors, cmd[t].pc = "synchronize_net", cmd[t].vport = v
        PROVE  FALSE
    <3>1. RemoveInv(t) /\ cmd[t].pc \in Removing
      BY <1>0, <2>3 DEF CmdsInv, Removing
    <3> QED BY <2>3, <3>1 DEF RemoveInv
  <2> QED BY <2>1, <2>2, <2>3 DEF DevInv
<1> QED BY <1>1, <1>2, <1>3, <1>4, PortSeen

\* and a port of a datapath.
LEMMA ListedSeen ==
  ASSUME Inv, NEW r, NEW d \in Dps, NEW v \in dp[d].ports
  PROVE  v \in Vports /\ PortHeld(r, v)
<1>1. v \in Vports /\ In(v)
  BY DEF Inv, TypeInv, DpType, In
<1>2. dev_table[v] # NULL
  BY <1>1 DEF Inv, VportsInv, VportInv
<1> QED BY <1>1, <1>2, HashedSeen

-----------------------------------------------------------------------------
(* The steps of readers. *)

LEMMA ReadStep ==
  ASSUME ReadersInv, NEW r \in Readers, NEW y \in RdType, rd' = [rd EXCEPT ![r] = y], UNCHANGED_by_readers,
         r \in rcu', \A s \in Readers : s # r => (s \in rcu' <=> s \in rcu),
         y.vport # NULL => PortHeld(r, y.vport), y.dp # NULL => DpHeld(r, y.dp)
  PROVE  ReadersInv' /\ (DevsRead /\ (y.dev # NULL => DevHeld(r, y.dev)) => DevsRead')
<1>1. rd' \in [Readers -> RdType] /\ rd'[r] = y /\ \A s \in Readers : s # r => rd'[s] = rd[s]
  BY DEF ReadersInv
<1>2. UNCHANGED <<alloc, pend, wait, vport, dev, cmd>>
  BY DEF UNCHANGED_by_readers, memory, tables
<1>3. /\ \A s, x : PortHeld(s, x)' <=> PortHeld(s, x)
      /\ \A s, x : DpHeld(s, x)' <=> DpHeld(s, x)
      /\ \A s, x : DevHeld(s, x)' <=> DevHeld(s, x)
  BY <1>2 DEF PortHeld, DpHeld, DevHeld, WaitsFor, Fresh, Private, Registered
<1>4. ASSUME NEW s \in Readers
      PROVE  ReadInv(s)'
  <2>1. PICK v, d : v = rd'[s].vport /\ d = rd'[s].dp
    OBVIOUS
  <2>2. (s \notin rcu' => rd'[s] = Outside) /\ (v # NULL => PortHeld(s, v)) /\ (d # NULL => DpHeld(s, d))
    <3>1. CASE s = r
      BY <1>1, <2>1, <3>1
    <3>2. CASE s # r
      <4>1. ReadInv(s) /\ rd[s] = rd'[s]
        BY <1>1, <3>2 DEF ReadersInv
      <4> QED BY <2>1, <3>2, <4>1 DEF ReadInv
    <3> QED BY <3>1, <3>2
  <2>3. (v # NULL => PortHeld(s, v)') /\ (d # NULL => DpHeld(s, d)')
    BY <1>3, <2>2
  <2>4. PortHeld(s, rd[s].vport)' <=> PortHeld(s, v)'
    BY <2>1 DEF PortHeld, DpHeld, WaitsFor, Fresh, Private, Registered
  <2>5. DpHeld(s, rd[s].dp)' <=> DpHeld(s, d)'
    BY <2>1 DEF DpHeld, WaitsFor, Private
  <2> QED BY <2>1, <2>2, <2>3, <2>4, <2>5 DEF ReadInv
<1>5. DevsRead /\ (y.dev # NULL => DevHeld(r, y.dev)) => DevsRead'
  <2> SUFFICES ASSUME DevsRead, y.dev # NULL => DevHeld(r, y.dev), NEW s \in Readers
               PROVE  (rd[s].dev # NULL => DevHeld(s, rd[s].dev))'
    BY DEF DevsRead
  <2>1. PICK e : e = rd'[s].dev
    OBVIOUS
  <2>2. e # NULL => DevHeld(s, e)
    <3>1. CASE s = r
      BY <1>1, <2>1, <3>1
    <3>2. CASE s # r
      BY <1>1, <2>1, <3>2 DEF DevsRead
    <3> QED BY <3>1, <3>2
  <2>3. e # NULL => DevHeld(s, e)'
    BY <1>3, <2>2
  <2> QED BY <2>1, <2>3 DEF DevHeld, WaitsFor, Fresh, Registered
<1> QED BY <1>1, <1>4, <1>5 DEF ReadersInv

LEMMA EntersSafe ==
  ASSUME Inv, ReadersInv, NEW r \in Readers,
         \/ \E e \in Devs : receive(r, e)
         \/ \E d \in Dps : lookup_dp(r, d)
         \/ \E v \in Vports : lookup_port(r, v)
  PROVE  ReadersInv' /\ (DevsRead => DevsRead')
<1>0. /\ \A x \in OrNull(Vports) : LET y == [Outside EXCEPT !.vport = x]
                                  IN  y \in RdType /\ y.vport = x /\ y.dp = NULL /\ y.dev = NULL
      /\ \A x \in OrNull(Dps) : LET y == [Outside EXCEPT !.dp = x]
                               IN  y \in RdType /\ y.vport = NULL /\ y.dp = x /\ y.dev = NULL
  BY DEF Outside, RdType, OrNull
<1>1. ASSUME NEW v \in Vports, PortHeld(r, v), Enter(r, [Outside EXCEPT !.vport = v]), UNCHANGED_by_readers
      PROVE  ReadersInv' /\ (DevsRead => DevsRead')
  <2>1. PICK y \in RdType : y = [Outside EXCEPT !.vport = v] /\ y.vport = v /\ y.dp = NULL /\ y.dev = NULL
    BY <1>0 DEF OrNull
  <2>2. rd' = [rd EXCEPT ![r] = y] /\ r \in rcu' /\ \A s \in Readers : s # r => (s \in rcu' <=> s \in rcu)
    BY <1>1, <2>1 DEF Enter, rcu_read_lock
  <2> QED BY <1>1, <2>1, <2>2, ReadStep
<1>2. ASSUME NEW d \in Dps, DpHeld(r, d), Enter(r, [Outside EXCEPT !.dp = d]), UNCHANGED_by_readers
      PROVE  ReadersInv' /\ (DevsRead => DevsRead')
  <2>1. PICK y \in RdType : y = [Outside EXCEPT !.dp = d] /\ y.vport = NULL /\ y.dp = d /\ y.dev = NULL
    BY <1>0 DEF OrNull
  <2>2. rd' = [rd EXCEPT ![r] = y] /\ r \in rcu' /\ \A s \in Readers : s # r => (s \in rcu' <=> s \in rcu)
    BY <1>2, <2>1 DEF Enter, rcu_read_lock
  <2> QED BY <1>2, <2>1, <2>2, ReadStep
<1>3. ASSUME NEW e \in Devs, receive(r, e)
      PROVE  ReadersInv' /\ (DevsRead => DevsRead')
  <2>1. dev[e].vport \in Vports /\ PortHeld(r, dev[e].vport)
    BY <1>3, ReceivesSeen DEF receive
  <2> QED BY <1>1, <1>3, <2>1 DEF receive
<1>4. ASSUME NEW d \in Dps, lookup_dp(r, d)
      PROVE  ReadersInv' /\ (DevsRead => DevsRead')
  <2>1. PICK e \in Devs : d = get_dp(e) /\ d # NULL
    BY <1>4 DEF lookup_dp, FoundDps
  <2>2. Registered(e) /\ dev[e].kind = "internal" /\ d = vport[dev[e].vport].dp
    BY <2>1 DEF get_dp
  <2>3. DpHeld(r, d)
    BY <2>2, ReceivesSeen DEF PortHeld
  <2> QED BY <1>2, <1>4, <2>3 DEF lookup_dp
<1>5. ASSUME NEW v \in Vports, lookup_port(r, v)
      PROVE  ReadersInv' /\ (DevsRead => DevsRead')
  BY <1>1, <1>5, HashedSeen DEF lookup_port
<1> QED BY <1>3, <1>4, <1>5

LEMMA ReadsSafe ==
  ASSUME Inv, ReadersInv, NEW r \in Readers, read(r)
  PROVE  ReadersInv' /\ ("tunnel" \notin Types /\ AskedInv /\ DevsRead => DevsRead')
<1>0. /\ UNCHANGED_by_readers /\ rcu' = rcu /\ rd[r] \in RdType /\ rd[r].vport \in OrNull(Vports) /\ rd[r].dp \in OrNull(Dps)
      /\ ReadInv(r) /\ dp \in [Dps -> DpType] /\ vport \in [Vports -> VportType]
  BY DEF read, ReadersInv, RdType, Inv, TypeInv
<1>1. ReadDp(r) \/ ReadDev(r) \/ ReadPort(r)
  BY DEF read
<1>2. r \in rcu'
  <2>1. rd[r].vport # NULL \/ rd[r].dp # NULL
    BY <1>1 DEF ReadDp, ReadDev, ReadPort
  <2>2. Outside.vport = NULL /\ Outside.dp = NULL
    BY DEF Outside
  <2> QED BY <1>0, <2>1, <2>2 DEF ReadInv
<1>3. /\ \A y \in RdType, x \in OrNull(Vports) : LET z == [y EXCEPT !.vport = x]
                                                 IN  z \in RdType /\ z.vport = x /\ z.dp = y.dp /\ z.dev = y.dev
      /\ \A y \in RdType, x \in OrNull(Dps) : LET z == [y EXCEPT !.dp = x]
                                              IN  z \in RdType /\ z.vport = y.vport /\ z.dp = x /\ z.dev = y.dev
      /\ \A y \in RdType, x \in OrNull(Devs) : LET z == [y EXCEPT !.dev = x]
                                               IN  z \in RdType /\ z.vport = y.vport /\ z.dp = y.dp /\ z.dev = x
  BY DEF RdType
<1>4. (rd[r].vport # NULL => PortHeld(r, rd[r].vport)) /\ (rd[r].dp # NULL => DpHeld(r, rd[r].dp))
  BY <1>0 DEF ReadInv
<1>5. DevsRead => (rd[r].dev # NULL => DevHeld(r, rd[r].dev))
  BY DEF DevsRead
<1>6. CASE ReadDp(r)
  <2>1. PICK v \in Vports, d \in Dps : v = rd[r].vport /\ d = vport[v].dp /\ DpHeld(r, d)
    <3>1. rd[r].vport # NULL
      BY <1>6 DEF ReadDp
    <3> QED BY <1>0, <1>4, <3>1 DEF OrNull, PortHeld, DpHeld
  <2>2. PICK y \in RdType : y = [rd[r] EXCEPT !.dp = d] /\ y.vport = v /\ y.dp = d /\ y.dev = rd[r].dev
    <3>1. PICK y : y = [rd[r] EXCEPT !.dp = d]
      OBVIOUS
    <3>2. d \in OrNull(Dps) /\ rd[r] \in RdType
      BY <1>0, <1>3, <2>1 DEF OrNull
    <3>3. y \in RdType /\ y.vport = rd[r].vport /\ y.dp = d /\ y.dev = rd[r].dev
      BY ONLY <1>3, <3>1, <3>2
    <3> QED BY <2>1, <3>1, <3>3
  <2>3. rd' = [rd EXCEPT ![r] = y]
    BY <1>6, <2>1, <2>2 DEF ReadDp
  <2>4. y.vport # NULL => PortHeld(r, y.vport)
    BY <1>4, <2>1, <2>2
  <2>5. y.dp # NULL => DpHeld(r, y.dp)
    BY <2>1, <2>2
  <2> QED BY <1>0, <1>2, <1>5, <2>2, <2>3, <2>4, <2>5, ReadStep
<1>7. CASE ReadDev(r)
  <2>1. PICK v \in Vports : v = rd[r].vport /\ PortHeld(r, v)
    <3>1. rd[r].vport # NULL
      BY <1>7 DEF ReadDev
    <3> QED BY <1>0, <1>4, <3>1 DEF OrNull
  <2>2. PICK e \in OrNull(Devs) : e = vport[v].dev
    BY <1>0 DEF VportType
  <2>3. PICK y \in RdType : y = [rd[r] EXCEPT !.dev = e] /\ y.vport = v /\ y.dp = rd[r].dp /\ y.dev = e
    <3>1. PICK y : y = [rd[r] EXCEPT !.dev = e]
      OBVIOUS
    <3>2. e \in OrNull(Devs) /\ rd[r] \in RdType
      BY <1>0, <1>3, <2>1 DEF OrNull
    <3>3. y \in RdType /\ y.vport = rd[r].vport /\ y.dp = rd[r].dp /\ y.dev = e
      BY ONLY <1>3, <3>1, <3>2
    <3> QED BY <2>1, <3>1, <3>3
  <2>4. rd' = [rd EXCEPT ![r] = y]
    BY <1>7, <2>1, <2>2, <2>3 DEF ReadDev
  <2>5. "tunnel" \notin Types /\ AskedInv => (e # NULL => DevHeld(r, e))
    <3> SUFFICES ASSUME "tunnel" \notin Types, AskedInv, e # NULL
                 PROVE  DevHeld(r, e)
      OBVIOUS
    <3>1. e \in Devs /\ e \in alloc /\ VportInv(v)
      BY <2>2 DEF Inv, VportsInv, VportInv, OrNull
    <3>2. CASE vport[v].type = "internal"
      BY <2>1, <2>2, <3>1, <3>2 DEF PortHeld, DevHeld
    <3>3. CASE vport[v].type # "internal"
      <4>1. vport[v].type = "netdev"
        BY <3>3, ConstantsAssumption DEF AskedInv, Asked
      <4> QED BY <2>1, <2>2, <3>1, <4>1 DEF PortHeld, DevHeld
    <3> QED BY <3>2, <3>3
  <2>6. y.vport # NULL => PortHeld(r, y.vport)
    BY <2>1, <2>3
  <2>7. y.dp # NULL => DpHeld(r, y.dp)
    BY <1>4, <2>3
  <2> QED BY <1>0, <1>2, <2>3, <2>4, <2>5, <2>6, <2>7, ReadStep
<1>8. CASE ReadPort(r)
  <2>1. PICK d \in Dps : d = rd[r].dp
    BY <1>0, <1>8 DEF ReadPort, OrNull
  <2>2. PICK v \in dp[d].ports : rd' = [rd EXCEPT ![r] = [rd[r] EXCEPT !.vport = v]]
    BY <1>8, <2>1 DEF ReadPort
  <2>3. v \in Vports /\ PortHeld(r, v)
    BY ListedSeen
  <2>4. PICK y \in RdType : y = [rd[r] EXCEPT !.vport = v] /\ y.vport = v /\ y.dp = rd[r].dp /\ y.dev = rd[r].dev
    <3>1. PICK y : y = [rd[r] EXCEPT !.vport = v]
      OBVIOUS
    <3>2. v \in OrNull(Vports) /\ rd[r] \in RdType
      BY <1>0, <1>3, <2>3 DEF OrNull
    <3>3. y \in RdType /\ y.vport = v /\ y.dp = rd[r].dp /\ y.dev = rd[r].dev
      BY ONLY <1>3, <3>1, <3>2
    <3> QED BY <2>1, <3>1, <3>3
  <2>5. y.dp # NULL => DpHeld(r, y.dp)
    BY <1>4, <2>4
  <2>6. y.vport # NULL => PortHeld(r, y.vport)
    BY <2>3, <2>4
  <2>7. rd' = [rd EXCEPT ![r] = y]
    BY <2>2, <2>4
  <2> QED BY <1>0, <1>2, <1>5, <2>4, <2>5, <2>6, <2>7, ReadStep
<1> QED BY <1>1, <1>6, <1>7, <1>8

LEMMA LeavesSafe ==
  ASSUME Inv, ReadersInv, NEW r \in Readers, reader_done(r)
  PROVE  ReadersInv' /\ (DevsRead => DevsRead')
<1>0. /\ rd' = [rd EXCEPT ![r] = Outside] /\ rcu' = rcu \ {r} /\ wait' = [o \in Obj |-> wait[o] \ {r}]
      /\ UNCHANGED <<alloc, pend, vport, dev, cmd>>
  BY DEF reader_done, rcu_read_unlock, tables
<1>1. /\ Outside \in RdType /\ Outside.vport = NULL /\ Outside.dp = NULL /\ Outside.dev = NULL
  BY DEF Outside, RdType, OrNull
<1>2. rd' \in [Readers -> RdType] /\ rd'[r] = Outside /\ \A s \in Readers : s # r => rd'[s] = rd[s]
  BY <1>0, <1>1 DEF ReadersInv
<1>3. ASSUME NEW s, s # r
      PROVE  /\ \A x : PortHeld(s, x) => PortHeld(s, x)'
             /\ \A x : DpHeld(s, x) => DpHeld(s, x)'
             /\ \A x : DevHeld(s, x) => DevHeld(s, x)'
  <2>1. \A o \in Obj : s \in wait[o] => s \in wait'[o]
    BY <1>0, <1>3
  <2>2. /\ \A o \in Obj : WaitsFor(o, s) => WaitsFor(o, s)'
        /\ \A v : Fresh(v)' <=> Fresh(v)
        /\ \A d : Private(d)' <=> Private(d)
        /\ \A e : Registered(e)' <=> Registered(e)
    BY <1>0, <2>1 DEF WaitsFor, Fresh, Private, Registered
  <2>3. Dps \subseteq Obj /\ Vports \subseteq Obj /\ Devs \subseteq Obj
    BY DEF Obj
  <2>4. \A x : DpHeld(s, x) => DpHeld(s, x)'
    BY <1>0, <2>2, <2>3 DEF DpHeld
  <2>5. \A x : DevHeld(s, x) => DevHeld(s, x)'
    BY <1>0, <2>1, <2>2, <2>3 DEF DevHeld
  <2>6. ASSUME NEW x, PortHeld(s, x)
        PROVE  PortHeld(s, x)'
    <3>1. PICK d : d = vport[x].dp /\ d = vport'[x].dp
      BY <1>0
    <3>2. DpHeld(s, d)'
      BY <2>4, <2>6, <3>1 DEF PortHeld
    <3>3. DpHeld(s, vport[x].dp)'
      BY <3>1, <3>2 DEF DpHeld, WaitsFor, Private
    <3>4. PICK e : e = vport[x].dev /\ e = vport'[x].dev
      BY <1>0
    <3>5. vport[x].type = "internal" => /\ e \in Devs /\ e \in alloc' /\ dev'[e].kind = "internal"
                                        /\ Registered(e)' \/ s \in wait'[e]
      BY <1>0, <2>1, <2>2, <2>3, <2>6, <3>4 DEF PortHeld
    <3>6. vport'[x].type = "internal" => /\ vport'[x].dev \in Devs /\ vport'[x].dev \in alloc' /\ dev'[vport'[x].dev].kind = "internal"
                                         /\ Registered(vport[x].dev)' \/ s \in wait'[vport'[x].dev]
      BY <1>0, <3>4, <3>5 DEF Registered
    <3>7. x \in Vports /\ x \in alloc' /\ WaitsFor(x, s)' /\ ~Fresh(x)'
      BY <1>0, <2>2, <2>3, <2>6 DEF PortHeld
    <3> QED BY <3>3, <3>6, <3>7 DEF PortHeld
  <2> QED BY <2>4, <2>5, <2>6
<1>4. ASSUME NEW s \in Readers
      PROVE  ReadInv(s)'
  <2>1. CASE s = r
    BY <1>0, <1>1, <1>2, <2>1 DEF ReadInv
  <2>2. CASE s # r
    <3>1. ReadInv(s) /\ rd'[s] = rd[s]
      BY <1>2, <2>2 DEF ReadersInv
    <3>2. PICK v, d : v = rd[s].vport /\ d = rd[s].dp /\ v = rd'[s].vport /\ d = rd'[s].dp
      BY <3>1
    <3>3. (v # NULL => PortHeld(s, v)') /\ (d # NULL => DpHeld(s, d)')
      BY <1>3, <2>2, <3>1, <3>2 DEF ReadInv
    <3>4. PortHeld(s, rd[s].vport)' <=> PortHeld(s, v)'
      BY <3>2 DEF PortHeld, DpHeld, WaitsFor, Fresh, Private, Registered
    <3>5. DpHeld(s, rd[s].dp)' <=> DpHeld(s, d)'
      BY <3>2 DEF DpHeld, WaitsFor, Private
    <3>6. s \notin rcu' => rd'[s] = Outside
      BY <1>0, <2>2, <3>1 DEF ReadInv
    <3> QED BY <3>2, <3>3, <3>4, <3>5, <3>6 DEF ReadInv
  <2> QED BY <2>1, <2>2
<1>5. DevsRead => DevsRead'
  <2> SUFFICES ASSUME DevsRead, NEW s \in Readers
               PROVE  (rd[s].dev # NULL => DevHeld(s, rd[s].dev))'
    BY DEF DevsRead
  <2>1. CASE s = r
    BY <1>1, <1>2, <2>1
  <2>2. CASE s # r
    <3>1. PICK e : e = rd[s].dev /\ e = rd'[s].dev
      BY <1>2, <2>2
    <3>2. e # NULL => DevHeld(s, e)'
      BY <1>3, <2>2, <3>1 DEF DevsRead
    <3> QED BY <3>1, <3>2 DEF DevHeld, WaitsFor, Fresh, Registered
  <2> QED BY <2>1, <2>2
<1> QED BY <1>2, <1>4, <1>5 DEF ReadersInv

-----------------------------------------------------------------------------
(* Readers hold nothing that is freed. *)

LEMMA InitReaders == Init => ReadersInv /\ AskedInv /\ DevsRead
<1> SUFFICES ASSUME Init
             PROVE  ReadersInv /\ AskedInv /\ DevsRead
  OBVIOUS
<1>1. /\ Outside \in RdType /\ Outside.vport = NULL /\ Outside.dp = NULL /\ Outside.dev = NULL
  BY DEF Outside, RdType, OrNull
<1>2. rd = [r \in Readers |-> Outside] /\ rcu = {}
  BY DEF Init
<1>3. ReadersInv /\ DevsRead
  BY <1>1, <1>2 DEF ReadersInv, ReadInv, DevsRead
<1>4. NoVport.type = "internal" /\ Idle.type = "internal" /\ "internal" \in Asked
  BY DEF NoVport, Idle, Asked
<1> QED BY <1>3, <1>4 DEF Init, AskedInv

LEMMA NextReaders ==
  ASSUME Inv, ReadersInv, AskedInv, [Next]_vars
  PROVE  ReadersInv' /\ AskedInv' /\ ("tunnel" \notin Types /\ DevsRead => DevsRead')
<1>1. CASE Others
  BY <1>1, OthersGentle, ReadersKept
<1>2. ASSUME NEW r \in Readers, Read(r)
      PROVE  ReadersInv' /\ AskedInv' /\ ("tunnel" \notin Types /\ DevsRead => DevsRead')
  <2>1. UNCHANGED <<vport, cmd>>
    BY <1>2 DEF Read, receive, lookup_dp, lookup_port, read, reader_done, UNCHANGED_by_readers, tables
  <2>2. AskedInv'
    BY <2>1 DEF AskedInv
  <2>3. ReadersInv' /\ ("tunnel" \notin Types /\ DevsRead => DevsRead')
    BY <1>2, EntersSafe, ReadsSafe, LeavesSafe DEF Read
  <2> QED BY <2>2, <2>3
<1>3. CASE UNCHANGED vars
  <2>1. UNCHANGED <<alloc, pend, wait, rcu, rd, vport, dev, cmd>>
    BY <1>3 DEF vars
  <2>2. AskedInv' /\ UNCHANGED cmd /\ Worker \in Actors
    BY <2>1, Constants DEF AskedInv
  <2>3. Gentle
    BY <2>1, <2>2, StillStep
  <2> QED BY <2>2, <2>3, ReadersKept
<1> QED BY <1>1, <1>2, <1>3 DEF Next, Others

LEMMA ReadersInductive == Spec => [](Inv /\ ReadersInv /\ AskedInv)
<1>1. Init => Inv /\ ReadersInv /\ AskedInv
  BY InitInv, InitReaders
<1>2. (Inv /\ ReadersInv /\ AskedInv) /\ [Next]_vars => (Inv /\ ReadersInv /\ AskedInv)'
  BY NextInv, NextReaders
<1> QED BY <1>1, <1>2, PTL DEF Spec

\* The ports and the datapaths that a packet, a dump or a lookup has come by under RCU are never
\* freed before it leaves its critical section: each is published, or has a callback that waits for
\* that reader (ovs_vport_del, ovs_dp_cmd_del, internal_dev_destroy).
PortsRead == \A r \in Readers : {rd[r].vport, rd[r].dp} \ {NULL} \subseteq alloc
THEOREM ReadersKeepPorts == Spec => []PortsRead
<1>1. ReadersInv => PortsRead
  BY DEF ReadersInv, ReadInv, PortHeld, DpHeld, PortsRead
<1> QED BY <1>1, ReadersInductive, PTL

\* Without tunnel ports, whose device is let go before the grace period, the same holds of the
\* devices of the ports (netdev_send, ovs_vport_receive).
THEOREM ReadersHoldLive ==
  ASSUME "tunnel" \notin Types
  PROVE  Spec => []ReadersSafe
<1>1. Init => Inv /\ ReadersInv /\ AskedInv /\ DevsRead
  BY InitInv, InitReaders
<1>2. (Inv /\ ReadersInv /\ AskedInv /\ DevsRead) /\ [Next]_vars => (Inv /\ ReadersInv /\ AskedInv /\ DevsRead)'
  BY NextInv, NextReaders
<1>3. ReadersInv /\ DevsRead => ReadersSafe
  BY DEF ReadersInv, ReadInv, PortHeld, DpHeld, DevsRead, DevHeld, ReadersSafe
<1> QED BY <1>1, <1>2, <1>3, PTL DEF Spec
================================================================================
