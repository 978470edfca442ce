--------------------------------- MODULE FlowKey ---------------------------------
(***************************************************************************)
(* struct sw_flow_key and its extraction from a packet (flow.h, flow.c).   *)
(*                                                                         *)
(* A key is a function from slots to values.  Fields that share memory (a  *)
(* union) share a slot.  A slot that no code has written holds what was on *)
(* the stack: the value Junk.  A packet is a record of its headers.        *)
(***************************************************************************)
EXTENDS Naturals, Sequences, FiniteSets, TLC

Junk == 99

MAC_PROTO_NONE == 0
MAC_PROTO_ETHERNET == 1

\* Ethernet types; 802.2 frames have none.
ETH_P_802_2 == 4
ETH_P_IP == 2048
ETH_P_ARP == 2054
ETH_P_RARP == 32821
ETH_P_8021Q == 33024
ETH_P_IPV6 == 34525
ETH_P_MPLS == 34887

eth_type_vlan(t) == t = ETH_P_8021Q
eth_p_mpls(t) == t = ETH_P_MPLS

\* IP protocols; NEXTHDR_ICMP is ICMPv6.
IPPROTO_ICMP == 1
IPPROTO_TCP == 6
IPPROTO_UDP == 17
NEXTHDR_ICMP == 58
NEXTHDR_NONE == 59
IPPROTO_SCTP == 132

NDISC == 135   \* neighbour solicitation or advertisement: the type of an ICMPv6 message

OVS_FRAG_TYPE_NONE == 0
OVS_FRAG_TYPE_FIRST == 1
OVS_FRAG_TYPE_LATER == 2

AF_INET == 2
AF_INET6 == 10
DP_MAX_PORTS == 65535

\* The slots.  "l3a" holds ipv4.addr and the start of ipv6.addr, "l3b" the next bytes
\* (ipv4.ct_orig, ipv4.arp), "l3c" the rest of ipv6.addr, "l3u" ipv6.ct_orig or ipv6.nd;
\* mpls.top_lse is in the four slots of ip.
TunFlags == {"TUNNEL_KEY", "TUNNEL_CSUM", "TUNNEL_GENEVE_OPT", "TUNNEL_VXLAN_OPT"}
TunSlots == {"tun_id", "tun_src", "tun_dst", "tun_tos", "tun_ttl", "tun_tp"} \cup TunFlags
OptSlots == {"tun_opts", "tun_opts_len"}
VlanSlot(t, f) ==
  CASE t = "vlan" -> [tpid |-> "vlan.tpid", present |-> "vlan.present", vid |-> "vlan.vid"][f]
    [] t = "cvlan" -> [tpid |-> "cvlan.tpid", present |-> "cvlan.present", vid |-> "cvlan.vid"][f]
VlanSlots(t) == {VlanSlot(t, f) : f \in {"tpid", "present", "vid"}}
IpSlots == {"ip.proto", "ip.tos", "ip.ttl", "ip.frag"}
TpSlots == {"tp.src", "tp.dst", "tp.flags"}
CtSlots == {"ct_state", "ct_zone", "ct.mark", "ct.labels", "ct.orig_tp", "ct_orig_proto"}
L3Slots == {"l3a", "l3b", "l3c", "label", "l3u"}
PhySlots == {"phy.priority", "phy.skb_mark", "phy.in_port"}
Slots ==
  TunSlots \cup OptSlots \cup PhySlots \cup CtSlots \cup IpSlots \cup TpSlots \cup L3Slots
    \cup VlanSlots("vlan") \cup VlanSlots("cvlan")
    \cup {"mac_proto", "tun_proto", "ovs_flow_hash", "recirc_id", "eth.addr", "eth.type"}

Const(S, v) == [s \in S |-> v]
Zero == Const(Slots, 0)

sw_flow_key_is_nd(k) ==
  /\ k["eth.type"] = ETH_P_IPV6
  /\ k["ip.proto"] = NEXTHDR_ICMP
  /\ k["tp.dst"] = 0 /\ k["tp.src"] = NDISC

-----------------------------------------------------------------------------
(* A packet: mac (with an Ethernet header or not), eth (its addresses),    *)
(* tags (the ids of whole VLAN tags), labels (MPLS, the topmost first),    *)
(* type (of what follows; ETH_P_8021Q for a tag that is cut short), addr   *)
(* (of layer 3), l3 ("ok", "short", or "ext" where IPv6 extension headers  *)
(* are broken), proto, frag, l4 ("ok" or "short"), tp (ports, or type and  *)
(* code), nd, gso_udp; and metadata: prio, mark, tun (af 0: none), ct (the *)
(* family of the tracked connection, or 0), hash and recirc_id.            *)

\* parse_vlan(): up to two tags.
Tag(t, tags, i) ==
  IF i <= Len(tags) THEN VlanSlot(t, "tpid") :> ETH_P_8021Q @@ VlanSlot(t, "present") :> 1 @@ VlanSlot(t, "vid") :> tags[i]
  ELSE Const(VlanSlots(t), 0)
parse_vlan(p) == Tag("vlan", p.tags, 1) @@ Tag("cvlan", p.tags, 2)

TypeOf(p) ==
  IF Len(p.tags) > 2 THEN ETH_P_8021Q ELSE IF p.labels # <<>> THEN ETH_P_MPLS ELSE p.type

L2(p) ==
  "eth.type" :> TypeOf(p) @@
  IF p.mac = MAC_PROTO_NONE THEN Const(VlanSlots("vlan") \cup VlanSlots("cvlan"), 0)
  ELSE "eth.addr" :> p.eth @@ parse_vlan(p)

\* A UDP packet that is to be segmented counts as the first of its fragments.
FragOf(p) == IF p.frag = OVS_FRAG_TYPE_NONE /\ p.gso_udp THEN OVS_FRAG_TYPE_FIRST ELSE p.frag

Ip(p, proto) == "ip.proto" :> proto @@ "ip.tos" :> 1 @@ "ip.ttl" :> 1 @@ "ip.frag" :> FragOf(p)

\* ARP is taken apart if it is about Ethernet and IPv4.
L3(p) ==
  CASE TypeOf(p) = ETH_P_IP /\ p.l3 = "ok" -> Ip(p, p.proto) @@ "l3a" :> p.addr
    [] TypeOf(p) = ETH_P_IP /\ p.l3 # "ok" -> Const(IpSlots \cup {"l3a", "l3b"}, 0)
    [] TypeOf(p) \in {ETH_P_ARP, ETH_P_RARP} /\ p.l3 = "ok" ->
         "ip.proto" :> 1 @@ "l3a" :> p.addr @@ "l3b" :> 1
    [] TypeOf(p) \in {ETH_P_ARP, ETH_P_RARP} /\ p.l3 # "ok" ->
         Const(IpSlots \cup {"l3a", "l3b"}, 0)
    [] eth_p_mpls(TypeOf(p)) /\ p.labels # <<>> ->
         "ip.tos" :> Head(p.labels) @@ Const(IpSlots, 0)
    [] TypeOf(p) = ETH_P_IPV6 /\ p.l3 = "short" -> Const(IpSlots \cup {"l3a", "l3b", "l3c"}, 0)
    [] TypeOf(p) = ETH_P_IPV6 /\ p.l3 # "short" ->
         Ip(p, IF p.l3 = "ok" THEN p.proto ELSE NEXTHDR_NONE)
           @@ "l3a" :> p.addr @@ "l3b" :> 1 @@ "l3c" :> 1 @@ "label" :> 1
    [] OTHER -> <<>>

\* parse_icmpv6() also reads the options of neighbour discovery messages, which have code
\* 0; a link layer address given twice invalidates them all.
parse_icmpv6(p) ==
  "tp.src" :> p.tp[1] @@ "tp.dst" :> p.tp[2]
    @@ "l3u" :> (IF p.tp[1] = NDISC /\ p.tp[2] = 0 /\ p.nd = "ok" THEN 1 ELSE 0)

Ports(p) == "tp.src" :> p.tp[1] @@ "tp.dst" :> p.tp[2]

\* The transport layer, of the first fragment only.
L4(p) ==
  IF ~(TypeOf(p) \in {ETH_P_IP, ETH_P_IPV6} /\ p.l3 = "ok" /\ p.frag # OVS_FRAG_TYPE_LATER) THEN <<>>
  ELSE CASE p.proto \in {IPPROTO_TCP, IPPROTO_UDP, IPPROTO_SCTP} ->
              IF p.l4 # "ok" THEN Const(TpSlots, 0)
              ELSE Ports(p) @@ IF p.proto = IPPROTO_TCP THEN "tp.flags" :> 1 ELSE <<>>
         [] p.proto = IPPROTO_ICMP /\ TypeOf(p) = ETH_P_IP ->
              IF p.l4 # "ok" THEN Const(TpSlots, 0) ELSE Ports(p)
         [] p.proto = NEXTHDR_ICMP /\ TypeOf(p) = ETH_P_IPV6 ->
              IF p.l4 # "ok" THEN Const(TpSlots, 0) ELSE parse_icmpv6(p)
         [] OTHER -> <<>>

\* key_extract() of p over the key k.  Where memory is short it fails, and the packet is
\* dropped.
key_extract(p, k) == L4(p) @@ L3(p) @@ L2(p) @@ "tp.flags" :> 0 @@ k

\* A layer 3 packet with a VLAN type is refused.
Extractable(p) == p.mac = MAC_PROTO_NONE => ~eth_type_vlan(p.type)

-----------------------------------------------------------------------------
(* Metadata. *)

\* __ovs_ct_update_key(): state 0 is "not tracked".  The original tuple is there if the
\* connection is of the packet's family, and the place is not taken by what was
\* discovered about neighbours.
CtOrig(k, family) ==
  IF k["eth.type"] = ETH_P_IP /\ family = AF_INET
  THEN "l3b" :> 1 @@ "ct.orig_tp" :> 1 @@ "ct_orig_proto" :> IPPROTO_TCP @@ k
  ELSE IF k["eth.type"] = ETH_P_IPV6 /\ ~sw_flow_key_is_nd(k) /\ family = AF_INET6
  THEN "l3u" :> 1 @@ "ct.orig_tp" :> 1 @@ "ct_orig_proto" :> IPPROTO_TCP @@ k
  ELSE "ct_orig_proto" :> 0 @@ k
__ovs_ct_update_key(k, state, family) ==
  CtOrig(("ct_state" :> state @@ "ct_zone" :> state @@ "ct.mark" :> 0 @@ "ct.labels" :> 0 @@ k), family)

\* The tunnel a packet came through, of family tun.af.
TunKey(tun) ==
  IF tun.af = 0 THEN Const(TunSlots \cup {"tun_proto", "tun_opts_len"}, 0)
  ELSE "tun_proto" :> tun.af @@ "tun_id" :> (IF "TUNNEL_KEY" \in tun.flags THEN 1 ELSE 0) @@ "tun_src" :> 1 @@ "tun_dst" :> 1
         @@ "tun_tos" :> 0 @@ "tun_ttl" :> 1 @@ "tun_tp" :> 0
         @@ [f \in TunFlags |-> IF f \in tun.flags THEN 1 ELSE 0]
         @@ "tun_opts_len" :> tun.opts_len
         @@ IF tun.opts_len # 0 THEN "tun_opts" :> 1 ELSE <<>>

\* ovs_flow_key_extract(): a key on the stack, with the metadata of the skb.
ovs_flow_key_extract(p, in_port) ==
  LET k == "phy.priority" :> p.prio @@ "phy.in_port" :> in_port @@ "phy.skb_mark" :> p.mark
             @@ "ovs_flow_hash" :> 0 @@ "recirc_id" :> 0 @@ "mac_proto" :> p.mac
             @@ TunKey(p.tun) @@ Const(Slots, Junk)
  IN __ovs_ct_update_key(key_extract(p, k), IF p.ct # 0 THEN 1 ELSE 0, p.ct)
================================================================================
