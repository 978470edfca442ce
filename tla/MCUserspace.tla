------------------------------- MODULE MCUserspace -------------------------------
(***************************************************************************)
(* Instances of FlowSetup and of Upcall for TLC.  They share nothing: a    *)
(* run explores the one or the other, as it chooses first.                 *)
(***************************************************************************)
EXTENDS FlowSetup, Upcall

VARIABLE part

Parts == <<part, vars, UpcallVars>>

PartInit == part \in {"setup", "upcall"} /\ Init /\ UpcallInit
PartNext ==
  \/ part = "setup" /\ Next /\ UNCHANGED <<part, UpcallVars>>
  \/ part = "upcall" /\ UpcallNext /\ UNCHANGED <<part, vars>>
PartSpec == PartInit /\ [][PartNext]_Parts
-----------------------------------------------------------------------------
MCIdLists == {<<0>>, <<1, 2>>}

NoTun == [af |-> 0, flags |-> {}, opts_len |-> 0]
Tcp4 ==
  [mac |-> MAC_PROTO_ETHERNET, eth |-> 1, tags |-> <<>>, labels |-> <<>>, type |-> ETH_P_IP, addr |-> 1,
   l3 |-> "ok", proto |-> IPPROTO_TCP, frag |-> OVS_FRAG_TYPE_NONE, l4 |-> "ok", tp |-> <<1, 1>>,
   nd |-> "ok", gso_udp |-> FALSE, prio |-> 0, mark |-> 0, tun |-> NoTun, ct |-> 0, hash |-> 0]
Tcp6 == [Tcp4 EXCEPT !.type = ETH_P_IPV6]
Geneve == [af |-> AF_INET, flags |-> {"TUNNEL_KEY", "TUNNEL_CSUM", "TUNNEL_GENEVE_OPT"}, opts_len |-> 8]

MCPackets ==
  {Tcp4, Tcp6,
   [Tcp4 EXCEPT !.tags = <<1>>], [Tcp4 EXCEPT !.tags = <<1, 2>>], [Tcp4 EXCEPT !.tags = <<1, 2, 3>>],
   [Tcp4 EXCEPT !.type = ETH_P_8021Q], [Tcp4 EXCEPT !.tags = <<1>>, !.type = ETH_P_8021Q],
   [Tcp4 EXCEPT !.mac = MAC_PROTO_NONE], [Tcp6 EXCEPT !.mac = MAC_PROTO_NONE],
   [Tcp4 EXCEPT !.mac = MAC_PROTO_NONE, !.type = ETH_P_8021Q],
   [Tcp4 EXCEPT !.type = ETH_P_802_2],
   [Tcp4 EXCEPT !.type = ETH_P_ARP], [Tcp4 EXCEPT !.type = ETH_P_RARP, !.l3 = "short"],
   [Tcp4 EXCEPT !.labels = <<1>>], [Tcp4 EXCEPT !.labels = <<1, 2>>], [Tcp4 EXCEPT !.type = ETH_P_MPLS],
   [Tcp4 EXCEPT !.proto = IPPROTO_UDP], [Tcp4 EXCEPT !.proto = IPPROTO_UDP, !.gso_udp = TRUE],
   [Tcp4 EXCEPT !.proto = IPPROTO_SCTP, !.prio = 1], [Tcp4 EXCEPT !.proto = IPPROTO_ICMP, !.mark = 1],
   [Tcp4 EXCEPT !.l3 = "short"], [Tcp4 EXCEPT !.l4 = "short"],
   [Tcp4 EXCEPT !.frag = OVS_FRAG_TYPE_FIRST], [Tcp4 EXCEPT !.frag = OVS_FRAG_TYPE_LATER],
   [Tcp4 EXCEPT !.ct = AF_INET], [Tcp4 EXCEPT !.tun = Geneve], [Tcp4 EXCEPT !.tun = Geneve, !.tags = <<1>>],
   [Tcp4 EXCEPT !.tun = Geneve, !.proto = IPPROTO_ICMP, !.tp = <<0, 0>>],
   [Tcp4 EXCEPT !.tun = [af |-> AF_INET6, flags |-> {"TUNNEL_VXLAN_OPT"}, opts_len |-> 4]],
   [Tcp4 EXCEPT !.tun = [af |-> AF_INET, flags |-> {}, opts_len |-> 0]],
   [Tcp6 EXCEPT !.l3 = "short"], [Tcp6 EXCEPT !.l3 = "ext"], [Tcp6 EXCEPT !.frag = OVS_FRAG_TYPE_LATER],
   [Tcp6 EXCEPT !.proto = NEXTHDR_ICMP, !.tp = <<NDISC, 0>>],
   [Tcp6 EXCEPT !.proto = NEXTHDR_ICMP, !.tp = <<NDISC, 0>>, !.nd = "twice"],
   [Tcp6 EXCEPT !.proto = NEXTHDR_ICMP, !.tp = <<128, 0>>],
   [Tcp6 EXCEPT !.proto = NEXTHDR_ICMP, !.tp = <<NDISC, 1>>],
   [Tcp6 EXCEPT !.ct = AF_INET6], [Tcp6 EXCEPT !.ct = AF_INET]}

L2Attrs == {"ETHERNET", "ETHERTYPE", "VLAN"}
All == DOMAIN AttrSlots \cup {"TUNNEL"}
MCMaskKinds ==
  {{"none"}, All, {}, {"IN_PORT"} \cup L2Attrs, L2Attrs \cup {"IPV4", "IPV6", "ARP", "MPLS"},
   All \ {"TUNNEL", "CT_ORIG_TUPLE_IPV4", "CT_ORIG_TUPLE_IPV6"}, All \ {"VLAN"}, All \ {"IPV4", "IPV6"},
   All \ {"ETHERTYPE"}}

Set(attr, v) == [Action("SET") EXCEPT !.attr = attr, !.arg = v]
SetMasked(attr, v, mask) == [Action("SET_MASKED") EXCEPT !.attr = attr, !.arg = v, !.mask = mask]
SetIp(attr, proto, frag) == [Set(attr, 2) EXCEPT !.proto = proto, !.frag = frag]
Arg(op, v) == [Action(op) EXCEPT !.arg = v]
Tunnel == [Set("TUNNEL", 0) EXCEPT
             !.tun = "TTL" :> 1 @@ "DST" :> 1 @@ "ID" :> 1 @@ "AF" :> AF_INET @@ "OPTS_LEN" :> 0]
One ==
  {Arg("OUTPUT", 1), Arg("USERSPACE", 1), Arg("POP_MPLS", ETH_P_IP), Arg("PUSH_MPLS", 3), Arg("PUSH_VLAN", 3),
   Action("POP_VLAN"), Action("HASH"), Action("CT"), Set("ETHERNET", 2), Set("TCP", 2), Set("UDP", 2),
   Set("SCTP", 2), Set("MPLS", 2), Set("PRIORITY", 2), SetMasked("SKB_MARK", 2, 1), Tunnel,
   SetIp("IPV4", IPPROTO_TCP, 0), SetIp("IPV6", IPPROTO_TCP, 0), SetIp("IPV4", 0, 0), SetIp("IPV6", 0, 0),
   SetMasked("TCP", 0, 0), SetMasked("TCP", 2, 1)}
Headers ==
  {Arg("POP_MPLS", ETH_P_IP), Arg("PUSH_MPLS", 3), Arg("PUSH_VLAN", 3), Action("POP_VLAN"), Set("TCP", 2)}
Eth == {Action("POP_ETH"), Arg("PUSH_ETH", 2)}
SampleOf(acts) == [Action("SAMPLE") EXCEPT !.sub = acts]
Recirc == Arg("RECIRC", 1)
AllLists ==
  {<<a>> : a \in One \cup Eth} \cup {<<a, b>> : a \in Headers, b \in One}
    \cup {<<a, Recirc>> : a \in One \cup Eth}
    \cup {<<SampleOf(<<a>>), b>> : a \in Headers \cup {Action("CT")}, b \in {Arg("OUTPUT", 1), Set("TCP", 2), Recirc}}
Full == {{"none"}, All \ {"VLAN"}}
MCActionLists(kind) == IF kind \in Full THEN AllLists ELSE {<<Arg("OUTPUT", 1)>>, <<Action("POP_VLAN")>>}
================================================================================
