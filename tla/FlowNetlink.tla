------------------------------- MODULE FlowNetlink -------------------------------
(***************************************************************************)
(* Keys, masks and actions as netlink attributes (flow_netlink.c): how the *)
(* datapath writes a key into a message and reads a key and a mask out of  *)
(* one, and which actions it accepts for a flow.                           *)
(*                                                                         *)
(* A message is a sequence of levels: the attributes, what is inside their *)
(* ENCAP, and what is inside that one's.  A level is a function from       *)
(* attributes to payloads, a payload a function from slots to values.  The *)
(* values of a mask are 0 and 1 (all ones).                                *)
(***************************************************************************)
EXTENDS FlowKey

\* enum ovs_key_attr, and the slots each attribute is about.
AttrSlots ==
  "PRIORITY" :> {"phy.priority"} @@ "IN_PORT" :> {"phy.in_port"} @@ "SKB_MARK" :> {"phy.skb_mark"}
    @@ "DP_HASH" :> {"ovs_flow_hash"} @@ "RECIRC_ID" :> {"recirc_id"}
    @@ "CT_STATE" :> {"ct_state"} @@ "CT_ZONE" :> {"ct_zone"} @@ "CT_MARK" :> {"ct.mark"}
    @@ "CT_LABELS" :> {"ct.labels"}
    @@ "CT_ORIG_TUPLE_IPV4" :> {"l3b", "ct.orig_tp", "ct_orig_proto"}
    @@ "CT_ORIG_TUPLE_IPV6" :> {"l3u", "ct.orig_tp", "ct_orig_proto"}
    @@ "ETHERNET" :> {"eth.addr"} @@ "ETHERTYPE" :> {"eth.type"} @@ "VLAN" :> {"present", "vid"}
    @@ "IPV4" :> IpSlots \cup {"l3a"} @@ "IPV6" :> IpSlots \cup {"l3a", "l3b", "l3c", "label"}
    @@ "ARP" :> {"ip.proto", "l3a", "l3b"} @@ "MPLS" :> IpSlots
    @@ "TCP" :> {"tp.src", "tp.dst"} @@ "TCP_FLAGS" :> {"tp.flags"}
    @@ "UDP" :> {"tp.src", "tp.dst"} @@ "SCTP" :> {"tp.src", "tp.dst"}
    @@ "ICMP" :> {"tp.src", "tp.dst"} @@ "ICMPV6" :> {"tp.src", "tp.dst"} @@ "ND" :> {"l3u"}

Payload(x, k) == [s \in AttrSlots[x] |-> k[s]]
Attrs(S, k) == [x \in S |-> Payload(x, k)]

MetaAttrs == {"RECIRC_ID", "DP_HASH", "PRIORITY", "SKB_MARK", "CT_STATE", "CT_ZONE", "CT_MARK", "CT_LABELS"}

-----------------------------------------------------------------------------
(* Writing a key. *)

\* __ip_tun_to_nlattr(): zero fields are left out, but for the TTL.
TunField == "TP" :> "tun_tp" @@ "TOS" :> "tun_tos" @@ "ID" :> "tun_id" @@ "SRC" :> "tun_src"
              @@ "DST" :> "tun_dst" @@ "TTL" :> "tun_ttl"
__ip_tun_to_nlattr(out, opts_len, proto) ==
  LET put == {"TTL"} \cup (IF out["TUNNEL_KEY"] = 1 THEN {"ID"} ELSE {})
               \cup {x \in {"TOS", "TP"} : out[TunField[x]] # 0}
               \cup {x \in {"SRC", "DST"} : proto # 0 /\ out[TunField[x]] # 0}
      opts == IF opts_len = 0 THEN {}
              ELSE IF out["TUNNEL_GENEVE_OPT"] = 1 THEN {"GENEVE_OPTS"}
              ELSE IF out["TUNNEL_VXLAN_OPT"] = 1 THEN {"VXLAN_OPTS"} ELSE {}
  IN [x \in put |-> out[TunField[x]]]
       @@ [x \in opts |-> out["tun_opts"]] @@ [x \in opts \cap {"GENEVE_OPTS"} |-> opts_len]
       @@ [x \in {"CSUM"} \cap (IF out["TUNNEL_CSUM"] = 1 THEN {"CSUM"} ELSE {}) |-> 1]
       @@ "AF" :> proto @@ "OPTS_LEN" :> opts_len

\* ovs_ct_put_key(): the original tuple if there is one.
CtAttrs(sw) ==
  IF sw["ct_orig_proto"] = 0 THEN {}
  ELSE IF sw["eth.type"] = ETH_P_IP THEN {"CT_ORIG_TUPLE_IPV4"}
  ELSE IF sw["eth.type"] = ETH_P_IPV6 THEN {"CT_ORIG_TUPLE_IPV6"} ELSE {}

InPort(sw, out, is_mask) ==
  IF sw["phy.in_port"] = DP_MAX_PORTS /\ ~(is_mask /\ out["phy.in_port"] = 1) THEN {} ELSE {"IN_PORT"}

Tagged(sw, t) == sw[VlanSlot(t, "present")] # 0 \/ sw[VlanSlot(t, "vid")] # 0

\* ovs_nla_put_vlan()
Vlan(out, t, is_mask) ==
  "ETHERTYPE" :> ("eth.type" :> IF is_mask THEN 1 ELSE out[VlanSlot(t, "tpid")])
    @@ "VLAN" :> ("present" :> out[VlanSlot(t, "present")] @@ "vid" :> out[VlanSlot(t, "vid")])

\* The attributes of layers 3 and 4.
L3Attrs(sw) ==
  CASE sw["eth.type"] = ETH_P_IP -> {"IPV4"}
    [] sw["eth.type"] = ETH_P_IPV6 -> {"IPV6"}
    [] sw["eth.type"] \in {ETH_P_ARP, ETH_P_RARP} -> {"ARP"}
    [] eth_p_mpls(sw["eth.type"]) -> {"MPLS"}
    [] OTHER -> {}
PortAttrs(sw) ==
  CASE sw["ip.proto"] = IPPROTO_TCP -> {"TCP", "TCP_FLAGS"}
    [] sw["ip.proto"] = IPPROTO_UDP -> {"UDP"}
    [] sw["ip.proto"] = IPPROTO_SCTP -> {"SCTP"}
    [] sw["eth.type"] = ETH_P_IP /\ sw["ip.proto"] = IPPROTO_ICMP -> {"ICMP"}
    [] sw["eth.type"] = ETH_P_IPV6 /\ sw["ip.proto"] = NEXTHDR_ICMP -> {"ICMPV6"}
    [] OTHER -> {}
FragmentsToo(sw) ==                                                 \* mutant
  IF sw["eth.type"] \notin {ETH_P_IP, ETH_P_IPV6} THEN {} ELSE PortAttrs(sw)
L4Attrs(sw) ==
  IF sw["eth.type"] \notin {ETH_P_IP, ETH_P_IPV6} \/ sw["ip.frag"] = OVS_FRAG_TYPE_LATER THEN {}
  ELSE PortAttrs(sw)
\* ... and of neighbour discovery, by the type that is put.
NdAttrs(sw, out) == IF "ICMPV6" \in L4Attrs(sw) /\ out["tp.src"] = NDISC THEN {"ND"} ELSE {}

Ethernet(sw) == sw["mac_proto"] = MAC_PROTO_ETHERNET

\* Nothing below an 802.2 header or a third VLAN tag is known.
Inner(sw, out, is_mask) ==
  IF Ethernet(sw) /\ sw["eth.type"] = ETH_P_802_2
  THEN Attrs(IF is_mask /\ out["eth.type"] # 0 THEN {"ETHERTYPE"} ELSE {}, out)
  ELSE IF eth_type_vlan(sw["eth.type"]) THEN Attrs({"ETHERTYPE"}, out)
  ELSE Attrs({"ETHERTYPE"} \cup L3Attrs(sw) \cup L4Attrs(sw) \cup NdAttrs(sw, out), out)

\* __ovs_nla_put_key() of out, which is of the form of sw.  A tag that was cut short is
\* followed by an empty ENCAP.
TunAttr(sw, out, is_mask) ==
  IF sw["tun_proto"] # 0 \/ is_mask
  THEN "TUNNEL" :> __ip_tun_to_nlattr(out, sw["tun_opts_len"], sw["tun_proto"]) ELSE <<>>
Encap(sw, out, is_mask) ==
  LET vlan == eth_type_vlan(sw["eth.type"])
      inner == <<Inner(sw, out, is_mask)>>
  IN
  IF ~Ethernet(sw) \/ ~(Tagged(sw, "vlan") \/ vlan) THEN inner
  ELSE <<Vlan(out, "vlan", is_mask)>> \o
       IF ~Tagged(sw, "vlan") THEN << <<>> >>
       ELSE IF ~(Tagged(sw, "cvlan") \/ vlan) THEN inner
       ELSE <<Vlan(out, "cvlan", is_mask)>> \o IF ~Tagged(sw, "cvlan") THEN << <<>> >> ELSE inner
ovs_nla_put_key(sw, out, is_mask) ==
  LET top == Attrs(MetaAttrs \cup InPort(sw, out, is_mask) \cup CtAttrs(sw)
                     \cup IF Ethernet(sw) THEN {"ETHERNET"} ELSE {}, out)
               @@ TunAttr(sw, out, is_mask)
      levels == Encap(sw, out, is_mask)
  IN <<top @@ levels[1]>> \o Tail(levels)

-----------------------------------------------------------------------------
(* Reading a key or a mask.  m is struct sw_flow_match with what the       *)
(* functions pass to each other: a, the attributes found last, which are   *)
(* never cleared; attrs, those still to be read; rest, the levels below.   *)

NoAttrs == [x \in {} |-> 0]
Refuse(m) == [m EXCEPT !.err = TRUE]
Put(m, is_mask, fields) == IF is_mask THEN [m EXCEPT !.mask = fields @@ @]
                                      ELSE [m EXCEPT !.key = fields @@ @]

\* __parse_flow_nlattrs() of the next level.  In a mask, an attribute that is all zero is
\* passed over.
is_all_zero(x, payload) == x # "TUNNEL" /\ \A s \in DOMAIN payload : payload[s] = 0
parse_flow_nlattrs(m, nz) ==
  LET level == Head(m.rest)
      read  == {x \in DOMAIN level : ~nz \/ ~is_all_zero(x, level[x])}
  IN
  IF DOMAIN level \cap (m.attrs \cup {"OVERWRITTEN"}) # {} THEN Refuse(m)
  ELSE [m EXCEPT !.attrs = @ \cup read \cup IF Tail(m.rest) # <<>> THEN {"ENCAP"} ELSE {},
                 !.a = [x \in read |-> level[x]] @@ @,
                 !.rest = Tail(@)]

\* validate_vlan_from_nlattrs(), validate_vlan_mask_from_nlattrs(): a tag is there,
\* or not, or is not valid.
Found(m, x, s) == IF x \in DOMAIN m.a THEN m.a[x][s] ELSE 0
IsTag(m) == {"ETHERNET", "ETHERTYPE"} \subseteq m.attrs /\ eth_type_vlan(m.a["ETHERTYPE"]["eth.type"])
ValidTag(m) ==
  /\ {"VLAN", "ENCAP"} \subseteq m.attrs
  /\ m.a["VLAN"]["present"] = 0 => m.a["VLAN"]["vid"] = 0 /\ Head(m.rest) = <<>>
ValidTagMask(m, t) ==
  /\ m.key[VlanSlot(t, "present")] = 1
  /\ Found(m, "ETHERTYPE", "eth.type") = 1 /\ Found(m, "VLAN", "present") = 1

\* __parse_vlan_from_nlattrs()
ParseTag(m, t, is_mask) ==
  IF m.err \/ (IF is_mask THEN "ENCAP" \notin m.attrs ELSE ~IsTag(m)) THEN m
  ELSE IF ~(IF is_mask THEN ValidTagMask(m, t) ELSE ValidTag(m)) THEN Refuse(m)
  ELSE LET put == Put(m, is_mask, VlanSlot(t, "tpid") :> Found(m, "ETHERTYPE", "eth.type")
                                    @@ VlanSlot(t, "present") :> Found(m, "VLAN", "present")
                                    @@ VlanSlot(t, "vid") :> Found(m, "VLAN", "vid"))
       IN parse_flow_nlattrs([put EXCEPT !.attrs = @ \ {"ENCAP", "VLAN", "ETHERTYPE"}], is_mask)
parse_vlan_from_nlattrs(m, is_mask) ==
  LET outer == ParseTag(m, "vlan", is_mask)
  IN IF outer.key[VlanSlot("vlan", "present")] = 1 THEN ParseTag(outer, "cvlan", is_mask) ELSE outer

\* The attributes S, those of them that are there, are written to their slots.
Read(m, S, is_mask) ==
  LET RECURSIVE All(_, _)
      All(n, T) == IF T = {} THEN n
                   ELSE LET x == CHOOSE y \in T : TRUE IN All(Put(n, is_mask, n.a[x]), T \ {x})
  IN [All(m, S \cap m.attrs) EXCEPT !.attrs = @ \ S]

\* parse_eth_type_from_nlattrs(): the mask is always exact.
ReadEthType(m, is_mask) ==
  LET done == [m EXCEPT !.attrs = @ \ {"ETHERTYPE"}]
      type == m.a["ETHERTYPE"]["eth.type"]
  IN IF is_mask THEN Put(done, TRUE, "eth.type" :> 1)
     ELSE IF type < 1536 THEN Refuse(m)
     ELSE Put(done, FALSE, "eth.type" :> type)

\* ip_tun_from_nlattr().  The length of Geneve options in a mask must be that of the key.
ip_tun_from_nlattr(m, is_mask) ==
  LET tun == m.a["TUNNEL"]
      has == DOMAIN tun
      geneve == "GENEVE_OPTS" \in has
      opts == geneve \/ "VXLAN_OPTS" \in has
      flag == "TUNNEL_KEY" :> "ID" @@ "TUNNEL_CSUM" :> "CSUM" @@ "TUNNEL_GENEVE_OPT" :> "GENEVE_OPTS"
                @@ "TUNNEL_VXLAN_OPT" :> "VXLAN_OPTS"
      fields == [s \in {TunField[x] : x \in has \cap DOMAIN TunField} |->
                   tun[CHOOSE x \in DOMAIN TunField : TunField[x] = s]]
                @@ [f \in TunFlags |-> IF flag[f] \in has THEN 1 ELSE 0]
                @@ "tun_proto" :> (IF is_mask THEN 1 ELSE tun["AF"])
                @@ IF ~opts THEN NoAttrs
                   ELSE "tun_opts_len" :> (IF is_mask THEN 1 ELSE tun["OPTS_LEN"])
                          @@ "tun_opts" :> (IF geneve THEN tun["GENEVE_OPTS"] ELSE tun["VXLAN_OPTS"])
  IN
  IF \/ {"GENEVE_OPTS", "VXLAN_OPTS"} \subseteq has
     \/ geneve /\ is_mask /\ m.key["tun_opts_len"] # tun["OPTS_LEN"]
     \/ ~is_mask /\ ("TTL" \notin has \/ "DST" \notin has)
  THEN Refuse(m)
  ELSE Put([m EXCEPT !.attrs = @ \ {"TUNNEL"}], is_mask, fields)

\* metadata_from_nlattrs().  The mask of in_port and of mac_proto is always exact.  A state with
\* flags that the kernel does not have is refused: its callers below and in FlowSetup ask for
\* UnknownState.  A mask here only says that the state is compared, by the flags it has.
CT_SUPPORTED_MASK == 255
UnknownState(a) == "CT_STATE" \in DOMAIN a /\ a["CT_STATE"]["ct_state"] > CT_SUPPORTED_MASK
MacProto(m) == IF "ETHERNET" \notin m.attrs /\ "ETHERTYPE" \in m.attrs
               THEN MAC_PROTO_NONE ELSE MAC_PROTO_ETHERNET
metadata_from_nlattrs(m, is_mask) ==
  LET port == IF "IN_PORT" \in m.attrs
              THEN IF is_mask THEN Put(m, TRUE, "phy.in_port" :> 1)
                   ELSE IF m.a["IN_PORT"]["phy.in_port"] >= DP_MAX_PORTS THEN Refuse(m)
                   ELSE Put(m, FALSE, m.a["IN_PORT"])
              ELSE IF is_mask THEN m ELSE Put(m, FALSE, "phy.in_port" :> DP_MAX_PORTS)
      tun == IF "TUNNEL" \in m.attrs THEN ip_tun_from_nlattr(port, is_mask) ELSE port
      ct  == Read([tun EXCEPT !.attrs = @ \ {"IN_PORT"}],
                  MetaAttrs \cup {"CT_ORIG_TUPLE_IPV4", "CT_ORIG_TUPLE_IPV6"}, is_mask)
      mac == Put(ct, is_mask, "mac_proto" :> IF is_mask THEN 1 ELSE MacProto(ct))
  IN IF MacProto(ct) = MAC_PROTO_NONE THEN ReadEthType(mac, is_mask) ELSE mac

\* ovs_key_from_nlattrs()
InnerAttrs == {"IPV4", "IPV6", "ARP", "MPLS", "TCP", "TCP_FLAGS", "UDP", "SCTP", "ICMP", "ICMPV6", "ND"}
ReadEthernet(m, is_mask) ==
  LET eth == Read(m, {"ETHERNET"}, is_mask)
  IN IF "ETHERNET" \notin m.attrs THEN IF m.key["eth.type"] = 0 THEN Refuse(m) ELSE m
     ELSE IF "VLAN" \in m.attrs THEN Refuse(m)
     ELSE IF "ETHERTYPE" \in m.attrs THEN ReadEthType(eth, is_mask)
     ELSE IF is_mask THEN eth ELSE Put(eth, FALSE, "eth.type" :> ETH_P_802_2)
\* An opcode of ARP has a byte in the key and two in the attribute.
OutOfRange(m) ==
  \/ "ARP" \in m.attrs /\ m.a["ARP"]["ip.proto"] > 255
  \/ "IPV6" \in m.attrs /\ m.a["IPV6"]["label"] = Junk
  \/ {"IPV4", "IPV6"} \cap m.attrs # {} /\ Found(m, CHOOSE x \in {"IPV4", "IPV6"} : x \in m.attrs, "ip.frag") > 2
ovs_key_from_nlattrs(m, is_mask) ==
  LET meta == metadata_from_nlattrs(m, is_mask)
      eth  == ReadEthernet(meta, is_mask)
      l3   == Read(eth, InnerAttrs, is_mask)
  IN IF m.err THEN m
     ELSE IF meta.err THEN meta
     ELSE IF \/ eth.err \/ l3.attrs # {}
             \/ ~is_mask /\ (UnknownState(m.a) \/ OutOfRange(eth)) THEN Refuse(m)
     ELSE l3

\* match_validate(): the attributes the key must have, and those the mask may have.
TransportAttrs(k) ==
  IF k["eth.type"] \in {ETH_P_IP, ETH_P_IPV6} /\ k["ip.frag"] # OVS_FRAG_TYPE_LATER
  THEN PortAttrs(k) ELSE {}
HasNd(k) == "ICMPV6" \in TransportAttrs(k) /\ k["tp.src"] = NDISC
key_expected(k) == L3Attrs(k) \cup TransportAttrs(k) \cup IF HasNd(k) THEN {"ND"} ELSE {}

TupleAttr(k) == IF k["eth.type"] = ETH_P_IP THEN {"CT_ORIG_TUPLE_IPV4"}
                ELSE IF k["eth.type"] = ETH_P_IPV6 /\ ~HasNd(k) THEN {"CT_ORIG_TUPLE_IPV6"} ELSE {}
AnyTransport(m) == TransportAttrs(m.key)                            \* mutant
MaskTransport(m) == IF m.mask["ip.proto"] = 1 THEN TransportAttrs(m.key) ELSE {}
mask_allowed(m, key_attrs) ==
  (key_attrs \ (InnerAttrs \cup {"CT_ORIG_TUPLE_IPV4", "CT_ORIG_TUPLE_IPV6"}))
    \cup {"TUNNEL", "IN_PORT", "ETHERTYPE"}
    \cup MaskTransport(m)
    \cup (IF m.mask["eth.type"] = 1 THEN L3Attrs(m.key) \cup TupleAttr(m.key) ELSE {})
    \cup (IF HasNd(m.key) /\ m.mask["tp.src"] = 1 THEN {"ND"} ELSE {})

\* A mask of all ones.  A tunnel's fields count also where they are zero and left out.
AllOnes(x, payload) ==
  IF x = "TUNNEL" THEN [y \in DOMAIN payload |-> IF y \in {"OPTS_LEN", "AF"} THEN payload[y] ELSE 1]
  ELSE [s \in DOMAIN payload |-> 1]
Ones(msg) == [i \in DOMAIN msg |-> [x \in DOMAIN msg[i] |-> AllOnes(x, msg[i][x])]]

\* mask_set_nlattr() of a flow that comes without a mask.  Once it has been in the TUNNEL,
\* nlattr_set() goes on with the table of a tunnel's attributes: it takes ENCAP for a plain
\* attribute and overwrites the headers in it, and ICMP, which has the number of VXLAN_OPTS,
\* for a nested one, which it leaves as it is.
Overwritten(level) == IF level = <<>> THEN level ELSE "OVERWRITTEN" :> <<>>
nlattr_set(msg) ==
  [i \in DOMAIN msg |->
     IF "TUNNEL" \notin DOMAIN msg[1] THEN Ones(msg)[i]
     ELSE IF i > 1 THEN Overwritten(msg[i])
     ELSE [x \in DOMAIN msg[1] |-> IF x = "ICMP" THEN msg[1][x] ELSE Ones(msg)[1][x]]]

\* ovs_nla_get_match() of a key and a mask; mask <<>> is no mask.
NoWildcards(m) == IF m.key["tun_proto"] # 0 THEN Put(m, TRUE, Const(TunSlots, 1)) ELSE m
ovs_nla_get_match(key, mask) ==
  LET m0 == [key |-> Zero, mask |-> Zero, a |-> NoAttrs, attrs |-> {}, rest |-> key, err |-> FALSE]
      m1 == parse_vlan_from_nlattrs(parse_flow_nlattrs(m0, FALSE), FALSE)
      m2 == ovs_key_from_nlattrs(m1, FALSE)
      m3 == [IF mask = <<>> THEN NoWildcards(m2) ELSE m2 EXCEPT
               !.attrs = {}, !.rest = IF mask = <<>> THEN nlattr_set(key) ELSE mask]
      tci == Const({VlanSlot(t, f) : t \in {"vlan", "cvlan"}, f \in {"present", "vid"}}, 1)
      m4 == parse_vlan_from_nlattrs(Put(parse_flow_nlattrs(m3, TRUE), TRUE, tci), TRUE)
      m5 == ovs_key_from_nlattrs(m4, TRUE)
  IN IF m1.err \/ m2.err THEN Refuse(m0)
     ELSE IF m4.err \/ m5.err
             \/ ~(key_expected(m2.key) \subseteq m1.attrs)
             \/ ~(m4.attrs \subseteq mask_allowed(m5, m1.attrs))
     THEN Refuse(m2)
     ELSE m5

\* ovs_flow_mask_key(), and comparing a packet's key with a masked one.
Masked(k, mask) == [s \in Slots |-> IF mask[s] = 0 THEN 0 ELSE k[s]]
Matches(flow, k) == Masked(k, flow.mask) = flow.key
================================================================================
