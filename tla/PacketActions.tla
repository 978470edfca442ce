------------------------------ MODULE PacketActions ------------------------------
(***************************************************************************)
(* What an action does to a packet and to the packet's key (actions.c).    *)
(*                                                                         *)
(* s is a record: pkt; key; valid, FALSE when the key has been declared    *)
(* out of date (SW_FLOW_KEY_INVALID); err, when the action failed and the  *)
(* packet is freed.                                                        *)
(***************************************************************************)
EXTENDS FlowActions

invalidate_flow_key(s) == [s EXCEPT !.valid = FALSE]
Fail(s) == [s EXCEPT !.err = TRUE]

\* The headers an action works on, and whether they can be written.
HasIp(p, type) == p.type = type /\ p.labels = <<>> /\ p.l3 # "short"
HasTransport(p, proto) ==
  /\ HasIp(p, ETH_P_IP) \/ HasIp(p, ETH_P_IPV6)
  /\ p.proto = proto /\ p.l4 = "ok" /\ p.frag # OVS_FRAG_TYPE_LATER

push_mpls(s, lse) ==
  invalidate_flow_key([s EXCEPT !.pkt.labels = <<lse>> \o @])

\* pop_mpls(): the type of what is uncovered is taken from the action; under it, another
\* label is no header.
Uncovered(p, type) ==
  LET rest == Tail(p.labels)
  IN IF rest # <<>> /\ type # ETH_P_MPLS THEN [p EXCEPT !.labels = <<>>, !.type = type, !.l3 = "short"]
     ELSE IF rest = <<>> /\ type # p.type THEN [p EXCEPT !.labels = rest, !.type = type, !.l3 = "short"]
     ELSE [p EXCEPT !.labels = rest]
pop_mpls(s, type) ==
  IF s.pkt.labels = <<>> THEN Fail(s)
  ELSE invalidate_flow_key([s EXCEPT !.pkt = Uncovered(s.pkt, type)])

set_mpls(s, lse) ==
  IF s.pkt.labels = <<>> THEN Fail(s)
  ELSE [s EXCEPT !.pkt.labels = <<lse>> \o Tail(@), !.key["ip.tos"] = lse]

\* The next tag is moved beside the packet, if there is one.
pop_still_valid(s) ==                                               \* mutant
  [s EXCEPT !.pkt.tags = IF @ = <<>> THEN @ ELSE Tail(@), !.key = Const(VlanSlots("vlan"), 0) @@ @]
pop_vlan(s) ==
  LET popped == [s EXCEPT !.pkt.tags = IF @ = <<>> THEN @ ELSE Tail(@)]
  IN IF popped.pkt.tags # <<>> THEN invalidate_flow_key(popped)
     ELSE [popped EXCEPT !.key = Const(VlanSlots("vlan"), 0) @@ @]
push_vlan(s, vid) ==
  LET pushed == [s EXCEPT !.pkt.tags = <<vid>> \o @]
  IN IF s.pkt.tags # <<>> THEN invalidate_flow_key(pushed)
     ELSE [pushed EXCEPT !.key = Tag("vlan", <<vid>>, 1) @@ @]

set_eth_addr(s, v) == [s EXCEPT !.pkt.eth = v, !.key["eth.addr"] = v]

pop_eth(s) == invalidate_flow_key([s EXCEPT !.pkt.mac = MAC_PROTO_NONE, !.key["mac_proto"] = MAC_PROTO_NONE])
push_eth(s, v) ==
  invalidate_flow_key([s EXCEPT !.pkt.mac = MAC_PROTO_ETHERNET, !.pkt.eth = v,
                                !.key["mac_proto"] = MAC_PROTO_ETHERNET])

set_ipv4(s, v) ==
  IF ~HasIp(s.pkt, ETH_P_IP) THEN Fail(s) ELSE [s EXCEPT !.pkt.addr = v, !.key["l3a"] = v]
set_ipv6(s, v) ==
  IF ~HasIp(s.pkt, ETH_P_IPV6) THEN Fail(s) ELSE [s EXCEPT !.pkt.addr = v, !.key["l3a"] = v]

\* set_tcp(), set_udp(), set_sctp(): the ports.  In a later fragment they are payload.
SetPorts(s, v) ==
  LET key == [s.key EXCEPT !["tp.src"] = v, !["tp.dst"] = v]
  IN IF s.pkt.l4 # "ok" THEN Fail(s)
     ELSE IF s.pkt.frag = OVS_FRAG_TYPE_LATER THEN [s EXCEPT !.key = key]
     ELSE [s EXCEPT !.pkt.tp = <<v, v>>, !.key = key]

\* execute_masked_set_action(); of a mask of 0 nothing is left but to find the header.
execute_masked_set_action(s, a) ==
  LET to(old) == IF a.mask = 1 THEN a.arg ELSE old IN
  CASE a.attr = "PRIORITY" ->
         [s EXCEPT !.pkt.prio = to(@), !.key["phy.priority"] = to(s.pkt.prio)]
    [] a.attr = "SKB_MARK" -> [s EXCEPT !.pkt.mark = to(@), !.key["phy.skb_mark"] = to(s.pkt.mark)]
    [] a.attr = "ETHERNET" -> set_eth_addr(s, to(s.pkt.eth))
    [] a.attr = "IPV4" -> set_ipv4(s, to(s.pkt.addr))
    [] a.attr = "IPV6" -> set_ipv6(s, to(s.pkt.addr))
    [] a.attr \in {"TCP", "UDP", "SCTP"} -> SetPorts(s, to(s.pkt.tp[1]))
    [] a.attr = "MPLS" -> set_mpls(s, to(IF s.pkt.labels = <<>> THEN 0 ELSE Head(s.pkt.labels)))
    [] OTHER -> Fail(s)                                            \* CT_MARK, CT_LABELS

\* ovs_flow_key_update()
ovs_flow_key_update(s) ==
  IF ~Extractable(s.pkt) THEN Fail(s)
  ELSE [s EXCEPT !.key = key_extract(s.pkt, @), !.valid = TRUE]
UpToDate(s) == IF s.valid THEN s ELSE ovs_flow_key_update(s)

\* What ovs_ct_execute() leaves in the key: of a packet that cannot be tracked, a state.
Family(p) ==
  CASE TypeOf(p) = ETH_P_IP /\ p.l3 # "short" -> AF_INET
    [] TypeOf(p) = ETH_P_IPV6 /\ p.l3 # "short" -> AF_INET6
    [] OTHER -> 0
Tracked(s) ==
  [s EXCEPT !.pkt.ct = Family(s.pkt), !.key = __ovs_ct_update_key(s.key, 1, Family(s.pkt))]

\* One action of do_execute_actions() that is not the sending of a copy.
Execute(s, a) ==
  CASE a.op = "HASH" -> [s EXCEPT !.key["ovs_flow_hash"] = 1, !.pkt.hash = 1]
    [] a.op = "PUSH_MPLS" -> push_mpls(s, a.arg)
    [] a.op = "POP_MPLS" -> pop_mpls(s, a.arg)
    [] a.op = "PUSH_VLAN" -> push_vlan(s, a.arg)
    [] a.op = "POP_VLAN" -> pop_vlan(s)
    [] a.op = "PUSH_ETH" -> push_eth(s, a.arg)
    [] a.op = "POP_ETH" -> pop_eth(s)
    [] a.op \in {"SET_MASKED", "SET_TO_MASKED"} -> execute_masked_set_action(s, a)
    [] a.op = "CT" -> IF UpToDate(s).err THEN Fail(s) ELSE Tracked(UpToDate(s))
    [] OTHER -> s
================================================================================
