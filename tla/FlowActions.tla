------------------------------- MODULE FlowActions -------------------------------
(***************************************************************************)
(* The actions of a flow: which lists of them a datapath accepts for a key *)
(* and how it keeps and reports them (flow_netlink.c), and what each does  *)
(* to a packet and to the packet's key (actions.c).                        *)
(*                                                                         *)
(* An action is a record: op, attr (the key attribute a SET is about), arg *)
(* (the port, probability, Ethernet type, tag, label or value), mask and   *)
(* proto and frag (the mask of a SET_MASKED; of an IP header the protocol  *)
(* and the fragment type that are given, or whose mask is set), tun (the   *)
(* attributes of a tunnel) and sub (the actions of a SAMPLE).              *)
(***************************************************************************)
EXTENDS FlowNetlink

Action(op) == [op |-> op, attr |-> "NONE", arg |-> 0, mask |-> 1, proto |-> 0, frag |-> 0,
               tun |-> NoAttrs, sub |-> <<>>, exec |-> FALSE]
Refused == <<Action("REFUSED")>>
Accepted(acts) == acts # Refused

-----------------------------------------------------------------------------
(* Validation.  v is what __ovs_nla_copy_actions() knows of the packet     *)
(* when it comes to an action: its Ethernet type, whether it has a tag,    *)
(* and what it starts with.                                                *)

actions_may_change_flow(acts) ==
  \E i \in DOMAIN acts : acts[i].op \notin {"OUTPUT", "RECIRC", "TRUNC", "USERSPACE"}

\* validate_set()
RightProto(a, key, masked) ==
  IF masked THEN a.proto = 0 /\ a.frag = 0 ELSE a.proto = key["ip.proto"] /\ a.frag = key["ip.frag"]
Transport(attr) == CASE attr = "TCP" -> IPPROTO_TCP [] attr = "UDP" -> IPPROTO_UDP
                     [] attr = "SCTP" -> IPPROTO_SCTP
validate_set(a, key, v, masked) ==
  /\ masked => a.arg = 0 \/ a.mask = 1
  /\ CASE a.attr \in {"PRIORITY", "SKB_MARK", "CT_MARK", "CT_LABELS"} -> TRUE
       [] a.attr = "ETHERNET" -> v.mac_proto = MAC_PROTO_ETHERNET
       [] a.attr = "TUNNEL" -> ~eth_p_mpls(v.eth_type) /\ ~masked
       [] a.attr = "IPV4" -> v.eth_type = ETH_P_IP /\ RightProto(a, key, masked)
       [] a.attr = "IPV6" -> v.eth_type = ETH_P_IPV6 /\ RightProto(a, key, masked)
       [] a.attr \in {"TCP", "UDP", "SCTP"} ->
            v.eth_type \in {ETH_P_IP, ETH_P_IPV6} /\ key["ip.proto"] = Transport(a.attr)
       [] a.attr = "MPLS" -> eth_p_mpls(v.eth_type)
       [] OTHER -> FALSE

\* ovs_ct_copy_action(): the family is that of the key.
CtFamily(key) == key["eth.type"] \in {ETH_P_IP, ETH_P_IPV6}

MplsPayload == {ETH_P_IP, ETH_P_IPV6, ETH_P_ARP, ETH_P_RARP, ETH_P_MPLS}
Valid(a, key, v) ==
  CASE a.op = "USERSPACE" -> a.arg # 0                             \* validate_userspace()
    [] a.op = "OUTPUT" -> a.arg < DP_MAX_PORTS
    [] a.op \in {"TRUNC", "HASH", "RECIRC"} -> TRUE
    [] a.op \in {"POP_VLAN", "PUSH_VLAN"} -> v.mac_proto = MAC_PROTO_ETHERNET
    [] a.op = "PUSH_MPLS" -> v.tci = 0 /\ v.eth_type \in MplsPayload
    [] a.op = "POP_MPLS" -> v.tci = 0 /\ eth_p_mpls(v.eth_type)
    [] a.op = "SET" -> validate_set(a, key, v, FALSE)
    [] a.op = "SET_MASKED" -> validate_set(a, key, v, TRUE)
    [] a.op = "CT" -> CtFamily(key)
    [] a.op = "PUSH_ETH" -> v.mac_proto = MAC_PROTO_NONE
    [] a.op = "POP_ETH" -> v.mac_proto = MAC_PROTO_ETHERNET /\ v.tci = 0
    [] OTHER -> FALSE

\* What it knows after the action: POP_MPLS says nothing of what it uncovers; pushing and
\* popping an Ethernet header leaves mac_proto as it was.
MplsStays(a, v) ==                                                 \* mutant
  CASE a.op = "POP_VLAN" -> [v EXCEPT !.tci = 0]
    [] a.op = "PUSH_VLAN" -> [v EXCEPT !.tci = 1]
    [] a.op = "PUSH_MPLS" -> [v EXCEPT !.eth_type = ETH_P_MPLS]
    [] OTHER -> v
After(a, v) ==
  CASE a.op = "POP_VLAN" -> [v EXCEPT !.tci = 0]
    [] a.op = "PUSH_VLAN" -> [v EXCEPT !.tci = 1]
    [] a.op = "PUSH_MPLS" -> [v EXCEPT !.eth_type = ETH_P_MPLS]
    [] a.op = "POP_MPLS" -> [v EXCEPT !.eth_type = 0]
    [] OTHER -> v

\* validate_and_copy_set_tun(): ip_tun_from_nlattr() into a match of its own.
TunMatch(a) ==
  ip_tun_from_nlattr([key |-> Zero, mask |-> Zero, a |-> "TUNNEL" :> a.tun, attrs |-> {"TUNNEL"},
                      rest |-> <<>>, err |-> FALSE], FALSE)

\* An action as it is kept: a SET as a masked one, a tunnel as the key it stands for.
Kept(a) ==
  IF a.op = "SET" /\ a.attr = "TUNNEL" THEN [a EXCEPT !.attr = "TUNNEL_INFO", !.tun = TunMatch(a).key]
  ELSE IF a.op = "SET" THEN [a EXCEPT !.op = "SET_TO_MASKED"] ELSE a

\* __ovs_nla_copy_actions() of the actions that follow done; validate_and_copy_sample()
\* copies those of a sample with what is known before it.
RECURSIVE __ovs_nla_copy_actions(_, _, _)
Copy(a, last, key, v) ==
  IF a.op # "SAMPLE"
  THEN IF Valid(a, key, v) /\ (a.attr = "TUNNEL" => ~TunMatch(a).err) THEN <<Kept(a)>> ELSE Refused
  ELSE LET sub == __ovs_nla_copy_actions(a.sub, key, v)
       IN IF ~Accepted(sub) THEN Refused
          ELSE <<[a EXCEPT !.sub = sub, !.exec = last \/ ~actions_may_change_flow(a.sub)]>>
__ovs_nla_copy_actions(acts, key, v) ==
  IF acts = <<>> THEN <<>>
  ELSE LET a == Copy(Head(acts), Len(acts) = 1, key, v)
           rest == __ovs_nla_copy_actions(Tail(acts), key, After(Head(acts), v))
       IN IF Accepted(a) /\ Accepted(rest) THEN a \o rest ELSE Refused

ovs_nla_copy_actions(acts, key) ==
  __ovs_nla_copy_actions(acts, key, [mac_proto |-> key["mac_proto"], eth_type |-> key["eth.type"],
                                     tci |-> key[VlanSlot("vlan", "present")]])

\* ovs_nla_put_actions(): the actions as they are reported.
RECURSIVE ovs_nla_put_actions(_)
set_action_to_attr(a) ==
  [a EXCEPT !.attr = "TUNNEL",
            !.tun = __ip_tun_to_nlattr(a.tun, a.tun["tun_opts_len"], a.tun["tun_proto"])]
Reported(a) ==
  CASE a.op = "SET" -> set_action_to_attr(a)
    [] a.op = "SET_TO_MASKED" -> [a EXCEPT !.op = "SET"]
    [] a.op = "SAMPLE" -> [a EXCEPT !.sub = ovs_nla_put_actions(a.sub), !.exec = FALSE]
    [] OTHER -> a
ovs_nla_put_actions(acts) == [i \in DOMAIN acts |-> Reported(acts[i])]
================================================================================
