-------------------------------- MODULE FlowSetup --------------------------------
(***************************************************************************)
(* A packet that no flow matches: the datapath tells userspace its key,    *)
(* userspace answers with a flow, or with actions for that packet alone,   *)
(* and the datapath executes the actions on it (datapath.c, flow_netlink.c,*)
(* actions.c).  Userspace is external: it echoes the key it was told, with *)
(* a mask of its own.                                                      *)
(***************************************************************************)
EXTENDS PacketActions

CONSTANTS
  Packets,        \* the packets a port receives
  IN_PORT,        \* that port
  MaskKinds,      \* the attributes a mask may have; "none": a flow without a mask
  ActionLists(_), \* the actions userspace may ask for with a mask
  MAX_PASSES      \* how often a packet is looked up

ASSUME PassesAssumption == MAX_PASSES \in Nat

VARIABLES
  pc,       \* where the packet is
  s,        \* the packet and its key
  told,     \* the key of the upcall, as a message
  m,        \* the key and the mask of the flow that is being set up
  flow,     \* the flow of the table: key, mask, acts and the actions that were asked for
  todo,     \* the actions still to execute
  frames,   \* what is continued when a sample is done
  passes

vars == <<pc, s, told, m, flow, todo, frames, passes>>

NoFlow == [key |-> NoAttrs, mask |-> NoAttrs, acts |-> <<>>, asked |-> <<>>]
NoMatch == [key |-> NoAttrs, mask |-> NoAttrs, kind |-> {}]

Init ==
  /\ pc = "idle" /\ passes = 0
  /\ s = [pkt |-> NoAttrs, key |-> NoAttrs, valid |-> TRUE, err |-> FALSE]
  /\ told = <<>> /\ m = NoMatch /\ flow = NoFlow /\ todo = <<>> /\ frames = <<>>

\* A packet, and once there is a flow, any that the flow matches.
ovs_vport_receive ==
  /\ pc \in {"idle", "installed"}
  /\ \E p \in Packets :
       LET key == ovs_flow_key_extract(p, IN_PORT) IN
       /\ pc = "installed" => Extractable(p) /\ Matches(flow, key)
       /\ IF Extractable(p) THEN pc' = "received" /\ s' = [s EXCEPT !.pkt = p, !.key = key]
          ELSE pc' = "dropped" /\ UNCHANGED s
  /\ UNCHANGED <<told, m, flow, todo, frames, passes>>

\* ovs_dp_process_packet(): the flow's actions, or an upcall.
ovs_dp_process_packet ==
  /\ pc = "received" /\ passes < MAX_PASSES
  /\ passes' = passes + 1
  /\ IF flow # NoFlow /\ Matches(flow, s.key)
     THEN pc' = "executing" /\ todo' = flow.acts /\ UNCHANGED told
     ELSE pc' = "missed" /\ told' = ovs_nla_put_key(s.key, s.key, FALSE) /\ UNCHANGED todo
  /\ UNCHANGED <<s, m, flow, frames>>

\* ovs_flow_cmd_new(): the key that was told and a mask of some of its attributes ...
OnesOf(i, kind) == [x \in DOMAIN told[i] \cap kind |-> Ones(told)[i][x]]
MaskOf(kind) ==
  IF "none" \in kind THEN <<>>
  ELSE IF "VLAN" \in kind \/ Len(told) = 1 THEN [i \in DOMAIN told |-> OnesOf(i, kind)]
  ELSE <<OnesOf(1, kind \ {"ETHERTYPE", "CT_ORIG_TUPLE_IPV4", "CT_ORIG_TUPLE_IPV6"})>>
ovs_flow_cmd_new ==
  /\ pc = "missed" /\ flow = NoFlow
  /\ \E kind \in MaskKinds : \E mask \in {MaskOf(kind)} : \E match \in {ovs_nla_get_match(told, mask)} :
       /\ m' = [key |-> match.key, mask |-> match.mask, kind |-> kind]
       /\ pc' = IF match.err THEN "refused" ELSE "matched"
  /\ UNCHANGED <<s, told, flow, todo, frames, passes>>

\* ... and actions, which are checked against the masked key.
UnmaskedKey == m.key                                                \* mutant
CheckedKey == Masked(m.key, m.mask)
set_actions ==
  /\ pc = "matched"
  /\ \E asked \in ActionLists(m.kind) :
       LET acts == ovs_nla_copy_actions(asked, CheckedKey) IN
       /\ Accepted(acts)
       /\ flow' = [key |-> Masked(m.key, m.mask), mask |-> m.mask, acts |-> acts, asked |-> asked]
  /\ pc' = "installed" /\ m' = NoMatch /\ told' = <<>> /\ passes' = 0
  /\ UNCHANGED <<s, todo, frames>>

\* ovs_packet_cmd_execute(): metadata from the attributes, the rest from the packet; of a
\* connection the packet has only what the attributes say.
Metadata == [x \in DOMAIN told[1] \cap (MetaAttrs \cup {"IN_PORT", "TUNNEL", "CT_ORIG_TUPLE_IPV4",
                                                        "CT_ORIG_TUPLE_IPV6", "ETHERNET", "ETHERTYPE"})
               |-> told[1][x]]
ovs_flow_key_extract_userspace ==
  LET match == metadata_from_nlattrs([key |-> Zero, mask |-> Zero, a |-> Metadata,
                                      attrs |-> DOMAIN Metadata, rest |-> <<>>, err |-> FALSE], FALSE)
  IN [match EXCEPT !.key = key_extract(s.pkt, @)]
Misplaced(key) ==
  \/ "CT_ORIG_TUPLE_IPV4" \in DOMAIN told[1] /\ key["eth.type"] # ETH_P_IP
  \/ "CT_ORIG_TUPLE_IPV6" \in DOMAIN told[1] /\ (key["eth.type"] # ETH_P_IPV6 \/ sw_flow_key_is_nd(key))
ovs_packet_cmd_execute ==
  /\ pc = "missed"
  /\ LET match == ovs_flow_key_extract_userspace IN
     IF match.err \/ UnknownState(Metadata) \/ Misplaced(match.key)
     THEN pc' = "not_executed" /\ UNCHANGED <<s, todo>>
     ELSE \E asked \in ActionLists({"none"}) :
            /\ Accepted(ovs_nla_copy_actions(asked, match.key))
            /\ todo' = ovs_nla_copy_actions(asked, match.key)
            /\ s' = [s EXCEPT !.key = match.key, !.pkt.prio = match.key["phy.priority"],
                              !.pkt.mark = match.key["phy.skb_mark"], !.pkt.ct = 0]
            /\ pc' = "executing"
  /\ UNCHANGED <<told, m, flow, frames, passes>>

-----------------------------------------------------------------------------
(* do_execute_actions() *)

Next1 == Head(todo)

execute ==
  /\ pc = "executing" /\ todo # <<>> /\ Next1.op \notin {"SAMPLE", "RECIRC"}
  /\ LET n == Execute(s, Next1) IN
     /\ s' = n
     /\ pc' = IF n.err THEN "freed" ELSE pc
     /\ todo' = IF n.err THEN <<>> ELSE Tail(todo)
  /\ UNCHANGED <<told, m, flow, frames, passes>>

\* sample(): the packet is copied unless the sample is the last action; the key too, unless
\* the actions of the sample were found not to change it.
sample ==
  /\ pc = "executing" /\ todo # <<>> /\ Next1.op = "SAMPLE"
  /\ \/ todo' = Next1.sub
        /\ frames' = <<[s |-> s, todo |-> Tail(todo), key |-> ~Next1.exec]>> \o frames
     \/ todo' = Tail(todo) /\ UNCHANGED frames                     \* not chosen
  /\ UNCHANGED <<pc, s, told, m, flow, passes>>

\* The end of the actions of a sample, or its failure, which has freed the copy.
sample_done ==
  /\ frames # <<>> /\ (pc = "freed" \/ (pc = "executing" /\ todo = <<>>))
  /\ LET f == Head(frames) IN
     /\ pc' = "executing" /\ todo' = f.todo
     /\ s' = IF f.key THEN f.s ELSE [f.s EXCEPT !.key = s.key, !.valid = s.valid]
  /\ frames' = Tail(frames)
  /\ UNCHANGED <<told, m, flow, passes>>

\* execute_recirc() as the last action: the packet is looked up again.
execute_recirc ==
  /\ pc = "executing" /\ Len(todo) = 1 /\ frames = <<>> /\ Next1.op = "RECIRC"
  /\ LET n == UpToDate(s) IN
     IF n.err THEN pc' = "freed" /\ s' = n
     ELSE pc' = "received" /\ s' = [n EXCEPT !.key["recirc_id"] = Next1.arg]
  /\ todo' = <<>> /\ told' = <<>>
  /\ UNCHANGED <<m, flow, frames, passes>>

consume_skb ==
  /\ pc = "executing" /\ todo = <<>> /\ frames = <<>>
  /\ pc' = "done"
  /\ UNCHANGED <<s, told, m, flow, todo, frames, passes>>

Next ==
  \/ ovs_vport_receive \/ ovs_dp_process_packet \/ ovs_flow_cmd_new \/ set_actions
  \/ ovs_packet_cmd_execute \/ execute \/ sample \/ sample_done \/ execute_recirc \/ consume_skb

Spec == Init /\ [][Next]_vars
-----------------------------------------------------------------------------
(* Properties *)

\* A tag, a label or an IPv6 header cut short, an 802.2 frame without its Ethernet header,
\* and what has the type but not the code of a neighbour discovery message and is tracked
\* have keys that cannot be told.
Untellable(p) ==
  \/ TypeOf(p) = ETH_P_802_2 /\ p.mac = MAC_PROTO_NONE
  \/ TypeOf(p) = ETH_P_8021Q /\ Len(p.tags) < 2
  \/ TypeOf(p) = ETH_P_IPV6 /\ p.l3 = "short"
  \/ TypeOf(p) = ETH_P_MPLS /\ p.labels = <<>>
  \/ TypeOf(p) = ETH_P_IPV6 /\ p.ct # 0 /\ p.tp[1] = NDISC /\ p.tp[2] # 0

\* A mask must have the Ethernet type where it has anything above, and an IP header where it
\* has ports.
Above(k) == L3Attrs(k) \cup CtAttrs(k)
WellFormed(kind) ==
  \/ "none" \in kind
  \/ /\ "ETHERTYPE" \in kind \/ kind \cap ({"VLAN"} \cup Above(s.key)) = {}
     /\ {"IPV4", "IPV6"} \subseteq kind \/ kind \cap L4Attrs(s.key) = {}

\* A packet that is sent back to be executed has the key it had, unless it is a tracked
\* ICMPv6 packet: extraction overwrites the original tuple of its connection.
LostTuple == s.key["ip.proto"] = NEXTHDR_ICMP /\ s.key["ct_orig_proto"] # 0
ExecutedAsTold ==
  LET match == ovs_flow_key_extract_userspace
  IN ~match.err /\ ~Misplaced(match.key) /\ ovs_nla_put_key(match.key, match.key, FALSE) = told

\* Without a mask, the flow of a tunnelled packet with a tag is refused, see nlattr_set().
Garbled == m.kind = {"none"} /\ s.key["tun_proto"] # 0 /\ s.pkt.tags # <<>>

\* The key of an upcall, sent back as the key of a flow, is accepted and read as the key it
\* was, and the flow is found by the packet, whatever attributes the mask has; sent back
\* with the packet, it is the key with which the packet is executed.
EchoInstalls ==
  /\ pc = "refused" => Untellable(s.pkt) \/ ~WellFormed(m.kind) \/ Garbled
  /\ pc = "installed" => Matches(flow, s.key)
  /\ pc = "missed" /\ s.valid /\ ~Untellable(s.pkt) /\ ~LostTuple => ExecutedAsTold

\* A flow that comes without a mask "is treated as exact match flow": of what the key says
\* nothing is wildcarded.
ExactWithoutMask ==
  pc = "matched" /\ m.kind = {"none"} =>
    \A i \in DOMAIN told : \A x \in DOMAIN told[i] \ {"TUNNEL", "ETHERTYPE", "VLAN"} :
      \A slot \in AttrSlots[x] : m.mask[slot] = 1

\* What a dumped mask does not say: that there need be no tunnel, that a tag may be of any
\* type, that a tunnel without a key must have the key 0, and anything of neighbour discovery.
Forgotten == {"tun_proto", "vlan.tpid", "cvlan.tpid"} \cup (IF m.mask["TUNNEL_KEY"] = 0 THEN {"tun_id"} ELSE {})
               \cup (IF HasNd(m.key) THEN {"l3u"} ELSE {})
Same(f, g) == \A x \in Slots \ Forgotten : f[x] = g[x]
DumpedKeys == {m.key} \cup IF m.mask["eth.type"] = 1 THEN {Masked(m.key, m.mask)} ELSE {}
Restored(key) ==
  \A masked \in {Masked(m.key, m.mask)} :
    \A put \in {ovs_nla_put_key(key, key, FALSE)}, putMask \in {ovs_nla_put_key(masked, m.mask, TRUE)} :
      \A again \in {ovs_nla_get_match(put, putMask)} :
        ~again.err /\ Same(again.mask, m.mask) /\ Same(Masked(again.key, again.mask), masked)
\* A flow that is dumped and set up again from the dump is the same flow, with the key that
\* identifies it or, if that has an Ethernet type, with its masked key, and with the actions
\* that were asked for.
DumpRestores ==
  /\ pc = "matched" => \A key \in DumpedKeys : Restored(key)
  /\ flow # NoFlow => ovs_nla_put_actions(flow.acts) = flow.asked

\* An action that was accepted finds the headers it works on.
Fits(a, p) ==
  CASE a.op = "POP_MPLS" -> p.labels # <<>>
    [] a.op \in {"PUSH_VLAN", "POP_VLAN", "POP_ETH"} -> p.mac = MAC_PROTO_ETHERNET
    [] a.op = "PUSH_ETH" -> p.mac = MAC_PROTO_NONE
    [] a.op = "SET_TO_MASKED" /\ a.attr = "ETHERNET" -> p.mac = MAC_PROTO_ETHERNET
    [] a.op = "SET_TO_MASKED" /\ a.attr = "MPLS" -> p.labels # <<>>
    [] a.op = "SET_TO_MASKED" /\ a.attr = "IPV4" -> p.type = ETH_P_IP /\ p.labels = <<>>
    [] a.op = "SET_TO_MASKED" /\ a.attr = "IPV6" -> p.type = ETH_P_IPV6 /\ p.labels = <<>>
    [] a.op = "SET_TO_MASKED" /\ a.attr \in {"TCP", "UDP", "SCTP"} ->
         p.type \in {ETH_P_IP, ETH_P_IPV6} /\ p.labels = <<>> /\ p.proto = Transport(a.attr)
    [] OTHER -> TRUE
ActionsFit == pc = "executing" /\ todo # <<>> => Fits(Next1, s.pkt) \/ s.pkt.type = ETH_P_MPLS

\* While the key counts as valid it says what the packet now is, but for what has been
\* written to ports of a later fragment.
KeyUpToDate ==
  LET again == key_extract(s.pkt, s.key) IN
  pc \in {"executing", "received"} /\ s.valid =>
    \A x \in Slots : \/ again[x] = s.key[x]
                     \/ x = "l3u" /\ s.key["ct_orig_proto"] # 0
                     \/ x \in TpSlots /\ s.pkt.frag = OVS_FRAG_TYPE_LATER
================================================================================
