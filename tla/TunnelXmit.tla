----------------------------- MODULE TunnelXmit -----------------------------
(***************************************************************************)
(* Transmission through a tunnel port, in each of the tunnel drivers: what *)
(* a packet holds (itself, a route, the socket it read from the device)    *)
(* and what is given back by whom when a step fails, while the device is   *)
(* stopped and its sockets are released (linux/compat: vxlan.c, geneve.c,  *)
(* lisp.c, stt.c, ip_gre.c).                                               *)
(*                                                                         *)
(* A driver is the sequence of the steps of its transmit function.  Each   *)
(* may fail; then the packet is freed by the step or by the function, and  *)
(* the route is put by the one or the other.  Datapaths send without a     *)
(* look at the state of the device.  Routes and kernel sockets are         *)
(* external.                                                               *)
(***************************************************************************)
EXTENDS Naturals, Sequences, FiniteSets

CONSTANTS
  PACKETS,
  DRIVERS,          \* those of Driver below that are looked at
  MAX_SEGS,         \* packets into which handle_offloads() and push_stt_header() cut one
  MAX_SOCKS,        \* how often the device gets a socket
  LOOKUP_NET        \* HAVE_IPV6_DST_LOOKUP_NET: the kernel's ipv6_dst_lookup() takes a net

VARIABLES
  drv,     \* the driver
  dev,     \* the socket the device points to (0: none), and how many there have been
  live,    \* the sockets not yet released
  stop,    \* geneve_sock_release() and the like: the socket to release, and packets waited for
  pk,      \* the packets
  held     \* references to routes, and copies of a packet, that are not given back

vars == <<drv, dev, live, stop, pk, held>>

Out == [at |-> 0, sock |-> 0, segs |-> 0, list |-> 0]
None == [skb |-> 0, rt |-> 0]
Init ==
  /\ drv \in DRIVERS
  /\ dev = [sock |-> 1, made |-> 1] /\ live = {1}
  /\ stop = [sock |-> 0, waits |-> {}]
  /\ pk = [p \in PACKETS |-> Out]
  /\ held = [p \in PACKETS |-> None]

-----------------------------------------------------------------------------
(* The drivers.  A step: what it does, and what it or its caller gives     *)
(* back when it fails.                                                     *)

Step(does, skb, rt) == [does |-> does, skb |-> skb, rt |-> rt]

\* what a function does to the packet: the packet is dropped, and its route put
Look == Step("check", 1, 0)
Read == Step("read", 1, 0)
Work == Step("work", 1, 1)

\* rpl_vxlan_xmit() looks for instructions and vxlan_xmit_one() for a socket of the
\* address family; a circular route; vxlan_build_skb() frees the packet itself
rpl_vxlan_xmit == Look
vxlan_xmit_one == Read
vxlan_get_route == Step("route", 1, 0)
CircularRoute == Work
vxlan_build_skb == Work
vxlan4_xmit == <<rpl_vxlan_xmit, vxlan_xmit_one, vxlan_get_route, CircularRoute, vxlan_build_skb>>

\* to an IPv6 address: vxlan6_get_route() looks at the device's socket again, which older
\* kernels' ipv6_dst_lookup() takes, read a third time
vxlan6_get_route == <<Step("reread", 1, 0), Step("lookup", 1, 0)>>
vxlan6_xmit ==
  <<rpl_vxlan_xmit, vxlan_xmit_one>> \o vxlan6_get_route \o <<CircularRoute, vxlan_build_skb>>

\* geneve_xmit_skb() looks for a socket and instructions, geneve_get_v4_rt() for the socket
\* again; geneve_build_skb() puts the route itself: the headroom, the offloads
geneve_get_v4_rt == <<Step("reread", 1, 0), Step("route", 1, 0)>>
geneve_build_skb == <<Work, Work>>
geneve_xmit_skb == <<Read, Look>> \o geneve_get_v4_rt \o geneve_build_skb

\* the IPv6 socket geneve_get_v6_dst() reads again is the one it uses
geneve_get_v6_dst == <<Step("reread", 1, 0), Step("route", 1, 0)>>
geneve6_build_skb == <<Work, Work>>
geneve6_xmit_skb == <<Read, Look>> \o geneve_get_v6_dst \o geneve6_build_skb

\* rpl_lisp_xmit(): instructions, socket, protocol, route, headroom, a packet already
\* encapsulated, and the offloads, after which the route is forgotten
lisp_get_rt == Step("route", 1, 0)
__udp_tunnel_handle_offloads == Step("offload", 1, 0)
rpl_lisp_xmit == <<Look, Read, Look, lisp_get_rt, Work, Work, __udp_tunnel_handle_offloads>>

\* rpl_gre_fb_xmit(): instructions, route, headroom, VLAN tag, offloads
gre_get_rt == Step("route", 1, 0)
rpl_gre_handle_offloads == Work
rpl_gre_fb_xmit == <<Look, gre_get_rt, Work, Work, rpl_gre_handle_offloads>>

\* ovs_stt_xmit(): instructions, route; stt_xmit_skb(): the headroom, stt_can_offload(), and
\* handle_offloads(), which frees the packet itself
stt_get_rt == Step("route", 1, 0)
stt_can_offload == Work
handle_offloads == Work
ovs_stt_xmit == <<Look, stt_get_rt, Work, stt_can_offload, handle_offloads>>

Driver == [vxlan4 |-> vxlan4_xmit, vxlan6 |-> vxlan6_xmit, geneve4 |-> geneve_xmit_skb,
           geneve6 |-> geneve6_xmit_skb, lisp |-> rpl_lisp_xmit, gre |-> rpl_gre_fb_xmit, stt |-> ovs_stt_xmit]
Steps == Driver[drv]
HasSocket == drv \notin {"gre", "stt"}

\* The drivers are those there are; vxlan6_get_route() finds a socket where it looks for one
\* a third time only if the kernel's ipv6_dst_lookup() takes a net.
XmitAssumption ==
  /\ DRIVERS \subseteq DOMAIN Driver
  /\ MAX_SEGS \in Nat
  /\ LOOKUP_NET \/ "vxlan6" \notin DRIVERS

-----------------------------------------------------------------------------
(* A packet *)

Now(p) == Steps[pk[p].at]
At(p) == pk[p].at \in 1..Len(Steps)

\* ovs_vport_send()
ovs_vport_send(p) ==
  /\ pk[p] = Out
  /\ pk' = [pk EXCEPT ![p].at = 1]
  /\ held' = [held EXCEPT ![p] = [skb |-> 1, rt |-> 0]]
  /\ UNCHANGED <<drv, dev, live, stop>>

Leave(p) == stop' = [stop EXCEPT !.waits = @ \ {p}]

\* What the packet reads of the device; a lookup that takes the socket reads it once more
\* and uses it.
Sees(p) ==
  CASE Now(p).does \in {"read", "reread"} -> dev.sock # 0
    [] OTHER -> TRUE

forward(p) ==
  /\ At(p) /\ Sees(p)
  /\ pk' = [pk EXCEPT ![p].at = @ + 1, ![p].sock = IF Now(p).does = "read" THEN dev.sock ELSE @]
  /\ held' = [held EXCEPT ![p].rt = @ + IF Now(p).does \in {"route", "lookup"} THEN 1 ELSE 0]
  /\ UNCHANGED <<drv, dev, live, stop>>

\* A failure; what is not seen fails.
Fails(p) == Now(p).does \notin {"read", "reread"} \/ ~Sees(p)
drop(p) ==
  /\ At(p) /\ Fails(p)
  /\ pk' = [pk EXCEPT ![p] = Out]
  /\ held' = [held EXCEPT ![p] = [skb |-> held[p].skb - Now(p).skb, rt |-> held[p].rt - Now(p).rt]]
  /\ Leave(p)
  /\ UNCHANGED <<drv, dev, live>>

\* udp_tunnel_xmit_skb() and iptunnel_xmit() take the packet and the route.
AtEnd(p) == pk[p].at = Len(Steps) + 1
xmit(p) ==
  /\ AtEnd(p) /\ drv # "stt"
  /\ pk' = [pk EXCEPT ![p] = Out]
  /\ held' = [held EXCEPT ![p] = [skb |-> held[p].skb - 1, rt |-> held[p].rt - 1]]
  /\ Leave(p)
  /\ UNCHANGED <<drv, dev, live>>

\* The rest of stt_xmit_skb(): the packet may have been cut; ...
stt_segments(p) ==
  /\ AtEnd(p) /\ drv = "stt" /\ pk[p].segs = 0
  /\ \E n \in 1..MAX_SEGS :
       /\ pk' = [pk EXCEPT ![p].segs = n]
       /\ held' = [held EXCEPT ![p].skb = n]
  /\ UNCHANGED <<drv, dev, live, stop>>

\* ... before each but the last the route is taken once more; push_stt_header() frees what
\* it cannot prepare, or makes a list of it, of which ...
CloneAlways(n) == 1                                                 \* mutant
Clones(n) == IF n > 1 THEN 1 ELSE 0
push_stt_header(p) ==
  LET last == pk[p].segs = 1
      rt == held[p].rt + Clones(pk[p].segs)
  IN
  /\ pk[p].segs > 0 /\ pk[p].list = 0
  /\ \/ /\ held' = [held EXCEPT ![p] = [skb |-> @.skb - 1, rt |-> rt - 1]]
        /\ pk' = [pk EXCEPT ![p] = IF last THEN Out ELSE [pk[p] EXCEPT !.segs = @ - 1]]
        /\ IF last THEN Leave(p) ELSE UNCHANGED stop
     \/ /\ \E n \in 1..MAX_SEGS :
             /\ held' = [held EXCEPT ![p] = [skb |-> @.skb - 1 + n, rt |-> rt]]
             /\ pk' = [pk EXCEPT ![p].list = n]
        /\ UNCHANGED stop
  /\ UNCHANGED <<drv, dev, live>>

\* ... skb_list_xmit() sends each, with a route of its own.
skb_list_xmit(p) ==
  LET n == pk[p].list
      last == n = 1 /\ pk[p].segs = 1
  IN
  /\ n > 0
  /\ held' = [held EXCEPT ![p] = [skb |-> @.skb - 1, rt |-> @.rt + Clones(n) - 1]]
  /\ pk' = [pk EXCEPT ![p] = IF last THEN Out
                             ELSE [pk[p] EXCEPT !.list = n - 1, !.segs = IF n = 1 THEN @ - 1 ELSE @]]
  /\ IF last THEN Leave(p) ELSE UNCHANGED stop
  /\ UNCHANGED <<drv, dev, live>>

-----------------------------------------------------------------------------
(* The device *)

\* It is stopped: it forgets its socket, and the packets that may have read it are waited
\* for (synchronize_net()) ...
sock_release ==
  /\ HasSocket /\ dev.sock # 0 /\ stop.sock = 0
  /\ dev' = [dev EXCEPT !.sock = 0]
  /\ stop' = [sock |-> dev.sock, waits |-> {p \in PACKETS : pk[p] # Out}]
  /\ UNCHANGED <<drv, live, pk, held>>

\* ... before the socket is released.
udp_tunnel_sock_release ==
  /\ stop.sock # 0 /\ stop.waits = {}
  /\ live' = live \ {stop.sock}
  /\ stop' = [stop EXCEPT !.sock = 0]
  /\ UNCHANGED <<drv, dev, pk, held>>

\* The device is opened again.
open ==
  /\ HasSocket /\ dev.sock = 0 /\ stop.sock = 0 /\ dev.made < MAX_SOCKS
  /\ dev' = [sock |-> dev.made + 1, made |-> dev.made + 1]
  /\ live' = live \cup {dev.made + 1}
  /\ UNCHANGED <<drv, stop, pk, held>>

Next ==
  \/ \E p \in PACKETS :
       \/ ovs_vport_send(p) \/ forward(p) \/ drop(p) \/ xmit(p)
       \/ stt_segments(p) \/ push_stt_header(p) \/ skb_list_xmit(p)
  \/ sock_release \/ udp_tunnel_sock_release \/ open

Spec == Init /\ [][Next]_vars
-----------------------------------------------------------------------------
(* Properties *)

\* Whatever fails, of a packet that is gone nothing is left and nothing was given back
\* twice, and while it is there it holds at least itself and, once it is routed, its route.
\* Of what rpl_lisp_xmit() forgets the route remains.
Routed(p) == \E i \in 1..(pk[p].at - 1) : Steps[i].does \in {"route", "lookup"}
GivenBackOnce ==
  \A p \in PACKETS :
    IF pk[p] = Out THEN held[p].skb = 0 /\ held[p].rt \in (IF drv = "lisp" THEN {0, 1} ELSE {0})
    ELSE held[p].skb > 0 /\ (Routed(p) => held[p].rt > 0)

\* The socket a packet has read is not released while the packet is on its way, and a
\* lookup that reads the device's socket again still finds one.
SocketUsable ==
  \A p \in PACKETS :
    /\ pk[p].sock # 0 => pk[p].sock \in live
    /\ At(p) /\ Now(p).does = "lookup" /\ ~LOOKUP_NET => dev.sock # 0

XmitInv == GivenBackOnce /\ SocketUsable
=============================================================================
