------------------------------- MODULE Vxlan -------------------------------
(***************************************************************************)
(* The VXLAN ports' driver (linux/compat/vxlan.c, vport-vxlan.c): flow-    *)
(* based devices, each with sockets of its own (no_share), an IPv6 one     *)
(* bound first and an IPv4 one; a packet is received by a socket, which    *)
(* finds the device on its list.                                           *)
(*                                                                         *)
(* Devices change under RTNL, one operation at a time, in steps between    *)
(* which packets are received; waits for grace periods are steps of their  *)
(* own.  Devices can be created by ports only (vxlan_newlink() refuses).   *)
(* The release of a net device by the kernel and the binding of UDP        *)
(* sockets are external.                                                   *)
(***************************************************************************)
EXTENDS Naturals, FiniteSets, Hlist

CONSTANTS DEVS, SOCKS, PACKETS, PORTS, NONE,
          EXTS,        \* of "plain", "gbp", "gpe": what ports and packets use
          TAKEN,       \* <<family, port>>: bound by other programs
          DELETE_DOWN  \* a device taken down by hand may be deleted so

VARIABLES
    ipv6,     \* whether the kernel has IPv6
    net,      \* the namespace: "live" or "exiting"
    dev,      \* the devices
    listed,   \* vxlan_net.vxlan_list
    sock,     \* the struct vxlan_sock's with their sockets
    vni,      \* vni_list of each socket and the devices' nodes
    op,       \* the operation in progress under RTNL
    pk,       \* the packets being received
    wait,     \* those a grace period waits for
    wild      \* a list operation wrote to freed memory

vars == <<ipv6, net, dev, listed, sock, vni, op, pk, wait, wild>>

NoDev == [state |-> "none", port |-> NONE, ext |-> NONE, vn4 |-> NONE, vn6 |-> NONE]
NoSock == [state |-> "none", family |-> 0, port |-> NONE, ext |-> NONE,
           refcnt |-> 0, data |-> FALSE]
Idle == [at |-> "idle", dev |-> NONE, s4 |-> NONE, s6 |-> NONE, then |-> "idle"]
Outside == [at |-> "outside", vs |-> NONE, dev |-> NONE]

Synchronize == wait' = {p \in PACKETS : pk[p].at # "outside"}
Synchronized == wait = {}

Init ==
    /\ ipv6 \in BOOLEAN /\ net = "live" /\ listed = {} /\ wild = FALSE /\ wait = {}
    /\ dev = [d \in DEVS |-> NoDev]
    /\ sock = [s \in SOCKS |-> NoSock]
    /\ vni = EmptyLists(SOCKS, DEVS, NONE)
    /\ op = Idle
    /\ pk = [p \in PACKETS |-> Outside]

Busy(d, at, then) == [Idle EXCEPT !.at = at, !.dev = d, !.then = then]

-----------------------------------------------------------------------------
(* Sockets *)

\* memory nothing points to any more may be given out again
Unreferenced(s) ==
    /\ sock[s].state # "live"
    /\ \A d \in DEVS : vni.pprev[d] # s
    /\ \A p \in PACKETS : pk[p].vs # s

\* vxlan_create_sock(): binding fails when the port is taken
CanBind(family, port) ==
    /\ <<family, port>> \notin TAKEN
    /\ \A s \in SOCKS : ~(sock[s].state = "live" /\ sock[s].family = family
                                                 /\ sock[s].port = port)

\* vxlan_socket_create(), for a device that does not share its sockets; then
\* vxlan_vs_add_dev()
__vxlan_sock_add(d, family) ==
    LET s == CHOOSE x \in SOCKS : Unreferenced(x)
    IN  /\ sock' = [sock EXCEPT ![s] =
                      [state |-> "live", family |-> family, port |-> dev[d].port,
                       ext |-> dev[d].ext, refcnt |-> 1, data |-> TRUE]]
        /\ dev' = IF family = 6 THEN [dev EXCEPT ![d].vn6 = s]
                                ELSE [dev EXCEPT ![d].vn4 = s]
        /\ vni' = AddHead([vni EXCEPT !.first[s] = NONE], s, d, NONE)

\* vxlan_sock_add(): IPv6 first, and IPv4 unless IPv6 failed for a reason
\* other than the kernel's lack of it
SockAdd6 ==
    /\ op.at = "open6"
    /\ IF ~ipv6
       THEN /\ op' = [op EXCEPT !.at = "open4"]
            /\ UNCHANGED <<dev, sock, vni>>
       ELSE IF CanBind(6, dev[op.dev].port)
       THEN /\ op' = [op EXCEPT !.at = "open4"]
            /\ __vxlan_sock_add(op.dev, 6)
       ELSE /\ op' = [op EXCEPT !.at = "release"]
            /\ UNCHANGED <<dev, sock, vni>>
    /\ UNCHANGED <<ipv6, net, listed, pk, wait, wild>>

SockAdd4 ==
    /\ op.at = "open4"
    /\ IF CanBind(4, dev[op.dev].port)
       THEN /\ __vxlan_sock_add(op.dev, 4)
            /\ op' = [op EXCEPT !.at = "opened"]
       ELSE /\ op' = [op EXCEPT !.at = "release"]
            /\ UNCHANGED <<dev, sock, vni>>
    /\ UNCHANGED <<ipv6, net, listed, pk, wait, wild>>

\* vxlan_sock_release(): the device forgets its sockets, and waits
SockRelease ==
    /\ op.at = "release"
    /\ op' = [op EXCEPT !.at = "prep4", !.s4 = dev[op.dev].vn4, !.s6 = dev[op.dev].vn6]
    /\ dev' = [dev EXCEPT ![op.dev].vn4 = NONE, ![op.dev].vn6 = NONE]
    /\ Synchronize
    /\ UNCHANGED <<ipv6, net, listed, sock, vni, pk, wild>>

\* __vxlan_sock_release_prep(), rpl_udp_tunnel_sock_release() and kfree()
Dropped(s) ==
    IF s = NONE THEN sock
    ELSE IF sock[s].refcnt > 1 THEN [sock EXCEPT ![s].refcnt = @ - 1]
    ELSE [sock EXCEPT ![s] = [NoSock EXCEPT !.state = "freed"]]

ReleasePrep4 ==
    /\ op.at = "prep4" /\ Synchronized
    /\ sock' = Dropped(op.s4)
    /\ op' = [op EXCEPT !.at = "prep6", !.s4 = NONE]
    /\ UNCHANGED <<ipv6, net, dev, listed, vni, pk, wait, wild>>

ReleasePrep6 ==
    /\ op.at = "prep6"
    /\ sock' = Dropped(op.s6)
    /\ op' = [op EXCEPT !.at = op.then, !.s6 = NONE]
    /\ UNCHANGED <<ipv6, net, dev, listed, vni, pk, wait, wild>>

-----------------------------------------------------------------------------
(* Devices *)

\* vxlan_dev_configure(): the same port may be used with other extensions
vxlan_dev_configure(d, port, ext) ==
    /\ op.at = "idle" /\ net = "live"
    /\ dev[d].state = "none" /\ d = CHOOSE x \in DEVS : dev[x].state = "none"
    /\ ~\E t \in listed : dev[t].port = port /\ dev[t].ext = ext   \* -EEXIST
    /\ dev' = [dev EXCEPT ![d] =
                 [NoDev EXCEPT !.state = "created", !.port = port, !.ext = ext]]
    /\ listed' = listed \cup {d}
    \* vxlan_tnl_create() brings the device up, or deletes it again
    /\ op' = Busy(d, "open6", "delete")
    /\ UNCHANGED <<ipv6, net, sock, vni, pk, wait, wild>>

vxlan_open ==
    /\ op.at = "opened"
    /\ dev' = [dev EXCEPT ![op.dev].state = "up"]
    /\ op' = Idle
    /\ UNCHANGED <<ipv6, net, listed, sock, vni, pk, wait, wild>>

\* the device is taken down, and brought up again, by hand
vxlan_stop(d) ==
    /\ op.at = "idle" /\ dev[d].state = "up"
    /\ op' = Busy(d, "release", "idle")
    /\ dev' = [dev EXCEPT ![d].state = "down"]
    /\ UNCHANGED <<ipv6, net, listed, sock, vni, pk, wait, wild>>

BringUp(d) ==
    /\ op.at = "idle" /\ dev[d].state = "down"
    /\ op' = Busy(d, "open6", "idle")
    /\ UNCHANGED <<ipv6, net, dev, listed, sock, vni, pk, wait, wild>>

\* the device's node leaves the list it was put on last
vxlan_dellink(d) ==
    /\ \/ op.at = "idle" /\ dev[d].state = "up"
       \/ op.at = "idle" /\ dev[d].state = "down" /\ DELETE_DOWN
       \/ op.at = "delete" /\ op.dev = d
    /\ vni' = IF Hashed(vni, d) THEN DelRcu(vni, d, NONE) ELSE vni
    /\ wild' = (wild \/ \E s \in SOCKS : vni.pprev[d] = s /\ sock[s].state # "live")
    /\ listed' = listed \ {d}
    /\ op' = Busy(d, IF dev[d].state = "up" THEN "release" ELSE "unregister",
                  "unregister")
    /\ UNCHANGED <<ipv6, net, dev, sock, pk, wait>>

\* vxlan_exit_net(): the namespace's devices go, without vxlan_dellink()
vxlan_exit_net ==
    /\ op.at = "idle" /\ net' = "exiting"
    /\ \E d \in DEVS :
          /\ dev[d].state \in {"up", "down"}
          /\ op' = Busy(d, IF dev[d].state = "up" THEN "release" ELSE "unregister",
                        "unregister")
    /\ listed' = {}
    /\ UNCHANGED <<ipv6, dev, sock, vni, pk, wait, wild>>

\* the kernel waits once the device is closed, and frees it
Unregister ==
    /\ op.at = "unregister"
    /\ op' = [op EXCEPT !.at = "free"]
    /\ Synchronize
    /\ UNCHANGED <<ipv6, net, dev, listed, sock, vni, pk, wild>>

FreeNetdev ==
    /\ op.at = "free" /\ Synchronized
    /\ dev' = [dev EXCEPT ![op.dev] = NoDev]
    /\ vni' = [vni EXCEPT !.pprev[op.dev] = UNHASHED, !.next[op.dev] = NONE]
    /\ op' = Idle
    /\ UNCHANGED <<ipv6, net, listed, sock, pk, wait, wild>>

-----------------------------------------------------------------------------
(* Packets *)

Leave(p) ==
    /\ pk' = [pk EXCEPT ![p] = Outside]
    /\ wait' = wait \ {p}

\* the socket's sk_user_data is read ...
Arrive(p) ==
    /\ pk[p].at = "outside"
    /\ \E s \in SOCKS :
          /\ sock[s].data
          /\ pk' = [pk EXCEPT ![p] = [at |-> "rcv", vs |-> s, dev |-> NONE]]
    /\ UNCHANGED wait

\* vxlan_vs_find_vni(): a flow-based device is listed under VNI 0
vxlan_vs_find_vni(s) == vni.first[s]

\* GPE sockets take GPE packets only; the bits of an extension the socket
\* does not have are left over, and the packet is dropped
Understood(s, kind) ==
    CASE sock[s].ext = "gpe" -> kind = "gpe"
      [] sock[s].ext = "gbp" -> kind \in {"plain", "gbp"}
      [] OTHER -> kind = "plain"

\* ... and used
vxlan_rcv(p) ==
    /\ pk[p].at = "rcv"
    /\ LET d == vxlan_vs_find_vni(pk[p].vs)
       IN  \/ (d = NONE \/ \E k \in EXTS : ~Understood(pk[p].vs, k)) /\ Leave(p)
           \/ /\ d # NONE /\ \E k \in EXTS : Understood(pk[p].vs, k)
              /\ pk' = [pk EXCEPT ![p].at = "deliver", ![p].dev = d]
              /\ UNCHANGED wait

Deliver(p) == pk[p].at = "deliver" /\ Leave(p)

Receive ==
    /\ \E p \in PACKETS : Arrive(p) \/ vxlan_rcv(p) \/ Deliver(p)
    /\ UNCHANGED <<ipv6, net, dev, listed, sock, vni, op, wild>>

-----------------------------------------------------------------------------
Next ==
    \/ SockAdd6 \/ SockAdd4 \/ SockRelease \/ ReleasePrep4 \/ ReleasePrep6
    \/ \E d \in DEVS, port \in PORTS, ext \in EXTS : vxlan_dev_configure(d, port, ext)
    \/ vxlan_open \/ vxlan_exit_net \/ Unregister \/ FreeNetdev
    \/ \E d \in DEVS : vxlan_stop(d) \/ BringUp(d) \/ vxlan_dellink(d)
    \/ Receive

Spec == Init /\ [][Next]_vars

-----------------------------------------------------------------------------
(* The device a packet was matched to exists until the packet is through:  *)
(* the IPv6 socket still lists it after vxlan_dellink(), so only the grace *)
(* period after the sockets are gone protects the packet.                  *)
DevicesOutlivePackets ==
    \A p \in PACKETS : pk[p].at = "deliver" => dev[pk[p].dev].state # "none"

(* No list operation writes to freed memory.                               *)
NoWildWrite == ~wild

(* Between operations every socket is held by as many devices as its count *)
(* says, and by one at least: none is leaked and none lost.                *)
SocketsCounted ==
    op.at = "idle" =>
      \A s \in SOCKS : sock[s].state = "live" =>
        /\ sock[s].refcnt = Cardinality({d \in DEVS : s \in {dev[d].vn4, dev[d].vn6}})
        /\ sock[s].refcnt > 0

(* A device that is up is found by the packets of both its sockets.        *)
UpIsFound ==
    op.at = "idle" =>
      \A d \in DEVS : dev[d].state = "up" =>
        /\ sock[dev[d].vn4].state = "live" /\ vxlan_vs_find_vni(dev[d].vn4) = d
        /\ ipv6 => sock[dev[d].vn6].state = "live" /\ vxlan_vs_find_vni(dev[d].vn6) = d

VxlanInv == DevicesOutlivePackets /\ NoWildWrite /\ SocketsCounted /\ UpIsFound

(* What does not hold: rpl_udp_tunnel_sock_release() is followed by        *)
(* kfree() without a grace period, while packets still use the socket.     *)
SocketsOutlivePackets ==
    \A p \in PACKETS : pk[p].at # "outside" => sock[pk[p].vs].state = "live"
=============================================================================
