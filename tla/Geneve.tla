------------------------------- MODULE Geneve -------------------------------
(***************************************************************************)
(* The Geneve driver (linux/compat/geneve.c, vport-geneve.c).  Devices on  *)
(* the same UDP port share its IPv4 and its IPv6 socket; a flow-based      *)
(* device (Md), which is what a port of a datapath creates, uses both,     *)
(* shares them with nobody and takes the packets of every tunnel; other    *)
(* devices are found by their remote address and VNI.                      *)
(*                                                                         *)
(* Devices change under RTNL, one operation at a time, in steps between    *)
(* which packets are received; waits for grace periods are steps of their  *)
(* own.  The release of a net device by the kernel and the binding of UDP  *)
(* sockets are external; the devices of a namespace that goes are released *)
(* one after the other.                                                    *)
(***************************************************************************)
EXTENDS Naturals, FiniteSets, Hlist

CONSTANTS DEVS, SOCKS, PACKETS, PORTS, NONE,
          KINDS   \* of devices: <<family, remote and VNI>>; <<0, 0>> is flow-based

VARIABLES
    net,      \* the namespace: "live" or "exiting"
    dev,      \* the devices
    listed,   \* geneve_net.geneve_list
    sock,     \* the struct geneve_sock's with their sockets
    vni,      \* vni_list of each socket and the devices' nodes
    op,       \* the operation in progress under RTNL
    pk,       \* the packets being received
    wait,     \* those the grace period of op waits for
    wild      \* a list operation wrote to freed memory

vars == <<net, dev, listed, sock, vni, op, pk, wait, wild>>

NoDev == [state |-> "none", port |-> NONE, kind |-> NONE, sock4 |-> NONE, sock6 |-> NONE]
NoSock == [state |-> "none", family |-> 0, port |-> NONE, collect_md |-> FALSE,
           refcnt |-> 0, readers |-> {}]
Idle == [at |-> "idle", dev |-> NONE, s4 |-> NONE, s6 |-> NONE, then |-> "idle"]
Outside == [at |-> "outside", tunnel |-> NONE, gs |-> NONE, dev |-> NONE]
Inside == {p \in PACKETS : pk[p].at # "outside"}

Synchronize == wait' = Inside
Synchronized == wait = {}

Init ==
    /\ net = "live" /\ listed = {} /\ wild = FALSE /\ wait = {} /\ op = Idle
    /\ dev = [d \in DEVS |-> NoDev]
    /\ sock = [s \in SOCKS |-> NoSock]
    /\ vni = EmptyLists(SOCKS, DEVS, NONE)
    /\ pk = [p \in PACKETS |-> Outside]

Busy(d, at, then) == [Idle EXCEPT !.at = at, !.dev = d, !.then = then]
Md == <<0, 0>>
Tunnels == KINDS \ {Md}
Uses(kind, family) == kind[1] \in {0, family}

-----------------------------------------------------------------------------
(* Sockets *)

\* geneve_find_sock()
geneve_find_sock(family, port) ==
    {s \in SOCKS : sock[s].state = "live" /\ sock[s].family = family /\ sock[s].port = port}

\* geneve_socket_create(); memory that was freed may be given out again
Unused == {s \in SOCKS : sock[s].state = "none" /\ \A d \in DEVS : vni.pprev[d] # s}
geneve_socket_create(s, family, port) ==
    /\ Unused # {} /\ s = CHOOSE x \in Unused : TRUE
    /\ sock' = [sock EXCEPT ![s] = [state |-> "live", family |-> family, port |-> port,
                 collect_md |-> dev[op.dev].kind = Md, refcnt |-> 1, readers |-> {}]]

\* geneve_sock_add(): the socket of the port is shared, or made
Shared(s) == [sock EXCEPT ![s].refcnt = @ + 1]
geneve_sock_add(s, family) ==
    LET d == op.dev
        found == geneve_find_sock(family, dev[d].port)
    IN  /\ IF found = {} THEN geneve_socket_create(s, family, dev[d].port)
           ELSE s \in found /\ sock' = Shared(s)
        /\ dev' = IF family = 6 THEN [dev EXCEPT ![d].sock6 = s]
                                ELSE [dev EXCEPT ![d].sock4 = s]
        /\ vni' = AddHead(vni, s, d, NONE)

\* geneve_open(): IPv6 first; where a socket cannot be made, what there is is released
Opening(at, family, next) ==
    LET d == op.dev IN
    /\ op.at = at
    /\ \/ Uses(dev[d].kind, family) /\ \E s \in SOCKS : geneve_sock_add(s, family)
          /\ op' = [op EXCEPT !.at = next]
       \/ ~Uses(dev[d].kind, family) /\ op' = [op EXCEPT !.at = next]
          /\ UNCHANGED <<dev, sock, vni>>
       \/ Uses(dev[d].kind, family) /\ geneve_find_sock(family, dev[d].port) = {}
          /\ op' = [op EXCEPT !.at = "release"] /\ UNCHANGED <<dev, sock, vni>>
    /\ UNCHANGED <<net, listed, pk, wait, wild>>
geneve_open6 == Opening("open6", 6, "open4")
geneve_open4 == Opening("open4", 4, "opened")

\* geneve_sock_release(): the device forgets its sockets, and waits
geneve_sock_release ==
    /\ op.at = "release"
    /\ op' = [op EXCEPT !.at = "put4", !.s4 = dev[op.dev].sock4, !.s6 = dev[op.dev].sock6]
    /\ dev' = [dev EXCEPT ![op.dev].sock4 = NONE, ![op.dev].sock6 = NONE]
    /\ Synchronize
    /\ UNCHANGED <<net, listed, sock, vni, pk, wild>>

\* __geneve_sock_release(): with the last reference the socket goes; kfree_rcu()
NoReaders == {}                                                     \* mutant
WaitsFor == Inside
Put(s) ==
    IF s = NONE THEN sock
    ELSE IF sock[s].refcnt > 1 THEN [sock EXCEPT ![s].refcnt = @ - 1]
    ELSE [sock EXCEPT ![s] = [NoSock EXCEPT !.state = "closed", !.readers = WaitsFor]]

__geneve_sock_release4 ==
    /\ op.at = "put4" /\ Synchronized
    /\ sock' = Put(op.s4)
    /\ op' = [op EXCEPT !.at = "put6", !.s4 = NONE]
    /\ UNCHANGED <<net, dev, listed, vni, pk, wait, wild>>
__geneve_sock_release6 ==
    /\ op.at = "put6"
    /\ sock' = Put(op.s6)
    /\ op' = [op EXCEPT !.at = op.then, !.s6 = NONE]
    /\ UNCHANGED <<net, dev, listed, vni, pk, wait, wild>>

\* the end of kfree_rcu()
FreeSock(s) ==
    /\ sock[s].state = "closed" /\ sock[s].readers = {}
    /\ sock' = [sock EXCEPT ![s] = NoSock]
    /\ vni' = [vni EXCEPT !.first[s] = NONE]
    /\ UNCHANGED <<net, dev, listed, op, pk, wait, wild>>

-----------------------------------------------------------------------------
(* Devices *)

\* geneve_find_dev() and what geneve_configure() makes of it: -EBUSY or -EPERM
Conflict(port, kind) ==
    \E t \in listed : /\ dev[t].port = port
                      /\ dev[t].kind = kind \/ kind = Md \/ dev[t].kind = Md

\* the device is registered and brought up, by geneve_tnl_create() or by hand
geneve_configure(d, port, kind) ==
    /\ op.at = "idle" /\ net = "live"
    /\ dev[d].state = "none" /\ d = CHOOSE x \in DEVS : dev[x].state = "none"
    /\ ~Conflict(port, kind)
    /\ dev' = [dev EXCEPT ![d] =
                 [NoDev EXCEPT !.state = "created", !.port = port, !.kind = kind]]
    /\ listed' = listed \cup {d}
    /\ op' = Busy(d, "open6", "delete")
    /\ UNCHANGED <<net, sock, vni, pk, wait, wild>>

Opened ==
    /\ op.at = "opened"
    /\ dev' = [dev EXCEPT ![op.dev].state = "up"]
    /\ op' = Idle
    /\ UNCHANGED <<net, listed, sock, vni, pk, wait, wild>>

\* the device's node leaves the list it was put on last
geneve_stop(d) ==
    /\ vni' = IF Hashed(vni, d) THEN DelRcu(vni, d, NONE) ELSE vni
    /\ wild' = (wild \/ \E s \in SOCKS : vni.pprev[d] = s /\ sock[s].state # "live")

\* the device is taken down, and brought up again, by hand
TakeDown(d) ==
    /\ op.at = "idle" /\ dev[d].state = "up"
    /\ geneve_stop(d)
    /\ dev' = [dev EXCEPT ![d].state = "down"]
    /\ op' = Busy(d, "release", "idle")
    /\ UNCHANGED <<net, listed, sock, pk, wait>>
BringUp(d) ==
    /\ op.at = "idle" /\ dev[d].state = "down"
    /\ op' = Busy(d, "open6", "idle")
    /\ UNCHANGED <<net, dev, listed, sock, vni, pk, wait, wild>>

\* unregister_netdevice() stops a device that is up
Unregister(d) ==
    IF dev[d].state = "up"
    THEN geneve_stop(d) /\ op' = Busy(d, "release", "unregister")
    ELSE op' = Busy(d, "unregister", "unregister") /\ UNCHANGED <<vni, wild>>

geneve_dellink(d) ==
    /\ \/ op.at = "idle" /\ dev[d].state \in {"up", "down"}
       \/ op.at = "delete" /\ op.dev = d
    /\ listed' = listed \ {d}
    /\ Unregister(d)
    /\ UNCHANGED <<net, dev, sock, pk, wait>>

\* geneve_exit_net() gathers the namespace's devices
geneve_exit_net ==
    /\ op.at = "idle" /\ net' = "exiting"
    /\ \E d \in DEVS : dev[d].state \in {"up", "down"} /\ Unregister(d)
    /\ UNCHANGED <<dev, listed, sock, pk, wait>>

\* the kernel waits once the device is closed, and frees it
Wait ==
    /\ op.at = "unregister"
    /\ op' = [op EXCEPT !.at = "free"]
    /\ Synchronize
    /\ UNCHANGED <<net, dev, listed, sock, vni, pk, wild>>
FreeNetdev ==
    /\ op.at = "free" /\ Synchronized
    /\ dev' = [dev EXCEPT ![op.dev] = NoDev]
    /\ vni' = [vni EXCEPT !.pprev[op.dev] = UNHASHED, !.next[op.dev] = NONE]
    /\ listed' = listed \ {op.dev}       \* of a namespace that goes
    /\ op' = Idle
    /\ UNCHANGED <<net, sock, pk, wait, wild>>

-----------------------------------------------------------------------------
(* Packets *)

Leave(p) ==
    /\ pk' = [pk EXCEPT ![p] = Outside]
    /\ wait' = wait \ {p}
    /\ sock' = [s \in SOCKS |-> [sock[s] EXCEPT !.readers = @ \ {p}]]

\* the socket's sk_user_data is read ...
geneve_udp_encap_recv(p) ==
    /\ pk[p].at = "outside"
    /\ \E s \in SOCKS, t \in Tunnels :
          /\ sock[s].state = "live" /\ t[1] = sock[s].family
          /\ pk' = [pk EXCEPT ![p] = [at |-> "recv", tunnel |-> t, gs |-> s, dev |-> NONE]]
    /\ UNCHANGED <<sock, wait>>

\* ... and the device looked up, of the packet's tunnel unless the socket collects metadata
Looked(s, tunnel) ==
    {d \in OnList(vni, s, NONE) :
       dev[d].kind = IF sock[s].collect_md THEN Md ELSE tunnel}
geneve_lookup_skb(p) ==
    /\ pk[p].at = "recv"
    /\ LET found == Looked(pk[p].gs, pk[p].tunnel)
       IN  IF found = {} THEN Leave(p)
           ELSE \E d \in found :
                  /\ pk' = [pk EXCEPT ![p].at = "rx", ![p].dev = d]
                  /\ UNCHANGED <<sock, wait>>

geneve_rx(p) == pk[p].at = "rx" /\ Leave(p)

Receive ==
    /\ \E p \in PACKETS :
         geneve_udp_encap_recv(p) \/ geneve_lookup_skb(p) \/ geneve_rx(p)
    /\ UNCHANGED <<net, dev, listed, vni, op, wild>>

-----------------------------------------------------------------------------
Next ==
    \/ geneve_open6 \/ geneve_open4 \/ Opened
    \/ geneve_sock_release \/ __geneve_sock_release4 \/ __geneve_sock_release6
    \/ \E s \in SOCKS : FreeSock(s)
    \/ \E d \in DEVS, port \in PORTS, kind \in KINDS : geneve_configure(d, port, kind)
    \/ geneve_exit_net \/ Wait \/ FreeNetdev
    \/ \E d \in DEVS : TakeDown(d) \/ BringUp(d) \/ geneve_dellink(d)
    \/ Receive

Spec == Init /\ [][Next]_vars

-----------------------------------------------------------------------------
\* A device and a socket exist as long as a packet uses them, whichever way they go.  The
\* IPv6 socket of a flow-based device still lists it when it is stopped: only the grace
\* period after the sockets are gone protects the packets that come that way.
OutlivePackets ==
    \A p \in PACKETS :
      /\ pk[p].at = "rx" => dev[pk[p].dev].state # "none"
      /\ pk[p].at # "outside" => sock[pk[p].gs].state # "none"

\* Between operations a socket has as many devices as it counts, and one at least; either
\* one flow-based device, or others only.
UsersOf(s) == {d \in DEVS : s \in {dev[d].sock4, dev[d].sock6}}
SocketsShared ==
    op.at = "idle" => \A s \in SOCKS : sock[s].state = "live" =>
      /\ sock[s].refcnt = Cardinality(UsersOf(s)) /\ sock[s].refcnt > 0
      /\ IF sock[s].collect_md THEN \E d \in DEVS : UsersOf(s) = {d} /\ dev[d].kind = Md
         ELSE \A d \in UsersOf(s) : dev[d].kind # Md

\* A device that is up finds its packets, at each of its sockets, and no other device does.
UpIsFound ==
    op.at = "idle" => \A d \in DEVS, t \in Tunnels : dev[d].state = "up" =>
      LET s == IF t[1] = 4 THEN dev[d].sock4 ELSE dev[d].sock6
      IN  dev[d].kind \in {Md, t} => sock[s].state = "live" /\ Looked(s, t) = {d}

GeneveInv == OutlivePackets /\ SocketsShared /\ UpIsFound /\ ~wild
=============================================================================
