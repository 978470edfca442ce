-------------------------------- MODULE Lisp --------------------------------
(***************************************************************************)
(* The LISP driver (linux/compat/lisp.c, vport-lisp.c): one device for a   *)
(* UDP port of a namespace, with a socket of its own whose user data is    *)
(* the device.  Devices change under RTNL, one operation at a time;        *)
(* packets are received within RCU read-side sections next to it.  The UDP *)
(* socket and the release of a net device are external.                    *)
(***************************************************************************)
EXTENDS Naturals, FiniteSets

CONSTANTS DEVS, PACKETS, PORTS, NONE

VARIABLES
    net,       \* the namespace: "live" or "exiting"
    dev,       \* the devices
    listed,    \* lisp_net.lisp_list
    sock,      \* the device's socket, and what it points at
    op,        \* the operation in progress under RTNL
    pk, wait   \* the packets being received; those a grace period waits for

vars == <<net, dev, listed, sock, op, pk, wait>>

NoDev == [state |-> "none", port |-> NONE, has_sock |-> FALSE]
NoSock == [state |-> "none", port |-> NONE, user_data |-> NONE]
Idle == [at |-> "idle", dev |-> NONE]
Outside == [at |-> "outside", sk |-> NONE, dev |-> NONE]
Inside == {p \in PACKETS : pk[p].at # "outside"}
Synchronize == wait' = Inside
Synchronized == wait = {}

Init ==
    /\ net = "live" /\ listed = {} /\ wait = {} /\ op = Idle
    /\ dev = [d \in DEVS |-> NoDev]
    /\ sock = [d \in DEVS |-> NoSock]
    /\ pk = [p \in PACKETS |-> Outside]

Go(d, at) == op' = [at |-> at, dev |-> d]

\* lisp_configure(), and what lisp_tnl_create() or the administrator does next
lisp_configure(d, port) ==
    /\ op = Idle /\ net = "live" /\ dev[d].state = "none"
    /\ ~\E t \in listed : dev[t].port = port                 \* find_dev(): -EBUSY
    /\ dev' = [dev EXCEPT ![d] = [NoDev EXCEPT !.state = "down", !.port = port]]
    /\ listed' = listed \cup {d}
    /\ Go(d, "open")
    /\ UNCHANGED <<net, sock, pk, wait>>

\* lisp_open(): the socket is bound, and only then points at the device.  Without a
\* socket the device stays down, and one made for a port is deleted
lisp_open ==
    /\ op.at = "open"
    /\ LET d == op.dev IN
       \/ /\ ~\E e \in DEVS : sock[e].state = "live" /\ sock[e].port = dev[d].port
          /\ sock' = [sock EXCEPT ![d] = [state |-> "live", port |-> dev[d].port,
                                          user_data |-> NONE]]
          /\ dev' = [dev EXCEPT ![d].has_sock = TRUE]
          /\ Go(d, "setup")
       \/ op' \in {Idle, [at |-> "failed", dev |-> d]} /\ UNCHANGED <<sock, dev>>
    /\ UNCHANGED <<net, listed, pk, wait>>
setup_udp_tunnel_sock ==
    /\ op.at = "setup"
    /\ sock' = [sock EXCEPT ![op.dev].user_data = op.dev]
    /\ dev' = [dev EXCEPT ![op.dev].state = "up"]
    /\ op' = Idle
    /\ UNCHANGED <<net, listed, pk, wait>>

\* lisp_stop(): the device forgets its socket, a grace period passes, the socket goes
lisp_stop(d, next) ==
    IF dev[d].state = "up" /\ dev[d].has_sock
    THEN /\ dev' = [dev EXCEPT ![d].has_sock = FALSE, ![d].state = "down"]
         /\ op' = [at |-> next, dev |-> d]
         /\ Synchronize
    ELSE op' = [at |-> "unregister", dev |-> d] /\ UNCHANGED <<dev, wait>>
udp_tunnel_sock_release ==
    /\ op.at \in {"release", "release and unregister"} /\ Synchronized
    /\ sock' = [sock EXCEPT ![op.dev] = [NoSock EXCEPT !.state = "closed"]]
    /\ op' = IF op.at = "release" THEN Idle ELSE [op EXCEPT !.at = "unregister"]
    /\ UNCHANGED <<net, dev, listed, pk, wait>>

\* the device is taken down, and brought up again, by hand
TakeDown(d) ==
    /\ op = Idle /\ dev[d].state = "up"
    /\ lisp_stop(d, "release")
    /\ UNCHANGED <<net, listed, sock, pk>>
BringUp(d) ==
    /\ op = Idle /\ dev[d].state = "down" /\ sock[d].state = "none"
    /\ Go(d, "open")
    /\ UNCHANGED <<net, dev, listed, sock, pk, wait>>

lisp_dellink(d) ==
    /\ \/ op = Idle /\ dev[d].state # "none"
       \/ op = [at |-> "failed", dev |-> d]
    /\ listed' = listed \ {d}
    /\ lisp_stop(d, "release and unregister")
    /\ UNCHANGED <<net, sock, pk>>

\* lisp_exit_net(): one device after the other
lisp_exit_net ==
    /\ op = Idle /\ net' = "exiting"
    /\ \E d \in DEVS : dev[d].state # "none" /\ lisp_stop(d, "release and unregister")
    /\ UNCHANGED <<listed, sock, pk>>

\* the kernel waits, and frees the device
Wait ==
    /\ op.at = "unregister" /\ op' = [op EXCEPT !.at = "free"]
    /\ Synchronize
    /\ UNCHANGED <<net, dev, listed, sock, pk>>
FreeNetdev ==
    /\ op.at = "free" /\ Synchronized
    /\ dev' = [dev EXCEPT ![op.dev] = NoDev]
    /\ listed' = listed \ {op.dev}
    /\ op' = Idle
    /\ UNCHANGED <<net, sock, pk, wait>>

\* the socket's own memory goes when no packet uses it
FreeSock(d) ==
    /\ sock[d].state = "closed" /\ \A p \in PACKETS : pk[p].sk # d
    /\ sock' = [sock EXCEPT ![d] = NoSock]
    /\ UNCHANGED <<net, dev, listed, op, pk, wait>>

\* lisp_rcv(): the socket is found, its user data read, and the device used
Leave(p) == pk' = [pk EXCEPT ![p] = Outside] /\ wait' = wait \ {p}
Found(p) ==
    /\ pk[p].at = "outside"
    /\ \E d \in DEVS : sock[d].state = "live" /\ pk' = [pk EXCEPT ![p] =
                         [at |-> "lisp_rcv", sk |-> d, dev |-> NONE]]
    /\ UNCHANGED wait
lisp_rcv(p) ==
    /\ pk[p].at = "lisp_rcv"
    /\ LET dv == sock[pk[p].sk].user_data
       IN  IF dv = NONE THEN Leave(p)
           ELSE pk' = [pk EXCEPT ![p].at = "ip_tunnel_rcv", ![p].dev = dv] /\ UNCHANGED wait
Deliver(p) == pk[p].at = "ip_tunnel_rcv" /\ Leave(p)

Receive ==
    /\ \E p \in PACKETS : Found(p) \/ lisp_rcv(p) \/ Deliver(p)
    /\ UNCHANGED <<net, dev, listed, sock, op>>

Next ==
    \/ \E d \in DEVS, port \in PORTS : lisp_configure(d, port)
    \/ lisp_open \/ setup_udp_tunnel_sock \/ udp_tunnel_sock_release
    \/ lisp_exit_net \/ Wait \/ FreeNetdev
    \/ \E d \in DEVS : TakeDown(d) \/ BringUp(d) \/ lisp_dellink(d) \/ FreeSock(d)
    \/ Receive
Spec == Init /\ [][Next]_vars

-----------------------------------------------------------------------------
\* A packet's device exists while it is used, though the socket that led to it points at
\* it until the release and the device may be deleted meanwhile: the kernel's grace
\* period before it frees a device is what this rests on.
DeviceOutlivesPackets ==
    \A p \in PACKETS : pk[p].at = "ip_tunnel_rcv" => dev[pk[p].dev].state # "none"

\* Between operations the devices that are up, and only they, are reached through their
\* sockets, and no two devices have a port in common.
UpReceives ==
    op = Idle => \A d \in DEVS :
      /\ dev[d].state = "up" <=> sock[d].state = "live" /\ sock[d].user_data = d
      /\ \A e \in DEVS \ {d} :
           dev[d].state # "none" /\ dev[e].state # "none" => dev[d].port # dev[e].port

LispInv == DeviceOutlivesPackets /\ UpReceives
=============================================================================
