-------------------------------- MODULE Gre --------------------------------
(***************************************************************************)
(* The GRE ports' driver: gre.c, which takes the packets of the protocol   *)
(* IPPROTO_GRE through a chain of three registrations, and ip_gre.c with   *)
(* ip_tunnel.c, which keep in each network namespace one flow-based device *)
(* that receives all of them.                                              *)
(*                                                                         *)
(* Everything that changes the devices holds RTNL, so one operation is in  *)
(* progress at a time; packets are received next to it, within RCU         *)
(* read-side sections.  A wait for a grace period is a step of its own.    *)
(* The release of a device by the kernel (unregister_netdevice and the     *)
(* steps after it) is external: it closes the device, waits, calls         *)
(* ndo_uninit, waits, and frees it.                                        *)
(***************************************************************************)
EXTENDS Naturals, FiniteSets

CONSTANTS DEVS,      \* net devices that may exist
          NETS,      \* network namespaces
          PACKETS,   \* packets that can be within the receive path at once
          NONE

VARIABLES
    hooks,   \* which of the registrations "inet", "gre" and "cisco" are made
    mod,     \* how far loading or unloading of the module has come
    tun,     \* ip_tunnel_net.collect_md_tun of each namespace
    dev,     \* the devices
    op,      \* the release in progress under RTNL
    pk,      \* the packets
    wait     \* packets whose read-side section a grace period waits for

vars == <<hooks, mod, tun, dev, op, pk, wait>>

Inside == {p \in PACKETS : pk[p].at # "outside"}
Synchronized == wait = {}
\* synchronize_net() begins: it waits for the packets being received now
Synchronize == wait' = Inside
NoWait == UNCHANGED wait

Idle == op = [dev |-> NONE, at |-> "idle"]
Free == [state |-> "none", net |-> NONE]

Init ==
    /\ hooks = {} /\ mod = "absent" /\ op = [dev |-> NONE, at |-> "idle"]
    /\ tun = [n \in NETS |-> NONE]
    /\ dev = [d \in DEVS |-> Free]
    /\ pk = [p \in PACKETS |-> [at |-> "outside", net |-> NONE, tun |-> NONE]]
    /\ wait = {}

-----------------------------------------------------------------------------
(* Loading and unloading *)

Stage(from, to, h) ==
    /\ mod = from /\ Synchronized
    /\ mod' = to
    /\ hooks' = h
    /\ UNCHANGED <<tun, dev, op, pk>>

\* rpl_ipgre_init() up to its first failure point
RegisterPernet == Stage("absent", "pernet", hooks) /\ NoWait

\* gre_add_protocol(): the slot of the protocol may be another module's
InetAddProtocol ==
    /\ \/ Stage("pernet", "inet", hooks \cup {"inet"})
       \/ Stage("pernet", "unpernet", hooks)
    /\ NoWait
GreAddProtocol == Stage("inet", "gre", hooks \cup {"gre"}) /\ NoWait
rpl_gre_cisco_register == Stage("gre", "cisco", hooks \cup {"cisco"}) /\ NoWait

\* the last registration; when it fails the others are taken back
LinkRegister ==
    /\ \/ Stage("cisco", "loaded", hooks)
       \/ Stage("cisco", "uncisco", hooks)
    /\ NoWait

\* rpl_ipgre_fini(): the datapaths and their devices are gone by then
rpl_ipgre_fini ==
    /\ Idle /\ \A d \in DEVS : dev[d] = Free
    /\ Stage("loaded", "uncisco", hooks)
    /\ NoWait

rpl_gre_cisco_unregister ==
    Stage("uncisco", "ungre", hooks \ {"cisco"}) /\ Synchronize
gre_del_protocol == Stage("ungre", "uninet", hooks \ {"gre"}) /\ Synchronize
\* inet_del_protocol() waits for a grace period itself
InetDelProtocol == Stage("uninet", "unpernet", hooks \ {"inet"}) /\ Synchronize
UnregisterPernet == Stage("unpernet", "absent", hooks) /\ NoWait

-----------------------------------------------------------------------------
(* Devices *)

\* rpl_gretap_fb_dev_create(): a namespace has one flow-based device at most
rpl_ip_tunnel_newlink(d, n) ==
    /\ mod = "loaded" /\ Idle
    /\ dev[d] = Free
    /\ tun[n] = NONE                             \* -EEXIST otherwise
    /\ dev' = [dev EXCEPT ![d] = [state |-> "created", net |-> n]]
    /\ tun' = [tun EXCEPT ![n] = d]
    /\ op' = [dev |-> d, at |-> "created"]
    /\ UNCHANGED <<hooks, mod, pk, wait>>

\* gre_tnl_create() goes on: the device comes up ...
DeviceUp ==
    /\ op.at = "created"
    /\ dev' = [dev EXCEPT ![op.dev].state = "up"]
    /\ op' = [dev |-> NONE, at |-> "idle"]
    /\ UNCHANGED <<hooks, mod, tun, pk, wait>>

Release(d) ==
    /\ dev' = [dev EXCEPT ![d].state = "closing"]
    /\ op' = [dev |-> d, at |-> "closed"]
    /\ Synchronize
    /\ UNCHANGED <<hooks, mod, pk>>

\* ... or is deleted again; a port that goes deletes its device too
rpl_ip_tunnel_dellink(d) ==
    /\ \/ Idle /\ dev[d].state = "up"
       \/ op = [dev |-> d, at |-> "created"]
    /\ tun' = [tun EXCEPT ![dev[d].net] = NONE]
    /\ Release(d)

\* the namespace goes: its device is released without ip_tunnel_del()
ip_tunnel_destroy(n) ==
    /\ Idle /\ tun[n] # NONE
    /\ Release(tun[n])
    /\ UNCHANGED tun

\* ndo_uninit, called once the device is closed and a grace period has passed
rpl_ip_tunnel_uninit ==
    /\ op.at = "closed" /\ Synchronized
    /\ tun' = [tun EXCEPT ![dev[op.dev].net] = NONE]
    /\ op' = [op EXCEPT !.at = "uninit"]
    /\ Synchronize
    /\ UNCHANGED <<hooks, mod, dev, pk>>

\* the last reference goes, and ip_tunnel_dev_free() runs
ip_tunnel_dev_free ==
    /\ op.at = "uninit" /\ Synchronized
    /\ dev' = [dev EXCEPT ![op.dev] = Free]
    /\ op' = [dev |-> NONE, at |-> "idle"]
    /\ UNCHANGED <<hooks, mod, tun, pk, wait>>

-----------------------------------------------------------------------------
(* Packets *)

Leave(p) ==
    /\ pk' = [pk EXCEPT ![p] = [at |-> "outside", net |-> NONE, tun |-> NONE]]
    /\ wait' = wait \ {p}
Advance(p, next) == pk' = [pk EXCEPT ![p] = next] /\ NoWait

Arrive(p, n) ==
    /\ pk[p].at = "outside" /\ "inet" \in hooks
    /\ Advance(p, [at |-> "gre_rcv", net |-> n, tun |-> NONE])

gre_rcv(p) ==
    /\ pk[p].at = "gre_rcv"
    /\ IF "gre" \in hooks THEN Advance(p, [pk[p] EXCEPT !.at = "cisco_rcv"])
                          ELSE Leave(p)

gre_cisco_rcv(p) ==
    /\ pk[p].at = "cisco_rcv"
    /\ IF "cisco" \in hooks THEN Advance(p, [pk[p] EXCEPT !.at = "ipgre_rcv"])
                            ELSE Leave(p)

\* a packet whose header is not understood, or whose checksum is wrong
parse_gre_header(p) == pk[p].at = "cisco_rcv" /\ Leave(p)

\* the device is read, and used afterwards
ipgre_rcv(p) ==
    /\ pk[p].at = "ipgre_rcv"
    /\ IF tun[pk[p].net] = NONE
       THEN Leave(p)
       ELSE Advance(p, [pk[p] EXCEPT !.at = "deliver", !.tun = tun[pk[p].net]])

Deliver(p) == pk[p].at = "deliver" /\ Leave(p)

Receive ==
    /\ \E p \in PACKETS :
          \/ \E n \in NETS : Arrive(p, n)
          \/ gre_rcv(p) \/ parse_gre_header(p) \/ gre_cisco_rcv(p)
          \/ ipgre_rcv(p) \/ Deliver(p)
    /\ UNCHANGED <<hooks, mod, tun, dev, op>>

Loading ==
    \/ RegisterPernet \/ InetAddProtocol \/ GreAddProtocol
    \/ rpl_gre_cisco_register \/ LinkRegister \/ rpl_ipgre_fini
    \/ rpl_gre_cisco_unregister \/ gre_del_protocol \/ InetDelProtocol
    \/ UnregisterPernet

Devices ==
    \/ \E d \in DEVS, n \in NETS : rpl_ip_tunnel_newlink(d, n)
    \/ DeviceUp
    \/ \E d \in DEVS : rpl_ip_tunnel_dellink(d)
    \/ \E n \in NETS : ip_tunnel_destroy(n)
    \/ rpl_ip_tunnel_uninit \/ ip_tunnel_dev_free

Next == Loading \/ Devices \/ Receive
Spec == Init /\ [][Next]_vars

-----------------------------------------------------------------------------
(* A packet that read the device of its namespace uses it while it exists: *)
(* whichever way the device goes (deleted, or with its namespace), a grace *)
(* period passes between the last moment it can be found and its release.  *)
DeliversToLive ==
    \A p \in PACKETS : pk[p].at = "deliver" => dev[pk[p].tun].state # "none"

(* No packet is within the module once it is unloaded: the registrations   *)
(* are taken back in the order that stops new packets before it waits.     *)
CodeStaysLoaded == mod = "absent" => Inside = {}

(* Between operations a namespace's tunnel is exactly its device that is   *)
(* up, so a second one is refused and none can be missed.                  *)
TunnelIsTheDevice ==
    Idle => \A n \in NETS : \A d \in DEVS :
              tun[n] = d <=> dev[d] = [state |-> "up", net |-> n]

GreInv == DeliversToLive /\ CodeStaysLoaded /\ TunnelIsTheDevice
=============================================================================
