------------------------------- MODULE Tunnels -------------------------------
(***************************************************************************)
(* The tunnel drivers, on small sets.  A behaviour is one driver's, chosen *)
(* first; the drivers take turns in using the same variables.              *)
(***************************************************************************)
EXTENDS Integers, FiniteSets, Sequences

CONSTANTS d1, d2, s1, s2, s3, s4, s5, p1, p2, n1, n2, NONE,
          PACKETS, DRIVERS, MAX_SEGS, MAX_SOCKS, LOOKUP_NET     \* of transmission

VARIABLES driver,
  dev, listed, sock, vni, op, pk, wait, wild, net, ipv6,    \* devices and sockets
  hooks, mod, tun,                                          \* GRE
  drv, live, stop, held,                                    \* transmission
  hook, sn, n_tunnels, percpu, tab, work, jiffies, gone     \* STT

-----------------------------------------------------------------------------
G == INSTANCE Gre WITH DEVS <- {d1, d2}, NETS <- {n1, n2}, PACKETS <- {p1, p2}

\* the second UDP port's IPv6 socket cannot be bound
V == INSTANCE Vxlan WITH
       DEVS <- {d1, d2}, SOCKS <- {s1, s2, s3, s4, s5}, PACKETS <- {p1}, PORTS <- {1, 2},
       EXTS <- {"plain", "gbp"}, TAKEN <- {<<6, 2>>}, DELETE_DOWN <- FALSE

\* flow-based devices, and one for each family and one remote address
N == INSTANCE Geneve WITH
       DEVS <- {d1, d2}, SOCKS <- {s1, s2, s3, s4}, PACKETS <- {p1}, PORTS <- {1},
       KINDS <- {<<0, 0>>, <<4, 1>>, <<6, 1>>}

L == INSTANCE Lisp WITH DEVS <- {d1, d2}, PACKETS <- {p1, p2}, PORTS <- {1, 2}

X == INSTANCE TunnelXmit

Fragment(offset, len, ce) == [key |-> "k", offset |-> offset, len |-> len, ce |-> ce]

\* the life of the devices, with a table that holds a packet of two fragments
ST == INSTANCE Stt WITH
       DEVS <- {<<n1, 1>>, <<n2, 1>>}, NETS <- {n1, n2}, PACKETS <- {p1},
       FRAGMENTS <- {Fragment(0, 1, FALSE), Fragment(1, 1, FALSE)}, TotLen <- [k \in {"k"} |-> 2],
       SLOTS <- {1}, Candidates <- [c \in {n1, n2} \X {"k"} |-> <<1>>],
       REASM_HI_THRESH <- 6, REASM_LO_THRESH <- 4, FRAG_EXP_TIME <- 0, MAX_TIME <- 1, MAX_DRIFT <- 1,
       SKIP_ZERO_COPY <- TRUE, HOOK_FAILS <- FALSE, SOCK_FAILS <- FALSE

\* the table while the devices stay: packets of three, of which two namespaces' collide
R == INSTANCE Stt WITH
       DEVS <- {<<n1, 1>>, <<n2, 1>>}, NETS <- {n1, n2}, PACKETS <- {p1},
       FRAGMENTS <- {Fragment(0, 1, FALSE), Fragment(1, 1, TRUE), Fragment(1, 2, FALSE), Fragment(2, 1, FALSE)},
       TotLen <- [k \in {"k"} |-> 3],
       SLOTS <- {1, 2},
       Candidates <- [c \in {n1, n2} \X {"k"} |-> IF c[1] = n1 THEN <<1, 2>> ELSE <<1, 1>>],
       REASM_HI_THRESH <- 6, REASM_LO_THRESH <- 4, FRAG_EXP_TIME <- 1, MAX_TIME <- 2, MAX_DRIFT <- 1,
       SKIP_ZERO_COPY <- TRUE, HOOK_FAILS <- FALSE, SOCK_FAILS <- FALSE

-----------------------------------------------------------------------------
(* What a driver does not use stays at NONE *)

NoSockets == sock = NONE /\ listed = NONE /\ net = NONE
NoLists == vni = NONE /\ ipv6 = NONE
NoGre == hooks = NONE /\ mod = NONE /\ tun = NONE
NoXmit == drv = NONE /\ live = NONE /\ stop = NONE /\ held = NONE
NoStt == hook = NONE /\ sn = NONE /\ n_tunnels = NONE /\ percpu = NONE /\ tab = NONE
         /\ work = NONE /\ jiffies = NONE /\ gone = NONE

\* of a behaviour that is about none of them
NoDriver ==
  /\ driver = NONE /\ NoSockets /\ NoLists /\ NoGre /\ NoXmit /\ NoStt
  /\ dev = NONE /\ op = NONE /\ pk = NONE /\ wait = NONE /\ wild = NONE

GreVars == <<hooks, mod, tun>>
XmitVars == <<drv, live, stop, held>>
SttVars == <<hook, sn, n_tunnels, percpu, tab, work, jiffies, gone>>
SocketVars == <<sock, listed, net>>

Init ==
  \/ driver = "gre" /\ G!Init /\ NoSockets /\ NoLists /\ wild = NONE /\ NoXmit /\ NoStt
  \/ driver = "vxlan" /\ V!Init /\ NoGre /\ NoXmit /\ NoStt
  \/ driver = "geneve" /\ N!Init /\ ipv6 = NONE /\ NoGre /\ NoXmit /\ NoStt
  \/ driver = "lisp" /\ L!Init /\ NoLists /\ wild = NONE /\ NoGre /\ NoXmit /\ NoStt
  \/ /\ driver = "xmit" /\ X!Init /\ NoSockets /\ NoLists /\ wild = NONE /\ NoGre /\ NoStt
     /\ op = NONE /\ wait = NONE
  \/ driver = "stt" /\ ST!Init /\ NoSockets /\ NoLists /\ NoGre /\ NoXmit
  \/ driver = "stt table" /\ R!BothUp /\ NoSockets /\ NoLists /\ NoGre /\ NoXmit

Next ==
  /\ UNCHANGED driver
  /\ \/ driver = "gre" /\ G!Next /\ UNCHANGED <<SocketVars, vni, ipv6, wild, XmitVars, SttVars>>
     \/ driver = "vxlan" /\ V!Next /\ UNCHANGED <<GreVars, XmitVars, SttVars>>
     \/ driver = "geneve" /\ N!Next /\ UNCHANGED <<ipv6, GreVars, XmitVars, SttVars>>
     \/ driver = "lisp" /\ L!Next /\ UNCHANGED <<vni, ipv6, wild, GreVars, XmitVars, SttVars>>
     \/ /\ driver = "xmit" /\ X!Next
        /\ UNCHANGED <<SocketVars, vni, ipv6, op, wait, wild, GreVars, SttVars>>
     \/ driver = "stt" /\ ST!Next /\ UNCHANGED <<SocketVars, vni, ipv6, GreVars, XmitVars>>
     \/ driver = "stt table" /\ R!Table /\ UNCHANGED <<SocketVars, vni, ipv6, GreVars, XmitVars>>

vars == <<driver, dev, op, pk, wait, wild, vni, ipv6, SocketVars, GreVars, XmitVars, SttVars>>
Spec == Init /\ [][Next]_vars

\* Devices and sockets outlive the packets that use them; see each driver.
TunnelsInv ==
  /\ driver = "gre" => G!GreInv
  /\ driver = "vxlan" => V!VxlanInv
  /\ driver = "geneve" => N!GeneveInv
  /\ driver = "lisp" => L!LispInv

\* Whatever fails in transmission, nothing leaks; see TunnelXmit.
XmitInv == driver = "xmit" => X!XmitInv

\* Packets in pieces are received whole or not at all; see Stt.
SttInv == (driver = "stt" => ST!SttInv) /\ (driver = "stt table" => R!SttInv)
=============================================================================
