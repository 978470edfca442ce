------------------------------ MODULE MCServices ------------------------------
(***************************************************************************)
(* What runs beside the datapaths: the sketches and the thread that        *)
(* reports them (CountMax, Sketch and SketchModule), and the drivers of    *)
(* the tunnel ports (Tunnels); and the conntrack action (Conntrack), whose *)
(* connections the datapaths of a namespace share.  The parts share        *)
(* nothing: a behaviour is one part's, chosen first.                       *)
(***************************************************************************)
EXTENDS CountMax, TLC

CONSTANTS z, k1, k2, k3, c1, c2, Sampled, Cpus, MAX_RACES, MAX_CONNS, MAX_CALLBACKS,
          d1, d2, s1, s2, s3, s4, s5, p1, p2, n1, n2, NONE,
          PACKETS, DRIVERS, MAX_SEGS, MAX_SOCKS, LOOKUP_NET

ASSUME RacesAssumption == IsFiniteSet(Cpus) /\ MAX_RACES \in Nat

VARIABLES part,
  hi, lo, counters, cpu, reporter, updated, seen, raced,
  load, up, sketch, thread, conns, dps, callbacks,
  driver, dev, listed, sock, vni, op, pk, wait, wild, net, ipv6, hooks, mod, tun,
  drv, live, stop, held, hook, sn, n_tunnels, percpu, tab, work, jiffies, gone,
  conn, exp, skb, flows

\* One bucket is shared by all flows but one.
ShareZero == [k \in Flows |-> IF k = k3 THEN 1 ELSE 0]

S == INSTANCE Sketch WITH
       thread <- reporter, sent <- updated, traffic <- seen, MAX_TRAFFIC <- MAX_RACES
M == INSTANCE SketchModule
T == INSTANCE Tunnels

\* What the proofs about transmission assume, and that no driver is the null value.
ASSUME XmitConstants == T!X!XmitAssumption /\ NONE # "xmit"

\* Pipelines of conntrack actions: a server behind the address 4 and replies to it, two hosts that
\* are translated to the same address, a connection that a helper expects, two zones, and a
\* direction that is forced while labels are set.
Translate == [m \in {"src", "dst"} |-> IF m = "src" THEN 4 ELSE 6]
Plain == [commit |-> FALSE, force |-> FALSE, nat |-> "no", zone |-> 1, mark |-> 0, labels |-> 0,
          helper |-> NONE]
Lookup == [Plain EXCEPT !.nat = "nat"]
Commit == [Plain EXCEPT !.commit = TRUE]
Snat == [Commit EXCEPT !.nat = "src", !.mark = 1]
Peek2 == [Lookup EXCEPT !.zone = 2]
Pipe(t, a) == [tuple |-> t, acts |-> a]
Pipelines ==
  { {Pipe(<<1, 2>>, <<Snat>>), Pipe(<<2, 4>>, <<Lookup, Lookup>>)},
    {Pipe(<<1, 2>>, <<Snat>>), Pipe(<<2, 4>>, <<[Commit EXCEPT !.nat = "nat", !.mark = 2]>>)},
    {Pipe(<<1, 2>>, <<Snat>>), Pipe(<<3, 2>>, <<Snat>>)},
    {Pipe(<<1, 2>>, <<[Snat EXCEPT !.helper = d1]>>),
     Pipe(<<2, 5>>, <<Lookup, [Commit EXCEPT !.nat = "nat"]>>)},
    {Pipe(<<1, 2>>, <<Peek2, [Commit EXCEPT !.nat = "dst"], Peek2>>)},
    {Pipe(<<1, 2>>, <<[Commit EXCEPT !.labels = 1]>>),
     Pipe(<<2, 1>>, <<[Commit EXCEPT !.force = TRUE]>>)} }
K == INSTANCE Conntrack WITH
       pk <- skb, PACKETS <- {p1, p2}, CONNS <- {k1, k2}, RANGE <- Translate, EXPECTED <- <<2, 5>>,
       PIPELINES <- Pipelines, NAT_EXT_FAILS <- FALSE

SketchVars == <<hi, lo, counters, cpu, reporter, updated, seen, raced>>
ModuleVars == <<load, up, sketch, thread, conns, dps, callbacks>>
TunnelVars ==
  <<driver, dev, listed, sock, vni, op, pk, wait, wild, net, ipv6, hooks, mod, tun, drv, live,
    stop, held, hook, sn, n_tunnels, percpu, tab, work, jiffies, gone>>
ConntrackVars == <<conn, exp, skb, flows>>
Parts == <<part, vars, SketchVars, ModuleVars, TunnelVars, ConntrackVars>>

PartInit ==
  /\ Init /\ S!Init /\ M!Init
  /\ \/ part \in {"countmax", "races", "module"} /\ T!NoDriver /\ K!Idle /\ flows = {}
     \/ part = "tunnels" /\ T!Init /\ K!Idle /\ flows = {}
     \/ part = "conntrack" /\ T!NoDriver /\ K!Init
PartNext ==
  \/ part = "countmax" /\ Next /\ UNCHANGED <<part, SketchVars, ModuleVars, TunnelVars, ConntrackVars>>
  \/ part = "races" /\ S!Next /\ UNCHANGED <<part, vars, ModuleVars, TunnelVars, ConntrackVars>>
  \/ part = "module" /\ M!Next /\ UNCHANGED <<part, vars, SketchVars, TunnelVars, ConntrackVars>>
  \/ part = "tunnels" /\ T!Next /\ UNCHANGED <<part, vars, SketchVars, ModuleVars, ConntrackVars>>
  \/ part = "conntrack" /\ K!Next /\ UNCHANGED <<part, vars, SketchVars, ModuleVars, TunnelVars>>
PartSpec == PartInit /\ [][PartNext]_Parts

\* The types and the bound on racing updates; see Sketch.
TrafficInv == part = "races" => S!TrafficInv
\* Updates that do not race are those of CountMax; see Sketch.
ImplementsCountMax == S!CM!Init /\ [][part = "races" => S!UpdatesOfCountMax]_Parts
\* The module is taken down in order, its thread before its sketches; see SketchModule.
ModuleSafe == part = "module" => M!ModuleSafe
\* Devices and sockets of GRE, VXLAN, Geneve and LISP outlive the packets that use them.
TunnelsInv == T!TunnelsInv
\* Whatever fails in transmission, nothing leaks; see TunnelXmit.
XmitInv == T!XmitInv
\* Packets in pieces are received whole or not at all; see Stt.
SttInv == T!SttInv
\* Connections, packets and keys agree, whatever the other CPU does; see Conntrack.
ConntrackInv == K!ConntrackInv
================================================================================
