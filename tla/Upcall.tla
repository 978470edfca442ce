---------------------------------- MODULE Upcall ----------------------------------
(***************************************************************************)
(* Upcalls: packets on several CPUs choose one of the netlink sockets of   *)
(* their port while userspace replaces the list of sockets or deletes the  *)
(* port, and are queued, segment by segment, in sockets that may be full   *)
(* (vport.c, datapath.c, actions.c).                                       *)
(*                                                                         *)
(* The list of sockets (struct vport_portids) is read under RCU and freed  *)
(* after a grace period.                                                   *)
(***************************************************************************)
EXTENDS Naturals, Sequences, FiniteSets

CONSTANTS
  CPUs,         \* those that receive packets
  Portids,      \* the sockets userspace may have open
  ActionIds,    \* those of them that USERSPACE actions name
  IdLists,      \* the lists of portids a port may be given; 0 is no socket
  Hashes,       \* of packets
  Kinds,        \* of packets: whether GSO segments them, and into UDP fragments
  MAX_PACKETS,
  MAX_LISTS     \* how many lists the port is given

\* The lists a port may be given are lists of portids, none of them empty, which
\* ovs_vport_set_upcall_portids() checks; hashes are numbers.
ASSUME UpcallAssumption == IdLists \subseteq Seq(Nat) \ {<<>>} /\ Hashes \subseteq Nat

VARIABLES
  lists,        \* every list made: its ids, "live", "replaced" or "freed", and the CPUs
                \* whose read sections keep it from being freed
  port,         \* the list upcall_portids points to, and whether the port is there
  cpu,          \* what each CPU is doing
  open,         \* the sockets that are open
  stats,        \* n_missed and n_lost of the datapath
  sent          \* of every packet: hash, kind, list, portid, messages queued, and its end

UpcallVars == <<lists, port, cpu, open, stats, sent>>

Idle == [pc |-> "idle", pkt |-> 0, list |-> 0, portid |-> 0, segs |-> 0, at |-> 0, err |-> FALSE]
SegsOf(kind) == IF kind = "plain" THEN 1 ELSE 2

UpcallInit ==
  /\ \E ids \in IdLists : lists = <<[ids |-> ids, st |-> "live", waits |-> {}]>>
  /\ port = [ids |-> 1, here |-> TRUE]
  /\ cpu = [c \in CPUs |-> Idle]
  /\ open = Portids
  /\ stats = [n_missed |-> 0, n_lost |-> 0]
  /\ sent = <<>>

-----------------------------------------------------------------------------
(* A packet *)

\* ovs_dp_process_packet(): a flow is missed, or the action USERSPACE names a socket (that of
\* output_userspace()).  The packet is a softirq's: what it does is one read section.
process_packet(c) ==
  /\ cpu[c].pc = "idle" /\ port.here /\ Len(sent) < MAX_PACKETS
  /\ \E h \in Hashes, k \in Kinds, p \in ActionIds \cup {0} :
       /\ sent' = Append(sent, [hash |-> h, kind |-> k, list |-> 0, portid |-> p, msgs |-> <<>>, end |-> "held"])
       /\ cpu' = [cpu EXCEPT ![c] = [@ EXCEPT !.pkt = Len(sent) + 1, !.portid = p, !.segs = SegsOf(k),
                                              !.pc = IF p = 0 THEN "find" ELSE "upcall"]]
  /\ UNCHANGED <<lists, port, open, stats>>

\* ovs_vport_find_upcall_portid(): rcu_dereference(), and then what it points to.
find_upcall_portids(c) ==
  /\ cpu[c].pc = "find"
  /\ cpu' = [cpu EXCEPT ![c].list = port.ids, ![c].pc = "choose"]
  /\ UNCHANGED <<lists, port, open, stats, sent>>
Choice(ids, h) == IF ids = <<0>> THEN 0 ELSE ids[(h % Len(ids)) + 1]
find_upcall_portid(c) ==
  /\ cpu[c].pc = "choose"
  /\ LET id == Choice(lists[cpu[c].list].ids, sent[cpu[c].pkt].hash) IN
     /\ cpu' = [cpu EXCEPT ![c].portid = id, ![c].pc = "upcall"]
     /\ sent' = [sent EXCEPT ![cpu[c].pkt].portid = id, ![cpu[c].pkt].list = cpu[c].list]
  /\ UNCHANGED <<lists, port, open, stats>>

\* ovs_dp_upcall() without a socket, or when segmenting fails.
upcall_fails(c) ==
  /\ cpu[c].pc = "upcall"
  /\ cpu[c].portid = 0 \/ sent[cpu[c].pkt].kind # "plain"
  /\ cpu' = [cpu EXCEPT ![c].err = TRUE, ![c].pc = "sent"]
  /\ UNCHANGED <<lists, port, open, stats, sent>>

\* queue_userspace_packet() of the packet or of its next segment.  Of the segments that are
\* UDP fragments, all but the first have the key of a later fragment.  Memory may be short
\* and the socket full, which here may happen at any time, or gone.
Frag(kind, at) == IF kind # "udp" THEN "none" ELSE IF at = 0 THEN "first" ELSE "later"
QueueOn(c, on) ==
  LET p == cpu[c].portid
      pkt == cpu[c].pkt
      msg == [pkt |-> pkt, seg |-> cpu[c].at, frag |-> Frag(sent[pkt].kind, cpu[c].at)]
      end == cpu[c].at + 1 = cpu[c].segs
  IN
  /\ cpu[c].pc = "upcall" /\ p # 0
  /\ \/ /\ p \in open
        /\ sent' = [sent EXCEPT ![pkt].msgs = Append(@, msg)]
        /\ cpu' = [cpu EXCEPT ![c].at = @ + 1, ![c].pc = IF end THEN "sent" ELSE "upcall"]
     \/ /\ cpu' = [cpu EXCEPT ![c].err = TRUE, ![c].at = @ + 1, ![c].pc = IF end \/ ~on THEN "sent" ELSE "upcall"]
        /\ UNCHANGED sent
  /\ UNCHANGED <<lists, port, open, stats>>
queue_on(c) == QueueOn(c, TRUE)                                     \* mutant
queue_userspace_packet(c) == QueueOn(c, FALSE)

\* The segments are freed, and, of a miss, the packet; a loss is counted.
Freed(err) == IF err THEN "killed" ELSE "consumed"
upcall_done(c) ==
  LET f == cpu[c] IN
  /\ f.pc = "sent"
  /\ stats' = [n_missed |-> stats.n_missed + IF f.list # 0 THEN 1 ELSE 0,
               n_lost |-> stats.n_lost + IF f.err THEN 1 ELSE 0]
  /\ sent' = [sent EXCEPT ![f.pkt].end = IF f.list # 0 THEN Freed(f.err) ELSE "returned"]
  /\ cpu' = [cpu EXCEPT ![c] = Idle]
  /\ lists' = [i \in DOMAIN lists |-> [lists[i] EXCEPT !.waits = @ \ {c}]]
  /\ UNCHANGED <<port, open>>

-----------------------------------------------------------------------------
(* Userspace and RCU *)

\* OVS_VPORT_CMD_SET, under ovs_mutex: the new list is written before it is published, and
\* kfree_rcu() waits for the packets that are there.
Readers == {c \in CPUs : cpu[c].pc # "idle"}
NoReaders == {}                                                     \* mutant
WaitsFor == Readers
Replaced == [lists EXCEPT ![port.ids].st = "replaced", ![port.ids].waits = WaitsFor]
ovs_vport_set_upcall_portids ==
  /\ port.here /\ Len(lists) < MAX_LISTS
  /\ \E ids \in IdLists : lists' = Append(Replaced, [ids |-> ids, st |-> "live", waits |-> {}])
  /\ port' = [port EXCEPT !.ids = Len(lists) + 1]
  /\ UNCHANGED <<cpu, open, stats, sent>>

\* The port is detached; ovs_vport_free() frees its list after a grace period.
ovs_dp_detach_port ==
  /\ port.here
  /\ lists' = Replaced /\ port' = [port EXCEPT !.here = FALSE]
  /\ UNCHANGED <<cpu, open, stats, sent>>

grace_period ==
  /\ \E i \in DOMAIN lists :
       /\ lists[i].st = "replaced" /\ lists[i].waits = {}
       /\ lists' = [lists EXCEPT ![i].st = "freed"]
  /\ UNCHANGED <<port, cpu, open, stats, sent>>

\* A socket is closed.
close(p) ==
  /\ p \in open
  /\ open' = open \ {p}
  /\ UNCHANGED <<lists, port, cpu, stats, sent>>

UpcallNext ==
  \/ \E c \in CPUs :
       \/ process_packet(c) \/ find_upcall_portids(c) \/ find_upcall_portid(c)
       \/ upcall_fails(c) \/ queue_userspace_packet(c) \/ upcall_done(c)
  \/ ovs_vport_set_upcall_portids \/ ovs_dp_detach_port \/ grace_period
  \/ \E p \in Portids : close(p)

UpcallSpec == UpcallInit /\ [][UpcallNext]_UpcallVars
-----------------------------------------------------------------------------
(* Properties *)

\* A list that a packet reads has not been freed; it chooses a socket of that list, and
\* packets of one flow the same, as long as the list is not replaced.
Ids(i) == {lists[i].ids[n] : n \in DOMAIN lists[i].ids}
RightSocket ==
  /\ \A c \in CPUs : cpu[c].pc = "choose" => lists[cpu[c].list].st # "freed"
  /\ \A i, j \in DOMAIN sent :
       sent[i].list # 0 =>
         /\ sent[i].portid \in Ids(sent[i].list)
         /\ sent[i].list = sent[j].list /\ sent[i].hash = sent[j].hash => sent[i].portid = sent[j].portid

\* What is queued of a packet is its first segments, in order and each once; the packet
\* counts as lost exactly if one of them is missing, and only the first segment, or none, of
\* what would be UDP fragments is called the first fragment.
Complete(t) == Len(t.msgs) = SegsOf(t.kind)
SegmentsInOrder ==
  /\ \A i \in DOMAIN sent : \A n \in DOMAIN sent[i].msgs :
       sent[i].msgs[n].seg = n - 1 /\ (sent[i].msgs[n].frag = "first" <=> sent[i].kind = "udp" /\ n = 1)
  /\ \A i \in DOMAIN sent : sent[i].end = "consumed" => Complete(sent[i])
  /\ stats.n_lost = Cardinality({i \in DOMAIN sent : sent[i].end # "held" /\ ~Complete(sent[i])})
  /\ stats.n_missed = Cardinality({i \in DOMAIN sent : sent[i].end \in {"consumed", "killed"}})
================================================================================
