------------------------------ MODULE Conntrack ------------------------------
(***************************************************************************)
(* The conntrack action (conntrack.c): ovs_ct_execute() takes a packet     *)
(* through the connection tracking of a zone, translates its addresses,    *)
(* calls the helper of its connection and, when it commits, confirms the   *)
(* connection, all on one CPU while other CPUs do the same with other      *)
(* packets of the connection.  Between two actions a packet may go to      *)
(* userspace and come back with its key, but without its connection.       *)
(*                                                                         *)
(* The table of connections is netfilter's.  It is modelled by what the    *)
(* code relies on: lookup by tuple and zone, reference counts, new         *)
(* connections that enter the table when they are confirmed and not when   *)
(* they clash, expectations of a helper, address translation.  A tuple is  *)
(* a pair of addresses.  A packet's key is its tuple, as the flow key has  *)
(* it, and the fields of conntrack.                                        *)
(***************************************************************************)
EXTENDS Integers, FiniteSets, Sequences

CONSTANTS PACKETS, CONNS, NONE,
          PIPELINES,   \* sets of pipelines, each the tuple of the packets that take it and the
                       \* conntrack actions that its flows give them: [commit, force, nat, zone,
                       \* mark, labels, helper], as parse_ct() accepts them
          RANGE,       \* the address that "src" and "dst" translate to
          EXPECTED,    \* the tuple that helpers expect
          NAT_EXT_FAILS \* whether nf_ct_nat_ext_add() may fail

VARIABLES conn,   \* the connections
          exp,    \* the expectation, or NONE
          pk,     \* the packets, each with its CPU
          flows   \* the pipelines in use

vars == <<conn, exp, pk, flows>>

\* a tuple is <<source, destination>>
Inv(t) == <<t[2], t[1]>>
Dirs == {"orig", "reply"}
Opposite(d) == IF d = "orig" THEN "reply" ELSE "orig"
NatFlags == {"src_nat", "dst_nat"}
Flag(manip) == IF manip = "src" THEN "src_nat" ELSE "dst_nat"
Other(manip) == IF manip = "src" THEN "dst" ELSE "src"
Part(manip) == IF manip = "src" THEN 1 ELSE 2

NoConn == [state |-> "free", zone |-> 0, tuple |-> [d \in Dirs |-> <<0, 0>>], refs |-> 0,
           master |-> NONE, mark |-> 0, labels |-> 0, helper |-> NONE, done |-> {}, nat |-> {},
           seen_reply |-> FALSE]
NoKey == [tuple |-> <<0, 0>>, ct_state |-> {}, zone |-> 0, mark |-> 0, labels |-> 0, orig |-> <<0, 0>>]
NoAction == [commit |-> FALSE, force |-> FALSE, nat |-> "no", zone |-> 0, mark |-> 0, labels |-> 0,
             helper |-> NONE]
\* the action is done
Done(packet) == [packet EXCEPT !.at = "idle", !.act = NoAction, !.cached = FALSE]
Lost(packet) == [packet EXCEPT !.ct = NONE, !.dir = "orig", !.info = "new"]
NoPacket == [at |-> "gone", tuple |-> <<0, 0>>, ct |-> NONE, dir |-> "orig", info |-> "new",
             key |-> NoKey, act |-> NoAction, cached |-> FALSE, left |-> <<>>, bound |-> NONE]

Idle == conn = [c \in CONNS |-> NoConn] /\ exp = NONE /\ pk = [p \in PACKETS |-> NoPacket]
Init == Idle /\ flows \in PIPELINES

-----------------------------------------------------------------------------
(* Netfilter's table, external *)

Live(cs) == {c \in CONNS : cs[c].state = "confirmed"}
\* nf_conntrack_find_get(): the connection and direction of a tuple
Matches(cs, zone, t) ==
    {x \in Live(cs) \X Dirs : cs[x[1]].zone = zone /\ cs[x[1]].tuple[x[2]] = t}

Get(cs, c) == [cs EXCEPT ![c].refs = @ + 1]
Drop1(cs, c) == IF cs[c].refs = 1 THEN [cs EXCEPT ![c] = NoConn] ELSE [cs EXCEPT ![c].refs = @ - 1]
Put(cs, c) ==
    IF c = NONE THEN cs
    ELSE IF cs[c].refs = 1 /\ cs[c].master # NONE THEN Drop1(Drop1(cs, c), cs[c].master)
    ELSE Drop1(cs, c)
\* nf_ct_delete(): out of the table, with its expectations
Delete(cs, c) == IF cs[c].state = "confirmed" THEN Put([cs EXCEPT ![c].state = "dying"], c) ELSE cs
Expecting(cs, e) == IF e # NONE /\ cs[e.master].state # "confirmed" THEN NONE ELSE e
\* the packets that were tracked as one of the connections that are gone
Unbound(packets, cs) ==
    [p \in PACKETS |->
       IF packets[p].bound # NONE /\ cs[packets[p].bound].state \in {"free", "dying"}
       THEN [packets[p] EXCEPT !.bound = NONE] ELSE packets[p]]

\* the new state of everything after connections have been let go or deleted
Become(cs, packets, e) ==
    conn' = cs /\ exp' = Expecting(cs, e) /\ pk' = Unbound(packets, cs)

\* the flag of the connection's direction, as ovs_ct_get_info() has it
ovs_ct_get_info(c, d) ==
    IF d = "reply" \/ conn[c].seen_reply THEN "est"
    ELSE IF conn[c].master # NONE THEN "rel" ELSE "new"

\* the status bit IPS_CONFIRMED stays when a connection leaves the table
nf_ct_is_confirmed(cs, c) == cs[c].state \in {"confirmed", "dying"}

-----------------------------------------------------------------------------
(* The key *)

\* ovs_ct_get_state(), ovs_ct_update_key() and __ovs_ct_update_key(), from the packet's connection
ovs_ct_get_state(info, d) ==
    {"tracked", info} \cup (IF d = "reply" THEN {"reply"} ELSE {})
Original(cs, c) ==
    LET of == IF cs[c].master = NONE THEN c ELSE cs[c].master IN cs[of].tuple["orig"]
Updated(key, cs, c, d, info) ==
    [key EXCEPT !.ct_state = ovs_ct_get_state(info, d)
                      \cup (IF cs[c].state = "new" THEN {"new"} ELSE {})
                      \cup (IF cs[c].master # NONE THEN {"rel"} ELSE {}),
                !.zone = cs[c].zone, !.mark = cs[c].mark, !.labels = cs[c].labels,
                !.orig = Original(cs, c)]
Invalid(key, zone) ==
    [key EXCEPT !.ct_state = {"tracked", "invalid"}, !.zone = zone, !.mark = 0, !.labels = 0,
                !.orig = <<0, 0>>]

-----------------------------------------------------------------------------
(* Packets *)

Enter(p, f) ==
    /\ pk[p].at = "gone"
    /\ pk' = [pk EXCEPT ![p] = [NoPacket EXCEPT !.at = "idle", !.tuple = f.tuple, !.left = f.acts,
                                               !.key = [NoKey EXCEPT !.tuple = f.tuple]]]
    /\ UNCHANGED <<conn, exp>>

\* kfree_skb(), on an error, or after the last action
Freed(p, cs, e) == Become(Put(cs, pk[p].ct), [pk EXCEPT ![p] = NoPacket], e)
Leave(p) == pk[p].at = "idle" /\ Freed(p, conn, exp)
Failed(p) == Freed(p, conn, exp)

\* to userspace and back: the packet and its key return, its connection does not
Upcall(p) ==
    /\ pk[p].at = "idle" /\ pk[p].ct # NONE /\ pk[p].left # <<>>
    /\ Become(Put(conn, pk[p].ct), [pk EXCEPT ![p] = Lost(@)], exp)

\* a connection times out or is deleted by hand
Expire(c) ==
    /\ conn[c].state = "confirmed"
    /\ Become(Delete(conn, c), pk, exp)
ExpectationExpires == exp # NONE /\ exp' = NONE /\ UNCHANGED <<conn, pk>>

-----------------------------------------------------------------------------
(* ovs_ct_execute() *)

\* padding is trimmed and fragments are gathered, which may fail or keep the packet
ovs_ct_execute(p) ==
    /\ pk[p].at = "idle" /\ pk[p].left # <<>>
    /\ \/ Failed(p)
       \/ /\ LET a == Head(pk[p].left)
             IN  pk' = [pk EXCEPT ![p].at = IF a.commit THEN "executed" ELSE "lookup",
                                  ![p].act = a, ![p].left = Tail(@)]
          /\ UNCHANGED <<conn, exp>>

\* ovs_ct_lookup(): an expected packet is left alone until it is committed; a connection
\* that clashes with the expectation goes
Expects(p) == exp # NONE /\ exp.zone = pk[p].act.zone /\ exp.tuple = pk[p].tuple
ovs_ct_expect_find(p) ==
    /\ pk[p].at = "lookup"
    /\ IF Expects(p)
       THEN LET clash == {m[1] : m \in Matches(conn, exp.zone, exp.tuple)}
                cs == IF clash = {} THEN conn ELSE Delete(conn, CHOOSE c \in clash : TRUE)
                master == conn[exp.master]
            IN  Become(cs,
                  [pk EXCEPT ![p] = [Done(@) EXCEPT !.bound = NONE],
                             ![p].key = [@ EXCEPT !.ct_state = {"tracked", "new", "rel"},
                                                  !.zone = exp.zone, !.mark = master.mark,
                                                  !.labels = master.labels,
                                                  !.orig = Original(conn, exp.master)]],
                  exp)
       ELSE pk' = [pk EXCEPT ![p].at = "executed"] /\ UNCHANGED <<conn, exp>>

\* ovs_ct_executed() and ovs_ct_find_existing(): a packet that has lost its connection; the
\* inverted tuple of one that is translated is found in the other direction
Executed(p) ==
    LET k == pk[p].key IN "tracked" \in k.ct_state /\ "invalid" \notin k.ct_state
                          /\ k.zone = pk[p].act.zone
Natted(p) == pk[p].key.ct_state \cap NatFlags # {}
Existing(p) ==
    Matches(conn, pk[p].act.zone, IF Natted(p) THEN Inv(pk[p].tuple) ELSE pk[p].tuple)
\* mutant: the direction the tuple was found in
DirectionKept(p) == Existing(p)
ovs_ct_find_existing(p) ==
    {<<m[1], IF Natted(p) THEN Opposite(m[2]) ELSE m[2]>> : m \in Existing(p)}
ovs_ct_executed(p) ==
    /\ pk[p].at = "executed"
    /\ IF pk[p].ct = NONE /\ (Executed(p) \/ (pk[p].key.ct_state = {} /\ pk[p].act.force))
          /\ ovs_ct_find_existing(p) # {}
       THEN LET m == CHOOSE m \in ovs_ct_find_existing(p) : TRUE
            IN  /\ conn' = Get(conn, m[1])
                /\ pk' = [pk EXCEPT ![p].at = "cached", ![p].cached = Executed(p), ![p].ct = m[1],
                                    ![p].dir = m[2], ![p].info = ovs_ct_get_info(m[1], m[2])]
       ELSE /\ pk' = [pk EXCEPT ![p].at = "cached",
                                ![p].cached = pk[p].ct # NONE]
            /\ UNCHANGED conn
    /\ UNCHANGED exp

\* skb_nfct_cached(): is it the connection a lookup would find?
OfZone(p) == conn[pk[p].ct].zone = pk[p].act.zone
Cached(p) ==
    /\ pk[p].ct # NONE /\ OfZone(p)
    /\ NONE \in {pk[p].act.helper, conn[pk[p].ct].helper} \/ pk[p].act.helper = conn[pk[p].ct].helper
Backwards(p) == pk[p].act.force /\ pk[p].dir = "reply"
skb_nfct_cached(p) ==
    /\ pk[p].at = "cached"
    /\ IF Cached(p) /\ Backwards(p)
       THEN LET cs == Put(Delete(conn, pk[p].ct), pk[p].ct)
            IN  Become(cs, [pk EXCEPT ![p] = [Lost(@) EXCEPT !.at = "in"]], exp)
       ELSE /\ pk' = [pk EXCEPT ![p].at = IF Cached(p) /\ pk[p].cached THEN "nat" ELSE "in",
                                ![p].cached = Cached(p) /\ pk[p].cached]
            /\ UNCHANGED <<conn, exp>>

-----------------------------------------------------------------------------
(* __ovs_ct_lookup() *)

\* nf_conntrack_in() with the action's zone and helper, in place of the connection the packet
\* had, and the key of what it finds: a connection, a new one, or that the packet is invalid
NewConn(p, e) ==
    [NoConn EXCEPT !.state = "new", !.refs = 1, !.zone = pk[p].act.zone,
                   !.tuple = [d \in Dirs |-> IF d = "orig" THEN pk[p].tuple ELSE Inv(pk[p].tuple)],
                   !.master = IF e = NONE THEN NONE ELSE e.master,
                   !.mark = IF e = NONE THEN 0 ELSE conn[e.master].mark,
                   !.helper = IF e = NONE THEN pk[p].act.helper ELSE NONE]
Tracked(p, cs, packets, c, d, info) ==
    /\ conn' = cs
    /\ pk' = [packets EXCEPT ![p].at = "nat", ![p].ct = c, ![p].dir = d, ![p].info = info,
                             ![p].bound = c,
                             ![p].key = Updated([@ EXCEPT !.ct_state = {}], cs, c, d, info)]
nf_conntrack_in(p) ==
    LET cs == Put(conn, pk[p].ct)
        packets == Unbound(pk, cs)
        found == Matches(cs, pk[p].act.zone, pk[p].tuple)
        free == {c \in CONNS : cs[c].state = "free"}
        e == IF Expects(p) THEN exp ELSE NONE
    IN
    /\ pk[p].at = "in"
    /\ \/ Failed(p)
       \/ /\ conn' = cs
          /\ pk' = [packets EXCEPT ![p] = [Lost(@) EXCEPT !.at = "nat", !.bound = NONE],
                                   ![p].key = Invalid(@, pk[p].act.zone)]
          /\ UNCHANGED exp
       \/ \E m \in found :
            /\ Tracked(p, [Get(cs, m[1]) EXCEPT ![m[1]].seen_reply = @ \/ m[2] = "reply"],
                       packets, m[1], m[2], ovs_ct_get_info(m[1], m[2]))
            /\ UNCHANGED exp
       \/ /\ found = {} /\ free # {}
          /\ LET c == CHOOSE c \in free : TRUE
                 with == IF e = NONE THEN cs ELSE Get(cs, e.master)
             IN  Tracked(p, [with EXCEPT ![c] = NewConn(p, e)], packets, c, "orig",
                         IF e = NONE THEN "new" ELSE "rel")
          /\ exp' = IF e = NONE THEN exp ELSE NONE

\* ovs_ct_nat(): which of the packet's addresses is translated
Maniptype(p) ==
    LET c == conn[pk[p].ct]
        a == pk[p].act
        origin == IF "src" \in c.nat THEN "src" ELSE "dst"
    IN  IF pk[p].info # "new" /\ c.nat # {} /\ (pk[p].info # "rel" \/ a.commit)
        THEN IF pk[p].dir = "reply" THEN Other(origin) ELSE origin
        ELSE IF a.nat \in {"src", "dst"} THEN a.nat ELSE NONE

\* nf_nat_setup_info() and nf_nat_alloc_null_binding(): only for what is not in the table yet
SetUp(c, manip, a) ==
    LET sent == Inv(c.tuple["reply"])
        new == IF a.nat = manip THEN [sent EXCEPT ![Part(manip)] = RANGE[manip]] ELSE sent
    IN  IF c.state # "new" THEN c
        ELSE [c EXCEPT !.done = @ \cup {manip}, !.tuple["reply"] = Inv(new),
                       !.nat = IF new = sent THEN @ ELSE @ \cup {manip}]

\* ovs_ct_nat_execute(), with nf_nat_packet(), and ovs_nat_update_key()
ovs_ct_nat_execute(p, manip) ==
    LET old == conn[pk[p].ct]
        c == IF pk[p].info \in {"new", "rel"} /\ manip \notin old.done
             THEN SetUp(old, manip, pk[p].act) ELSE old
        bit == IF pk[p].dir = "reply" THEN Other(manip) ELSE manip
        to == Inv(c.tuple[Opposite(pk[p].dir)])[Part(manip)]
        address == IF bit \in c.nat THEN to ELSE pk[p].tuple[Part(manip)]
    IN  /\ conn' = [conn EXCEPT ![pk[p].ct] = c]
        /\ pk' = [pk EXCEPT ![p].at = "helper", ![p].tuple[Part(manip)] = address,
                            ![p].key.tuple[Part(manip)] = address,
                            ![p].key.ct_state = @ \cup {Flag(manip)}]

\* once per packet and zone, and for a new connection not before it is committed
MayNat(p) ==
    /\ pk[p].act.nat # "no" /\ ~Natted(p)
    /\ nf_ct_is_confirmed(conn, pk[p].ct) \/ pk[p].act.commit
ovs_ct_nat(p) ==
    /\ pk[p].at = "nat"
    /\ \/ /\ pk[p].ct = NONE
          /\ pk' = [pk EXCEPT ![p] = Done(@)] /\ UNCHANGED conn
       \/ /\ pk[p].ct # NONE
          /\ IF MayNat(p) /\ Maniptype(p) # NONE
             THEN ovs_ct_nat_execute(p, Maniptype(p))
             ELSE pk' = [pk EXCEPT ![p].at = "helper"] /\ UNCHANGED conn
       \/ /\ pk[p].ct # NONE /\ MayNat(p) /\ NAT_EXT_FAILS /\ conn[pk[p].ct].state = "new"
          /\ pk' = [pk EXCEPT ![p].at = "helper"] /\ UNCHANGED conn
    /\ UNCHANGED exp
NatFails(p) == pk[p].at = "nat" /\ pk[p].ct # NONE /\ MayNat(p) /\ Maniptype(p) # NONE /\ Failed(p)

\* the helper is assigned to a connection about to be committed, and called once for a
\* packet: when it is looked up, or when its new connection is committed (ovs_ct_helper())
Assigned(p) ==
    LET c == pk[p].ct IN
    IF conn[c].state = "new" /\ pk[p].act.commit /\ conn[c].helper = NONE
    THEN [conn EXCEPT ![c].helper = pk[p].act.helper] ELSE conn
MayHelp(p) == IF nf_ct_is_confirmed(conn, pk[p].ct) THEN ~pk[p].cached ELSE pk[p].act.commit
ovs_ct_helper(p) ==
    LET c == conn[pk[p].ct] IN
    /\ pk[p].at = "helper"
    /\ \/ Assigned(p)[pk[p].ct].helper # NONE /\ Failed(p)
       \/ /\ conn' = Assigned(p)
          /\ pk' = [pk EXCEPT ![p] = IF @.act.commit THEN [@ EXCEPT !.at = "commit"] ELSE Done(@)]
          /\ \/ UNCHANGED exp
             \/ /\ MayHelp(p) /\ c.state = "confirmed" /\ c.helper # NONE /\ c.master = NONE
                /\ exp = NONE
                /\ exp' = [zone |-> c.zone, tuple |-> EXPECTED, master |-> pk[p].ct]

-----------------------------------------------------------------------------
(* ovs_ct_commit() *)

\* ovs_ct_set_mark(), and ovs_ct_init_labels() or ovs_ct_set_labels(); 0 is no mask
MarkOf(p) == IF pk[p].act.mark = 0 THEN conn[pk[p].ct].mark ELSE pk[p].act.mark
LabelsOf(p) ==
    LET c == conn[pk[p].ct]
        master == IF c.state = "new" /\ c.master # NONE THEN conn[c.master].labels ELSE c.labels
    IN  IF pk[p].act.labels = 0 THEN master ELSE pk[p].act.labels
SetMarkAndLabels(p) ==
    /\ pk[p].at = "commit"
    /\ \/ (pk[p].act.labels # 0 \/ conn[pk[p].ct].master # NONE) /\ Failed(p)
       \/ /\ conn' = [conn EXCEPT ![pk[p].ct].mark = MarkOf(p), ![pk[p].ct].labels = LabelsOf(p)]
          /\ pk' = [pk EXCEPT ![p].at = "confirm",
                              ![p].key.mark = IF conn[pk[p].ct].mark = MarkOf(p) THEN @ ELSE MarkOf(p),
                              ![p].key.labels = IF pk[p].act.labels = 0 /\ LabelsOf(p) = 0 THEN @
                                                ELSE LabelsOf(p)]
          /\ UNCHANGED exp

\* nf_conntrack_confirm(): into the table, unless another connection has a tuple of this one
Clashes(c) ==
    \E d \in Dirs : Matches(conn, conn[c].zone, conn[c].tuple[d]) # {}
nf_conntrack_confirm(p) ==
    /\ pk[p].at = "confirm"
    /\ IF conn[pk[p].ct].state = "new" /\ Clashes(pk[p].ct)
       THEN Failed(p)
       ELSE /\ conn' = IF conn[pk[p].ct].state = "new"
                       THEN [Get(conn, pk[p].ct) EXCEPT ![pk[p].ct].state = "confirmed"] ELSE conn
            /\ pk' = [pk EXCEPT ![p] = Done(@)]
            /\ UNCHANGED exp

Step ==
    \/ \E p \in PACKETS :
         \/ \E f \in flows : Enter(p, f)
         \/ Leave(p) \/ Upcall(p)
         \/ ovs_ct_execute(p) \/ ovs_ct_expect_find(p) \/ ovs_ct_executed(p) \/ skb_nfct_cached(p)
         \/ nf_conntrack_in(p) \/ ovs_ct_nat(p) \/ NatFails(p) \/ ovs_ct_helper(p)
         \/ SetMarkAndLabels(p) \/ nf_conntrack_confirm(p)
    \/ \E c \in CONNS : Expire(c)
    \/ ExpectationExpires

Next == Step /\ UNCHANGED flows

Spec == Init /\ [][Next]_vars

-----------------------------------------------------------------------------
(* Properties *)

\* A connection is referred to by the table, by the packets that have it and by those it is
\* the master of, and is freed with the last of them.
RefsExact ==
    \A c \in CONNS :
      conn[c].refs = Cardinality({p \in PACKETS : pk[p].ct = c})
                     + Cardinality({d \in CONNS : conn[d].master = c})
                     + (IF conn[c].state = "confirmed" THEN 1 ELSE 0)

\* The table finds one connection for a tuple, whatever is committed at the same time.
Unambiguous ==
    \A c \in Live(conn), d \in Dirs : Cardinality(Matches(conn, conn[c].zone, conn[c].tuple[d])) <= 1

\* While an action is executed, the packet's connection is one of the action's zone.
OwnZone ==
    \A p \in PACKETS : pk[p].at \in {"nat", "helper", "commit", "confirm"} /\ pk[p].ct # NONE =>
      conn[pk[p].ct].zone = pk[p].act.zone

\* A packet that has a connection carries the addresses of its direction, translated or not,
\* also when the connection has been found again after an upcall.
TupleOfConn ==
    \A p \in PACKETS : pk[p].ct # NONE =>
      LET c == conn[pk[p].ct]
      IN  pk[p].tuple \in {c.tuple[pk[p].dir], Inv(c.tuple[Opposite(pk[p].dir)])}

\* The key of a packet that is translated once per zone says that it is, and has its addresses.
Translated ==
    \A p \in PACKETS : pk[p].at # "gone" =>
      /\ pk[p].key.tuple = pk[p].tuple
      /\ pk[p].at \in {"helper", "commit", "confirm"} /\ Natted(p) =>
           conn[pk[p].ct].nat = {} \/ pk[p].tuple = Inv(conn[pk[p].ct].tuple[Opposite(pk[p].dir)])

\* A packet whose connection is not lost is found to belong to it after an upcall, in the
\* direction its key tells; what is read from the key and what is done to the connection agree.
SameConnection ==
    \A p \in PACKETS : pk[p].bound # NONE =>
      /\ pk[p].ct \in {NONE, pk[p].bound}
      /\ pk[p].key.zone = conn[pk[p].bound].zone
      /\ pk[p].key.orig = Original(conn, pk[p].bound)
      /\ pk[p].ct # NONE => (pk[p].dir = "reply" <=> "reply" \in pk[p].key.ct_state)

\* "Packets starting a new connection must be NATted before the helper" (line 975).
NatBeforeHelper ==
    \A p \in PACKETS :
      pk[p].at = "helper" /\ conn[pk[p].ct].state = "new" /\ pk[p].act.nat \in {"src", "dst"} =>
        conn[pk[p].ct].done # {}

ConntrackInv ==
    RefsExact /\ Unambiguous /\ OwnZone /\ TupleOfConn /\ Translated /\ SameConnection
    /\ NatBeforeHelper

\* Not kept by the code: "If directionality does not match, will delete the existing conntrack
\* entry and create a new one" (linux/compat/include/linux/openvswitch.h:758), which is done only
\* when the packet does not come with the connection of another zone.
ForcedOriginal ==
    \A p \in PACKETS : pk[p].at = "confirm" /\ pk[p].act.force => pk[p].dir = "orig"

\* Not kept by the code: ovs_ct_set_mark() leaves the key alone when the connection has got the
\* same mark from another packet meanwhile.
MarkInKey ==
    \A p \in PACKETS : pk[p].at = "confirm" /\ pk[p].act.mark # 0 => pk[p].key.mark = pk[p].act.mark
=============================================================================
