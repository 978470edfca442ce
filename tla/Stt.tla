-------------------------------- MODULE Stt --------------------------------
(***************************************************************************)
(* The STT driver's receiving side (linux/compat/stt.c): packets that look *)
(* like TCP segments are taken by a netfilter hook of their namespace,     *)
(* reassembled in a table of a CPU, and received by the device that is up  *)
(* on their port.  The tables are made with the first device that comes up *)
(* anywhere and go with the last; delayed work frees what is too old.      *)
(*                                                                         *)
(* Devices change under RTNL, one operation at a time, a device being      *)
(* named by its namespace and port.  Fragments are lost, duplicated and    *)
(* reordered as the network pleases.  One CPU's table is modelled: no      *)
(* packet is ever looked for in another's.                                 *)
(***************************************************************************)
EXTENDS Integers, FiniteSets, Sequences, SequencesExt

CONSTANTS DEVS,      \* <<namespace, port>> of the devices that may exist
          NETS, PACKETS, NONE,
          FRAGMENTS, \* what may arrive: records [key, offset, len, ce]
          TotLen,    \* the length of each key's packet, as its fragments tell it
          SLOTS,     \* entries of the table, 1..n
          Candidates,\* of <<namespace, key>>: the sequence of FRAG_HASH_SEGS entries
          REASM_HI_THRESH, REASM_LO_THRESH, FRAG_EXP_TIME,
          MAX_TIME,  \* bound on the clock
          MAX_DRIFT, \* bound on what stt_net.n_tunnels drifts to
          SKIP_ZERO_COPY,   \* the build option
          HOOK_FAILS, SOCK_FAILS   \* whether these calls may fail

VARIABLES
    hook,    \* namespaces whose hook is registered
    sn,      \* stt_net.n_tunnels of each namespace
    n_tunnels,
    percpu,  \* stt_percpu_data: "none" or "live"
    tab,     \* the CPU's table
    work,    \* clean_percpu()'s delayed work
    jiffies,
    dev,     \* the devices: "none", "down" or "up"
    gone,    \* namespaces that are going
    op,      \* the operation in progress under RTNL
    pk, wait,\* the packets being received; those a grace period waits for
    wild     \* freed tables were used

life == <<hook, sn, n_tunnels, dev, gone, op>>

TRUESIZE == 2       \* of a fragment's buffer
COPIED == 1         \* what copying it into another one adds
Empty == [skbs |-> <<>>, key |-> NONE, timestamp |-> 0, last |-> 0, mem_used |-> 0,
          tot_len |-> 0, rcvd_len |-> 0, ce |-> FALSE]
NewTable == [frag |-> [i \in SLOTS |-> Empty], lru |-> <<>>, used |-> 0]

Idle == [at |-> "idle", dev |-> NONE]
Outside == [at |-> "outside", dev |-> NONE, skb |-> NONE, whole |-> NONE]
Inside == {p \in PACKETS : pk[p].at # "outside"}
Synchronize == wait' = Inside
Synchronized == wait = {}
Net(d) == d[1]

Init ==
    /\ hook = {} /\ n_tunnels = 0 /\ gone = {} /\ wait = {} /\ wild = FALSE
    /\ sn = [n \in NETS |-> 0]
    /\ percpu = "none" /\ tab = NewTable /\ jiffies = 0
    /\ work = [at |-> "idle", slot |-> 0]
    /\ dev = [d \in DEVS |-> "none"]
    /\ op = Idle
    /\ pk = [p \in PACKETS |-> Outside]

\* two namespaces with a device each, both reached: the first one was up, taken down, and
\* brought up again after the second; what follows does not read which it was
BothUp ==
    /\ hook = NETS /\ n_tunnels = Cardinality(DEVS) /\ gone = {} /\ wait = {} /\ wild = FALSE
    /\ sn = [n \in NETS |-> IF n = CHOOSE m \in NETS : TRUE THEN 1 ELSE 0]
    /\ percpu = "live" /\ tab = NewTable /\ jiffies = 0
    /\ work = [at |-> "timer", slot |-> 0]
    /\ dev = [d \in DEVS |-> "up"]
    /\ op = Idle
    /\ pk = [p \in PACKETS |-> Outside]

Tick == jiffies < MAX_TIME /\ jiffies' = jiffies + 1
        /\ UNCHANGED <<hook, sn, n_tunnels, percpu, tab, work, dev, gone, op, pk, wait, wild>>

-----------------------------------------------------------------------------
(* The table *)

\* free_frag()
free_frag(t, i) ==
    [frag |-> [t.frag EXCEPT ![i].skbs = <<>>],
     lru |-> SelectSeq(t.lru, LAMBDA j : j # i),
     used |-> t.used - t.frag[i].mem_used]

\* evict_frags(): the least recently used, until the target is reached
evict_frags(t) ==
    LET freed[k \in 0..Len(t.lru)] == IF k = 0 THEN t ELSE free_frag(freed[k - 1], t.lru[k])
        enough == {k \in DOMAIN freed : k = Len(t.lru) \/ freed[k].used <= REASM_LO_THRESH}
    IN  freed[CHOOSE k \in enough : \A m \in enough : k <= m]

\* lookup_frag(): the entry of the key, or the one to be used for it, emptied
KeyMatchNoNet(entry, key) == entry.key[2] = key[2]                  \* mutant
pkt_key_match(entry, key) == entry.key = key
Fresh(entry) == entry.skbs # <<>> /\ jiffies < entry.timestamp + FRAG_EXP_TIME
lookup_frag(t, key) ==
    LET hit(k) == LET e == t.frag[Candidates[key][k]]
                  IN  Fresh(e) /\ pkt_key_match(e, key)
        empty(k) == t.frag[Candidates[key][k]].skbs = <<>>
        stamp(k) == t.frag[Candidates[key][k]].timestamp
        Better(k, m) ==    \* of two victims; the first of equals
          \/ empty(k) /\ ~empty(m)
          \/ empty(k) = empty(m) /\ k < m /\ (empty(k) \/ stamp(k) <= stamp(m))
          \/ ~empty(k) /\ ~empty(m) /\ k > m /\ stamp(k) < stamp(m)
        places == DOMAIN Candidates[key]
    IN  IF \E k \in places : hit(k)
        THEN [slot |-> Candidates[key][CHOOSE k \in places :
                                         hit(k) /\ \A m \in 1..(k - 1) : ~hit(m)],
              tab |-> t]
        ELSE LET v == Candidates[key][CHOOSE k \in places : \A m \in places \ {k} : Better(k, m)]
             IN  [slot |-> v, tab |-> IF t.frag[v].skbs = <<>> THEN t ELSE free_frag(t, v)]

End(s) == s.offset + s.len

\* the entry's chain with the fragment in its place, or {} when it overlaps another
Inserted(e, s) ==
    LET before == {k \in DOMAIN e.skbs :
                     \A m \in 1..k : e.skbs[m].offset < s.offset}
        at == Cardinality(before)
    IN  IF \/ at > 0 /\ End(e.skbs[at]) > s.offset
           \/ at < Len(e.skbs) /\ End(s) > e.skbs[at + 1].offset
        THEN {}
        ELSE {[e EXCEPT !.skbs = InsertAt(@, at + 1, s),
                        !.last = IF at = Len(e.skbs) THEN s.offset ELSE @]}

\* __copy_skb(): the only buffer, the packet's first, takes the fragment in
Copied(e, s) ==
    IF SKIP_ZERO_COPY /\ Len(e.skbs) = 1 /\ e.skbs[1].offset = 0
    THEN {[e EXCEPT !.skbs[1].len = @ + s.len]} ELSE {}

LastOf(e) == e.skbs[CHOOSE k \in DOMAIN e.skbs : e.skbs[k].offset = e.last]

\* what the chain may become, and the memory it takes more
Added(e, s) ==
    IF End(LastOf(e)) = s.offset
    THEN {[entry |-> c, delta |-> COPIED] : c \in Copied(e, s)} \cup
         {[entry |-> [e EXCEPT !.skbs = Append(@, s), !.last = s.offset], delta |-> TRUESIZE]}
    ELSE {[entry |-> c, delta |-> TRUESIZE] : c \in Inserted(e, s)}

Roomy(t) == IF t.used + TRUESIZE > REASM_HI_THRESH THEN evict_frags(t) ELSE t

NewEntry(t, i, key, s) ==
    [frag |-> [t.frag EXCEPT ![i] =
        [skbs |-> <<s>>, key |-> key, timestamp |-> jiffies, last |-> s.offset,
         mem_used |-> TRUESIZE, tot_len |-> TotLen[key[2]], rcvd_len |-> s.len, ce |-> FALSE]],
     lru |-> Append(t.lru, i),
     used |-> t.used + TRUESIZE]

\* the accounts after a fragment was added; a packet that is complete leaves the table
Accounted(t, i, s, a) ==
    LET e == [a.entry EXCEPT !.ce = @ \/ s.ce, !.rcvd_len = @ + s.len, !.mem_used = @ + a.delta]
        t2 == [frag |-> [t.frag EXCEPT ![i] = e],
               lru |-> Append(SelectSeq(t.lru, LAMBDA j : j # i), i),
               used |-> t.used + a.delta]
    IN  IF e.rcvd_len = e.tot_len
        THEN [tab |-> free_frag(t2, i),
              whole |-> [skbs |-> e.skbs, ce |-> e.ce \/ e.skbs[1].ce]]
        ELSE [tab |-> t2, whole |-> NONE]

\* reassemble(), under the table's lock: what the table and the result may be
reassemble(key, s) ==
    LET look == lookup_frag(Roomy(tab), key)
        i == look.slot
        t == look.tab
    IN  IF t.frag[i].skbs = <<>>
        THEN {[tab |-> NewEntry(t, i, key, s), whole |-> NONE]}
        ELSE LET ways == Added(t.frag[i], s)
             IN  IF ways = {} THEN {[tab |-> t, whole |-> NONE]}    \* it overlaps
                 ELSE {Accounted(t, i, s, a) : a \in ways}

-----------------------------------------------------------------------------
(* Packets *)

Leave(p) == pk' = [pk EXCEPT ![p] = Outside] /\ wait' = wait \ {p}

\* nf_ip_hook(): the hook finds the device that is up on the port
nf_ip_hook(p, d, f) ==
    /\ pk[p].at = "outside" /\ Net(d) \in hook /\ dev[d] = "up"
    /\ pk' = [pk EXCEPT ![p] = [at |-> "stt_rcv", dev |-> d, skb |-> f, whole |-> NONE]]
    /\ UNCHANGED <<wait, tab, wild>>

validate_checksum(p) == pk[p].at = "stt_rcv" /\ Leave(p) /\ UNCHANGED <<tab, wild>>

\* stt_rcv() up to reassemble(); a packet in one piece does not use the table
stt_rcv(p) ==
    /\ pk[p].at = "stt_rcv"
    /\ LET f == pk[p].skb
           key == <<Net(pk[p].dev), f.key>>
           s == [key |-> key, offset |-> f.offset, len |-> f.len, ce |-> f.ce]
       IN  IF f.len = TotLen[f.key]
           THEN /\ pk' = [pk EXCEPT ![p].at = "rcv", ![p].whole = [skbs |-> <<s>>, ce |-> f.ce]]
                /\ UNCHANGED <<wait, tab, wild>>
           ELSE /\ wild' = (wild \/ percpu = "none")
                /\ \E r \in reassemble(key, s) :
                     /\ tab' = r.tab
                     /\ IF r.whole = NONE THEN Leave(p)
                        ELSE /\ pk' = [pk EXCEPT ![p].at = "rcv", ![p].whole = r.whole]
                             /\ UNCHANGED wait

\* __stt_rcv(), with the device; what cannot be put together, or be received, is dropped
__stt_rcv(p) == pk[p].at = "rcv" /\ Leave(p) /\ UNCHANGED <<tab, wild>>

Receive ==
    /\ \E p \in PACKETS :
         \/ \E d \in DEVS, f \in FRAGMENTS : nf_ip_hook(p, d, f)
         \/ validate_checksum(p) \/ stt_rcv(p) \/ __stt_rcv(p)
    /\ UNCHANGED <<hook, sn, n_tunnels, percpu, work, jiffies, dev, gone, op>>

-----------------------------------------------------------------------------
(* clean_percpu() *)

Work(at, slot) == work' = [at |-> at, slot |-> slot]
NextSlot == IF work.slot + 1 \in SLOTS THEN Work("check", work.slot + 1)
            ELSE Work("timer", 0)                                   \* scheduled again

StartClean == work.at = "timer" /\ Work("check", 1) /\ UNCHANGED <<tab, wild>>

\* without the lock ...
CheckSlot ==
    /\ work.at = "check"
    /\ LET e == tab.frag[work.slot]
       IN  IF e.skbs = <<>> \/ jiffies < e.timestamp + FRAG_EXP_TIME
           THEN NextSlot ELSE Work("locked", work.slot)
    /\ wild' = (wild \/ percpu = "none")
    /\ UNCHANGED tab
\* ... and with it
StillOld(e) == e.skbs # <<>> /\ jiffies > e.timestamp + FRAG_EXP_TIME
CleanSlot ==
    /\ work.at = "locked"
    /\ tab' = IF StillOld(tab.frag[work.slot]) THEN free_frag(tab, work.slot) ELSE tab
    /\ NextSlot
    /\ wild' = (wild \/ percpu = "none")

clean_percpu ==
    /\ StartClean \/ CheckSlot \/ CleanSlot
    /\ UNCHANGED <<life, percpu, jiffies, pk, wait>>

-----------------------------------------------------------------------------
(* Devices *)

Go(d, at) == op' = [at |-> at, dev |-> d]
MayOpen(d) ==
    op = Idle /\ Net(d) \notin gone /\ \A n \in NETS : sn[n] \in -MAX_DRIFT..MAX_DRIFT

\* stt_configure(): at most one device for a namespace's port
stt_configure(d) ==
    /\ MayOpen(d) /\ dev[d] = "none"
    /\ dev' = [dev EXCEPT ![d] = "down"]
    /\ Go(d, "open")
    /\ UNCHANGED <<hook, sn, n_tunnels, percpu, tab, work, gone, wait>>

\* stt_start(): what is common to all tunnels comes with the first one
AnotherTunnel ==
    /\ op.at = "open" /\ n_tunnels > 0
    /\ n_tunnels' = n_tunnels + 1
    /\ Go(op.dev, "sock")
    /\ UNCHANGED <<hook, sn, percpu, tab, work, dev, gone, wait>>

NoMemory ==
    /\ op.at = "open" /\ n_tunnels = 0
    /\ Go(op.dev, "failed")
    /\ UNCHANGED <<hook, sn, n_tunnels, percpu, tab, work, dev, gone, wait>>

FirstTunnel ==
    /\ op.at = "open" /\ n_tunnels = 0
    /\ tab' = NewTable
    /\ work' = IF work.at = "idle" THEN [at |-> "timer", slot |-> 0] ELSE work
    /\ LET n == Net(op.dev) IN
       \/ /\ percpu' = "live" /\ n_tunnels' = 1
          /\ sn' = [sn EXCEPT ![n] = @ + 1]
          /\ hook' = IF sn[n] = 0 THEN hook \cup {n} ELSE hook
          /\ Go(op.dev, "sock")
       \/ /\ HOOK_FAILS /\ sn[n] = 0 /\ n \notin hook   \* the tables go, the work stays
          /\ percpu' = "none"
          /\ Go(op.dev, "failed")
          /\ UNCHANGED <<n_tunnels, sn, hook>>
    /\ UNCHANGED <<dev, gone, wait>>

\* stt_open() goes on with the socket
tcp_sock_create4 ==
    /\ op.at = "sock"
    /\ \/ dev' = [dev EXCEPT ![op.dev] = "up"] /\ op' = Idle
       \/ SOCK_FAILS /\ Go(op.dev, "failed") /\ UNCHANGED dev
    /\ UNCHANGED <<hook, sn, n_tunnels, percpu, tab, work, gone, wait>>

\* stt_stop(): the device is not found any more, and a grace period passes
stt_stop(d, next) ==
    /\ dev' = [dev EXCEPT ![d] = "down"]
    /\ IF dev[d] = "up" THEN Go(d, next) ELSE Go(d, "unregister")
    /\ Synchronize

\* stt_cleanup(), which waits for the work to end
Stopping == {"stop", "stop and unregister"}
stt_cleanup ==
    /\ op.at \in Stopping /\ Synchronized
    /\ n_tunnels = 1 => work.at \in {"idle", "timer"}
    /\ sn' = [sn EXCEPT ![Net(op.dev)] = @ - 1]
    /\ n_tunnels' = n_tunnels - 1
    /\ IF n_tunnels = 1
       THEN /\ percpu' = "none" /\ tab' = NewTable
            /\ work' = [at |-> "idle", slot |-> 0]
       ELSE UNCHANGED <<percpu, tab, work>>
    /\ op' = IF op.at = "stop" THEN Idle ELSE [op EXCEPT !.at = "unregister"]
    /\ UNCHANGED <<hook, dev, gone, wait>>

\* by hand
TakeDown(d) ==
    /\ op = Idle /\ dev[d] = "up"
    /\ stt_stop(d, "stop")
    /\ UNCHANGED <<hook, sn, n_tunnels, percpu, tab, work, gone>>
BringUp(d) ==
    /\ MayOpen(d) /\ dev[d] = "down"
    /\ Go(d, "open")
    /\ UNCHANGED <<hook, sn, n_tunnels, percpu, tab, work, dev, gone, wait>>

\* a port's device is deleted when it cannot be brought up; one made by hand stays down
stt_dellink(d) ==
    /\ \/ op = Idle /\ dev[d] # "none"
       \/ op = [at |-> "failed", dev |-> d]
    /\ stt_stop(d, "stop and unregister")
    /\ UNCHANGED <<hook, sn, n_tunnels, percpu, tab, work, gone>>
StaysDown ==
    /\ op.at = "failed" /\ op' = Idle
    /\ UNCHANGED <<hook, sn, n_tunnels, percpu, tab, work, dev, gone, wait>>

\* stt_exit_net(): the hook first, then the devices
nf_unregister_net_hook(n) ==
    /\ op = Idle /\ n \notin gone
    /\ gone' = gone \cup {n}
    /\ hook' = hook \ {n}
    /\ UNCHANGED <<sn, n_tunnels, percpu, tab, work, dev, op, wait>>
stt_exit_net(d) ==
    /\ op = Idle /\ Net(d) \in gone /\ dev[d] # "none"
    /\ stt_stop(d, "stop and unregister")
    /\ UNCHANGED <<hook, sn, n_tunnels, percpu, tab, work, gone>>

FreeNetdev ==
    /\ op.at = "unregister" /\ Synchronized
    /\ dev' = [dev EXCEPT ![op.dev] = "none"]
    /\ op' = Idle
    /\ UNCHANGED <<hook, sn, n_tunnels, percpu, tab, work, gone, wait>>

Devices ==
    /\ \/ \E d \in DEVS : \/ stt_configure(d) \/ TakeDown(d) \/ BringUp(d)
                          \/ stt_dellink(d) \/ stt_exit_net(d)
       \/ AnotherTunnel \/ NoMemory \/ FirstTunnel \/ tcp_sock_create4
       \/ stt_cleanup \/ StaysDown \/ FreeNetdev
       \/ \E n \in NETS : nf_unregister_net_hook(n)
    /\ UNCHANGED <<jiffies, pk, wild>>

Table == clean_percpu \/ Receive \/ Tick
Next == Devices \/ clean_percpu \/ Receive \/ Tick
vars == <<hook, sn, n_tunnels, percpu, tab, work, jiffies, dev, gone, op, pk, wait, wild>>
Spec == Init /\ [][Next]_vars

-----------------------------------------------------------------------------
InUse == {i \in SLOTS : tab.frag[i].skbs # <<>>}
Total(f) == FoldSeq(LAMBDA i, sum : f[i] + sum, 0, SetToSeq(InUse))
Lens(e) == FoldSeq(LAMBDA s, sum : s.len + sum, 0, e.skbs)

\* The packets that wait: the CPU's and each packet's memory are counted exactly, the list
\* of least use names the entries in use, each once, and the limit is kept.
MemoryCounted ==
    /\ tab.used = Total([i \in SLOTS |-> tab.frag[i].mem_used])
    /\ tab.used <= REASM_HI_THRESH
    /\ ToSet(tab.lru) = InUse /\ Len(tab.lru) = Cardinality(InUse)

\* Each is a chain of fragments in order, without overlap, not complete, whose last one
\* and whose length are known.
ChainsInOrder ==
    \A i \in InUse : LET e == tab.frag[i] IN
      /\ \A k \in 1..(Len(e.skbs) - 1) : End(e.skbs[k]) <= e.skbs[k + 1].offset
      /\ e.last = e.skbs[Len(e.skbs)].offset
      /\ e.rcvd_len = Lens(e) /\ e.rcvd_len < e.tot_len

\* However its fragments came (late, twice, mixed with another packet's of the same
\* numbers in another namespace), what is received is one whole packet, in order.
ReceivedWhole ==
    \A p \in PACKETS : pk[p].at = "rcv" =>
      LET skbs == pk[p].whole.skbs IN
      /\ skbs[1].offset = 0 /\ End(skbs[Len(skbs)]) = TotLen[pk[p].skb.key]
      /\ \A k \in 1..(Len(skbs) - 1) : End(skbs[k]) = skbs[k + 1].offset
      /\ \A k \in DOMAIN skbs : skbs[k].key = <<Net(pk[p].dev), pk[p].skb.key>>

\* The tables exist while a packet or the work may use them, and go with the last tunnel.
TablesLive ==
    /\ ~wild
    /\ op = Idle => /\ n_tunnels = Cardinality({d \in DEVS : dev[d] = "up"})
                    /\ percpu = "live" <=> n_tunnels > 0
                    /\ work.at = "idle" <=> n_tunnels = 0
    /\ \A p \in PACKETS : pk[p].at # "outside" => percpu = "live" /\ dev[pk[p].dev] # "none"

SttInv == MemoryCounted /\ ChainsInOrder /\ ReceivedWhole /\ TablesLive

\* A device that is up receives packets.
HookedWhenUp == \A d \in DEVS : dev[d] = "up" /\ Net(d) \notin gone => Net(d) \in hook

\* A congestion mark of any fragment is on the packet.
CongestionKept ==
    \A p \in PACKETS : pk[p].at = "rcv" =>
      pk[p].whole.ce \/ \A k \in DOMAIN pk[p].whole.skbs : ~pk[p].whole.skbs[k].ce
=============================================================================
