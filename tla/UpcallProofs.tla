------------------------------ MODULE UpcallProofs ------------------------------
(***************************************************************************)
(* Proofs about Upcall, for any number of CPUs, sockets, packets and lists *)
(* of sockets: a packet reads a list that is there and chooses the socket  *)
(* its hash says (RightSocket), and its segments are queued in order, and  *)
(* counted as lost if one is missing (SegmentsInOrder).                    *)
(***************************************************************************)
EXTENDS Upcall, FiniteSetTheorems, SequenceTheorems, TLAPS

ListStates == {"live", "replaced", "freed"}
ListType == [ids : IdLists, st : ListStates, waits : SUBSET CPUs]
PortidType == ActionIds \cup Nat
Msgs == [pkt : Nat, seg : Nat, frag : {"none", "first", "later"}]
PktType ==
  [hash : Hashes, kind : Kinds, list : Nat, portid : PortidType, msgs : Seq(Msgs),
   end : {"held", "returned", "consumed", "killed"}]
CpuType ==
  [pc : {"idle", "find", "choose", "upcall", "sent"}, pkt : Nat, list : Nat, portid : PortidType,
   segs : Nat, at : Nat, err : BOOLEAN]

\* Types of the variables.
TypeInv ==
  /\ lists \in Seq(ListType)
  /\ port \in [ids : Nat, here : BOOLEAN]
  /\ cpu \in [CPUs -> CpuType]
  /\ stats \in [n_missed : Nat, n_lost : Nat]
  /\ sent \in Seq(PktType)

\* CPU c may read list i: it is the port's, or its grace period waits for c.
Held(i, c) ==
  /\ i \in DOMAIN lists
  /\ lists[i].st = "live" \/ (lists[i].st = "replaced" /\ c \in lists[i].waits)

\* A list that a packet is to read, or has loaded the address of, is one it may read.
ListsInv ==
  /\ port.ids \in DOMAIN lists
  /\ port.here => lists[port.ids].st = "live"
  /\ \A c \in CPUs :
       /\ cpu[c].pc = "find" => Held(port.ids, c)
       /\ cpu[c].pc = "choose" => Held(cpu[c].list, c)

\* The socket a packet has chosen is what its list says of its hash.
ChoiceInv ==
  \A i \in DOMAIN sent :
    sent[i].list # 0 =>
      /\ sent[i].list \in DOMAIN lists
      /\ sent[i].portid = Choice(lists[sent[i].list].ids, sent[i].hash)

\* A CPU has a packet of its own; until an error it has queued the segments before the one
\* it is at, and after it some segment is missing.
Missing(c) == Len(sent[cpu[c].pkt].msgs) # SegsOf(sent[cpu[c].pkt].kind)
CpuInv(c) ==
  /\ cpu[c].pc = "idle" => cpu[c] = Idle
  /\ cpu[c].pc # "idle" =>
       /\ cpu[c].pkt \in DOMAIN sent
       /\ sent[cpu[c].pkt].end = "held"
       /\ cpu[c].segs = SegsOf(sent[cpu[c].pkt].kind)
       /\ cpu[c].pc = "sent" => (cpu[c].err <=> Missing(c))
       /\ cpu[c].pc # "sent" =>
            /\ ~cpu[c].err
            /\ cpu[c].at = Len(sent[cpu[c].pkt].msgs)
            /\ cpu[c].at < cpu[c].segs
CpusInv ==
  /\ \A c \in CPUs : CpuInv(c)
  /\ \A c, d \in CPUs : c # d /\ cpu[c].pc # "idle" /\ cpu[d].pc # "idle" => cpu[c].pkt # cpu[d].pkt

UpcallInv == TypeInv /\ ListsInv /\ ChoiceInv /\ CpusInv /\ SegmentsInOrder
-----------------------------------------------------------------------------
(* What the state looks like, and a change of one CPU, of one packet *)

\* A function from 1..n is a sequence of n elements.
LEMMA FunctionIsSeq ==
  ASSUME NEW S, NEW n \in Nat, NEW f \in [1..n -> S]
  PROVE  f \in Seq(S) /\ Len(f) = n
PROOF
  <1>1. f \in Seq(S)  BY SeqDef
  <1>2. DOMAIN f = 1..n /\ DOMAIN f = 1..Len(f) /\ Len(f) \in Nat  BY <1>1, LenProperties
  <1> QED  BY <1>1, <1>2

\* The types of what lists, port, cpu and sent hold.
LEMMA Typed ==
  ASSUME TypeInv
  PROVE  /\ Len(lists) \in Nat /\ DOMAIN lists = 1..Len(lists)
         /\ Len(sent) \in Nat /\ DOMAIN sent = 1..Len(sent)
         /\ \A i \in DOMAIN lists : lists[i] \in ListType
         /\ \A i \in DOMAIN sent : sent[i] \in PktType
         /\ \A c \in CPUs : cpu[c] \in CpuType
PROOF
  <1>1. lists \in Seq(ListType) /\ sent \in Seq(PktType) /\ cpu \in [CPUs -> CpuType]  BY DEF TypeInv
  <1> QED  BY <1>1, LenProperties, ElementOfSeq

\* One CPU changes its state.
LEMMA CpuChanges ==
  ASSUME TypeInv, NEW c \in CPUs, NEW r \in CpuType, cpu' = [cpu EXCEPT ![c] = r]
  PROVE  /\ cpu' \in [CPUs -> CpuType]
         /\ cpu'[c] = r
         /\ \A d \in CPUs : d # c => cpu'[d] = cpu[d]
PROOF
  BY DEF TypeInv

\* One packet changes.
LEMMA PktChanges ==
  ASSUME TypeInv, NEW i \in DOMAIN sent, NEW r \in PktType, sent' = [sent EXCEPT ![i] = r]
  PROVE  /\ sent' \in Seq(PktType)
         /\ DOMAIN sent' = DOMAIN sent
         /\ sent'[i] = r
         /\ \A j \in DOMAIN sent : j # i => sent'[j] = sent[j]
PROOF
  <1>1. sent \in Seq(PktType) /\ i \in 1..Len(sent)  BY Typed DEF TypeInv
  <1>2. sent' \in Seq(PktType)  BY <1>1, ExceptSeq
  <1> QED  BY <1>1, <1>2, Typed

\* The port gets another list, or none, and what it had is replaced.
LEMMA ReplacedList ==
  ASSUME TypeInv, port.ids \in DOMAIN lists
  PROVE  /\ Replaced \in Seq(ListType)
         /\ Len(Replaced) = Len(lists)
         /\ DOMAIN Replaced = DOMAIN lists
         /\ \A i \in DOMAIN lists :
              Replaced[i] = IF i = port.ids THEN [ids |-> lists[i].ids, st |-> "replaced", waits |-> Readers] ELSE lists[i]
PROOF
  <1> DEFINE p == port.ids
             r == [ids |-> lists[p].ids, st |-> "replaced", waits |-> Readers]
  <1>1. lists \in Seq(ListType) /\ p \in 1..Len(lists) /\ lists[p] \in ListType  BY Typed DEF TypeInv
  <1>2. Readers \subseteq CPUs  BY DEF Readers
  <1>3. r \in ListType  BY <1>1, <1>2 DEF ListType, ListStates
  <1>4. Replaced = [lists EXCEPT ![p] = r]
    <2>1. PICK i \in IdLists, a \in ListStates, w \in SUBSET CPUs : lists[p] = [ids |-> i, st |-> a, waits |-> w]
      BY <1>1 DEF ListType
    <2>2. r = [ids |-> i, st |-> "replaced", waits |-> Readers]  BY <2>1
    <2> DEFINE first == [lists EXCEPT ![p].st = "replaced"]
    <2>3. first = [lists EXCEPT ![p] = [ids |-> i, st |-> "replaced", waits |-> w]]
      <3>1. first = [lists EXCEPT ![p] = [lists[p] EXCEPT !.st = "replaced"]]  OBVIOUS
      <3>2. [lists[p] EXCEPT !.st = "replaced"] = [ids |-> i, st |-> "replaced", waits |-> w]  BY <2>1
      <3> QED  BY <3>1, <3>2
    <2>4. Replaced = [first EXCEPT ![p].waits = Readers]  BY DEF Replaced, WaitsFor
    <2>5. first[p] = [ids |-> i, st |-> "replaced", waits |-> w] /\ p \in DOMAIN first /\ DOMAIN first = DOMAIN lists
      BY <2>3, <1>1, Typed
    <2> HIDE DEF first
    <2>6. Replaced = [first EXCEPT ![p] = [ids |-> i, st |-> "replaced", waits |-> Readers]]
      <3>1. Replaced = [first EXCEPT ![p] = [first[p] EXCEPT !.waits = Readers]]  BY <2>4
      <3>2. [first[p] EXCEPT !.waits = Readers] = [ids |-> i, st |-> "replaced", waits |-> Readers]  BY <2>5
      <3> QED  BY <3>1, <3>2
    <2> QED  BY <2>2, <2>3, <2>6
  <1> HIDE DEF r
  <1>5. /\ Replaced \in Seq(ListType)
        /\ Len(Replaced) = Len(lists)
        /\ \A j \in 1..Len(lists) : Replaced[j] = IF j = p THEN r ELSE lists[j]
    BY <1>1, <1>3, <1>4, ExceptSeq
  <1>6. DOMAIN Replaced = DOMAIN lists  BY <1>5, Typed, LenProperties
  <1>7. \A j \in DOMAIN lists :
          Replaced[j] = IF j = p THEN [ids |-> lists[j].ids, st |-> "replaced", waits |-> Readers] ELSE lists[j]
    BY <1>5, Typed DEF r
  <1> QED  BY <1>5, <1>6, <1>7
-----------------------------------------------------------------------------
(* What leaves the parts of the invariant alone *)

\* A CPU that takes no address keeps the lists.
LEMMA ListsStay ==
  ASSUME ListsInv, UNCHANGED <<lists, port>>,
         \A c \in CPUs : cpu'[c].pc \in {"find", "choose"} => cpu'[c].pc = cpu[c].pc /\ cpu'[c].list = cpu[c].list
  PROVE  ListsInv'
PROOF
  <1>1. ASSUME NEW c \in CPUs PROVE (cpu[c].pc = "find" => Held(port.ids, c))' /\ (cpu[c].pc = "choose" => Held(cpu[c].list, c))'
    BY <1>1 DEF ListsInv, Held
  <1> QED  BY <1>1 DEF ListsInv

\* No packet chooses another socket, and lists are replaced but not changed.
LEMMA ChoicesStay ==
  ASSUME ChoiceInv,
         \A i \in DOMAIN lists : i \in DOMAIN lists' /\ lists'[i].ids = lists[i].ids,
         \A i \in DOMAIN sent' : sent'[i].list # 0 =>
           /\ i \in DOMAIN sent
           /\ sent'[i].list = sent[i].list /\ sent'[i].portid = sent[i].portid /\ sent'[i].hash = sent[i].hash
  PROVE  ChoiceInv'
PROOF
  BY DEF ChoiceInv, Choice

\* One CPU goes on with its packet, or takes a new one.
LEMMA CpusStay ==
  ASSUME CpusInv, NEW c \in CPUs,
         \A d \in CPUs : d # c => cpu'[d] = cpu[d],
         \A i \in DOMAIN sent : i \in DOMAIN sent' /\ ((i = cpu[c].pkt /\ cpu[c].pc # "idle") \/ sent'[i] = sent[i]),
         cpu'[c].pc # "idle" => IF cpu[c].pc = "idle" THEN cpu'[c].pkt \notin DOMAIN sent ELSE cpu'[c].pkt = cpu[c].pkt,
         CpuInv(c)'
  PROVE  CpusInv'
PROOF
  <1>1. ASSUME NEW d \in CPUs, d # c PROVE CpuInv(d)'
    <2>1. cpu'[d] = cpu[d]  BY <1>1
    <2>2. CASE cpu[d].pc = "idle"
      <3>1. cpu[d] = Idle  BY <2>2 DEF CpusInv, CpuInv
      <3> QED  BY <2>1, <2>2, <3>1 DEF CpuInv, Idle
    <2>3. CASE cpu[d].pc # "idle"
      <3>1. CpuInv(d) /\ cpu[d].pkt \in DOMAIN sent  BY <2>3 DEF CpusInv, CpuInv
      <3>2. ~(cpu[d].pkt = cpu[c].pkt /\ cpu[c].pc # "idle")  BY <1>1, <2>3 DEF CpusInv
      <3>3. cpu[d].pkt \in DOMAIN sent' /\ sent'[cpu[d].pkt] = sent[cpu[d].pkt]  BY <3>1, <3>2
      <3> QED  BY <2>1, <3>1, <3>3 DEF CpuInv, Missing, SegsOf
    <2> QED  BY <2>2, <2>3
  <1>2. ASSUME NEW d \in CPUs, NEW e \in CPUs, d # e, cpu'[d].pc # "idle", cpu'[e].pc # "idle"
        PROVE  cpu'[d].pkt # cpu'[e].pkt
    <2>1. ASSUME NEW f \in CPUs, f # c, cpu'[f].pc # "idle", cpu'[c].pc # "idle" PROVE cpu'[f].pkt # cpu'[c].pkt
      <3>1. cpu'[f] = cpu[f] /\ cpu[f].pkt \in DOMAIN sent  BY <2>1 DEF CpusInv, CpuInv
      <3> QED  BY <2>1, <3>1 DEF CpusInv
    <2>2. CASE d # c /\ e # c  BY <1>2, <2>2 DEF CpusInv
    <2> QED  BY <1>2, <2>1, <2>2
  <1> QED  BY <1>1, <1>2 DEF CpusInv

\* No packet ends, and what is queued of each is in order.
MsgsInOrder(t) ==
  \A n \in DOMAIN t.msgs : t.msgs[n].seg = n - 1 /\ (t.msgs[n].frag = "first" <=> t.kind = "udp" /\ n = 1)
LEMMA SegmentsStay ==
  ASSUME SegmentsInOrder, UNCHANGED stats,
         \A i \in DOMAIN sent : i \in DOMAIN sent',
         \A i \in DOMAIN sent' :
           \/ i \in DOMAIN sent /\ sent'[i].end = sent[i].end /\ sent'[i].msgs = sent[i].msgs /\ sent'[i].kind = sent[i].kind
           \/ /\ (i \in DOMAIN sent => sent[i].end = "held")
              /\ sent'[i].end = "held" /\ MsgsInOrder(sent'[i])
  PROVE  SegmentsInOrder'
PROOF
  <1> DEFINE Lost == {i \in DOMAIN sent : sent[i].end # "held" /\ ~Complete(sent[i])}
             Missed == {i \in DOMAIN sent : sent[i].end \in {"consumed", "killed"}}
  <1>1. Lost' = Lost  BY DEF Complete, SegsOf
  <1>2. Missed' = Missed  OBVIOUS
  <1>3. stats.n_lost = Cardinality(Lost) /\ stats.n_missed = Cardinality(Missed)  BY DEF SegmentsInOrder
  <1>4. \A i \in DOMAIN sent' : \A n \in DOMAIN sent'[i].msgs :
          sent'[i].msgs[n].seg = n - 1 /\ (sent'[i].msgs[n].frag = "first" <=> sent'[i].kind = "udp" /\ n = 1)
    BY DEF SegmentsInOrder, MsgsInOrder
  <1>5. \A i \in DOMAIN sent' : sent'[i].end = "consumed" => Complete(sent'[i])
    BY DEF SegmentsInOrder, Complete, SegsOf
  <1>6. stats'.n_lost = Cardinality(Lost') /\ stats'.n_missed = Cardinality(Missed')  BY <1>1, <1>2, <1>3
  <1> HIDE DEF Lost, Missed
  <1>7. SegmentsInOrder' <=>
          /\ \A i \in DOMAIN sent' : \A n \in DOMAIN sent'[i].msgs :
               sent'[i].msgs[n].seg = n - 1 /\ (sent'[i].msgs[n].frag = "first" <=> sent'[i].kind = "udp" /\ n = 1)
          /\ \A i \in DOMAIN sent' : sent'[i].end = "consumed" => Complete(sent'[i])
          /\ stats'.n_lost = Cardinality(Lost')
          /\ stats'.n_missed = Cardinality(Missed')
    BY DEF SegmentsInOrder, Lost, Missed, Complete
  <1> QED  BY <1>4, <1>5, <1>6, <1>7
-----------------------------------------------------------------------------
(* The steps *)

\* The choice falls on one of the list.
LEMMA ChoiceInList ==
  ASSUME NEW ids \in IdLists, NEW h \in Hashes
  PROVE  /\ Choice(ids, h) \in Nat
         /\ \E n \in DOMAIN ids : Choice(ids, h) = ids[n]
PROOF
  <1>1. ids \in Seq(Nat) /\ ids # <<>> /\ h \in Nat  BY UpcallAssumption
  <1>2. Len(ids) \in Nat \ {0} /\ DOMAIN ids = 1..Len(ids)  BY <1>1, EmptySeq, LenProperties
  <1>3. \A n \in DOMAIN ids : ids[n] \in Nat  BY <1>1, <1>2, ElementOfSeq
  <1>4. CASE ids = <<0>>
    <2>1. Choice(ids, h) = 0 /\ ids[1] = 0 /\ 1 \in DOMAIN ids  BY <1>2, <1>4 DEF Choice
    <2> QED  BY <2>1
  <1>5. CASE ids # <<0>>
    <2>1. (h % Len(ids)) + 1 \in DOMAIN ids  BY <1>1, <1>2
    <2> QED  BY <1>3, <1>5, <2>1 DEF Choice
  <1> QED  BY <1>4, <1>5

LEMMA ProcessPacketKeeps ==
  ASSUME UpcallInv, NEW c \in CPUs, process_packet(c)
  PROVE  UpcallInv'
PROOF
  <1> USE DEF UpcallInv
  <1>1. cpu[c].pc = "idle" /\ port.here /\ UNCHANGED <<lists, port, open, stats>>  BY DEF process_packet
  <1>2. PICK h \in Hashes, k \in Kinds, p \in ActionIds \cup {0} :
          /\ sent' = Append(sent, [hash |-> h, kind |-> k, list |-> 0, portid |-> p, msgs |-> <<>>, end |-> "held"])
          /\ cpu' = [cpu EXCEPT ![c] = [@ EXCEPT !.pkt = Len(sent) + 1, !.portid = p, !.segs = SegsOf(k),
                                                  !.pc = IF p = 0 THEN "find" ELSE "upcall"]]
    BY DEF process_packet
  <1> DEFINE pkt == [hash |-> h, kind |-> k, list |-> 0, portid |-> p, msgs |-> <<>>, end |-> "held"]
             r == [pc |-> IF p = 0 THEN "find" ELSE "upcall", pkt |-> Len(sent) + 1, list |-> 0, portid |-> p,
                   segs |-> SegsOf(k), at |-> 0, err |-> FALSE]
  <1>3. pkt \in PktType
    <2>1. <<>> \in Seq(Msgs) /\ p \in PortidType  BY EmptySeq DEF PortidType
    <2> QED  BY <2>1 DEF PktType
  <1>4. sent \in Seq(PktType) /\ Len(sent) \in Nat /\ DOMAIN sent = 1..Len(sent)  BY Typed DEF TypeInv
  <1>5. /\ sent' \in Seq(PktType) /\ Len(sent') = Len(sent) + 1
        /\ \A i \in 1..Len(sent) : sent'[i] = sent[i]
        /\ sent'[Len(sent) + 1] = pkt
    BY <1>2, <1>3, <1>4, AppendProperties
  <1>6. DOMAIN sent' = 1..(Len(sent) + 1)  BY <1>5, LenProperties
  <1>7. cpu' = [cpu EXCEPT ![c] = r]
    <2>1. cpu[c] = Idle  BY <1>1 DEF CpusInv, CpuInv
    <2>2. PICK q : q = [Idle EXCEPT !.pkt = Len(sent) + 1, !.portid = p, !.segs = SegsOf(k),
                                    !.pc = IF p = 0 THEN "find" ELSE "upcall"]
      OBVIOUS
    <2>3. cpu' = [cpu EXCEPT ![c] = q]  BY ONLY <1>2, <2>1, <2>2
    <2>4. q \in [pc : {IF p = 0 THEN "find" ELSE "upcall"}, pkt : {Len(sent) + 1}, list : {0}, portid : {p},
                 segs : {SegsOf(k)}, at : {0}, err : {FALSE}]
      BY ONLY <2>2 DEF Idle
    <2>5. q = r  BY ONLY <2>4
    <2> QED  BY <2>3, <2>5
  <1>8. r \in CpuType
    <2>1. SegsOf(k) \in Nat /\ p \in PortidType  BY DEF SegsOf, PortidType
    <2> QED  BY <2>1, <1>4 DEF CpuType
  <1>9. cpu' \in [CPUs -> CpuType] /\ cpu'[c] = r /\ \A d \in CPUs : d # c => cpu'[d] = cpu[d]
    BY <1>7, <1>8, CpuChanges
  <1>10. TypeInv'  BY <1>1, <1>5, <1>9 DEF TypeInv
  <1>11. ListsInv'
    <2>1. ASSUME NEW d \in CPUs PROVE (cpu[d].pc = "find" => Held(port.ids, d))' /\ (cpu[d].pc = "choose" => Held(cpu[d].list, d))'
      <3>1. CASE d = c  BY <3>1, <1>1, <1>9 DEF ListsInv, Held
      <3>2. CASE d # c  BY <3>2, <1>1, <1>9 DEF ListsInv, Held
      <3> QED  BY <3>1, <3>2
    <2> QED  BY <1>1, <2>1 DEF ListsInv
  <1>12. ChoiceInv'
    <2>1. \A i \in DOMAIN lists : i \in DOMAIN lists' /\ lists'[i].ids = lists[i].ids  BY <1>1
    <2>2. \A i \in DOMAIN sent' : sent'[i].list # 0 =>
            /\ i \in DOMAIN sent
            /\ sent'[i].list = sent[i].list /\ sent'[i].portid = sent[i].portid /\ sent'[i].hash = sent[i].hash
      BY <1>4, <1>5, <1>6
    <2> QED  BY <2>1, <2>2, ChoicesStay
  <1>13. CpusInv'
    <2>1. CpuInv(c)'
      <3>1. Len(sent'[Len(sent) + 1].msgs) = 0 /\ SegsOf(k) > 0  BY <1>5, EmptySeq DEF SegsOf
      <3> QED  BY <1>4, <1>5, <1>6, <1>9, <3>1 DEF CpuInv
    <2>2. cpu'[c].pkt \notin DOMAIN sent  BY <1>4, <1>9
    <2>3. \A i \in DOMAIN sent : i \in DOMAIN sent' /\ sent'[i] = sent[i]  BY <1>4, <1>5, <1>6
    <2> QED  BY <1>1, <1>9, <2>1, <2>2, <2>3, CpusStay
  <1>14. SegmentsInOrder'
    <2>1. ASSUME NEW i \in DOMAIN sent', i \notin DOMAIN sent
          PROVE  sent'[i].end = "held" /\ MsgsInOrder(sent'[i])
      <3>1. i = Len(sent) + 1  BY <2>1, <1>4, <1>6
      <3>2. sent'[i].msgs = <<>> /\ sent'[i].end = "held"  BY <3>1, <1>5
      <3>3. DOMAIN <<>> = 1..0  OBVIOUS
      <3> QED  BY <3>2, <3>3 DEF MsgsInOrder
    <2>2. \A i \in DOMAIN sent : i \in DOMAIN sent' /\ sent'[i] = sent[i]  BY <1>4, <1>5, <1>6
    <2>3. UNCHANGED stats /\ SegmentsInOrder  BY <1>1
    <2> QED  BY ONLY <2>1, <2>2, <2>3, SegmentsStay
  <1> QED  BY <1>10, <1>11, <1>12, <1>13, <1>14

LEMMA FindListKeeps ==
  ASSUME UpcallInv, NEW c \in CPUs, find_upcall_portids(c)
  PROVE  UpcallInv'
PROOF
  <1> USE DEF UpcallInv
  <1>1. /\ cpu[c].pc = "find" /\ UNCHANGED <<lists, port, open, stats, sent>>
        /\ cpu' = [cpu EXCEPT ![c].list = port.ids, ![c].pc = "choose"]
    BY DEF find_upcall_portids
  <1>2. cpu \in [CPUs -> CpuType] /\ port.ids \in Nat  BY DEF TypeInv
  <1>3. cpu' \in [CPUs -> CpuType]  BY <1>1, <1>2 DEF CpuType
  <1>4. /\ \A d \in CPUs : d # c => cpu'[d] = cpu[d]
        /\ cpu'[c].pc = "choose" /\ cpu'[c].list = port.ids /\ cpu'[c].pkt = cpu[c].pkt
        /\ cpu'[c].segs = cpu[c].segs /\ cpu'[c].at = cpu[c].at /\ cpu'[c].err = cpu[c].err
    BY <1>1, <1>2 DEF CpuType
  <1>5. TypeInv'  BY <1>1, <1>3 DEF TypeInv
  <1>6. ListsInv'
    <2>1. ASSUME NEW d \in CPUs PROVE (cpu[d].pc = "find" => Held(port.ids, d))' /\ (cpu[d].pc = "choose" => Held(cpu[d].list, d))'
      <3>1. CASE d = c  BY <3>1, <1>1, <1>4 DEF ListsInv, Held
      <3>2. CASE d # c  BY <3>2, <1>1, <1>4 DEF ListsInv, Held
      <3> QED  BY <3>1, <3>2
    <2> QED  BY <1>1, <2>1 DEF ListsInv
  <1>7. ChoiceInv'  BY <1>1 DEF ChoiceInv, Choice
  <1>8. CpusInv'
    <2>1. CpuInv(c)  BY DEF CpusInv
    <2>2. CpuInv(c)'  BY <2>1, <1>1, <1>4 DEF CpuInv, Missing
    <2> QED  BY <1>1, <1>4, <2>2, CpusStay
  <1>9. SegmentsInOrder'  BY <1>1 DEF SegmentsInOrder, Complete
  <1> QED  BY <1>5, <1>6, <1>7, <1>8, <1>9

LEMMA ChoiceKeeps ==
  ASSUME UpcallInv, NEW c \in CPUs, find_upcall_portid(c)
  PROVE  UpcallInv'
PROOF
  <1> USE DEF UpcallInv
  <1> DEFINE i == cpu[c].pkt
             l == cpu[c].list
  <1>1. /\ cpu[c].pc = "choose" /\ UNCHANGED <<lists, port, open, stats>>
        /\ cpu' = [cpu EXCEPT ![c].portid = Choice(lists[l].ids, sent[i].hash), ![c].pc = "upcall"]
        /\ sent' = [sent EXCEPT ![i].portid = Choice(lists[l].ids, sent[i].hash), ![i].list = l]
    BY DEF find_upcall_portid
  <1>2. cpu \in [CPUs -> CpuType]  BY DEF TypeInv
  <1>3. i \in DOMAIN sent /\ l \in DOMAIN lists /\ sent[i] \in PktType /\ lists[l] \in ListType /\ l \in Nat
    BY <1>1, Typed DEF CpusInv, CpuInv, ListsInv, Held
  <1>4. PICK id \in Nat : id = Choice(lists[l].ids, sent[i].hash)
    <2>1. lists[l].ids \in IdLists /\ sent[i].hash \in Hashes  BY <1>3 DEF ListType, PktType
    <2> QED  BY <2>1, ChoiceInList
  <1>5. id \in PortidType  BY DEF PortidType
  <1>6. cpu' = [cpu EXCEPT ![c].portid = id, ![c].pc = "upcall"]  BY <1>1, <1>4
  <1>7. cpu' \in [CPUs -> CpuType]  BY <1>5, <1>6, <1>2 DEF CpuType
  <1>8. /\ \A d \in CPUs : d # c => cpu'[d] = cpu[d]
        /\ cpu'[c].pc = "upcall" /\ cpu'[c].pkt = cpu[c].pkt
        /\ cpu'[c].segs = cpu[c].segs /\ cpu'[c].at = cpu[c].at /\ cpu'[c].err = cpu[c].err
    BY <1>6, <1>2 DEF CpuType
  <1>9. PICK r \in PktType : /\ sent' = [sent EXCEPT ![i] = r]
                             /\ r.hash = sent[i].hash /\ r.kind = sent[i].kind /\ r.list = l /\ r.portid = id
                             /\ r.msgs = sent[i].msgs /\ r.end = sent[i].end
    <2> DEFINE r == [hash |-> sent[i].hash, kind |-> sent[i].kind, list |-> l, portid |-> id,
                     msgs |-> sent[i].msgs, end |-> sent[i].end]
    <2>1. r \in PktType  BY <1>3, <1>5 DEF PktType
    <2>2. PICK q : q = [sent[i] EXCEPT !.portid = id, !.list = l]  OBVIOUS
    <2>3. sent' = [sent EXCEPT ![i] = q]
      <3>1. sent' = [sent EXCEPT ![i].portid = id, ![i].list = l]  BY <1>1, <1>4
      <3> QED  BY <3>1, <2>2, <1>3, Typed
    <2>4. q \in [hash : {sent[i].hash}, kind : {sent[i].kind}, list : {l}, portid : {id},
                 msgs : {sent[i].msgs}, end : {sent[i].end}]
      BY <2>2, <1>3 DEF PktType
    <2>5. q = r  BY ONLY <2>4
    <2> QED  BY <2>1, <2>3, <2>5
  <1>10. /\ sent' \in Seq(PktType) /\ DOMAIN sent' = DOMAIN sent /\ sent'[i] = r
         /\ \A j \in DOMAIN sent : j # i => sent'[j] = sent[j]
    BY <1>3, <1>9, PktChanges
  <1>11. TypeInv'  BY <1>1, <1>7, <1>10 DEF TypeInv
  <1>12. ListsInv'
    <2>1. \A d \in CPUs : cpu'[d].pc \in {"find", "choose"} => cpu'[d].pc = cpu[d].pc /\ cpu'[d].list = cpu[d].list
      BY <1>8
    <2> QED  BY <1>1, <2>1, ListsStay
  <1>13. ChoiceInv'
    <2>1. ASSUME NEW j \in DOMAIN sent', sent'[j].list # 0
          PROVE  sent'[j].list \in DOMAIN lists' /\ sent'[j].portid = Choice(lists'[sent'[j].list].ids, sent'[j].hash)
      <3>1. CASE j = i  BY <3>1, <1>1, <1>3, <1>4, <1>9, <1>10
      <3>2. CASE j # i  BY <3>2, <2>1, <1>1, <1>10 DEF ChoiceInv
      <3> QED  BY <3>1, <3>2
    <2>2. ChoiceInv' <=> \A j \in DOMAIN sent' : sent'[j].list # 0 =>
            sent'[j].list \in DOMAIN lists' /\ sent'[j].portid = Choice(lists'[sent'[j].list].ids, sent'[j].hash)
      BY DEF ChoiceInv, Choice
    <2> QED  BY <2>1, <2>2
  <1>14. CpusInv'
    <2>1. CpuInv(c)  BY DEF CpusInv
    <2>2. CpuInv(c)'
      <3>1. /\ sent[i].end = "held" /\ cpu[c].segs = SegsOf(sent[i].kind) /\ ~cpu[c].err
            /\ cpu[c].at = Len(sent[i].msgs) /\ cpu[c].at < cpu[c].segs
        BY ONLY <1>1, <2>1 DEF CpuInv
      <3>2. /\ cpu'[c].pc = "upcall" /\ cpu'[c].pkt = i /\ cpu'[c].pkt \in DOMAIN sent'
            /\ cpu'[c].segs = cpu[c].segs /\ cpu'[c].at = cpu[c].at /\ cpu'[c].err = cpu[c].err
        BY ONLY <1>3, <1>8, <1>10
      <3>3. /\ sent'[cpu'[c].pkt].end = sent[i].end /\ sent'[cpu'[c].pkt].kind = sent[i].kind
            /\ sent'[cpu'[c].pkt].msgs = sent[i].msgs
        BY ONLY <1>8, <1>9, <1>10, r \in PktType DEF PktType
      <3> QED  BY ONLY <3>1, <3>2, <3>3 DEF CpuInv, Missing
    <2> QED  BY <1>1, <1>8, <1>10, <2>2, CpusStay
  <1>15. SegmentsInOrder'
    <2>1. \A j \in DOMAIN sent' : j \in DOMAIN sent /\ sent'[j].end = sent[j].end /\ sent'[j].msgs = sent[j].msgs /\ sent'[j].kind = sent[j].kind
      BY <1>9, <1>10
    <2>2. \A j \in DOMAIN sent : j \in DOMAIN sent'  BY <1>10
    <2>3. SegmentsInOrder /\ UNCHANGED stats  BY <1>1
    <2> QED  BY ONLY <2>1, <2>2, <2>3, SegmentsStay
  <1> QED  BY <1>11, <1>12, <1>13, <1>14, <1>15

LEMMA FailKeeps ==
  ASSUME UpcallInv, NEW c \in CPUs, upcall_fails(c)
  PROVE  UpcallInv'
PROOF
  <1> USE DEF UpcallInv
  <1>1. /\ cpu[c].pc = "upcall" /\ UNCHANGED <<lists, port, open, stats, sent>>
        /\ cpu' = [cpu EXCEPT ![c].err = TRUE, ![c].pc = "sent"]
    BY DEF upcall_fails
  <1>2. cpu \in [CPUs -> CpuType]  BY DEF TypeInv
  <1>3. cpu' \in [CPUs -> CpuType]  BY <1>1, <1>2 DEF CpuType
  <1>4. /\ \A d \in CPUs : d # c => cpu'[d] = cpu[d]
        /\ cpu'[c].pc = "sent" /\ cpu'[c].pkt = cpu[c].pkt
        /\ cpu'[c].segs = cpu[c].segs /\ cpu'[c].at = cpu[c].at /\ cpu'[c].err
    BY <1>1, <1>2 DEF CpuType
  <1>5. TypeInv'  BY <1>1, <1>3 DEF TypeInv
  <1>6. ListsInv'
    <2>1. \A d \in CPUs : cpu'[d].pc \in {"find", "choose"} => cpu'[d].pc = cpu[d].pc /\ cpu'[d].list = cpu[d].list
      BY <1>4
    <2> QED  BY <1>1, <2>1, ListsStay
  <1>7. ChoiceInv'  BY <1>1 DEF ChoiceInv, Choice
  <1>8. CpusInv'
    <2>1. CpuInv(c) /\ cpu[c].at \in Nat /\ cpu[c].segs \in Nat  BY <1>2 DEF CpusInv, CpuType
    <2>2. Missing(c)  BY <2>1, <1>1 DEF CpuInv, Missing
    <2>3. CpuInv(c)'  BY <2>1, <2>2, <1>1, <1>4 DEF CpuInv, Missing
    <2> QED  BY <1>1, <1>4, <2>3, CpusStay
  <1>9. SegmentsInOrder'  BY <1>1 DEF SegmentsInOrder, Complete
  <1> QED  BY <1>5, <1>6, <1>7, <1>8, <1>9

LEMMA QueueKeeps ==
  ASSUME UpcallInv, NEW c \in CPUs, queue_userspace_packet(c)
  PROVE  UpcallInv'
PROOF
  <1> USE DEF UpcallInv
  <1> DEFINE i == cpu[c].pkt
             at == cpu[c].at
             msg == [pkt |-> i, seg |-> at, frag |-> Frag(sent[i].kind, at)]
  <1>1. /\ cpu[c].pc = "upcall" /\ UNCHANGED <<lists, port, open, stats>>
        /\ \/ /\ sent' = [sent EXCEPT ![i].msgs = Append(@, msg)]
              /\ cpu' = [cpu EXCEPT ![c].at = @ + 1, ![c].pc = IF at + 1 = cpu[c].segs THEN "sent" ELSE "upcall"]
           \/ cpu' = [cpu EXCEPT ![c].err = TRUE, ![c].at = @ + 1, ![c].pc = "sent"] /\ UNCHANGED sent
    BY DEF queue_userspace_packet, QueueOn
  <1>2. cpu \in [CPUs -> CpuType]  BY DEF TypeInv
  <1>3. CpuInv(c) /\ at \in Nat /\ cpu[c].segs \in Nat  BY <1>2 DEF CpusInv, CpuType
  <1>4. i \in DOMAIN sent /\ sent[i] \in PktType /\ sent[i].msgs \in Seq(Msgs) /\ sent[i].end = "held" /\ ~cpu[c].err
        /\ at = Len(sent[i].msgs) /\ at < cpu[c].segs /\ cpu[c].segs = SegsOf(sent[i].kind)
    BY <1>1, <1>3, Typed DEF CpuInv, PktType
  <1>5. ListsInv' /\ TypeInv' /\ ChoiceInv' /\ CpusInv' /\ SegmentsInOrder'
    <2>1. CASE cpu' = [cpu EXCEPT ![c].err = TRUE, ![c].at = @ + 1, ![c].pc = "sent"] /\ UNCHANGED sent
      <3>1. cpu' \in [CPUs -> CpuType]  BY <2>1, <1>2 DEF CpuType
      <3>2. /\ \A d \in CPUs : d # c => cpu'[d] = cpu[d]
            /\ cpu'[c].pc = "sent" /\ cpu'[c].pkt = cpu[c].pkt /\ cpu'[c].segs = cpu[c].segs /\ cpu'[c].err
        BY <2>1, <1>2 DEF CpuType
      <3>3. TypeInv'  BY <1>1, <2>1, <3>1 DEF TypeInv
      <3>4. \A d \in CPUs : cpu'[d].pc \in {"find", "choose"} => cpu'[d].pc = cpu[d].pc /\ cpu'[d].list = cpu[d].list
        BY <3>2
      <3>5. ListsInv'  BY <1>1, <3>4, ListsStay
      <3>6. ChoiceInv'  BY <1>1, <2>1 DEF ChoiceInv, Choice
      <3>7. Missing(c)  BY <1>3, <1>4 DEF Missing
      <3>8. CpuInv(c)'  BY <1>4, <2>1, <3>2, <3>7 DEF CpuInv, Missing
      <3>9. CpusInv'  BY <1>1, <2>1, <3>2, <3>8, CpusStay
      <3>10. SegmentsInOrder'  BY <1>1, <2>1 DEF SegmentsInOrder, Complete
      <3> QED  BY <3>3, <3>5, <3>6, <3>9, <3>10
    <2>2. CASE /\ sent' = [sent EXCEPT ![i].msgs = Append(@, msg)]
               /\ cpu' = [cpu EXCEPT ![c].at = @ + 1, ![c].pc = IF at + 1 = cpu[c].segs THEN "sent" ELSE "upcall"]
      <3>1. cpu' \in [CPUs -> CpuType]
        <4>1. PICK s \in {"sent", "upcall"}, a \in Nat :
                s = (IF at + 1 = cpu[c].segs THEN "sent" ELSE "upcall") /\ a = at + 1
          BY <1>3
        <4>2. cpu' = [cpu EXCEPT ![c].at = a, ![c].pc = s]  BY <2>2, <4>1
        <4> QED  BY ZenonT(60), <4>2, <1>2 DEF CpuType
      <3>2. /\ \A d \in CPUs : d # c => cpu'[d] = cpu[d]
            /\ cpu'[c].pc = IF at + 1 = cpu[c].segs THEN "sent" ELSE "upcall"
            /\ cpu'[c].at = at + 1
            /\ cpu'[c].pkt = cpu[c].pkt /\ cpu'[c].segs = cpu[c].segs /\ cpu'[c].err = cpu[c].err
        BY <2>2, <1>2 DEF CpuType
      <3>3. msg \in Msgs
        <4>1. Frag(sent[i].kind, at) \in {"none", "first", "later"}  BY DEF Frag
        <4> QED  BY <4>1, <1>2, <1>3 DEF Msgs, CpuType
      <3>4. PICK m \in Seq(Msgs) : m = Append(sent[i].msgs, msg)  BY <3>3, <1>4, AppendProperties
      <3>5. /\ Len(m) = at + 1 /\ m[at + 1] = msg
            /\ \A n \in 1..at : m[n] = sent[i].msgs[n]
            /\ DOMAIN m = 1..(at + 1) /\ DOMAIN sent[i].msgs = 1..at
        BY <3>3, <3>4, <1>4, AppendProperties, LenProperties
      <3>6. PICK r \in PktType : /\ sent' = [sent EXCEPT ![i] = r]
                                 /\ r.hash = sent[i].hash /\ r.kind = sent[i].kind /\ r.list = sent[i].list
                                 /\ r.portid = sent[i].portid /\ r.msgs = m /\ r.end = sent[i].end
        <4>1. PICK q : q = [sent[i] EXCEPT !.msgs = m]  OBVIOUS
        <4>2. sent' = [sent EXCEPT ![i] = q]  BY <2>2, <3>4, <4>1, <1>4
        <4>3. q \in PktType  BY <4>1, <3>4, <1>4 DEF PktType
        <4>4. /\ q.hash = sent[i].hash /\ q.kind = sent[i].kind /\ q.list = sent[i].list
              /\ q.portid = sent[i].portid /\ q.msgs = m /\ q.end = sent[i].end
          BY <4>1, <1>4 DEF PktType
        <4> QED  BY <4>2, <4>3, <4>4
      <3>7. /\ sent' \in Seq(PktType) /\ DOMAIN sent' = DOMAIN sent /\ sent'[i] = r
            /\ \A j \in DOMAIN sent : j # i => sent'[j] = sent[j]
        BY <1>4, <3>6, PktChanges
      <3>8. TypeInv'  BY <1>1, <3>1, <3>7 DEF TypeInv
      <3>9. ListsInv'
        <4>1. \A d \in CPUs : cpu'[d].pc \in {"find", "choose"} => cpu'[d].pc = cpu[d].pc /\ cpu'[d].list = cpu[d].list
          BY <3>2
        <4> QED  BY <1>1, <4>1, ListsStay
      <3>10. ChoiceInv'
        <4>1. \A j \in DOMAIN lists : j \in DOMAIN lists' /\ lists'[j].ids = lists[j].ids  BY <1>1
        <4>2. \A j \in DOMAIN sent' : sent'[j].list # 0 =>
                /\ j \in DOMAIN sent
                /\ sent'[j].list = sent[j].list /\ sent'[j].portid = sent[j].portid /\ sent'[j].hash = sent[j].hash
          BY <3>6, <3>7
        <4> QED  BY <4>1, <4>2, ChoicesStay
      <3>11. CpuInv(c)'
        <4>1. cpu'[c].pkt \in DOMAIN sent' /\ sent'[cpu'[c].pkt] = r  BY <1>4, <3>2, <3>7
        <4>2. Missing(c)' <=> at + 1 # cpu[c].segs  BY <4>1, <1>4, <3>5, <3>6 DEF Missing
        <4>3. CASE at + 1 = cpu[c].segs
          <5>1. cpu'[c].pc = "sent" /\ ~cpu'[c].err /\ ~Missing(c)'  BY <4>2, <4>3, <1>4, <3>2
          <5> QED  BY ONLY <5>1, <4>1, <3>2, <3>6, <1>4 DEF CpuInv
        <4>4. CASE at + 1 # cpu[c].segs
          <5>1. cpu'[c].pc = "upcall" /\ ~cpu'[c].err /\ cpu'[c].at < cpu'[c].segs  BY <4>4, <1>3, <1>4, <3>2
          <5> QED  BY ONLY <5>1, <4>1, <3>2, <3>5, <3>6, <1>4 DEF CpuInv
        <4> QED  BY <4>3, <4>4
      <3>12. CpusInv'  BY <1>1, <3>2, <3>7, <3>11, CpusStay
      <3>13. SegmentsInOrder'
        <4>1. MsgsInOrder(sent'[i])
          <5>1. \A n \in 1..at : m[n].seg = n - 1 /\ (m[n].frag = "first" <=> sent[i].kind = "udp" /\ n = 1)
            BY <1>4, <3>5 DEF SegmentsInOrder
          <5>2. m[at + 1].seg = at /\ (m[at + 1].frag = "first" <=> sent[i].kind = "udp" /\ at + 1 = 1)
            BY <3>5, <1>3 DEF Frag
          <5>3. \A n \in DOMAIN m : n \in 1..at \/ n = at + 1  BY <3>5, <1>3
          <5>4. (at + 1) - 1 = at  BY <1>3
          <5> QED  BY <5>1, <5>2, <5>3, <5>4, <3>6, <3>7 DEF MsgsInOrder
        <4>2. sent[i].end = "held" /\ sent'[i].end = "held"  BY <1>4, <3>6, <3>7
        <4>3. DOMAIN sent' = DOMAIN sent /\ \A j \in DOMAIN sent : j # i => sent'[j] = sent[j]  BY <3>7
        <4>4. SegmentsInOrder /\ UNCHANGED stats  BY <1>1
        <4> QED  BY ONLY <4>1, <4>2, <4>3, <4>4, SegmentsStay
      <3> QED  BY <3>8, <3>9, <3>10, <3>12, <3>13
    <2> QED  BY <1>1, <2>1, <2>2
  <1> QED  BY <1>5

LEMMA DoneKeeps ==
  ASSUME UpcallInv, NEW c \in CPUs, upcall_done(c)
  PROVE  UpcallInv'
PROOF
  <1> USE DEF UpcallInv
  <1> DEFINE f == cpu[c]
             i == cpu[c].pkt
             e == IF f.list # 0 THEN Freed(f.err) ELSE "returned"
  <1>1. /\ cpu[c].pc = "sent" /\ UNCHANGED <<port, open>>
        /\ stats' = [n_missed |-> stats.n_missed + IF f.list # 0 THEN 1 ELSE 0,
                     n_lost |-> stats.n_lost + IF f.err THEN 1 ELSE 0]
        /\ sent' = [sent EXCEPT ![i].end = e]
        /\ cpu' = [cpu EXCEPT ![c] = Idle]
        /\ lists' = [j \in DOMAIN lists |-> [lists[j] EXCEPT !.waits = @ \ {c}]]
    BY DEF upcall_done
  <1>2. f \in CpuType /\ CpuInv(c)  BY Typed DEF CpusInv
  <1>3. i \in DOMAIN sent /\ sent[i] \in PktType /\ sent[i].end = "held" /\ (f.err <=> ~Complete(sent[i]))
    BY <1>1, <1>2, Typed DEF CpuInv, Missing, Complete
  <1>4. /\ e \in {"returned", "consumed", "killed"}
        /\ e \in {"consumed", "killed"} <=> f.list # 0
        /\ e = "consumed" => ~f.err
    BY DEF Freed
  <1> HIDE DEF e
  <1>5. PICK r \in PktType : /\ sent' = [sent EXCEPT ![i] = r]
                             /\ r.hash = sent[i].hash /\ r.kind = sent[i].kind /\ r.list = sent[i].list
                             /\ r.portid = sent[i].portid /\ r.msgs = sent[i].msgs /\ r.end = e
    <2>1. PICK q : q = [sent[i] EXCEPT !.end = e]  OBVIOUS
    <2>2. sent' = [sent EXCEPT ![i] = q]  BY <1>1, <2>1, <1>3
    <2>3. q \in PktType  BY <1>3, <1>4, <2>1 DEF PktType
    <2>4. /\ q.hash = sent[i].hash /\ q.kind = sent[i].kind /\ q.list = sent[i].list
          /\ q.portid = sent[i].portid /\ q.msgs = sent[i].msgs /\ q.end = e
      BY <1>3, <2>1 DEF PktType
    <2> QED  BY <2>2, <2>3, <2>4
  <1>6. /\ sent' \in Seq(PktType) /\ DOMAIN sent' = DOMAIN sent /\ sent'[i] = r
        /\ \A j \in DOMAIN sent : j # i => sent'[j] = sent[j]
    BY <1>3, <1>5, PktChanges
  <1>7. Idle \in CpuType  BY DEF Idle, CpuType, PortidType
  <1>8. cpu' \in [CPUs -> CpuType] /\ cpu'[c] = Idle /\ \A d \in CPUs : d # c => cpu'[d] = cpu[d]
    BY <1>1, <1>7, CpuChanges
  <1>9. lists' \in Seq(ListType) /\ DOMAIN lists' = DOMAIN lists
        /\ \A j \in DOMAIN lists :
             lists'[j].ids = lists[j].ids /\ lists'[j].st = lists[j].st /\ lists'[j].waits = lists[j].waits \ {c}
    <2>1. \A l \in ListType :
            /\ [l EXCEPT !.waits = @ \ {c}] \in ListType
            /\ [l EXCEPT !.waits = @ \ {c}].ids = l.ids
            /\ [l EXCEPT !.waits = @ \ {c}].st = l.st
            /\ [l EXCEPT !.waits = @ \ {c}].waits = l.waits \ {c}
      BY DEF ListType
    <2>2. DOMAIN lists = 1..Len(lists) /\ Len(lists) \in Nat /\ \A j \in DOMAIN lists : lists[j] \in ListType
      BY Typed
    <2>3. lists' \in [1..Len(lists) -> ListType]  BY <1>1, <2>1, <2>2
    <2> QED  BY <1>1, <2>1, <2>2, <2>3, FunctionIsSeq
  <1>10. TypeInv'
    <2>1. stats' \in [n_missed : Nat, n_lost : Nat]
      <3>1. stats.n_missed \in Nat /\ stats.n_lost \in Nat  BY DEF TypeInv
      <3> QED  BY <1>1, <3>1
    <2> QED  BY <1>1, <1>6, <1>8, <1>9, <2>1 DEF TypeInv
  <1>11. ListsInv'
    <2>1. ASSUME NEW d \in CPUs PROVE (cpu[d].pc = "find" => Held(port.ids, d))' /\ (cpu[d].pc = "choose" => Held(cpu[d].list, d))'
      <3>1. CASE d = c  BY <3>1, <1>8 DEF Idle
      <3>2. CASE d # c
        <4>1. cpu'[d] = cpu[d]  BY <3>2, <1>8
        <4>2. \A j : Held(j, d) => Held(j, d)'  BY <3>2, <1>9 DEF Held
        <4> QED  BY <1>1, <4>1, <4>2 DEF ListsInv, Held
      <3> QED  BY <3>1, <3>2
    <2> QED  BY <1>1, <1>9, <2>1 DEF ListsInv
  <1>12. ChoiceInv'
    <2>1. \A j \in DOMAIN lists : j \in DOMAIN lists' /\ lists'[j].ids = lists[j].ids  BY <1>9
    <2>2. \A j \in DOMAIN sent' : sent'[j].list # 0 =>
            /\ j \in DOMAIN sent
            /\ sent'[j].list = sent[j].list /\ sent'[j].portid = sent[j].portid /\ sent'[j].hash = sent[j].hash
      BY <1>5, <1>6
    <2> QED  BY <2>1, <2>2, ChoicesStay
  <1>13. CpusInv'
    <2>1. CpuInv(c)'  BY <1>8 DEF CpuInv, Idle
    <2>2. cpu'[c].pc = "idle"  BY <1>8 DEF Idle
    <2>3. \A j \in DOMAIN sent : j \in DOMAIN sent' /\ ((j = cpu[c].pkt /\ cpu[c].pc # "idle") \/ sent'[j] = sent[j])
      BY <1>1, <1>6
    <2> QED  BY <1>1, <1>6, <1>8, <2>1, <2>2, <2>3, CpusStay
  <1>14. SegmentsInOrder'
    <2> DEFINE Lost == {j \in DOMAIN sent : sent[j].end # "held" /\ ~Complete(sent[j])}
               Missed == {j \in DOMAIN sent : sent[j].end \in {"consumed", "killed"}}
    <2>1. stats.n_lost = Cardinality(Lost) /\ stats.n_missed = Cardinality(Missed)  BY DEF SegmentsInOrder
    <2>2. IsFiniteSet(Lost) /\ IsFiniteSet(Missed) /\ i \notin Lost /\ i \notin Missed
      <3>1. IsFiniteSet(DOMAIN sent)  BY Typed, FS_Interval
      <3>2. Lost \in SUBSET DOMAIN sent /\ Missed \in SUBSET DOMAIN sent  OBVIOUS
      <3>3. IsFiniteSet(Lost) /\ IsFiniteSet(Missed)  BY ONLY <3>1, <3>2, FS_Subset
      <3>4. i \notin Lost /\ i \notin Missed  BY <1>3
      <3> QED  BY <3>3, <3>4
    <2>3. \A j \in DOMAIN sent : j # i => sent'[j].end = sent[j].end /\ (Complete(sent'[j]) <=> Complete(sent[j]))
      BY <1>6
    <2>4. sent'[i].end = e /\ (Complete(sent'[i]) <=> Complete(sent[i]))  BY <1>5, <1>6 DEF Complete
    <2>5. {j \in DOMAIN sent' : sent'[j].end # "held" /\ ~Complete(sent'[j])} = IF f.err THEN Lost \cup {i} ELSE Lost
      <3>1. CASE f.err  BY <3>1, <2>3, <2>4, <1>3, <1>4, <1>6
      <3>2. CASE ~f.err  BY <3>2, <2>3, <2>4, <1>3, <1>4, <1>6
      <3> QED  BY <3>1, <3>2
    <2>6. {j \in DOMAIN sent' : sent'[j].end \in {"consumed", "killed"}} = IF f.list # 0 THEN Missed \cup {i} ELSE Missed
      <3>1. CASE f.list # 0  BY <3>1, <2>3, <2>4, <1>3, <1>4, <1>6
      <3>2. CASE ~(f.list # 0)  BY <3>2, <2>3, <2>4, <1>3, <1>4, <1>6
      <3> QED  BY <3>1, <3>2
    <2> HIDE DEF Lost, Missed
    <2>7. /\ Cardinality(Lost \cup {i}) = Cardinality(Lost) + 1
          /\ Cardinality(Missed \cup {i}) = Cardinality(Missed) + 1
      BY ONLY <2>2, FS_AddElement
    <2>8. stats.n_missed \in Nat /\ stats.n_lost \in Nat  BY DEF TypeInv
    <2>9. stats'.n_lost = Cardinality({j \in DOMAIN sent' : sent'[j].end # "held" /\ ~Complete(sent'[j])})
      <3>1. stats'.n_lost = stats.n_lost + IF f.err THEN 1 ELSE 0  BY <1>1
      <3> HIDE DEF f
      <3>2. CASE f.err  BY ONLY <3>1, <3>2, <2>1, <2>5, <2>7
      <3>3. CASE ~f.err
        <4>1. stats'.n_lost = stats.n_lost  BY ONLY <3>1, <3>3, <2>8
        <4> QED  BY ONLY <4>1, <3>3, <2>1, <2>5
      <3> QED  BY <3>2, <3>3
    <2>10. stats'.n_missed = Cardinality({j \in DOMAIN sent' : sent'[j].end \in {"consumed", "killed"}})
      <3>1. stats'.n_missed = stats.n_missed + IF f.list # 0 THEN 1 ELSE 0  BY <1>1
      <3> HIDE DEF f
      <3>2. CASE f.list # 0  BY ONLY <3>1, <3>2, <2>1, <2>6, <2>7
      <3>3. CASE ~(f.list # 0)
        <4>1. stats'.n_missed = stats.n_missed  BY ONLY <3>1, <3>3, <2>8
        <4> QED  BY ONLY <4>1, <3>3, <2>1, <2>6
      <3> QED  BY <3>2, <3>3
    <2>11. \A j \in DOMAIN sent' : \A n \in DOMAIN sent'[j].msgs :
             sent'[j].msgs[n].seg = n - 1 /\ (sent'[j].msgs[n].frag = "first" <=> sent'[j].kind = "udp" /\ n = 1)
      BY <1>3, <1>5, <1>6 DEF SegmentsInOrder
    <2>12. \A j \in DOMAIN sent' : sent'[j].end = "consumed" => Complete(sent'[j])
      BY <1>3, <1>4, <1>6, <2>3, <2>4 DEF SegmentsInOrder
    <2>13. SegmentsInOrder' <=>
             /\ \A j \in DOMAIN sent' : \A n \in DOMAIN sent'[j].msgs :
                  sent'[j].msgs[n].seg = n - 1 /\ (sent'[j].msgs[n].frag = "first" <=> sent'[j].kind = "udp" /\ n = 1)
             /\ \A j \in DOMAIN sent' : sent'[j].end = "consumed" => Complete(sent'[j])
             /\ stats'.n_lost = Cardinality({j \in DOMAIN sent' : sent'[j].end # "held" /\ ~Complete(sent'[j])})
             /\ stats'.n_missed = Cardinality({j \in DOMAIN sent' : sent'[j].end \in {"consumed", "killed"}})
      BY DEF SegmentsInOrder, Complete
    <2> QED  BY <2>9, <2>10, <2>11, <2>12, <2>13
  <1> QED  BY <1>10, <1>11, <1>12, <1>13, <1>14

\* A list that its port no longer has stays for those who are to read it.
LEMMA ReplacedHeld ==
  ASSUME UpcallInv, NEW c \in CPUs, cpu[c].pc # "idle", NEW i, Held(i, c)
  PROVE  /\ i \in DOMAIN Replaced
         /\ Replaced[i].st = "live" \/ (Replaced[i].st = "replaced" /\ c \in Replaced[i].waits)
PROOF
  <1>1. port.ids \in DOMAIN lists /\ TypeInv  BY DEF UpcallInv, ListsInv
  <1>2. c \in Readers  BY DEF Readers
  <1> QED  BY <1>1, <1>2, ReplacedList DEF Held

LEMMA SetPortidsKeeps ==
  ASSUME UpcallInv, ovs_vport_set_upcall_portids
  PROVE  UpcallInv'
PROOF
  <1> USE DEF UpcallInv
  <1>1. PICK ids \in IdLists : lists' = Append(Replaced, [ids |-> ids, st |-> "live", waits |-> {}])
    BY DEF ovs_vport_set_upcall_portids
  <1>2. port.here /\ port' = [port EXCEPT !.ids = Len(lists) + 1] /\ UNCHANGED <<cpu, open, stats, sent>>
    BY DEF ovs_vport_set_upcall_portids
  <1> DEFINE new == [ids |-> ids, st |-> "live", waits |-> {}]
  <1>3. new \in ListType  BY DEF ListType, ListStates
  <1>4. /\ Replaced \in Seq(ListType) /\ Len(Replaced) = Len(lists) /\ DOMAIN Replaced = DOMAIN lists
        /\ \A i \in DOMAIN lists : Replaced[i].ids = lists[i].ids
    BY ReplacedList DEF ListsInv
  <1>5. Len(lists) \in Nat /\ DOMAIN lists = 1..Len(lists)  BY Typed
  <1>6. /\ lists' \in Seq(ListType) /\ DOMAIN lists' = 1..(Len(lists) + 1)
        /\ \A i \in DOMAIN lists : lists'[i] = Replaced[i]
        /\ lists'[Len(lists) + 1] = new
    BY <1>1, <1>3, <1>4, <1>5, AppendProperties, LenProperties
  <1>7. port' \in [ids : Nat, here : BOOLEAN] /\ port'.ids = Len(lists) + 1
    <2>1. PICK n \in Nat : n = Len(lists) + 1  BY <1>5
    <2>2. port' = [port EXCEPT !.ids = n] /\ port \in [ids : Nat, here : BOOLEAN]  BY <1>2, <2>1 DEF TypeInv
    <2> QED  BY <2>1, <2>2
  <1>8. TypeInv'  BY <1>2, <1>6, <1>7 DEF TypeInv
  <1>9. ListsInv'
    <2>1. ASSUME NEW c \in CPUs PROVE (cpu[c].pc = "find" => Held(port.ids, c))' /\ (cpu[c].pc = "choose" => Held(cpu[c].list, c))'
      <3>1. Held(port.ids, c)'  BY <1>5, <1>6, <1>7 DEF Held
      <3>2. ASSUME cpu[c].pc = "choose" PROVE Held(cpu[c].list, c)'
        <4>1. Held(cpu[c].list, c)  BY <3>2 DEF ListsInv
        <4>2. /\ cpu[c].list \in DOMAIN lists
              /\ Replaced[cpu[c].list].st = "live" \/ (Replaced[cpu[c].list].st = "replaced" /\ c \in Replaced[cpu[c].list].waits)
          BY <3>2, <4>1, ReplacedHeld DEF Held
        <4>3. cpu[c].list \in DOMAIN lists' /\ lists'[cpu[c].list] = Replaced[cpu[c].list]  BY <1>5, <1>6, <4>2
        <4> QED  BY <1>2, <4>2, <4>3 DEF Held
      <3> QED  BY <1>2, <3>1, <3>2
    <2> QED  BY <1>5, <1>6, <1>7, <2>1 DEF ListsInv
  <1>10. ChoiceInv'
    <2>1. \A i \in DOMAIN lists : i \in DOMAIN lists' /\ lists'[i].ids = lists[i].ids  BY <1>4, <1>5, <1>6
    <2> QED  BY <1>2, <2>1, ChoicesStay
  <1>11. CpusInv'  BY <1>2 DEF CpusInv, CpuInv, Missing
  <1>12. SegmentsInOrder'  BY <1>2 DEF SegmentsInOrder, Complete
  <1> QED  BY <1>8, <1>9, <1>10, <1>11, <1>12

LEMMA DetachKeeps ==
  ASSUME UpcallInv, ovs_dp_detach_port
  PROVE  UpcallInv'
PROOF
  <1> USE DEF UpcallInv
  <1>1. port.here /\ lists' = Replaced /\ port' = [port EXCEPT !.here = FALSE] /\ UNCHANGED <<cpu, open, stats, sent>>
    BY DEF ovs_dp_detach_port
  <1>2. /\ Replaced \in Seq(ListType) /\ DOMAIN Replaced = DOMAIN lists
        /\ \A i \in DOMAIN lists : Replaced[i].ids = lists[i].ids
    BY ReplacedList DEF ListsInv
  <1>3. port' \in [ids : Nat, here : BOOLEAN] /\ port'.ids = port.ids /\ ~port'.here  BY <1>1 DEF TypeInv
  <1>4. TypeInv'  BY <1>1, <1>2, <1>3 DEF TypeInv
  <1>5. ListsInv'
    <2>1. ASSUME NEW c \in CPUs PROVE (cpu[c].pc = "find" => Held(port.ids, c))' /\ (cpu[c].pc = "choose" => Held(cpu[c].list, c))'
      <3>1. \A i : cpu[c].pc # "idle" /\ Held(i, c) => Held(i, c)'  BY <1>1, ReplacedHeld DEF Held
      <3> QED  BY <1>1, <1>3, <3>1 DEF ListsInv, Held
    <2> QED  BY <1>1, <1>2, <1>3, <2>1 DEF ListsInv
  <1>6. ChoiceInv'
    <2>1. \A i \in DOMAIN lists : i \in DOMAIN lists' /\ lists'[i].ids = lists[i].ids  BY <1>1, <1>2
    <2> QED  BY <1>1, <2>1, ChoicesStay
  <1>7. CpusInv'  BY <1>1 DEF CpusInv, CpuInv, Missing
  <1>8. SegmentsInOrder'  BY <1>1 DEF SegmentsInOrder, Complete
  <1> QED  BY <1>4, <1>5, <1>6, <1>7, <1>8

LEMMA GracePeriodKeeps ==
  ASSUME UpcallInv, grace_period
  PROVE  UpcallInv'
PROOF
  <1> USE DEF UpcallInv
  <1>1. PICK i \in DOMAIN lists :
          lists[i].st = "replaced" /\ lists[i].waits = {} /\ lists' = [lists EXCEPT ![i].st = "freed"]
    BY DEF grace_period
  <1>2. UNCHANGED <<port, cpu, open, stats, sent>>  BY DEF grace_period
  <1>3. lists \in Seq(ListType) /\ lists[i] \in ListType /\ i \in 1..Len(lists)  BY Typed DEF TypeInv
  <1>4. PICK l \in ListType : lists' = [lists EXCEPT ![i] = l] /\ l.ids = lists[i].ids
    <2>1. PICK q : q = [lists[i] EXCEPT !.st = "freed"]  OBVIOUS
    <2>2. lists' = [lists EXCEPT ![i] = q]  BY <1>1, <2>1
    <2>3. q \in ListType /\ q.ids = lists[i].ids  BY <2>1, <1>3 DEF ListType, ListStates
    <2> QED  BY <2>2, <2>3
  <1>5. lists' \in Seq(ListType) /\ Len(lists') = Len(lists)
        /\ \A j \in 1..Len(lists) : lists'[j] = IF j = i THEN l ELSE lists[j]
    BY <1>3, <1>4, ExceptSeq
  <1>6. DOMAIN lists' = DOMAIN lists /\ \A j \in DOMAIN lists : j # i => lists'[j] = lists[j]
    BY <1>5, Typed, LenProperties
  <1>7. TypeInv'  BY <1>2, <1>5 DEF TypeInv
  <1>8. ListsInv'
    <2>1. ASSUME NEW c \in CPUs PROVE (cpu[c].pc = "find" => Held(port.ids, c))' /\ (cpu[c].pc = "choose" => Held(cpu[c].list, c))'
      <3>1. \A j : Held(j, c) => Held(j, c)'  BY <1>1, <1>6 DEF Held
      <3> QED  BY <1>2, <3>1 DEF ListsInv, Held
    <2>2. port.here => port.ids # i  BY <1>1 DEF ListsInv
    <2> QED  BY <1>2, <1>6, <2>1, <2>2 DEF ListsInv
  <1>9. ChoiceInv'
    <2>1. \A j \in DOMAIN lists : j \in DOMAIN lists' /\ lists'[j].ids = lists[j].ids  BY <1>3, <1>4, <1>5, <1>6, Typed
    <2> QED  BY <1>2, <2>1, ChoicesStay
  <1>10. CpusInv'  BY <1>2 DEF CpusInv, CpuInv, Missing
  <1>11. SegmentsInOrder'  BY <1>2 DEF SegmentsInOrder, Complete
  <1> QED  BY <1>7, <1>8, <1>9, <1>10, <1>11

LEMMA NothingKeeps ==
  ASSUME UpcallInv, UNCHANGED <<lists, port, cpu, stats, sent>>
  PROVE  UpcallInv'
PROOF
  <1> USE DEF UpcallInv
  <1>1. TypeInv'  BY DEF TypeInv
  <1>2. ListsInv'  BY DEF ListsInv, Held
  <1>3. ChoiceInv'  BY DEF ChoiceInv, Choice
  <1>4. CpusInv'  BY DEF CpusInv, CpuInv, Missing
  <1>5. SegmentsInOrder'  BY DEF SegmentsInOrder, Complete
  <1> QED  BY <1>1, <1>2, <1>3, <1>4, <1>5
-----------------------------------------------------------------------------
(* The theorems *)

LEMMA InitUpcall ==
  ASSUME UpcallInit
  PROVE  UpcallInv
PROOF
  <1>1. PICK ids \in IdLists : lists = <<[ids |-> ids, st |-> "live", waits |-> {}]>>  BY DEF UpcallInit
  <1>2. /\ port = [ids |-> 1, here |-> TRUE] /\ cpu = [c \in CPUs |-> Idle]
        /\ stats = [n_missed |-> 0, n_lost |-> 0] /\ sent = <<>>
    BY DEF UpcallInit
  <1>3. [ids |-> ids, st |-> "live", waits |-> {}] \in ListType  BY DEF ListType, ListStates
  <1>4. lists \in Seq(ListType) /\ DOMAIN lists = {1} /\ lists[1].st = "live"  BY <1>1, <1>3
  <1>5. Idle \in CpuType /\ Idle.pc = "idle"  BY DEF Idle, CpuType, PortidType
  <1>6. sent \in Seq(PktType) /\ DOMAIN sent = {}  BY <1>2, EmptySeq
  <1>7. TypeInv  BY <1>2, <1>4, <1>5, <1>6 DEF TypeInv
  <1>8. ListsInv  BY <1>2, <1>4, <1>5 DEF ListsInv
  <1>9. ChoiceInv  BY <1>6 DEF ChoiceInv
  <1>10. CpusInv  BY <1>2, <1>5 DEF CpusInv, CpuInv
  <1>11. SegmentsInOrder
    <2>2. {i \in DOMAIN sent : sent[i].end # "held" /\ ~Complete(sent[i])} = {}  BY <1>6
    <2>3. {i \in DOMAIN sent : sent[i].end \in {"consumed", "killed"}} = {}  BY <1>6
    <2> QED  BY <1>2, <1>6, <2>2, <2>3, FS_EmptySet DEF SegmentsInOrder
  <1> QED  BY <1>7, <1>8, <1>9, <1>10, <1>11 DEF UpcallInv

LEMMA NextUpcall ==
  ASSUME UpcallInv, [UpcallNext]_UpcallVars
  PROVE  UpcallInv'
PROOF
  <1>1. CASE UNCHANGED UpcallVars  BY <1>1, NothingKeeps DEF UpcallVars
  <1>2. ASSUME NEW c \in CPUs, process_packet(c) PROVE UpcallInv'  BY <1>2, ProcessPacketKeeps
  <1>3. ASSUME NEW c \in CPUs, find_upcall_portids(c) PROVE UpcallInv'  BY <1>3, FindListKeeps
  <1>4. ASSUME NEW c \in CPUs, find_upcall_portid(c) PROVE UpcallInv'  BY <1>4, ChoiceKeeps
  <1>5. ASSUME NEW c \in CPUs, upcall_fails(c) PROVE UpcallInv'  BY <1>5, FailKeeps
  <1>6. ASSUME NEW c \in CPUs, queue_userspace_packet(c) PROVE UpcallInv'  BY <1>6, QueueKeeps
  <1>7. ASSUME NEW c \in CPUs, upcall_done(c) PROVE UpcallInv'  BY <1>7, DoneKeeps
  <1>8. CASE ovs_vport_set_upcall_portids  BY <1>8, SetPortidsKeeps
  <1>9. CASE ovs_dp_detach_port  BY <1>9, DetachKeeps
  <1>10. CASE grace_period  BY <1>10, GracePeriodKeeps
  <1>11. ASSUME NEW p \in Portids, close(p) PROVE UpcallInv'
    <2>1. UNCHANGED <<lists, port, cpu, stats, sent>>  BY <1>11 DEF close
    <2> QED  BY <2>1, NothingKeeps
  <1> QED
    BY <1>1, <1>2, <1>3, <1>4, <1>5, <1>6, <1>7, <1>8, <1>9, <1>10, <1>11 DEF UpcallNext

LEMMA UpcallInvariant == UpcallSpec => []UpcallInv
PROOF
  <1>1. UpcallInit => UpcallInv  BY InitUpcall
  <1>2. UpcallInv /\ [UpcallNext]_UpcallVars => UpcallInv'  BY NextUpcall
  <1> QED  BY <1>1, <1>2, PTL DEF UpcallSpec

\* No packet reads a list of sockets that has been freed; it goes to a socket of the list it
\* read, and packets with one hash to the same (ovs_vport_find_upcall_portid(), kfree_rcu()).
THEOREM SocketsRight == UpcallSpec => []RightSocket
PROOF
  <1>1. UpcallInv => RightSocket
    <2> SUFFICES ASSUME UpcallInv PROVE RightSocket  OBVIOUS
    <2> USE DEF UpcallInv
    <2>1. ASSUME NEW c \in CPUs, cpu[c].pc = "choose" PROVE lists[cpu[c].list].st # "freed"
      BY <2>1 DEF ListsInv, Held
    <2>2. ASSUME NEW i \in DOMAIN sent, sent[i].list # 0 PROVE sent[i].portid \in Ids(sent[i].list)
      <3>1. /\ sent[i].list \in DOMAIN lists
            /\ sent[i].portid = Choice(lists[sent[i].list].ids, sent[i].hash)
        BY <2>2 DEF ChoiceInv
      <3>2. lists[sent[i].list].ids \in IdLists /\ sent[i].hash \in Hashes
        BY <3>1, Typed DEF ListType, PktType
      <3>3. PICK n \in DOMAIN lists[sent[i].list].ids : sent[i].portid = lists[sent[i].list].ids[n]
        BY <3>1, <3>2, ChoiceInList
      <3> QED  BY <3>3 DEF Ids
    <2>3. ASSUME NEW i \in DOMAIN sent, NEW j \in DOMAIN sent, sent[i].list # 0,
                 sent[i].list = sent[j].list, sent[i].hash = sent[j].hash
          PROVE  sent[i].portid = sent[j].portid
      BY <2>3 DEF ChoiceInv
    <2> QED  BY <2>1, <2>2, <2>3 DEF RightSocket
  <1>2. UpcallSpec => []UpcallInv  BY UpcallInvariant
  <1> QED  BY <1>1, <1>2, PTL

\* Of a packet its first segments are queued, in order and each once; n_lost counts the packets
\* of which one is missing, n_missed those without a flow (queue_gso_packets(), ovs_dp_upcall()).
THEOREM SegmentsRight == UpcallSpec => []SegmentsInOrder
PROOF
  <1>1. UpcallInv => SegmentsInOrder  BY DEF UpcallInv
  <1>2. UpcallSpec => []UpcallInv  BY UpcallInvariant
  <1> QED  BY <1>1, <1>2, PTL
================================================================================
