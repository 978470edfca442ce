---------------------------- MODULE TunnelXmitProofs ----------------------------
(***************************************************************************)
(* Proofs about TunnelXmit, for any number of packets, segments and        *)
(* sockets: whatever step of whichever driver fails, a packet that is gone *)
(* has given back all it held, once, and the socket it read has not been   *)
(* released under it (XmitInv).                                            *)
(***************************************************************************)
EXTENDS TunnelXmit, TLAPS

-----------------------------------------------------------------------------
(* The drivers *)

\* The step that gets the route, and what a packet holds of the route before step i: one
\* reference after that step, which a failure gives back, but for the last step of LISP.
RouteAt == [vxlan4 |-> 3, vxlan6 |-> 4, geneve4 |-> 4, geneve6 |-> 4, lisp |-> 4, gre |-> 2, stt |-> 2]
Last == [vxlan4 |-> 5, vxlan6 |-> 6, geneve4 |-> 6, geneve6 |-> 6, lisp |-> 7, gre |-> 5, stt |-> 5]
Routes(i) == IF i > RouteAt[drv] THEN 1 ELSE 0
StepRight(i) ==
  /\ Steps[i].does \in {"route", "lookup"} <=> i = RouteAt[drv]
  /\ Steps[i].skb = 1
  /\ Steps[i].rt = Routes(i) \/ (drv = "lisp" /\ i = 7 /\ Steps[i].rt = 0)
  /\ Steps[i].does = "lookup" => drv = "vxlan6"
DriverRight ==
  /\ Len(Steps) = Last[drv]
  /\ \A i \in 1..Last[drv] : StepRight(i)
  /\ RouteAt[drv] \in 1..Last[drv] /\ Last[drv] \in Nat

LEMMA Vxlan4Right == ASSUME drv = "vxlan4" PROVE DriverRight
PROOF
  <1>1. Steps = vxlan4_xmit  BY DEF Steps, Driver
  <1>2. vxlan4_xmit = <<Look, Read, Step("route", 1, 0), Work, Work>>
    BY DEF vxlan4_xmit, rpl_vxlan_xmit, vxlan_xmit_one, vxlan_get_route, CircularRoute, vxlan_build_skb
  <1>3. RouteAt[drv] = 3 /\ Last[drv] = 5  BY DEF RouteAt, Last
  <1> QED  BY <1>1, <1>2, <1>3 DEF DriverRight, StepRight, Routes, Look, Read, Work, Step

LEMMA Vxlan6Right == ASSUME drv = "vxlan6" PROVE DriverRight
PROOF
  <1>1. Steps = vxlan6_xmit  BY DEF Steps, Driver
  <1>2. vxlan6_xmit = (<<Look, Read>> \o <<Step("reread", 1, 0), Step("lookup", 1, 0)>>) \o <<Work, Work>>
    BY DEF vxlan6_xmit, rpl_vxlan_xmit, vxlan_xmit_one, vxlan6_get_route, CircularRoute, vxlan_build_skb
  <1>3. /\ Len(Steps) = 6
        /\ Steps[1] = Look /\ Steps[2] = Read /\ Steps[3] = Step("reread", 1, 0)
        /\ Steps[4] = Step("lookup", 1, 0) /\ Steps[5] = Work /\ Steps[6] = Work
    BY <1>1, <1>2
  <1>4. RouteAt[drv] = 4 /\ Last[drv] = 6  BY DEF RouteAt, Last
  <1> QED  BY <1>3, <1>4 DEF DriverRight, StepRight, Routes, Look, Read, Work, Step

LEMMA Geneve4Right == ASSUME drv = "geneve4" PROVE DriverRight
PROOF
  <1>1. Steps = geneve_xmit_skb  BY DEF Steps, Driver
  <1>2. geneve_xmit_skb = (<<Read, Look>> \o <<Step("reread", 1, 0), Step("route", 1, 0)>>) \o <<Work, Work>>
    BY DEF geneve_xmit_skb, geneve_get_v4_rt, geneve_build_skb
  <1>3. /\ Len(Steps) = 6
        /\ Steps[1] = Read /\ Steps[2] = Look /\ Steps[3] = Step("reread", 1, 0)
        /\ Steps[4] = Step("route", 1, 0) /\ Steps[5] = Work /\ Steps[6] = Work
    BY <1>1, <1>2
  <1>4. RouteAt[drv] = 4 /\ Last[drv] = 6  BY DEF RouteAt, Last
  <1> QED  BY <1>3, <1>4 DEF DriverRight, StepRight, Routes, Look, Read, Work, Step

LEMMA Geneve6Right == ASSUME drv = "geneve6" PROVE DriverRight
PROOF
  <1>1. Steps = geneve6_xmit_skb  BY DEF Steps, Driver
  <1>2. geneve6_xmit_skb = (<<Read, Look>> \o <<Step("reread", 1, 0), Step("route", 1, 0)>>) \o <<Work, Work>>
    BY DEF geneve6_xmit_skb, geneve_get_v6_dst, geneve6_build_skb
  <1>3. /\ Len(Steps) = 6
        /\ Steps[1] = Read /\ Steps[2] = Look /\ Steps[3] = Step("reread", 1, 0)
        /\ Steps[4] = Step("route", 1, 0) /\ Steps[5] = Work /\ Steps[6] = Work
    BY <1>1, <1>2
  <1>4. RouteAt[drv] = 4 /\ Last[drv] = 6  BY DEF RouteAt, Last
  <1> QED  BY <1>3, <1>4 DEF DriverRight, StepRight, Routes, Look, Read, Work, Step

LEMMA LispRight == ASSUME drv = "lisp" PROVE DriverRight
PROOF
  <1>1. Steps = rpl_lisp_xmit  BY DEF Steps, Driver
  <1>2. rpl_lisp_xmit = <<Look, Read, Look, Step("route", 1, 0), Work, Work, Step("offload", 1, 0)>>
    BY DEF rpl_lisp_xmit, lisp_get_rt, __udp_tunnel_handle_offloads
  <1>3. RouteAt[drv] = 4 /\ Last[drv] = 7  BY DEF RouteAt, Last
  <1> QED  BY <1>1, <1>2, <1>3 DEF DriverRight, StepRight, Routes, Look, Read, Work, Step

LEMMA GreRight == ASSUME drv = "gre" PROVE DriverRight
PROOF
  <1>1. Steps = rpl_gre_fb_xmit  BY DEF Steps, Driver
  <1>2. rpl_gre_fb_xmit = <<Look, Step("route", 1, 0), Work, Work, Work>>
    BY DEF rpl_gre_fb_xmit, gre_get_rt, rpl_gre_handle_offloads
  <1>3. RouteAt[drv] = 2 /\ Last[drv] = 5  BY DEF RouteAt, Last
  <1> QED  BY <1>1, <1>2, <1>3 DEF DriverRight, StepRight, Routes, Look, Read, Work, Step

LEMMA SttRight == ASSUME drv = "stt" PROVE DriverRight
PROOF
  <1>1. Steps = ovs_stt_xmit  BY DEF Steps, Driver
  <1>2. ovs_stt_xmit = <<Look, Step("route", 1, 0), Work, Work, Work>>
    BY DEF ovs_stt_xmit, stt_get_rt, stt_can_offload, handle_offloads
  <1>3. RouteAt[drv] = 2 /\ Last[drv] = 5  BY DEF RouteAt, Last
  <1> QED  BY <1>1, <1>2, <1>3 DEF DriverRight, StepRight, Routes, Look, Read, Work, Step

\* Every driver gets one route, and after that gives it back.
LEMMA DriversRight == ASSUME drv \in DOMAIN Driver PROVE DriverRight
PROOF
  <1>1. drv \in {"vxlan4", "vxlan6", "geneve4", "geneve6", "lisp", "gre", "stt"}  BY DEF Driver
  <1> QED  BY <1>1, Vxlan4Right, Vxlan6Right, Geneve4Right, Geneve6Right, LispRight, GreRight, SttRight

-----------------------------------------------------------------------------
(* The invariant *)

PkType == [at : Nat, sock : Nat, segs : Nat, list : Nat]
HeldType == [skb : Nat, rt : Nat]
TypeInv ==
  /\ drv \in DRIVERS
  /\ dev \in [sock : Nat, made : Nat]
  /\ stop \in [sock : Nat, waits : SUBSET PACKETS]
  /\ pk \in [PACKETS -> PkType]
  /\ held \in [PACKETS -> HeldType]

\* What a packet r holds (h): itself, or the segments it was cut into and those of the list
\* push_stt_header() made of one of them; the route it has got, and another for the segments
\* to come while there is a list.
Holds(r, h) ==
  IF r = Out THEN h.skb = 0 /\ (h.rt = 0 \/ (drv = "lisp" /\ h.rt = 1))
  ELSE /\ r.at \in 1..(Last[drv] + 1)
       /\ r.segs = 0 => r.list = 0 /\ h.skb = 1 /\ h.rt = Routes(r.at)
       /\ r.segs > 0 => drv = "stt" /\ r.at = Last[drv] + 1
       /\ r.segs > 0 /\ r.list = 0 => h.skb = r.segs /\ h.rt = 1
       /\ r.segs > 0 /\ r.list > 0 => h.skb = r.segs - 1 + r.list /\ h.rt = 1 + Clones(r.segs)

\* The socket of the device is not released, nor is the one being released before those who
\* may have read it are gone.
SocketInv ==
  /\ dev.sock # 0 => dev.sock \in live
  /\ stop.sock # 0 => stop.sock \in live /\ dev.sock = 0
  /\ \A p \in PACKETS : pk[p].sock # 0 => pk[p].sock = dev.sock \/ (pk[p].sock = stop.sock /\ p \in stop.waits)

IInv == TypeInv /\ (\A p \in PACKETS : Holds(pk[p], held[p])) /\ SocketInv

\* One packet makes a step.
LEMMA OnePacket ==
  ASSUME IInv, NEW p \in PACKETS, NEW r \in PkType, NEW h \in HeldType,
         pk' = [pk EXCEPT ![p] = r], held' = [held EXCEPT ![p] = h],
         UNCHANGED <<drv, dev, live>>,
         Holds(r, h),
         \/ UNCHANGED stop /\ r.sock \in {0, pk[p].sock, dev.sock}
         \/ stop' = [stop EXCEPT !.waits = @ \ {p}] /\ r = Out
  PROVE  IInv'
PROOF
  <1>1. TypeInv  BY DEF IInv
  <1>2. pk' \in [PACKETS -> PkType] /\ pk'[p] = r /\ \A q \in PACKETS : q # p => pk'[q] = pk[q]
    BY <1>1 DEF TypeInv
  <1>3. held' \in [PACKETS -> HeldType] /\ held'[p] = h /\ \A q \in PACKETS : q # p => held'[q] = held[q]
    BY <1>1 DEF TypeInv
  <1>4. /\ stop' \in [sock : Nat, waits : SUBSET PACKETS] /\ stop'.sock = stop.sock
        /\ \A q \in PACKETS : q # p => (q \in stop'.waits <=> q \in stop.waits)
        /\ r # Out => stop' = stop
    BY <1>1 DEF TypeInv
  <1>5. TypeInv'  BY <1>1, <1>2, <1>3, <1>4 DEF TypeInv
  <1>6. ASSUME NEW q \in PACKETS PROVE Holds(pk[q], held[q])'
    <2>1. Holds(pk'[q], held'[q])
      <3>1. CASE q = p  BY <3>1, <1>2, <1>3
      <3>2. CASE q # p  BY <3>2, <1>2, <1>3 DEF IInv
      <3> QED  BY <3>1, <3>2
    <2> QED  BY <2>1 DEF Holds, Routes, Clones, Out
  <1>7. SocketInv'
    <2>1. ASSUME NEW q \in PACKETS, pk'[q].sock # 0
          PROVE  pk'[q].sock = dev.sock \/ (pk'[q].sock = stop'.sock /\ q \in stop'.waits)
      <3>1. CASE q # p  BY <3>1, <2>1, <1>2, <1>4 DEF IInv, SocketInv
      <3>2. CASE q = p
        <4>1. r.sock # 0 /\ r # Out  BY <3>2, <2>1, <1>2 DEF Out
        <4>2. UNCHANGED stop /\ r.sock \in {0, pk[p].sock, dev.sock}  BY <4>1
        <4> QED  BY <3>2, <4>1, <4>2, <1>2 DEF IInv, SocketInv
      <3> QED  BY <3>1, <3>2
    <2> QED  BY <2>1, <1>4 DEF IInv, SocketInv
  <1> QED  BY <1>5, <1>6, <1>7 DEF IInv

-----------------------------------------------------------------------------
(* The steps *)

\* What is known of a packet and of its driver's steps.
LEMMA Known ==
  ASSUME XmitAssumption, IInv, NEW p \in PACKETS
  PROVE  /\ pk[p] \in PkType /\ held[p] \in HeldType
         /\ pk[p].at \in Nat /\ pk[p].sock \in Nat /\ pk[p].segs \in Nat /\ pk[p].list \in Nat
         /\ held[p].skb \in Nat /\ held[p].rt \in Nat /\ dev.sock \in Nat
         /\ Holds(pk[p], held[p])
         /\ DriverRight
PROOF
  <1>1. pk[p] \in PkType /\ held[p] \in HeldType /\ dev.sock \in Nat  BY DEF IInv, TypeInv
  <1>2. /\ pk[p].at \in Nat /\ pk[p].sock \in Nat /\ pk[p].segs \in Nat /\ pk[p].list \in Nat
        /\ held[p].skb \in Nat /\ held[p].rt \in Nat
    BY <1>1 DEF PkType, HeldType
  <1>3. DriverRight  BY DriversRight DEF XmitAssumption, IInv, TypeInv
  <1> QED  BY <1>1, <1>2, <1>3 DEF IInv

LEMMA OutTypes == Out \in PkType /\ Out.sock = 0 /\ Out.at = 0
PROOF
  BY DEF Out, PkType

LEMMA SendKeeps ==
  ASSUME XmitAssumption, IInv, NEW p \in PACKETS, ovs_vport_send(p)
  PROVE  IInv'
PROOF
  <1>1. /\ pk[p] = Out /\ UNCHANGED <<drv, dev, live, stop>>
        /\ pk' = [pk EXCEPT ![p].at = 1] /\ held' = [held EXCEPT ![p] = [skb |-> 1, rt |-> 0]]
    BY DEF ovs_vport_send
  <1> DEFINE r == [at |-> 1, sock |-> 0, segs |-> 0, list |-> 0]
             h == [skb |-> 1, rt |-> 0]
  <1>2. pk' = [pk EXCEPT ![p] = r]
    <2>1. PICK q : q = [Out EXCEPT !.at = 1]  OBVIOUS
    <2>2. pk' = [pk EXCEPT ![p] = q]  BY <1>1, <2>1
    <2>3. q \in [at : {1}, sock : {0}, segs : {0}, list : {0}]  BY ONLY <2>1 DEF Out
    <2>4. q = r  BY ONLY <2>3
    <2> QED  BY <2>2, <2>4
  <1>3. r \in PkType /\ h \in HeldType /\ r # Out  BY DEF PkType, HeldType, Out
  <1>4. Holds(r, h)  BY <1>3, Known DEF Holds, Routes, DriverRight
  <1> HIDE DEF r, h
  <1>5. r.sock = 0  BY DEF r
  <1>6. held' = [held EXCEPT ![p] = h]  BY <1>1 DEF h
  <1> QED  BY ONLY <1>1, <1>2, <1>3, <1>4, <1>5, <1>6, IInv, OnePacket, p \in PACKETS

LEMMA ForwardKeeps ==
  ASSUME XmitAssumption, IInv, NEW p \in PACKETS, forward(p)
  PROVE  IInv'
PROOF
  <1>1. /\ At(p) /\ UNCHANGED <<drv, dev, live, stop>>
        /\ pk' = [pk EXCEPT ![p].at = @ + 1, ![p].sock = IF Now(p).does = "read" THEN dev.sock ELSE @]
        /\ held' = [held EXCEPT ![p].rt = @ + IF Now(p).does \in {"route", "lookup"} THEN 1 ELSE 0]
    BY DEF forward
  <1>2. /\ pk[p] \in PkType /\ held[p] \in HeldType /\ Holds(pk[p], held[p]) /\ DriverRight
        /\ pk[p].at \in Nat /\ pk[p].sock \in Nat /\ dev.sock \in Nat /\ held[p].rt \in Nat
    BY Known
  <1>3. pk[p].at \in 1..Last[drv] /\ StepRight(pk[p].at) /\ pk[p] # Out /\ Last[drv] \in Nat
    BY <1>1, <1>2 DEF At, DriverRight, Out
  <1>4. pk[p].segs = 0 /\ pk[p].list = 0 /\ held[p].skb = 1 /\ held[p].rt = Routes(pk[p].at)
    BY <1>2, <1>3 DEF Holds, PkType
  <1>5. PICK a \in Nat, s \in Nat, n \in Nat :
          /\ a = pk[p].at + 1
          /\ s = IF Now(p).does = "read" THEN dev.sock ELSE pk[p].sock
          /\ n = held[p].rt + IF Now(p).does \in {"route", "lookup"} THEN 1 ELSE 0
    <2>1. (IF Now(p).does = "read" THEN dev.sock ELSE pk[p].sock) \in Nat  BY <1>2
    <2>2. (IF Now(p).does \in {"route", "lookup"} THEN 1 ELSE 0) \in Nat  OBVIOUS
    <2>3. /\ pk[p].at + 1 \in Nat
          /\ held[p].rt + (IF Now(p).does \in {"route", "lookup"} THEN 1 ELSE 0) \in Nat
      BY ONLY <2>2, <1>2
    <2> QED  BY ONLY <2>1, <2>3
  <1>6. n = Routes(a)
    <2>1. Now(p).does \in {"route", "lookup"} <=> pk[p].at = RouteAt[drv]  BY <1>3 DEF Now, StepRight
    <2>2. RouteAt[drv] \in Nat  BY <1>2 DEF DriverRight
    <2> QED  BY <1>2, <1>4, <1>5, <2>1, <2>2 DEF Routes
  <1> DEFINE r == [at |-> a, sock |-> s, segs |-> 0, list |-> 0]
             h == [skb |-> 1, rt |-> n]
  <1>7. pk' = [pk EXCEPT ![p] = r]
    <2>1. PICK q : q = [pk[p] EXCEPT !.at = a, !.sock = s]  OBVIOUS
    <2>2. pk' = [pk EXCEPT ![p] = q]  BY <1>1, <1>5, <2>1
    <2>3. q \in [at : {a}, sock : {s}, segs : {0}, list : {0}]  BY <2>1, <1>2, <1>4 DEF PkType
    <2>4. q = r  BY ONLY <2>3
    <2> QED  BY <2>2, <2>4
  <1>8. held' = [held EXCEPT ![p] = h]
    <2>1. PICK q : q = [held[p] EXCEPT !.rt = n]  OBVIOUS
    <2>2. held' = [held EXCEPT ![p] = q]  BY <1>1, <1>5, <2>1
    <2>3. q \in [skb : {1}, rt : {n}]  BY <2>1, <1>2, <1>4 DEF HeldType
    <2>4. q = h  BY ONLY <2>3
    <2> QED  BY <2>2, <2>4
  <1>9. r \in PkType /\ h \in HeldType /\ a \in 1..(Last[drv] + 1) /\ r # Out
    BY <1>3, <1>5 DEF PkType, HeldType, Out
  <1>10. Holds(r, h)  BY <1>6, <1>9 DEF Holds
  <1>11. r.sock \in {0, pk[p].sock, dev.sock}  BY <1>5
  <1> HIDE DEF r, h
  <1> QED  BY ONLY <1>1, <1>7, <1>8, <1>9, <1>10, <1>11, IInv, OnePacket, p \in PACKETS

\* A packet that is gone has given everything back.
LEMMA GoneKeeps ==
  ASSUME XmitAssumption, IInv, NEW p \in PACKETS, NEW n \in Nat, UNCHANGED <<drv, dev, live>>, Leave(p),
         pk' = [pk EXCEPT ![p] = Out], held' = [held EXCEPT ![p] = [skb |-> 0, rt |-> n]],
         n = 0 \/ (drv = "lisp" /\ n = 1)
  PROVE  IInv'
PROOF
  <1> DEFINE h == [skb |-> 0, rt |-> n]
  <1>1. h \in HeldType /\ Holds(Out, h)  BY DEF HeldType, Holds
  <1>2. stop' = [stop EXCEPT !.waits = @ \ {p}]  BY DEF Leave
  <1>3. Out \in PkType /\ held' = [held EXCEPT ![p] = h]  BY OutTypes
  <1> HIDE DEF h
  <1> QED  BY <1>1, <1>2, <1>3, OnePacket

LEMMA DropKeeps ==
  ASSUME XmitAssumption, IInv, NEW p \in PACKETS, drop(p)
  PROVE  IInv'
PROOF
  <1>1. /\ At(p) /\ UNCHANGED <<drv, dev, live>> /\ Leave(p) /\ pk' = [pk EXCEPT ![p] = Out]
        /\ held' = [held EXCEPT ![p] = [skb |-> held[p].skb - Now(p).skb, rt |-> held[p].rt - Now(p).rt]]
    BY DEF drop
  <1>2. Holds(pk[p], held[p]) /\ DriverRight /\ pk[p].at \in Nat /\ pk[p] \in PkType  BY Known
  <1>3. pk[p].at \in 1..Last[drv] /\ StepRight(pk[p].at) /\ pk[p] # Out /\ Last[drv] \in Nat
    BY <1>1, <1>2 DEF At, DriverRight, Out
  <1>4. held[p].skb = 1 /\ held[p].rt = Routes(pk[p].at)
    BY <1>2, <1>3 DEF Holds, PkType
  <1>5. PICK n \in Nat : n = held[p].rt - Now(p).rt /\ (n = 0 \/ (drv = "lisp" /\ n = 1))
    BY <1>3, <1>4 DEF Now, StepRight, Routes
  <1>6. held[p].skb - Now(p).skb = 0  BY <1>3, <1>4 DEF Now, StepRight
  <1>7. held' = [held EXCEPT ![p] = [skb |-> 0, rt |-> n]]  BY <1>1, <1>5, <1>6
  <1> QED  BY <1>1, <1>5, <1>7, GoneKeeps

LEMMA XmitKeeps ==
  ASSUME XmitAssumption, IInv, NEW p \in PACKETS, xmit(p)
  PROVE  IInv'
PROOF
  <1>1. /\ AtEnd(p) /\ drv # "stt" /\ UNCHANGED <<drv, dev, live>> /\ Leave(p) /\ pk' = [pk EXCEPT ![p] = Out]
        /\ held' = [held EXCEPT ![p] = [skb |-> held[p].skb - 1, rt |-> held[p].rt - 1]]
    BY DEF xmit
  <1>2. Holds(pk[p], held[p]) /\ DriverRight /\ pk[p].segs \in Nat  BY Known
  <1>3. pk[p].at = Last[drv] + 1 /\ pk[p] # Out  BY <1>1, <1>2 DEF AtEnd, DriverRight, Out
  <1>4. pk[p].segs = 0  BY <1>1, <1>2, <1>3 DEF Holds
  <1>5. held[p].skb = 1 /\ held[p].rt = 1  BY <1>2, <1>3, <1>4 DEF Holds, Routes, DriverRight
  <1>6. held' = [held EXCEPT ![p] = [skb |-> 0, rt |-> 0]]  BY <1>1, <1>5
  <1> QED  BY <1>1, <1>6, GoneKeeps

\* What a packet of STT holds behind its last step, and that it is still on its way.
LEMMA SttPacket ==
  ASSUME XmitAssumption, IInv, NEW p \in PACKETS, pk[p].segs > 0
  PROVE  /\ drv = "stt" /\ pk[p].at = Last[drv] + 1 /\ pk[p] # Out /\ Last[drv] \in Nat
         /\ pk[p].list = 0 => held[p].skb = pk[p].segs /\ held[p].rt = 1
         /\ pk[p].list > 0 => held[p].skb = pk[p].segs - 1 + pk[p].list /\ held[p].rt = 1 + Clones(pk[p].segs)
PROOF
  <1>1. Holds(pk[p], held[p]) /\ DriverRight  BY Known
  <1>2. pk[p] # Out  BY DEF Out
  <1> QED  BY <1>1, <1>2 DEF Holds, DriverRight

\* A packet of STT that goes on, cut into s segments with l in the list.
SttPkt(p, s, l) == [at |-> pk[p].at, sock |-> pk[p].sock, segs |-> s, list |-> l]
SttHeld(s, l) == IF l = 0 THEN [skb |-> s, rt |-> 1] ELSE [skb |-> s - 1 + l, rt |-> 1 + Clones(s)]
LEMMA SttGoesOn ==
  ASSUME XmitAssumption, IInv, NEW p \in PACKETS, NEW s \in Nat \ {0}, NEW l \in Nat,
         UNCHANGED <<drv, dev, live, stop>>,
         drv = "stt", pk[p].at = Last[drv] + 1,
         pk' = [pk EXCEPT ![p] = SttPkt(p, s, l)], held' = [held EXCEPT ![p] = SttHeld(s, l)]
  PROVE  IInv'
PROOF
  <1> DEFINE r == SttPkt(p, s, l)
             h == SttHeld(s, l)
  <1>1. DriverRight /\ pk[p].at \in Nat /\ pk[p].sock \in Nat  BY Known
  <1>2. r \in PkType /\ r # Out  BY <1>1 DEF PkType, Out, SttPkt
  <1>3. h \in HeldType
    <2>1. Clones(s) \in Nat /\ s - 1 \in Nat  BY DEF Clones
    <2>2. s - 1 + l \in Nat /\ 1 + Clones(s) \in Nat  BY <2>1
    <2> QED  BY <2>2 DEF HeldType, SttHeld
  <1>4. Holds(r, h)
    <2>1. r.at = pk[p].at /\ r.segs = s /\ r.list = l /\ r.sock = pk[p].sock  BY DEF SttPkt
    <2>2. l = 0 => h.skb = s /\ h.rt = 1  BY DEF SttHeld
    <2>3. l > 0 => h.skb = s - 1 + l /\ h.rt = 1 + Clones(s)  BY DEF SttHeld
    <2>4. pk[p].at \in 1..(Last[drv] + 1)  BY <1>1 DEF DriverRight
    <2> HIDE DEF r, h
    <2> QED  BY <1>2, <2>1, <2>2, <2>3, <2>4 DEF Holds
  <1>5. r.sock \in {0, pk[p].sock, dev.sock}  BY DEF SttPkt
  <1>6. pk' = [pk EXCEPT ![p] = r] /\ held' = [held EXCEPT ![p] = h]  OBVIOUS
  <1> HIDE DEF r, h
  <1> QED  BY <1>2, <1>3, <1>4, <1>5, <1>6, OnePacket

LEMMA CutKeeps ==
  ASSUME XmitAssumption, IInv, NEW p \in PACKETS, stt_segments(p)
  PROVE  IInv'
PROOF
  <1>1. AtEnd(p) /\ drv = "stt" /\ pk[p].segs = 0 /\ UNCHANGED <<drv, dev, live, stop>>  BY DEF stt_segments
  <1>2. PICK n \in 1..MAX_SEGS : pk' = [pk EXCEPT ![p].segs = n] /\ held' = [held EXCEPT ![p].skb = n]
    BY DEF stt_segments
  <1>3. /\ Holds(pk[p], held[p]) /\ DriverRight /\ pk[p] \in PkType /\ held[p] \in HeldType
    BY Known
  <1>4. pk[p].at = Last[drv] + 1 /\ pk[p] # Out  BY <1>1, <1>3 DEF AtEnd, DriverRight, Out
  <1>5. pk[p].list = 0 /\ held[p].rt = 1  BY <1>1, <1>3, <1>4 DEF Holds, Routes, DriverRight
  <1> DEFINE r == SttPkt(p, n, 0)
             h == SttHeld(n, 0)
  <1>6. r = [at |-> pk[p].at, sock |-> pk[p].sock, segs |-> n, list |-> 0]  BY DEF SttPkt
  <1>7. h = [skb |-> n, rt |-> 1]  BY DEF SttHeld
  <1> HIDE DEF r, h
  <1>8. pk' = [pk EXCEPT ![p] = r]
    <2>1. PICK q : q = [pk[p] EXCEPT !.segs = n]  OBVIOUS
    <2>2. pk' = [pk EXCEPT ![p] = q]  BY <1>2, <2>1
    <2>3. q \in [at : {pk[p].at}, sock : {pk[p].sock}, segs : {n}, list : {0}]  BY <2>1, <1>3, <1>5 DEF PkType
    <2>4. q = r  BY ONLY <2>3, <1>6
    <2> QED  BY <2>2, <2>4
  <1>9. held' = [held EXCEPT ![p] = h]
    <2>1. PICK q : q = [held[p] EXCEPT !.skb = n]  OBVIOUS
    <2>2. held' = [held EXCEPT ![p] = q]  BY <1>2, <2>1
    <2>3. q \in [skb : {n}, rt : {1}]  BY <2>1, <1>3, <1>5 DEF HeldType
    <2>4. q = h  BY ONLY <2>3, <1>7
    <2> QED  BY <2>2, <2>4
  <1>10. n \in Nat \ {0}  BY DEF XmitAssumption
  <1>11. UNCHANGED <<drv, dev, live, stop>> /\ drv = "stt" /\ 0 \in Nat  BY <1>1
  <1> QED  BY <1>4, <1>8, <1>9, <1>10, <1>11, SttGoesOn DEF r, h

LEMMA PushKeeps ==
  ASSUME XmitAssumption, IInv, NEW p \in PACKETS, push_stt_header(p)
  PROVE  IInv'
PROOF
  <1> DEFINE last == pk[p].segs = 1
             rt == held[p].rt + Clones(pk[p].segs)
  <1>1. pk[p].segs > 0 /\ pk[p].list = 0 /\ UNCHANGED <<drv, dev, live>>  BY DEF push_stt_header
  <1>2. \/ /\ held' = [held EXCEPT ![p] = [skb |-> @.skb - 1, rt |-> rt - 1]]
           /\ pk' = [pk EXCEPT ![p] = IF last THEN Out ELSE [pk[p] EXCEPT !.segs = @ - 1]]
           /\ IF last THEN Leave(p) ELSE UNCHANGED stop
        \/ /\ \E n \in 1..MAX_SEGS :
                /\ held' = [held EXCEPT ![p] = [skb |-> @.skb - 1 + n, rt |-> rt]]
                /\ pk' = [pk EXCEPT ![p].list = n]
           /\ UNCHANGED stop
    BY DEF push_stt_header
  <1>3. /\ drv = "stt" /\ pk[p].at = Last[drv] + 1 /\ held[p].skb = pk[p].segs /\ held[p].rt = 1
        /\ pk[p] \in PkType /\ pk[p].segs \in Nat
    BY <1>1, SttPacket, Known
  <1>4. CASE /\ held' = [held EXCEPT ![p] = [skb |-> @.skb - 1, rt |-> rt - 1]]
             /\ pk' = [pk EXCEPT ![p] = IF last THEN Out ELSE [pk[p] EXCEPT !.segs = @ - 1]]
             /\ IF last THEN Leave(p) ELSE UNCHANGED stop
    <2>1. CASE last
      <3>1. held[p].skb - 1 = 0 /\ rt - 1 = 0  BY <2>1, <1>3 DEF Clones
      <3>2. held' = [held EXCEPT ![p] = [skb |-> 0, rt |-> 0]]  BY <1>4, <3>1
      <3>3. pk' = [pk EXCEPT ![p] = Out] /\ Leave(p)  BY <1>4, <2>1
      <3>4. UNCHANGED <<drv, dev, live>>  BY <1>1
      <3>5. 0 \in Nat /\ (0 = 0 \/ (drv = "lisp" /\ 0 = 1))  OBVIOUS
      <3> HIDE DEF last, rt
      <3> QED  BY ONLY <3>2, <3>3, <3>4, <3>5, GoneKeeps, XmitAssumption, IInv, p \in PACKETS
    <2>2. CASE ~last
      <3>1. PICK s \in Nat \ {0} : s = pk[p].segs - 1  BY <2>2, <1>1, <1>3
      <3> DEFINE r == SttPkt(p, s, 0)
                 h == SttHeld(s, 0)
      <3>2. r = [at |-> pk[p].at, sock |-> pk[p].sock, segs |-> s, list |-> 0]  BY DEF SttPkt
      <3>3. h = [skb |-> s, rt |-> 1]  BY DEF SttHeld
      <3> HIDE DEF r, h
      <3>4. held[p].skb - 1 = s /\ rt - 1 = 1  BY <2>2, <1>1, <1>3, <3>1 DEF Clones
      <3>5. held' = [held EXCEPT ![p] = h]  BY <1>4, <3>3, <3>4
      <3>6. pk' = [pk EXCEPT ![p] = r]
        <4>1. PICK q : q = [pk[p] EXCEPT !.segs = @ - 1]  OBVIOUS
        <4>2. pk' = [pk EXCEPT ![p] = q]  BY <1>4, <2>2, <4>1
        <4>3. q \in [at : {pk[p].at}, sock : {pk[p].sock}, segs : {s}, list : {0}]  BY <4>1, <3>1, <1>1, <1>3 DEF PkType
        <4>4. q = r  BY ONLY <4>3, <3>2
        <4> QED  BY <4>2, <4>4
      <3>7. UNCHANGED <<drv, dev, live, stop>>  BY <1>1, <1>4, <2>2
      <3>8. 0 \in Nat /\ drv = "stt" /\ pk[p].at = Last[drv] + 1  BY <1>3
      <3> QED  BY <3>5, <3>6, <3>7, <3>8, SttGoesOn DEF r, h
    <2> QED  BY <2>1, <2>2
  <1>5. ASSUME NEW n \in 1..MAX_SEGS, held' = [held EXCEPT ![p] = [skb |-> @.skb - 1 + n, rt |-> rt]],
               pk' = [pk EXCEPT ![p].list = n], UNCHANGED stop
        PROVE  IInv'
    <2>1. n \in Nat \ {0} /\ pk[p].segs \in Nat \ {0}  BY <1>1, <1>3 DEF XmitAssumption
    <2> DEFINE r == SttPkt(p, pk[p].segs, n)
               h == SttHeld(pk[p].segs, n)
    <2>2. r = [at |-> pk[p].at, sock |-> pk[p].sock, segs |-> pk[p].segs, list |-> n]  BY DEF SttPkt
    <2>3. h = [skb |-> pk[p].segs - 1 + n, rt |-> 1 + Clones(pk[p].segs)]  BY <2>1 DEF SttHeld
    <2> HIDE DEF r, h
    <2>4. held' = [held EXCEPT ![p] = h]  BY <1>5, <1>3, <2>3
    <2>5. pk' = [pk EXCEPT ![p] = r]
      <3>1. PICK q : q = [pk[p] EXCEPT !.list = n]  OBVIOUS
      <3>2. pk' = [pk EXCEPT ![p] = q]  BY <1>5, <3>1
      <3>3. q \in [at : {pk[p].at}, sock : {pk[p].sock}, segs : {pk[p].segs}, list : {n}]  BY <3>1, <1>3 DEF PkType
      <3>4. q = r  BY ONLY <3>3, <2>2
      <3> QED  BY <3>2, <3>4
    <2>6. UNCHANGED <<drv, dev, live, stop>>  BY <1>1, <1>5
    <2>7. drv = "stt" /\ pk[p].at = Last[drv] + 1 /\ n \in Nat /\ n > 0  BY <1>3, <2>1
    <2> QED  BY <2>1, <2>4, <2>5, <2>6, <2>7, SttGoesOn DEF r, h
  <1> QED  BY <1>2, <1>4, <1>5

LEMMA ListXmitKeeps ==
  ASSUME XmitAssumption, IInv, NEW p \in PACKETS, skb_list_xmit(p)
  PROVE  IInv'
PROOF
  <1> DEFINE n == pk[p].list
             last == n = 1 /\ pk[p].segs = 1
  <1>1. /\ n > 0 /\ UNCHANGED <<drv, dev, live>>
        /\ held' = [held EXCEPT ![p] = [skb |-> @.skb - 1, rt |-> @.rt + Clones(n) - 1]]
        /\ pk' = [pk EXCEPT ![p] = IF last THEN Out
                                   ELSE [pk[p] EXCEPT !.list = n - 1, !.segs = IF n = 1 THEN @ - 1 ELSE @]]
        /\ IF last THEN Leave(p) ELSE UNCHANGED stop
    BY DEF skb_list_xmit
  <1>2. pk[p] \in PkType /\ pk[p].segs \in Nat /\ n \in Nat /\ Holds(pk[p], held[p])  BY Known
  <1>3. pk[p].segs > 0
    <2>1. pk[p] # Out  BY <1>1 DEF Out
    <2> QED  BY <1>1, <1>2, <2>1 DEF Holds
  <1>4. /\ drv = "stt" /\ pk[p].at = Last[drv] + 1
        /\ held[p].skb = pk[p].segs - 1 + n /\ held[p].rt = 1 + Clones(pk[p].segs)
    BY <1>1, <1>3, SttPacket
  <1>5. CASE last
    <2>1. held[p].skb - 1 = 0 /\ held[p].rt + Clones(n) - 1 = 0  BY <1>4, <1>5 DEF Clones
    <2>2. held' = [held EXCEPT ![p] = [skb |-> 0, rt |-> 0]]  BY <1>1, <2>1
    <2>3. pk' = [pk EXCEPT ![p] = Out] /\ Leave(p)  BY <1>1, <1>5
    <2> QED  BY <1>1, <2>2, <2>3, GoneKeeps
  <1>6. CASE ~last
    <2>1. PICK s \in Nat \ {0}, l \in Nat : s = (IF n = 1 THEN pk[p].segs - 1 ELSE pk[p].segs) /\ l = n - 1
      BY <1>1, <1>2, <1>3, <1>6
    <2> DEFINE r == SttPkt(p, s, l)
               h == SttHeld(s, l)
    <2>2. r = [at |-> pk[p].at, sock |-> pk[p].sock, segs |-> s, list |-> l]  BY DEF SttPkt
    <2>3. held[p].skb - 1 = h.skb /\ held[p].rt + Clones(n) - 1 = h.rt
      <3>1. CASE n = 1
        <4>1. l = 0 /\ s = pk[p].segs - 1  BY <2>1, <3>1
        <4> QED  BY <4>1, <1>2, <1>3, <1>4, <1>6, <3>1 DEF Clones, SttHeld
      <3>2. CASE n # 1
        <4>1. n > 1 /\ l = n - 1 /\ l > 0 /\ s = pk[p].segs  BY <1>1, <1>2, <2>1, <3>2
        <4> QED  BY <4>1, <1>2, <1>3, <1>4 DEF Clones, SttHeld
      <3> QED  BY <3>1, <3>2
    <2>4. held' = [held EXCEPT ![p] = h]
      <3>1. h = [skb |-> h.skb, rt |-> h.rt]  BY DEF SttHeld
      <3> HIDE DEF h
      <3> QED  BY <1>1, <2>3, <3>1
    <2> HIDE DEF r, h
    <2>5. pk' = [pk EXCEPT ![p] = r]
      <3>1. PICK q : q = [pk[p] EXCEPT !.list = n - 1, !.segs = IF n = 1 THEN @ - 1 ELSE @]  OBVIOUS
      <3>2. pk' = [pk EXCEPT ![p] = q]  BY <1>1, <1>6, <3>1
      <3>3. q \in [at : {pk[p].at}, sock : {pk[p].sock}, segs : {s}, list : {l}]  BY <3>1, <2>1, <1>2 DEF PkType
      <3>4. q = r  BY ONLY <3>3, <2>2
      <3> QED  BY <3>2, <3>4
    <2>6. UNCHANGED <<drv, dev, live, stop>>  BY <1>1, <1>6
    <2> QED  BY <1>4, <2>1, <2>4, <2>5, <2>6, SttGoesOn DEF r, h
  <1> QED  BY <1>5, <1>6

\* The device is stopped: those who may have read its socket are waited for.
LEMMA ReleaseKeeps ==
  ASSUME IInv, sock_release
  PROVE  IInv'
PROOF
  <1>1. /\ dev.sock # 0 /\ stop.sock = 0 /\ UNCHANGED <<drv, live, pk, held>>
        /\ dev' = [dev EXCEPT !.sock = 0]
        /\ stop' = [sock |-> dev.sock, waits |-> {p \in PACKETS : pk[p] # Out}]
    BY DEF sock_release
  <1>2. TypeInv  BY DEF IInv
  <1>3. dev' \in [sock : Nat, made : Nat] /\ dev'.sock = 0  BY <1>1, <1>2 DEF TypeInv
  <1>4. /\ stop' \in [sock : Nat, waits : SUBSET PACKETS] /\ stop'.sock = dev.sock
        /\ \A p \in PACKETS : pk[p] # Out => p \in stop'.waits
    BY <1>1, <1>2 DEF TypeInv
  <1>5. TypeInv'  BY <1>1, <1>2, <1>3, <1>4 DEF TypeInv
  <1>6. ASSUME NEW p \in PACKETS PROVE Holds(pk[p], held[p])'
    BY <1>1 DEF IInv, Holds, Routes
  <1>7. SocketInv'
    <2>1. ASSUME NEW p \in PACKETS, pk'[p].sock # 0
          PROVE  pk'[p].sock = stop'.sock /\ p \in stop'.waits
      <3>1. pk[p] # Out  BY <2>1, <1>1 DEF Out
      <3>2. pk[p].sock = dev.sock  BY <2>1, <1>1 DEF IInv, SocketInv
      <3> QED  BY <1>1, <1>4, <3>1, <3>2
    <2> QED  BY <2>1, <1>1, <1>3, <1>4 DEF IInv, SocketInv
  <1> QED  BY <1>5, <1>6, <1>7 DEF IInv

\* The socket is released when nobody is waited for.
LEMMA SockReleasedKeeps ==
  ASSUME IInv, udp_tunnel_sock_release
  PROVE  IInv'
PROOF
  <1>1. /\ stop.sock # 0 /\ stop.waits = {} /\ live' = live \ {stop.sock} /\ UNCHANGED <<drv, dev, pk, held>>
        /\ stop' = [stop EXCEPT !.sock = 0]
    BY DEF udp_tunnel_sock_release
  <1>2. TypeInv  BY DEF IInv
  <1>3. stop' \in [sock : Nat, waits : SUBSET PACKETS] /\ stop'.sock = 0  BY <1>1, <1>2 DEF TypeInv
  <1>4. TypeInv'  BY <1>1, <1>2, <1>3 DEF TypeInv
  <1>5. ASSUME NEW p \in PACKETS PROVE Holds(pk[p], held[p])'
    BY <1>1 DEF IInv, Holds, Routes
  <1>6. SocketInv'  BY <1>1, <1>3 DEF IInv, SocketInv
  <1> QED  BY <1>4, <1>5, <1>6 DEF IInv

\* The device gets another socket.
LEMMA OpenKeeps ==
  ASSUME IInv, open
  PROVE  IInv'
PROOF
  <1>1. /\ dev.sock = 0 /\ stop.sock = 0 /\ live' = live \cup {dev.made + 1} /\ UNCHANGED <<drv, stop, pk, held>>
        /\ dev' = [sock |-> dev.made + 1, made |-> dev.made + 1]
    BY DEF open
  <1>2. TypeInv  BY DEF IInv
  <1>3. dev' \in [sock : Nat, made : Nat] /\ dev'.sock = dev.made + 1
    <2>1. dev.made + 1 \in Nat  BY <1>2 DEF TypeInv
    <2> QED  BY <1>1, <2>1
  <1>4. TypeInv'  BY <1>1, <1>2, <1>3 DEF TypeInv
  <1>5. ASSUME NEW p \in PACKETS PROVE Holds(pk[p], held[p])'
    BY <1>1 DEF IInv, Holds, Routes
  <1>6. SocketInv'  BY <1>1, <1>3 DEF IInv, SocketInv
  <1> QED  BY <1>4, <1>5, <1>6 DEF IInv

-----------------------------------------------------------------------------
(* The theorem *)

LEMMA InitXmit ==
  ASSUME XmitAssumption, Init
  PROVE  IInv
PROOF
  <1>1. /\ drv \in DRIVERS /\ dev = [sock |-> 1, made |-> 1] /\ live = {1}
        /\ stop = [sock |-> 0, waits |-> {}]
        /\ pk = [p \in PACKETS |-> Out] /\ held = [p \in PACKETS |-> None]
    BY DEF Init
  <1>2. None \in HeldType /\ None.skb = 0 /\ None.rt = 0  BY DEF None, HeldType
  <1>3. TypeInv  BY <1>1, <1>2, OutTypes DEF TypeInv
  <1>4. \A p \in PACKETS : Holds(pk[p], held[p])  BY <1>1, <1>2 DEF Holds
  <1>5. SocketInv  BY <1>1, OutTypes DEF SocketInv
  <1> QED  BY <1>3, <1>4, <1>5 DEF IInv

LEMMA NextXmit ==
  ASSUME XmitAssumption, IInv, [Next]_vars
  PROVE  IInv'
PROOF
  <1>1. CASE UNCHANGED vars
    <2>1. UNCHANGED <<drv, dev, live, stop, pk, held>>  BY <1>1 DEF vars
    <2>2. TypeInv' /\ SocketInv'  BY <2>1 DEF IInv, TypeInv, SocketInv
    <2>3. ASSUME NEW p \in PACKETS PROVE Holds(pk[p], held[p])'
      BY <2>1 DEF IInv, Holds, Routes
    <2> QED  BY <2>2, <2>3 DEF IInv
  <1>2. ASSUME NEW p \in PACKETS, ovs_vport_send(p) PROVE IInv'  BY <1>2, SendKeeps
  <1>3. ASSUME NEW p \in PACKETS, forward(p) PROVE IInv'  BY <1>3, ForwardKeeps
  <1>4. ASSUME NEW p \in PACKETS, drop(p) PROVE IInv'  BY <1>4, DropKeeps
  <1>5. ASSUME NEW p \in PACKETS, xmit(p) PROVE IInv'  BY <1>5, XmitKeeps
  <1>6. ASSUME NEW p \in PACKETS, stt_segments(p) PROVE IInv'  BY <1>6, CutKeeps
  <1>7. ASSUME NEW p \in PACKETS, push_stt_header(p) PROVE IInv'  BY <1>7, PushKeeps
  <1>8. ASSUME NEW p \in PACKETS, skb_list_xmit(p) PROVE IInv'  BY <1>8, ListXmitKeeps
  <1>9. CASE sock_release  BY <1>9, ReleaseKeeps
  <1>10. CASE udp_tunnel_sock_release  BY <1>10, SockReleasedKeeps
  <1>11. CASE open  BY <1>11, OpenKeeps
  <1> QED
    BY <1>1, <1>2, <1>3, <1>4, <1>5, <1>6, <1>7, <1>8, <1>9, <1>10, <1>11 DEF Next

\* What the invariant says of packets that are gone, and of sockets.
LEMMA XmitOfInv ==
  ASSUME XmitAssumption, IInv
  PROVE  XmitInv
PROOF
  <1>1. ASSUME NEW p \in PACKETS, pk[p] = Out
        PROVE  held[p].skb = 0 /\ held[p].rt \in (IF drv = "lisp" THEN {0, 1} ELSE {0})
    BY <1>1 DEF IInv, Holds
  <1>2. ASSUME NEW p \in PACKETS, pk[p] # Out PROVE held[p].skb > 0 /\ (Routed(p) => held[p].rt > 0)
    <2>1. /\ Holds(pk[p], held[p]) /\ DriverRight /\ pk[p].segs \in Nat /\ pk[p].list \in Nat /\ pk[p].at \in Nat
      BY Known
    <2>2. pk[p].at \in 1..(Last[drv] + 1) /\ Last[drv] \in Nat /\ RouteAt[drv] \in 1..Last[drv]
      BY <1>2, <2>1 DEF Holds, DriverRight
    <2>3. CASE pk[p].segs = 0
      <3>1. held[p].skb = 1 /\ held[p].rt = Routes(pk[p].at)  BY <1>2, <2>1, <2>3 DEF Holds
      <3>2. ASSUME Routed(p) PROVE pk[p].at > RouteAt[drv]
        <4>1. PICK i \in 1..(pk[p].at - 1) : Steps[i].does \in {"route", "lookup"}  BY <3>2 DEF Routed
        <4>2. i \in 1..Last[drv]  BY <2>2
        <4>3. i = RouteAt[drv]  BY <4>1, <4>2, <2>1 DEF DriverRight, StepRight
        <4> QED  BY <4>3, <2>2
      <3> QED  BY <3>1, <3>2 DEF Routes
    <2>4. CASE pk[p].segs > 0 /\ pk[p].list = 0  BY <2>4, <2>1, SttPacket
    <2>5. CASE pk[p].segs > 0 /\ pk[p].list > 0
      <3>1. held[p].skb = pk[p].segs - 1 + pk[p].list /\ held[p].rt = 1 + Clones(pk[p].segs)
        BY <2>5, SttPacket
      <3> QED  BY <3>1, <2>1, <2>5 DEF Clones
    <2> QED  BY <2>1, <2>3, <2>4, <2>5
  <1>3. ASSUME NEW p \in PACKETS, pk[p].sock # 0 PROVE pk[p].sock \in live
    BY <1>3 DEF IInv, SocketInv
  <1>4. ASSUME NEW p \in PACKETS, At(p), Now(p).does = "lookup" PROVE LOOKUP_NET
    <2>1. DriverRight /\ drv \in DRIVERS  BY Known DEF IInv, TypeInv
    <2>2. pk[p].at \in 1..Last[drv]  BY <1>4, <2>1 DEF At, DriverRight
    <2>3. drv = "vxlan6"  BY <1>4, <2>1, <2>2 DEF Now, DriverRight, StepRight
    <2> QED  BY <2>1, <2>3 DEF XmitAssumption
  <1>5. GivenBackOnce  BY <1>1, <1>2 DEF GivenBackOnce
  <1>6. SocketUsable  BY <1>3, <1>4 DEF SocketUsable
  <1> QED  BY <1>5, <1>6 DEF XmitInv

\* Whatever fails in the transmit functions of any driver, a packet that is gone has left
\* nothing and given nothing back twice, but for the route that rpl_lisp_xmit() forgets; and
\* its socket is not released under it.
THEOREM XmitRight == ASSUME XmitAssumption PROVE Spec => []XmitInv
PROOF
  <1>1. IInv => XmitInv  BY XmitOfInv
  <1>2. Init => IInv  BY InitXmit
  <1>3. IInv /\ [Next]_vars => IInv'  BY NextXmit
  <1> QED  BY <1>1, <1>2, <1>3, PTL DEF Spec
================================================================================
