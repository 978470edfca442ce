---------------------------- MODULE FlowStatsProofs ----------------------------
(***************************************************************************)
(* What is proved of the statistics of a flow (FlowStats) for any number   *)
(* of CPUs, commands and packets: no packet is lost or counted twice       *)
(* (StatsInv), and what a get reports is right although it locks one block *)
(* at a time (ReportsRight).                                               *)
(*                                                                         *)
(* The blocks are added up by a recursive function.  That it is what its   *)
(* equation says, and how it follows a change of one block, is shown by    *)
(* induction, which Induction draws from the well-foundedness of < on the  *)
(* natural numbers.                                                        *)
(***************************************************************************)
EXTENDS FlowStats, WellFoundedInduction, TLAPS

-----------------------------------------------------------------------------
(* Sums. *)

\* A set that has 0 and the successors of its members has every number.
LEMMA Induction ==
  ASSUME NEW S, 0 \in S, \A n \in Nat : n \in S => n + 1 \in S
  PROVE  \A n \in Nat : n \in S
<1> DEFINE T == Nat \ S
           R == OpToRel(<, Nat)
<1>1. SUFFICES ASSUME T # {} PROVE FALSE
  OBVIOUS
<1>2. PICK x \in T : \A y \in T : ~(<<y, x>> \in R)
  <2>1. IsWellFoundedOn(R, Nat)
    BY NatLessThanWellFounded
  <2>2. T \subseteq Nat
    OBVIOUS
  <2> HIDE DEF T, R
  <2> QED BY <1>1, <2>1, <2>2, WFMin
<1>3. x # 0 /\ x - 1 \in Nat
  OBVIOUS
<1>4. <<x - 1, x>> \in R
  BY <1>3 DEF OpToRel
<1>5. x - 1 \in S
  BY <1>2, <1>3, <1>4
<1> QED BY <1>3, <1>5

Counts == [Cpus -> [alloc : BOOLEAN, count : Nat, lock : Procs \cup {Unlocked}]]

\* Sums is the function its equation describes: there is one, found block by block.
LEMMA SumsDefined ==
  ASSUME NEW f \in Counts
  PROVE  Sums(f) = [n \in 0 .. NR_CPUS |-> IF n = 0 THEN 0 ELSE Sums(f)[n - 1] + f[n - 1].count]
<1>0. \A c \in Cpus : f[c].count \in Nat
  BY DEF Counts
<1> USE ConstantsAssumption DEF Cpus
<1> DEFINE Good(g, m) == /\ g \in [0 .. m -> Nat] /\ g[0] = 0
                         /\ \A n \in 1 .. m : g[n] = g[n - 1] + f[n - 1].count
           S == {m \in Nat : m <= NR_CPUS => \E g : Good(g, m)}
<1>1. 0 \in S
  <2>1. Good([n \in 0 .. 0 |-> 0], 0)
    OBVIOUS
  <2> QED BY <2>1
<1>2. ASSUME NEW m \in Nat, m \in S PROVE m + 1 \in S
  <2>1. SUFFICES ASSUME m + 1 <= NR_CPUS PROVE \E g : Good(g, m + 1)
    OBVIOUS
  <2>2. PICK g : Good(g, m)
    BY <1>2, <2>1
  <2> DEFINE h == [n \in 0 .. m + 1 |-> IF n = m + 1 THEN g[m] + f[m].count ELSE g[n]]
  <2>3. f[m].count \in Nat /\ g[m] \in Nat
    BY <1>0, <2>1, <2>2
  <2>4. h \in [0 .. m + 1 -> Nat]
    BY <2>2, <2>3
  <2>5. h[0] = 0
    BY <2>2
  <2>6. ASSUME NEW n \in 1 .. m + 1 PROVE h[n] = h[n - 1] + f[n - 1].count
    BY <2>2
  <2> HIDE DEF h
  <2> QED BY <2>4, <2>5, <2>6
<1>3. NR_CPUS \in S
  <2> HIDE DEF S
  <2> QED BY <1>1, <1>2, Induction
<1> HIDE DEF Cpus
<1>4. PICK g : Good(g, NR_CPUS)
  <2> HIDE DEF Good
  <2> QED BY <1>3
<1>5. g = [n \in 0 .. NR_CPUS |-> IF n = 0 THEN 0 ELSE g[n - 1] + f[n - 1].count]
  BY <1>4
<1> QED BY <1>5 DEF Sums

\* ... and its values are numbers of packets.
LEMMA SumsType ==
  ASSUME NEW f \in Counts
  PROVE  Sums(f) \in [0 .. NR_CPUS -> Nat]
<1> USE ConstantsAssumption DEF Counts, Cpus
<1> DEFINE S == {n \in Nat : n <= NR_CPUS => Sums(f)[n] \in Nat}
<1>0. \A n \in 0 .. NR_CPUS : Sums(f)[n] = IF n = 0 THEN 0 ELSE Sums(f)[n - 1] + f[n - 1].count
  BY SumsDefined
<1>1. 0 \in S
  BY <1>0
<1>2. ASSUME NEW n \in Nat, n \in S PROVE n + 1 \in S
  BY <1>0, <1>2
<1>3. \A n \in Nat : n \in S
  <2> HIDE DEF S
  <2> QED BY <1>1, <1>2, Induction
<1>4. \A n \in 0 .. NR_CPUS : Sums(f)[n] \in Nat
  BY <1>3
<1> QED BY <1>4, SumsDefined

\* One step of the sum.
LEMMA SumsStep ==
  ASSUME NEW f \in Counts, NEW c \in Cpus
  PROVE  /\ Sums(f)[0] = 0
         /\ Sums(f)[c + 1] = Sums(f)[c] + f[c].count
BY SumsDefined, ConstantsAssumption DEF Cpus

\* Where the count of one block changes, the sums change from there on.
LEMMA SumsChange ==
  ASSUME NEW f \in Counts, NEW g \in Counts, NEW b \in Cpus,
         \A c \in Cpus \ {b} : g[c].count = f[c].count
  PROVE  \A n \in 0 .. NR_CPUS :
           Sums(g)[n] = Sums(f)[n] + (IF n > b THEN g[b].count - f[b].count ELSE 0)
<1> USE ConstantsAssumption DEF Cpus
<1> DEFINE S == {n \in Nat : n <= NR_CPUS =>
                   Sums(g)[n] = Sums(f)[n] + (IF n > b THEN g[b].count - f[b].count ELSE 0)}
<1>0. /\ \A c \in Cpus : f[c].count \in Nat /\ g[c].count \in Nat
      /\ \A n \in 0 .. NR_CPUS : Sums(f)[n] \in Nat /\ Sums(g)[n] \in Nat
  BY SumsType DEF Counts
<1>1. 0 \in S
  BY SumsStep, <1>0
<1>2. ASSUME NEW n \in Nat, n \in S PROVE n + 1 \in S
  <2>1. SUFFICES ASSUME n + 1 <= NR_CPUS
                 PROVE  Sums(g)[n + 1] =
                          Sums(f)[n + 1] + (IF n + 1 > b THEN g[b].count - f[b].count ELSE 0)
    OBVIOUS
  <2>2. n \in Cpus
    BY <2>1
  <2>3. Sums(g)[n + 1] = Sums(g)[n] + g[n].count /\ Sums(f)[n + 1] = Sums(f)[n] + f[n].count
    BY <2>2, SumsStep
  <2>4. Sums(g)[n] = Sums(f)[n] + (IF n > b THEN g[b].count - f[b].count ELSE 0)
    BY <1>2, <2>1
  <2>5. CASE n = b
    BY <1>0, <2>2, <2>3, <2>4, <2>5
  <2>6. CASE n # b
    <3>1. g[n].count = f[n].count
      BY <2>2, <2>6
    <3> QED BY <1>0, <2>2, <2>3, <2>4, <2>6, <3>1
  <2> QED BY <2>5, <2>6
<1>3. \A n \in Nat : n \in S
  <2> HIDE DEF S
  <2> QED BY <1>1, <1>2, Induction
<1> QED BY <1>3

-----------------------------------------------------------------------------
(* The inductive invariant. *)

\* The packets in the blocks from n on.
Rest(n) == Total - Sums(stats)[n]

Running(p, op) == proc[p].pc # "idle" /\ proc[p].op = op

\* A block that is not there yet holds nothing, and no packet waits for its lock;
\* a command holds a lock within its loop.
Blocks == /\ \A c \in Cpus : ~stats[c].alloc => stats[c].count = 0
          /\ \A c \in Cpus : softirq[c] # Idle => stats[softirq[c]].alloc
          /\ \A p \in Procs : proc[p].pc = "locked" => proc[p].at < NR_CPUS

\* ovs_mutex: one clear at a time; every get it overlaps with is disturbed.
OneClear == \A q \in Procs : Running(q, "clear") =>
              /\ \A p \in Procs : Running(p, "clear") => p = q
              /\ \A p \in Procs : Running(p, "get") => proc[p].disturbed

\* Half way through the blocks, what a get has added up and what is still ahead of
\* it are within the bounds of ReportsRight.
GetsRight == \A p \in Procs : Running(p, "get") =>
               /\ proc[p].sum + Rest(proc[p].at) <= proc[p].before + (done - proc[p].done)
               /\ ~proc[p].disturbed => proc[p].sum + Rest(proc[p].at) >= proc[p].before
               /\ proc[p].sum + Rest(proc[p].at) <= done - proc[p].since

\* Half way through the blocks, those behind a clear hold only what was counted
\* since it began; and once it has ended all do.
ClearsRight == \A p \in Procs :
                 /\ Total <= done - proc[p].since
                 /\ Running(p, "clear") => Sums(stats)[proc[p].at] <= done - proc[p].done

IInv == StatsInv /\ Blocks /\ OneClear /\ GetsRight /\ ClearsRight

-----------------------------------------------------------------------------
(* The proof. *)

LEMMA InitIInv == Init => IInv
<1> SUFFICES ASSUME Init PROVE IInv
  OBVIOUS
<1> USE ConstantsAssumption
<1>1. TypeOK
  <2>1. stats \in [Cpus -> [alloc : BOOLEAN, count : Nat, lock : Procs \cup {Unlocked}]]
    <3>1. \A c \in Cpus : [NoBlock EXCEPT !.alloc = (c = 0)]
            \in [alloc : BOOLEAN, count : Nat, lock : Procs \cup {Unlocked}]
      BY DEF NoBlock
    <3> QED BY <3>1 DEF Init
  <2>2. stats[0].alloc
    <3>1. 0 \in Cpus
      BY DEF Cpus
    <3>2. stats[0] = [NoBlock EXCEPT !.alloc = (0 = 0)]
      BY <3>1 DEF Init
    <3> QED BY <3>2 DEF NoBlock
  <2>3. IdleProc \in [pc : {"idle", "next", "locked"}, op : {"get", "clear"},
                      at : 0 .. NR_CPUS, cpu : Cpus, sum : Nat, before : Nat,
                      done : Nat, disturbed : BOOLEAN, since : Nat]
    BY DEF IdleProc, Cpus
  <2> QED BY <2>1, <2>2, <2>3 DEF Init, TypeOK
<1>2. stats \in Counts /\ \A c \in Cpus : stats[c].count = 0
  BY <1>1 DEF Init, NoBlock, TypeOK, Counts
<1>3. Total = 0
  <2> DEFINE S == {n \in Nat : n <= NR_CPUS => Sums(stats)[n] = 0}
  <2>1. 0 \in S
    BY <1>2, SumsStep DEF Cpus
  <2>2. ASSUME NEW n \in Nat, n \in S PROVE n + 1 \in S
    BY <1>2, <2>2, SumsStep DEF Cpus
  <2>3. NR_CPUS \in S
    <3> HIDE DEF S
    <3> QED BY <2>1, <2>2, Induction
  <2> QED BY <2>3 DEF Total
<1>4. EveryPacketCounted /\ ClearsRight
  BY <1>3 DEF Init, EveryPacketCounted, ClearsRight, IdleProc, Running
<1>5. Blocks /\ OneClear /\ GetsRight
  BY DEF Init, Blocks, OneClear, GetsRight, IdleProc, Running, NoBlock
<1> QED BY <1>1, <1>4, <1>5 DEF IInv, StatsInv

\* What a step does to the sums when it changes the count of one block by d.
LEMMA Shift ==
  ASSUME TypeOK, TypeOK', NEW b \in Cpus, NEW d \in Int,
         \A c \in Cpus : stats'[c].count = stats[c].count + (IF c = b THEN d ELSE 0)
  PROVE  \A n \in 0 .. NR_CPUS :
           /\ Sums(stats)[n] \in Nat /\ Sums(stats')[n] \in Nat
           /\ Sums(stats')[n] = Sums(stats)[n] + (IF n > b THEN d ELSE 0)
<1>1. stats \in Counts /\ stats' \in Counts
  BY DEF TypeOK, Counts
<1>2. \A c \in Cpus \ {b} : stats'[c].count = stats[c].count
  BY <1>1 DEF Counts
<1>3. stats'[b].count - stats[b].count = d
  BY <1>1 DEF Counts
<1>4. \A n \in 0 .. NR_CPUS : Sums(stats')[n] = Sums(stats)[n] + (IF n > b THEN d ELSE 0)
  BY <1>1, <1>2, <1>3, SumsChange
<1>5. \A n \in 0 .. NR_CPUS : Sums(stats)[n] \in Nat /\ Sums(stats')[n] \in Nat
  BY <1>1, SumsType
<1> QED BY <1>4, <1>5

\* ... and when it changes none.
LEMMA NoShift ==
  ASSUME TypeOK, TypeOK', \A c \in Cpus : stats'[c].count = stats[c].count
  PROVE  \A n \in 0 .. NR_CPUS : Sums(stats)[n] \in Nat /\ Sums(stats')[n] = Sums(stats)[n]
<1>1. 0 \in Cpus
  BY ConstantsAssumption DEF Cpus
<1>2. \A c \in Cpus : stats[c].count \in Nat
  BY DEF TypeOK
<1>3. \A c \in Cpus : stats'[c].count = stats[c].count + (IF c = 0 THEN 0 ELSE 0)
  BY <1>2
<1>4. \A n \in 0 .. NR_CPUS :
        Sums(stats)[n] \in Nat /\ Sums(stats')[n] = Sums(stats)[n] + (IF n > 0 THEN 0 ELSE 0)
  BY <1>1, <1>3, Shift
<1> QED BY <1>4

LEMMA PacketIInv ==
  ASSUME IInv, NEW c \in Cpus, ovs_flow_stats_update(c) \/ update_locked(c)
  PROVE  IInv'
<1> USE ConstantsAssumption
<1>1. CASE ovs_flow_stats_update(c)
  <2>1. TypeOK'
    BY <1>1 DEF ovs_flow_stats_update, IInv, StatsInv, TypeOK, Cpus
  <2>2. UNCHANGED <<stats, proc, done, dropped>>
    BY <1>1 DEF ovs_flow_stats_update
  <2>3. Blocks'
    BY <1>1 DEF ovs_flow_stats_update, IInv, StatsInv, TypeOK, Blocks, Idle
  <2> QED BY <2>1, <2>2, <2>3 DEF IInv, StatsInv, EveryPacketCounted, OneClear, GetsRight,
                            ClearsRight, Running, Rest, Total
<1>2. CASE update_locked(c)
  <2> DEFINE b == softirq[c]
  <2>0. TypeOK /\ b \in Cpus /\ Blocks
    BY <1>2 DEF update_locked, IInv, StatsInv, TypeOK
  <2>1. /\ TypeOK' /\ Blocks'
        /\ \E a \in Cpus : \A e \in Cpus : stats'[e].count = stats[e].count + (IF e = a THEN 1 ELSE 0)
    <3>1. CASE WantsBlock(c) /\ stats' = NewBlock(c, b) /\ UNCHANGED last_writer
      <4>1. stats[c].count = 0 /\ c # 0
        BY <2>0, <3>1 DEF WantsBlock, Blocks, TypeOK
      <4>2. stats' = [stats EXCEPT ![c] = [alloc |-> TRUE, count |-> 1, lock |-> Unlocked]]
        BY <3>1 DEF NewBlock
      <4>3. TypeOK' /\ Blocks'
        <5>1. TypeOK'
          BY <1>2, <2>0, <3>1, <4>1, <4>2 DEF update_locked, TypeOK, Idle
        <5>2. Blocks'
          BY <1>2, <2>0, <3>1, <4>1, <4>2 DEF update_locked, TypeOK, Blocks, Idle
        <5> QED BY <5>1, <5>2
      <4>4. \A e \in Cpus : stats'[e].count = stats[e].count + (IF e = c THEN 1 ELSE 0)
        BY <2>0, <4>1, <4>2 DEF TypeOK
      <4> QED BY <4>3, <4>4
    <3>2. CASE stats' = [stats EXCEPT ![b].count = @ + 1]
               /\ last_writer' = IF b = 0 THEN c ELSE last_writer
      <4>1. stats[b].alloc
        BY <1>2, <2>0 DEF update_locked, Blocks
      <4>2. stats'[b].alloc = stats[b].alloc /\ stats'[b].lock = stats[b].lock
            /\ stats'[b].count = stats[b].count + 1
            /\ \A e \in Cpus \ {b} : stats'[e] = stats[e]
        BY <2>0, <3>2 DEF TypeOK
      <4>3. TypeOK' /\ Blocks'
        <5>1. TypeOK'
          BY <1>2, <2>0, <3>2 DEF update_locked, TypeOK, Idle
        <5>2. Blocks'
          BY ZenonT(60), <1>2, <2>0, <4>1, <4>2, <5>1 DEF update_locked, TypeOK, Blocks, Idle
        <5> QED BY <5>1, <5>2
      <4>4. \A e \in Cpus : stats'[e].count = stats[e].count + (IF e = b THEN 1 ELSE 0)
        BY <2>0, <3>2 DEF TypeOK
      <4> QED BY <2>0, <4>3, <4>4
    <3> QED BY <1>2, <3>1, <3>2 DEF update_locked
  <2>2. UNCHANGED <<proc, dropped>> /\ done' = done + 1
    BY <1>2 DEF update_locked
  <2>3. PICK a \in Cpus : \A n \in 0 .. NR_CPUS :
           /\ Sums(stats)[n] \in Nat /\ Sums(stats')[n] \in Nat
           /\ Sums(stats')[n] = Sums(stats)[n] + (IF n > a THEN 1 ELSE 0)
    <3>1. PICK a \in Cpus : \A e \in Cpus : stats'[e].count = stats[e].count + (IF e = a THEN 1 ELSE 0)
      BY <2>1
    <3> QED BY <2>0, <2>1, <3>1, Shift
  <2>4. Total' = Total + 1 /\ Total \in Nat
    BY <2>3 DEF Total, Cpus
  <2>5. \A n \in 0 .. NR_CPUS : Rest(n)' \in {Rest(n), Rest(n) + 1} /\ Rest(n) \in Int
    BY <2>3, <2>4 DEF Rest
  <2>6. \A p \in Procs : /\ proc[p].at \in 0 .. NR_CPUS /\ proc[p].sum \in Nat /\ proc[p].before \in Nat
                         /\ proc[p].done \in Nat /\ proc[p].since \in Nat
    BY <2>0 DEF TypeOK
  <2>7. done \in Nat /\ dropped \in Nat
    BY <2>0 DEF TypeOK
  <2>8. EveryPacketCounted'
    BY <2>2, <2>4, <2>7 DEF IInv, StatsInv, EveryPacketCounted
  <2>9. OneClear'
    BY <2>2 DEF IInv, OneClear, Running
  <2>10. ClearsRight'
    BY <2>2, <2>3, <2>4, <2>6, <2>7 DEF IInv, ClearsRight, Running
  <2>11. GetsRight'
    <3> SUFFICES ASSUME NEW p \in Procs, Running(p, "get")'
                 PROVE /\ proc[p].sum + Rest(proc[p].at)' <= proc[p].before + (done' - proc[p].done)
                       /\ ~proc[p].disturbed => proc[p].sum + Rest(proc[p].at)' >= proc[p].before
                       /\ proc[p].sum + Rest(proc[p].at)' <= done' - proc[p].since
      BY <2>2 DEF GetsRight, Rest
    <3>1. Running(p, "get")
      BY <2>2 DEF Running
    <3> QED BY <2>2, <2>5, <2>6, <2>7, <3>1 DEF IInv, GetsRight
  <2> QED BY <2>1, <2>8, <2>9, <2>10, <2>11 DEF IInv, StatsInv
<1> QED BY <1>1, <1>2

\* The records of commands that have just begun, or that a clear disturbs.
ProcRecord == [pc : {"idle", "next", "locked"}, op : {"get", "clear"}, at : 0 .. NR_CPUS,
               cpu : Cpus, sum : Nat, before : Nat, done : Nat, disturbed : BOOLEAN, since : Nat]

LEMMA RecordType ==
  ASSUME NEW x \in ProcRecord, NEW c \in Cpus, NEW i \in Nat, NEW j \in Nat, NEW k \in Nat,
         NEW d \in BOOLEAN
  PROVE  /\ [IdleProc EXCEPT !.pc = "next", !.cpu = c, !.before = i, !.done = j, !.since = k,
                             !.disturbed = d] \in ProcRecord
         /\ [IdleProc EXCEPT !.pc = "next", !.op = "clear", !.cpu = c, !.done = j, !.since = k]
              \in ProcRecord
         /\ [IdleProc EXCEPT !.since = k] \in ProcRecord
         /\ [x EXCEPT !.disturbed = TRUE] \in ProcRecord
         /\ [x EXCEPT !.since = k] \in ProcRecord
<1>0. IdleProc \in ProcRecord
  BY ConstantsAssumption DEF IdleProc, ProcRecord, Cpus
<1>1. [IdleProc EXCEPT !.pc = "next", !.cpu = c, !.before = i, !.done = j, !.since = k,
                       !.disturbed = d] \in ProcRecord
  BY <1>0 DEF ProcRecord
<1>2. [IdleProc EXCEPT !.pc = "next", !.op = "clear", !.cpu = c, !.done = j, !.since = k]
        \in ProcRecord
  BY <1>0 DEF ProcRecord
<1>3. [IdleProc EXCEPT !.since = k] \in ProcRecord
  BY <1>0 DEF ProcRecord
<1>4. [x EXCEPT !.disturbed = TRUE] \in ProcRecord
  BY DEF ProcRecord
<1>5. [x EXCEPT !.since = k] \in ProcRecord
  BY DEF ProcRecord
<1> QED BY <1>1, <1>2, <1>3, <1>4, <1>5

LEMMA GetIInv ==
  ASSUME IInv, NEW p \in Procs, NEW c \in Cpus, ovs_flow_stats_get(p, c)
  PROVE  IInv'
<1> USE ConstantsAssumption
<1>0. TypeOK /\ UNCHANGED <<stats, last_writer, softirq, done, dropped>>
  BY DEF IInv, StatsInv, ovs_flow_stats_get
<1>1. \A n \in 0 .. NR_CPUS : Sums(stats)[n] \in Nat
  BY <1>0, SumsType DEF TypeOK, Counts
<1>2. Total \in Nat /\ Rest(0) = Total
  <2>1. Sums(stats)[0] = 0
    BY <1>0, SumsStep DEF TypeOK, Counts, Cpus
  <2> QED BY <1>1, <2>1 DEF Total, Rest
<1>3. /\ proc'[p].pc = "next" /\ proc'[p].op = "get" /\ proc'[p].at = 0 /\ proc'[p].sum = 0
      /\ proc'[p].before = Total /\ proc'[p].done = done /\ proc'[p].since = proc[p].since
      /\ proc'[p].disturbed = \E q \in Procs : Running(q, "clear")
      /\ \A q \in Procs \ {p} : proc'[q] = proc[q]
  BY <1>0 DEF ovs_flow_stats_get, IdleProc, TypeOK, Running
<1>4. TypeOK'
  <2> DEFINE d == \E q \in Procs : proc[q].pc # "idle" /\ proc[q].op = "clear"
             r == [IdleProc EXCEPT !.pc = "next", !.cpu = c, !.before = Total, !.done = done,
                                   !.since = proc[p].since, !.disturbed = d]
  <2>1. proc' = [proc EXCEPT ![p] = r]
    BY DEF ovs_flow_stats_get
  <2>2. d \in BOOLEAN
    OBVIOUS
  <2>3. proc \in [Procs -> ProcRecord] /\ proc[p].since \in Nat /\ done \in Nat
    BY <1>0 DEF TypeOK, ProcRecord
  <2> HIDE DEF d
  <2>4. r \in ProcRecord
    BY ZenonT(60), <1>2, <2>2, <2>3, RecordType
  <2> HIDE DEF r
  <2>5. proc' \in [Procs -> ProcRecord]
    BY <2>1, <2>3, <2>4
  <2> QED BY <1>0, <2>5 DEF TypeOK, ProcRecord
<1>5. Total' = Total /\ \A n \in 0 .. NR_CPUS : Rest(n)' = Rest(n)
  BY <1>0 DEF Total, Rest
<1>6. EveryPacketCounted' /\ Blocks'
  BY <1>0, <1>3, <1>5 DEF IInv, StatsInv, EveryPacketCounted, Blocks
<1>7. OneClear'
  <2> SUFFICES ASSUME NEW q \in Procs, Running(q, "clear")'
               PROVE  /\ \A r \in Procs : Running(r, "clear")' => r = q
                      /\ \A r \in Procs : Running(r, "get")' => proc'[r].disturbed
    BY DEF OneClear
  <2>1. q # p /\ Running(q, "clear")
    BY <1>3 DEF Running
  <2>2. \A r \in Procs \ {p} : Running(r, "clear")' = Running(r, "clear")
                              /\ Running(r, "get")' = Running(r, "get")
    BY <1>3 DEF Running
  <2>3. proc'[p].disturbed /\ ~Running(p, "clear")'
    BY <1>3, <2>1 DEF Running
  <2> QED BY <1>3, <2>1, <2>2, <2>3 DEF IInv, OneClear
<1>8. ClearsRight'
  BY <1>0, <1>3, <1>5 DEF IInv, ClearsRight, Running
<1>9. GetsRight'
  <2>1. proc[p].since \in Nat /\ done \in Nat
    BY <1>0 DEF TypeOK
  <2>2. Total <= done - proc[p].since
    BY DEF IInv, ClearsRight
  <2>3. ASSUME NEW q \in Procs \ {p}, Running(q, "get")'
        PROVE  Running(q, "get") /\ proc[q].at \in 0 .. NR_CPUS
    BY <1>0, <1>3, <2>3 DEF Running, TypeOK
  <2> QED BY <1>0, <1>2, <1>3, <1>5, <2>1, <2>2, <2>3 DEF IInv, GetsRight
<1> QED BY <1>4, <1>6, <1>7, <1>8, <1>9 DEF IInv, StatsInv

LEMMA ClearIInv ==
  ASSUME IInv, NEW p \in Procs, NEW c \in Cpus, ovs_flow_stats_clear(p, c)
  PROVE  IInv'
<1> USE ConstantsAssumption
<1>0. TypeOK /\ UNCHANGED <<stats, last_writer, softirq, done, dropped>>
  BY DEF IInv, StatsInv, ovs_flow_stats_clear
<1>1. \A n \in 0 .. NR_CPUS : Sums(stats)[n] \in Nat
  BY <1>0, SumsType DEF TypeOK, Counts
<1>2. Total \in Nat /\ Sums(stats)[0] = 0
  <2>1. Sums(stats)[0] = 0
    BY <1>0, SumsStep DEF TypeOK, Counts, Cpus
  <2> QED BY <1>1, <2>1 DEF Total
<1>3. /\ proc'[p].pc = "next" /\ proc'[p].op = "clear" /\ proc'[p].at = 0
      /\ proc'[p].done = done /\ proc'[p].since = proc[p].since
      /\ \A q \in Procs \ {p} : /\ proc'[q] = [proc[q] EXCEPT !.disturbed = TRUE]
                                /\ proc[q].pc # "idle" => proc[q].op = "get"
  BY <1>0 DEF ovs_flow_stats_clear, IdleProc, TypeOK, Running
<1>4. \A q \in Procs \ {p} :
        /\ proc'[q].pc = proc[q].pc /\ proc'[q].op = proc[q].op /\ proc'[q].at = proc[q].at
        /\ proc'[q].sum = proc[q].sum /\ proc'[q].before = proc[q].before
        /\ proc'[q].done = proc[q].done /\ proc'[q].since = proc[q].since
        /\ proc'[q].disturbed
  <2> TAKE q \in Procs \ {p}
  <2>1. proc[q] \in [pc : {"idle", "next", "locked"}, op : {"get", "clear"}, at : 0 .. NR_CPUS, cpu : Cpus,
                     sum : Nat, before : Nat, done : Nat, disturbed : BOOLEAN, since : Nat]
    BY <1>0 DEF TypeOK
  <2> QED BY <1>3, <2>1
<1>5. TypeOK'
  <2> DEFINE r == [IdleProc EXCEPT !.pc = "next", !.op = "clear", !.cpu = c, !.done = done,
                                   !.since = proc[p].since]
  <2>1. proc \in [Procs -> ProcRecord] /\ proc[p].since \in Nat /\ done \in Nat
    BY <1>0 DEF TypeOK, ProcRecord
  <2>2. r \in ProcRecord /\ \A q \in Procs : [proc[q] EXCEPT !.disturbed = TRUE] \in ProcRecord
    BY <2>1, RecordType
  <2>3. proc' = [q \in Procs |-> IF q = p THEN r ELSE [proc[q] EXCEPT !.disturbed = TRUE]]
    BY DEF ovs_flow_stats_clear
  <2> HIDE DEF r
  <2>4. proc' \in [Procs -> ProcRecord]
    BY <2>2, <2>3
  <2> QED BY <1>0, <2>4 DEF TypeOK, ProcRecord
<1>6. Total' = Total /\ \A n \in 0 .. NR_CPUS : Rest(n)' = Rest(n) /\ Sums(stats)[n]' = Sums(stats)[n]
  BY <1>0 DEF Total, Rest
<1>7. EveryPacketCounted' /\ Blocks'
  BY <1>0, <1>3, <1>4, <1>6 DEF IInv, StatsInv, EveryPacketCounted, Blocks
<1>8. OneClear'
  <2>1. \A q \in Procs : (Running(q, "clear")' => q = p) /\ (Running(q, "get")' => q # p)
    BY <1>3, <1>4 DEF Running
  <2>2. \A q \in Procs : Running(q, "get")' => proc'[q].disturbed
    BY <1>4, <2>1
  <2> QED BY <2>1, <2>2 DEF OneClear
<1>9. \A q \in Procs : proc'[q].since = proc[q].since /\ (Running(q, "clear")' => q = p)
  BY <1>3, <1>4 DEF Running
<1>10. ClearsRight'
  <2>1. done - done = 0
    BY <1>0 DEF TypeOK
  <2> QED BY <1>0, <1>2, <1>3, <1>6, <1>9, <2>1 DEF IInv, ClearsRight
<1>11. GetsRight'
  <2> SUFFICES ASSUME NEW q \in Procs, Running(q, "get")'
               PROVE  /\ proc'[q].sum + Rest(proc'[q].at) <= proc'[q].before + (done - proc'[q].done)
                      /\ proc'[q].disturbed
                      /\ proc'[q].sum + Rest(proc'[q].at) <= done - proc'[q].since
    BY <1>0 DEF GetsRight, Rest, Total
  <2>1. q # p /\ Running(q, "get")
    BY <1>3, <1>4 DEF Running
  <2> QED BY <1>4, <2>1 DEF IInv, GetsRight
<1> QED BY <1>5, <1>7, <1>8, <1>10, <1>11 DEF IInv, StatsInv

LEMMA LockIInv ==
  ASSUME IInv, NEW p \in Procs, spin_lock_bh(p)
  PROVE  IInv'
<1> USE ConstantsAssumption
<1> DEFINE b == proc[p].at
<1>0. TypeOK /\ UNCHANGED <<last_writer, softirq, done, dropped>> /\ proc \in [Procs -> ProcRecord]
  BY DEF IInv, StatsInv, spin_lock_bh, TypeOK, ProcRecord
<1>1. b \in Cpus /\ b + 1 \in 0 .. NR_CPUS /\ proc[p].pc = "next"
  BY <1>0 DEF spin_lock_bh, ProcRecord, Cpus
<1>2. /\ \A c \in Cpus : stats'[c].count = stats[c].count /\ stats'[c].alloc = stats[c].alloc
      /\ stats' \in [Cpus -> [alloc : BOOLEAN, count : Nat, lock : Procs \cup {Unlocked}]]
      /\ \/ proc' = [proc EXCEPT ![p].pc = "locked"]
         \/ proc' = [proc EXCEPT ![p].at = b + 1] /\ stats[b].count = 0
  <2>1. CASE stats' = [stats EXCEPT ![b].lock = p] /\ proc' = [proc EXCEPT ![p].pc = "locked"]
    BY <1>0, <1>1, <2>1 DEF TypeOK
  <2>2. CASE ~stats[b].alloc /\ proc' = [proc EXCEPT ![p].at = b + 1] /\ UNCHANGED stats
    <3>1. stats[b].count = 0
      BY <1>1, <2>2 DEF IInv, Blocks
    <3> QED BY <1>0, <2>2, <3>1 DEF TypeOK
  <2> QED BY <2>1, <2>2 DEF spin_lock_bh
<1>3. /\ proc' \in [Procs -> ProcRecord]
      /\ proc'[p].pc \in {"next", "locked"} /\ proc'[p].op = proc[p].op /\ proc'[p].sum = proc[p].sum
      /\ proc'[p].before = proc[p].before /\ proc'[p].done = proc[p].done
      /\ proc'[p].since = proc[p].since /\ proc'[p].disturbed = proc[p].disturbed
      /\ \/ proc'[p].at = b
         \/ proc'[p].at = b + 1 /\ proc'[p].pc = "next" /\ stats[b].count = 0
      /\ \A q \in Procs \ {p} : proc'[q] = proc[q]
  <2>1. CASE proc' = [proc EXCEPT ![p].pc = "locked"]
    BY <1>0, <1>1, <2>1 DEF ProcRecord
  <2>2. CASE proc' = [proc EXCEPT ![p].at = b + 1] /\ stats[b].count = 0
    BY <1>0, <1>1, <2>2 DEF ProcRecord
  <2> QED BY <1>2, <2>1, <2>2
<1>4. TypeOK'
  <2>1. 0 \in Cpus
    BY DEF Cpus
  <2> QED BY <1>0, <1>2, <1>3, <2>1 DEF TypeOK, ProcRecord
<1>5. \A n \in 0 .. NR_CPUS : Sums(stats)[n] \in Nat /\ Sums(stats')[n] = Sums(stats)[n]
  BY <1>0, <1>2, <1>4, NoShift
<1>6. Sums(stats)[b + 1] = Sums(stats)[b] + stats[b].count /\ b \in 0 .. NR_CPUS
  BY <1>0, <1>1, SumsStep DEF TypeOK, Counts, ProcRecord
<1>7. stats[b].count = 0 => Sums(stats)[b + 1] = Sums(stats)[b]
  BY <1>5, <1>6
<1>8. Total' = Total /\ \A n \in 0 .. NR_CPUS : Rest(n)' = Rest(n)
  BY <1>5 DEF Total, Rest
<1>9. \A q \in Procs : /\ Sums(stats')[proc'[q].at] = Sums(stats)[proc[q].at]
                       /\ Total - Sums(stats')[proc'[q].at] = Rest(proc[q].at)
  <2> TAKE q \in Procs
  <2>1. Sums(stats')[proc'[q].at] = Sums(stats)[proc[q].at]
    <3>1. CASE q = p
      BY <1>1, <1>3, <1>5, <1>6, <1>7, <3>1
    <3>2. CASE q # p
      BY <1>0, <1>3, <1>5, <3>2 DEF ProcRecord
    <3> QED BY <3>1, <3>2
  <2> QED BY <2>1 DEF Rest
<1>10. EveryPacketCounted' /\ Blocks'
  <2>1. proc'[p].pc = "locked" => proc'[p].at < NR_CPUS
    BY <1>1, <1>3 DEF Cpus
  <2>2. EveryPacketCounted'
    BY <1>0, <1>8 DEF IInv, StatsInv, EveryPacketCounted
  <2>3. \A q \in Procs : proc'[q].pc = "locked" => proc'[q].at < NR_CPUS
    BY <1>3, <2>1 DEF IInv, Blocks
  <2>4. \A c \in Cpus : /\ ~stats'[c].alloc => stats'[c].count = 0
                        /\ softirq[c] # Idle => stats'[softirq[c]].alloc
    BY <1>0, <1>2 DEF IInv, Blocks, TypeOK, Idle
  <2> QED BY <1>0, <2>2, <2>3, <2>4 DEF Blocks
<1>11. \A q \in Procs : /\ proc'[q].op = proc[q].op /\ (proc'[q].pc = "idle" <=> proc[q].pc = "idle")
                        /\ proc'[q].sum = proc[q].sum /\ proc'[q].before = proc[q].before
                        /\ proc'[q].done = proc[q].done /\ proc'[q].since = proc[q].since
                        /\ proc'[q].disturbed = proc[q].disturbed
  BY <1>1, <1>3
<1>12. OneClear' /\ ClearsRight'
  <2>1. OneClear'
    BY <1>11 DEF IInv, OneClear, Running
  <2>2. ClearsRight'
    BY <1>0, <1>8, <1>9, <1>11 DEF IInv, ClearsRight, Running
  <2> QED BY <2>1, <2>2
<1>13. GetsRight'
  <2>1. \A q \in Procs : Rest(proc[q].at)' = Rest(proc[q].at)
    BY <1>8, <1>9 DEF Rest
  <2> QED BY <1>0, <1>11, <2>1 DEF IInv, GetsRight, Running
<1> QED BY <1>4, <1>10, <1>12, <1>13 DEF IInv, StatsInv

LEMMA UnlockIInv ==
  ASSUME IInv, NEW p \in Procs, spin_unlock_bh(p)
  PROVE  IInv'
<1> USE ConstantsAssumption
<1> DEFINE b == proc[p].at
           After(n) == Total' - Sums(stats')[n]
<1>0. TypeOK /\ UNCHANGED <<last_writer, softirq, done>> /\ proc \in [Procs -> ProcRecord]
  BY DEF IInv, StatsInv, spin_unlock_bh, TypeOK, ProcRecord
<1>1. /\ proc[p].pc = "locked" /\ b \in Cpus /\ b \in 0 .. NR_CPUS /\ b + 1 \in 0 .. NR_CPUS
      /\ stats[b].count \in Nat /\ dropped \in Nat /\ done \in Nat /\ proc[p].sum \in Nat
  BY SMTT(60), <1>0 DEF spin_unlock_bh, IInv, Blocks, TypeOK, ProcRecord, Cpus
<1>2. /\ Sums(stats)[b + 1] = Sums(stats)[b] + stats[b].count
      /\ \A n \in 0 .. NR_CPUS : Sums(stats)[n] \in Nat
  BY ZenonT(60), <1>0, <1>1, SumsStep, SumsType DEF TypeOK, Counts
<1>3. /\ proc'[p].pc = "next" /\ proc'[p].at = b + 1 /\ proc'[p].op = proc[p].op
      /\ proc'[p].before = proc[p].before /\ proc'[p].done = proc[p].done
      /\ proc'[p].since = proc[p].since /\ proc'[p].disturbed = proc[p].disturbed
      /\ \A q \in Procs \ {p} : proc'[q] = proc[q]
      /\ proc' \in [Procs -> ProcRecord]
  <2>1. CASE proc' = [proc EXCEPT ![p].pc = "next", ![p].at = b + 1, ![p].sum = Added(p)]
    <3>1. Added(p) \in Nat
      BY <1>1 DEF Added
    <3> QED BY <1>0, <1>1, <2>1, <3>1 DEF ProcRecord
  <2>2. CASE proc' = [proc EXCEPT ![p].pc = "next", ![p].at = b + 1]
    BY <1>0, <1>1, <2>2 DEF ProcRecord
  <2> QED BY <2>1, <2>2 DEF spin_unlock_bh
<1>4. OneClear'
  <2>1. \A q \in Procs : /\ proc'[q].op = proc[q].op /\ (proc'[q].pc = "idle" <=> proc[q].pc = "idle")
                         /\ proc'[q].disturbed = proc[q].disturbed
    BY <1>1, <1>3
  <2> QED BY <2>1 DEF IInv, OneClear, Running
<1>5. CASE proc[p].op = "get"
  <2>1. /\ proc'[p].sum = proc[p].sum + stats[b].count /\ stats' = [stats EXCEPT ![b].lock = Unlocked]
        /\ UNCHANGED dropped
    BY <1>0, <1>5 DEF spin_unlock_bh, Added, ProcRecord
  <2>2. /\ stats' \in [Cpus -> [alloc : BOOLEAN, count : Nat, lock : Procs \cup {Unlocked}]]
        /\ \A c \in Cpus : stats'[c].count = stats[c].count /\ stats'[c].alloc = stats[c].alloc
    BY <1>0, <1>1, <2>1 DEF TypeOK
  <2>3. TypeOK' /\ Blocks'
    <3>1. 0 \in Cpus
      BY DEF Cpus
    <3>2. TypeOK'
      BY <1>0, <1>3, <2>1, <2>2, <3>1 DEF TypeOK, ProcRecord
    <3>3. \A q \in Procs : proc'[q].pc = "locked" => proc'[q].at < NR_CPUS
      BY <1>3 DEF IInv, Blocks
    <3>4. \A c \in Cpus : /\ ~stats'[c].alloc => stats'[c].count = 0
                          /\ softirq[c] # Idle => stats'[softirq[c]].alloc
      BY <1>0, <2>2 DEF IInv, Blocks, TypeOK, Idle
    <3> QED BY <1>0, <3>2, <3>3, <3>4 DEF Blocks
  <2>4. \A n \in 0 .. NR_CPUS : Sums(stats')[n] = Sums(stats)[n]
    BY <1>0, <2>2, <2>3, NoShift
  <2>5. Total' = Total /\ \A n \in 0 .. NR_CPUS : After(n) = Rest(n)
    BY <2>4 DEF Total, Rest
  <2>6. EveryPacketCounted'
    BY <1>0, <2>1, <2>5 DEF IInv, StatsInv, EveryPacketCounted
  <2>7. ClearsRight'
    <3> SUFFICES ASSUME NEW q \in Procs
                 PROVE  /\ Total' <= done' - proc'[q].since
                        /\ Running(q, "clear")' => Sums(stats')[proc'[q].at] <= done' - proc'[q].done
      BY DEF ClearsRight
    <3>1. proc'[q].since = proc[q].since
      BY <1>3
    <3>2. ASSUME Running(q, "clear")'
          PROVE  Running(q, "clear") /\ proc'[q] = proc[q] /\ proc[q].at \in 0 .. NR_CPUS
      BY <1>0, <1>3, <1>5, <3>2 DEF Running, ProcRecord
    <3> QED BY <1>0, <2>4, <2>5, <3>1, <3>2 DEF IInv, ClearsRight
  <2>8. GetsRight'
    <3>1. Rest(b + 1) = Rest(b) - stats[b].count /\ Rest(b) \in Int
      BY <1>1, <1>2 DEF Rest, Total
    <3>2. proc'[p].sum + After(b + 1) = proc[p].sum + Rest(b)
      <4>1. After(b + 1) = Rest(b + 1)
        BY <1>1, <2>5
      <4> HIDE DEF After
      <4> QED BY <1>1, <2>1, <3>1, <4>1
    <3> SUFFICES ASSUME NEW q \in Procs, Running(q, "get")'
                 PROVE /\ proc'[q].sum + After(proc'[q].at) <= proc'[q].before + (done' - proc'[q].done)
                       /\ ~proc'[q].disturbed => proc'[q].sum + After(proc'[q].at) >= proc'[q].before
                       /\ proc'[q].sum + After(proc'[q].at) <= done' - proc'[q].since
      BY DEF GetsRight, Rest
    <3>3. CASE q = p
      <4>1. Running(p, "get")
        BY <1>1, <1>5 DEF Running
      <4>2. proc'[q].sum + After(proc'[q].at) = proc[p].sum + Rest(b)
        BY <1>3, <3>2, <3>3
      <4> QED BY <1>0, <1>3, <3>3, <4>1, <4>2 DEF IInv, GetsRight
    <3>4. CASE q # p
      <4>1. Running(q, "get") /\ proc'[q] = proc[q] /\ proc[q].at \in 0 .. NR_CPUS
        BY <1>0, <1>3, <3>4 DEF Running, ProcRecord
      <4> QED BY <1>0, <2>5, <4>1 DEF IInv, GetsRight
    <3> QED BY <3>3, <3>4
  <2> QED BY <1>4, <2>3, <2>6, <2>7, <2>8 DEF IInv, StatsInv
<1>6. CASE proc[p].op = "clear"
  <2>1. stats' = Zeroed(b) /\ dropped' = dropped + stats[b].count
    BY <1>6 DEF spin_unlock_bh
  <2>2. /\ stats' \in [Cpus -> [alloc : BOOLEAN, count : Nat, lock : Procs \cup {Unlocked}]]
        /\ \A c \in Cpus : stats'[c].count = stats[c].count + (IF c = b THEN 0 - stats[b].count ELSE 0)
        /\ \A c \in Cpus : stats'[c].alloc = stats[c].alloc
        /\ stats'[b].count = 0 /\ \A c \in Cpus \ {b} : stats'[c].count = stats[c].count
    BY SMTT(60), <1>0, <1>1, <2>1 DEF TypeOK, Zeroed
  <2>3. TypeOK' /\ Blocks'
    <3>1. 0 \in Cpus
      BY DEF Cpus
    <3>2. dropped' \in Nat
      BY <1>1, <2>1
    <3>3. TypeOK'
      BY <1>0, <1>3, <2>2, <3>1, <3>2 DEF TypeOK, ProcRecord
    <3>4. \A q \in Procs : proc'[q].pc = "locked" => proc'[q].at < NR_CPUS
      BY <1>3 DEF IInv, Blocks
    <3>5. \A c \in Cpus : /\ ~stats'[c].alloc => stats'[c].count = 0
                          /\ softirq[c] # Idle => stats'[softirq[c]].alloc
      BY <1>0, <2>2 DEF IInv, Blocks, TypeOK, Idle
    <3> QED BY <1>0, <3>3, <3>4, <3>5 DEF Blocks
  <2>4. \A n \in 0 .. NR_CPUS :
          /\ Sums(stats')[n] \in Nat
          /\ Sums(stats')[n] = Sums(stats)[n] + (IF n > b THEN 0 - stats[b].count ELSE 0)
    <3>1. 0 - stats[b].count \in Int
      BY <1>1
    <3> QED BY <1>0, <1>1, <2>2, <2>3, <3>1, Shift
  <2>5. Total' = Total - stats[b].count /\ Total \in Nat /\ NR_CPUS \in 0 .. NR_CPUS
    BY <1>1, <1>2, <2>4 DEF Total, Cpus
  <2>6. EveryPacketCounted'
    BY <1>0, <1>1, <2>1, <2>5 DEF IInv, StatsInv, EveryPacketCounted
  <2>7. \A q \in Procs : Running(q, "clear")' => q = p
    <3>1. Running(p, "clear")
      BY <1>1, <1>6 DEF Running
    <3>2. \A q \in Procs : Running(q, "clear")' => Running(q, "clear")
      BY <1>3, <3>1 DEF Running
    <3> QED BY <3>1, <3>2 DEF IInv, OneClear
  <2>8. ClearsRight'
    <3>1. Sums(stats')[b + 1] = Sums(stats)[b]
      BY <1>1, <1>2, <2>4
    <3>2. Sums(stats)[b] <= done - proc[p].done
      BY <1>1, <1>6 DEF IInv, ClearsRight, Running
    <3>3. \A q \in Procs : Total' <= done - proc'[q].since
      <4> TAKE q \in Procs
      <4>1. proc'[q].since = proc[q].since /\ proc[q].since \in Nat
        BY <1>0, <1>3 DEF ProcRecord
      <4>2. Total <= done - proc[q].since
        BY DEF IInv, ClearsRight
      <4> QED BY <1>1, <2>5, <4>1, <4>2
    <3> QED BY <1>0, <1>3, <2>7, <3>1, <3>2, <3>3 DEF ClearsRight
  <2>9. GetsRight'
    <3> SUFFICES ASSUME NEW q \in Procs, Running(q, "get")'
                 PROVE /\ proc'[q].sum + After(proc'[q].at) <= proc'[q].before + (done' - proc'[q].done)
                       /\ ~proc'[q].disturbed => proc'[q].sum + After(proc'[q].at) >= proc'[q].before
                       /\ proc'[q].sum + After(proc'[q].at) <= done' - proc'[q].since
      BY DEF GetsRight, Rest
    <3>1. q # p
      BY <1>3, <1>6 DEF Running
    <3>2. Running(q, "get") /\ proc'[q] = proc[q] /\ proc[q].at \in 0 .. NR_CPUS
      BY <1>0, <1>3, <3>1 DEF Running, ProcRecord
    <3>3. proc[q].disturbed
      BY <1>1, <1>6, <3>2 DEF IInv, OneClear, Running
    <3>4. After(proc[q].at) <= Rest(proc[q].at) /\ After(proc'[q].at) \in Int /\ Rest(proc[q].at) \in Int
      <4>1. After(proc'[q].at) = Total' - Sums(stats')[proc[q].at]
        BY <3>2
      <4>2. Rest(proc[q].at) = Total - Sums(stats)[proc[q].at]
        BY DEF Rest
      <4> QED BY <1>1, <1>2, <2>4, <2>5, <3>2, <4>1, <4>2 DEF Cpus
    <3>5. /\ proc[q].sum \in Nat /\ proc[q].before \in Nat /\ proc[q].done \in Nat
          /\ proc[q].since \in Nat
      BY <1>0 DEF ProcRecord
    <3>6. /\ proc[q].sum + Rest(proc[q].at) <= proc[q].before + (done - proc[q].done)
          /\ proc[q].sum + Rest(proc[q].at) <= done - proc[q].since
      BY <3>2 DEF IInv, GetsRight
    <3> QED BY <1>0, <1>1, <3>2, <3>3, <3>4, <3>5, <3>6
  <2> QED BY <1>4, <2>3, <2>6, <2>8, <2>9 DEF IInv, StatsInv
<1> QED BY <1>0, <1>5, <1>6 DEF ProcRecord

LEMMA ReturnIInv ==
  ASSUME IInv, NEW p \in Procs, return(p)
  PROVE  IInv'
<1> USE ConstantsAssumption
<1>0. TypeOK /\ UNCHANGED <<stats, last_writer, softirq, done, dropped>> /\ proc \in [Procs -> ProcRecord]
  BY DEF IInv, StatsInv, return, TypeOK, ProcRecord
<1>1. proc[p].pc = "next" /\ proc[p].at = NR_CPUS
  BY DEF return
<1> DEFINE clear == proc[p].op = "clear"
           mine  == IF clear THEN proc[p].done ELSE proc[p].since
           since(q) == IF q = p THEN mine
                       ELSE IF clear /\ proc[q].pc = "idle" THEN proc[p].done ELSE proc[q].since
<1>2. \A q \in Procs : since(q) \in Nat
  BY <1>0 DEF ProcRecord
<1>3. proc' = [q \in Procs |-> IF q = p THEN [IdleProc EXCEPT !.since = since(q)]
                                        ELSE [proc[q] EXCEPT !.since = since(q)]]
  <2>1. \A q \in Procs : proc[q] = [proc[q] EXCEPT !.since = proc[q].since]
    BY <1>0 DEF ProcRecord
  <2> QED BY <2>1 DEF return
<1> HIDE DEF since
<1>4. proc' \in [Procs -> ProcRecord]
  <2>1. \A q \in Procs : [IdleProc EXCEPT !.since = since(q)] \in ProcRecord
    <3>1. proc[p] \in ProcRecord /\ proc[p].cpu \in Cpus /\ 0 \in Nat /\ TRUE \in BOOLEAN
      BY <1>0 DEF ProcRecord
    <3>2. \A k \in Nat : [IdleProc EXCEPT !.since = k] \in ProcRecord
      BY <3>1, RecordType
    <3> QED BY <1>2, <3>2
  <2>2. \A q \in Procs : [proc[q] EXCEPT !.since = since(q)] \in ProcRecord
    BY <1>0, <1>2 DEF ProcRecord
  <2> QED BY <1>3, <2>1, <2>2
<1>5. /\ proc'[p].pc = "idle"
      /\ \A q \in Procs : proc'[q].since = since(q)
      /\ \A q \in Procs \ {p} : /\ proc'[q].pc = proc[q].pc /\ proc'[q].op = proc[q].op
                                /\ proc'[q].at = proc[q].at /\ proc'[q].sum = proc[q].sum
                                /\ proc'[q].before = proc[q].before /\ proc'[q].done = proc[q].done
                                /\ proc'[q].disturbed = proc[q].disturbed
  BY <1>0, <1>3 DEF IdleProc, ProcRecord
<1>6. TypeOK'
  BY <1>0, <1>4 DEF TypeOK, ProcRecord
<1>7. Total' = Total /\ \A n \in 0 .. NR_CPUS : Sums(stats')[n] = Sums(stats)[n]
  BY <1>0 DEF Total
<1>8. EveryPacketCounted' /\ Blocks'
  <2>1. EveryPacketCounted'
    BY <1>0, <1>7 DEF IInv, StatsInv, EveryPacketCounted
  <2>2. \A q \in Procs : proc'[q].pc = "locked" => proc'[q].at < NR_CPUS
    BY <1>5 DEF IInv, Blocks
  <2> QED BY <1>0, <2>1, <2>2 DEF IInv, Blocks
<1>9. \A q \in Procs : /\ Running(q, "clear")' => q # p /\ Running(q, "clear")
                       /\ Running(q, "get")' => q # p /\ Running(q, "get")
  BY <1>5 DEF Running
<1>10. OneClear'
  BY <1>5, <1>9 DEF IInv, OneClear
<1>11. ClearsRight'
  <2>1. \A q \in Procs : Total <= done - since(q)
    <3> TAKE q \in Procs
    <3>1. Total <= done - proc[q].since /\ Total <= done - proc[p].since
      BY DEF IInv, ClearsRight
    <3>2. clear => Total <= done - proc[p].done
      BY <1>1 DEF IInv, ClearsRight, Running, Total
    <3> QED BY <3>1, <3>2 DEF since
  <2>2. \A q \in Procs : Running(q, "clear")' => Sums(stats')[proc'[q].at] <= done' - proc'[q].done
    BY <1>0, <1>5, <1>9 DEF IInv, ClearsRight
  <2> QED BY <1>0, <1>5, <1>7, <2>1, <2>2 DEF ClearsRight
<1>12. GetsRight'
  <2> SUFFICES ASSUME NEW q \in Procs, Running(q, "get")'
               PROVE /\ proc'[q].sum + Rest(proc'[q].at) <= proc'[q].before + (done - proc'[q].done)
                     /\ ~proc'[q].disturbed => proc'[q].sum + Rest(proc'[q].at) >= proc'[q].before
                     /\ proc'[q].sum + Rest(proc'[q].at) <= done - proc'[q].since
    BY <1>0 DEF GetsRight, Rest, Total
  <2>1. q # p /\ Running(q, "get")
    BY <1>9
  <2>2. since(q) = proc[q].since
    BY <2>1 DEF since, Running
  <2> QED BY <1>5, <2>1, <2>2 DEF IInv, GetsRight
<1> QED BY <1>6, <1>8, <1>10, <1>11, <1>12 DEF IInv, StatsInv

\* The inductive invariant holds in every reachable state.
THEOREM StatsInductive == Spec => []IInv
<1>1. IInv /\ [Next]_vars => IInv'
  <2> SUFFICES ASSUME IInv, [Next]_vars PROVE IInv'
    OBVIOUS
  <2>1. CASE \E c \in Cpus : ovs_flow_stats_update(c) \/ update_locked(c)
    BY <2>1, PacketIInv
  <2>2. CASE \E p \in Procs, c \in Cpus : ovs_flow_stats_get(p, c) \/ ovs_flow_stats_clear(p, c)
    BY <2>2, GetIInv, ClearIInv
  <2>3. CASE \E p \in Procs : Command(p)
    BY <2>3, LockIInv, UnlockIInv, ReturnIInv DEF Command
  <2>4. CASE UNCHANGED vars
    BY <2>4 DEF vars, IInv, StatsInv, TypeOK, EveryPacketCounted, Blocks, OneClear, GetsRight,
                ClearsRight, Running, Rest, Total
  <2> QED BY <2>1, <2>2, <2>3, <2>4 DEF Next
<1> QED BY InitIInv, <1>1, PTL DEF Spec

\* No packet is lost or counted twice, whichever CPU counts it in whichever block
\* (ovs_flow_stats_update, ovs_flow_stats_clear).
THEOREM PacketsCounted == Spec => []StatsInv
<1>1. IInv => StatsInv
  BY DEF IInv
<1> QED BY <1>1, StatsInductive, PTL

\* What a get reports lies between the packets in the blocks when it began and when
\* it ends, and holds none that a clear ended before had removed (ovs_flow_stats_get).
THEOREM ReportsCorrect == Spec => []ReportsRight
<1>1. IInv => ReportsRight
  <2> SUFFICES ASSUME IInv, NEW p \in Procs,
                      proc[p].pc = "next", proc[p].op = "get", proc[p].at = NR_CPUS
               PROVE  /\ proc[p].sum <= proc[p].before + (done - proc[p].done)
                      /\ ~proc[p].disturbed => proc[p].sum >= proc[p].before
                      /\ proc[p].sum <= done - proc[p].since
    BY DEF ReportsRight
  <2>1. Total \in Nat /\ proc[p].sum \in Nat
    <3>1. stats \in Counts /\ NR_CPUS \in 0 .. NR_CPUS
      BY ConstantsAssumption DEF IInv, StatsInv, TypeOK, Counts
    <3> QED BY <3>1, SumsType DEF Total, IInv, StatsInv, TypeOK
  <2>2. proc[p].sum + Rest(NR_CPUS) = proc[p].sum
    BY <2>1 DEF Rest, Total
  <2> QED BY <2>2 DEF IInv, GetsRight, Running
<1> QED BY <1>1, StatsInductive, PTL
================================================================================
