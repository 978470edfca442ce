------------------------------- MODULE FlowStats -------------------------------
(***************************************************************************)
(* The statistics of one flow (flow.c): every CPU that forwards packets    *)
(* counts them, at first in the block allocated with the flow, stats[0],   *)
(* and in a block of its own once it has seen another writer there.        *)
(* Netlink commands add the blocks up or clear them one after another.     *)
(*                                                                         *)
(* Packets are counted in softirq context, which interrupts the command    *)
(* running on that CPU and runs to its end before the command goes on.     *)
(* Each block has a spinlock.  Of the counters only packet_count is kept:  *)
(* byte_count, used and tcp_flags are written and read together with it.   *)
(***************************************************************************)
EXTENDS Integers, FiniteSets

CONSTANTS
  NR_CPUS,      \* CPUs are 0 .. NR_CPUS - 1
  Procs,        \* commands in process context: dumps, get, set
  MAX_PACKETS   \* bound: packets that are counted

Cpus == 0 .. NR_CPUS - 1

ASSUME ConstantsAssumption ==
  /\ NR_CPUS \in Nat \ {0}
  /\ MAX_PACKETS \in Nat
  /\ IsFiniteSet(Procs)

VARIABLES
  stats,        \* flow->stats[cpu]: whether it is allocated, packet_count, the
                \* command that holds its spinlock
  last_writer,  \* flow->stats_last_writer; -1 initially
  softirq,      \* each CPU's packet: none, or waiting for the lock of a block
  proc,         \* progress and locals of each command
  done,         \* history: packets counted so far
  dropped       \* history: packets whose count has been cleared

vars == <<stats, last_writer, softirq, proc, done, dropped>>

Unlocked == "none"
Idle     == -1          \* no packet on this CPU
NoBlock  == [alloc |-> FALSE, count |-> 0, lock |-> Unlocked]

\* A command: the block it is at, what it has added up, and history: the packets
\* in the blocks and counted when it began, whether a clear ran meanwhile, and
\* for a clear the packets counted when it began.
IdleProc == [pc |-> "idle", op |-> "get", at |-> 0, cpu |-> 0, sum |-> 0,
             before |-> 0, done |-> 0, disturbed |-> FALSE, since |-> 0]

\* The packets in the first n of the blocks, for every n, and in all of them.
Sums(blocks) ==
  LET upto[n \in 0 .. NR_CPUS] == IF n = 0 THEN 0 ELSE upto[n - 1] + blocks[n - 1].count
  IN  upto
Total == Sums(stats)[NR_CPUS]

\* ovs_flow_alloc(): the block of CPU 0 exists from the beginning.
Init ==
  /\ stats = [c \in Cpus |-> [NoBlock EXCEPT !.alloc = (c = 0)]]
  /\ last_writer = -1
  /\ softirq = [c \in Cpus |-> Idle]
  /\ proc = [p \in Procs |-> IdleProc]
  /\ done = 0
  /\ dropped = 0

-----------------------------------------------------------------------------
(* Packets: ovs_flow_stats_update(). *)

BhEnabled(c) == FALSE                                              \* mutant

\* spin_lock_bh() keeps softirqs off the CPU of the command that holds a lock.
BhDisabled(c) == \E p \in Procs : proc[p].pc = "locked" /\ proc[p].cpu = c

\* The block the CPU uses, its own if it has one.
ovs_flow_stats_update(c) ==
  /\ softirq[c] = Idle
  /\ ~BhDisabled(c)
  /\ done + Cardinality({d \in Cpus : softirq[d] # Idle}) < MAX_PACKETS
  /\ softirq' = [softirq EXCEPT ![c] = IF stats[c].alloc THEN c ELSE 0]
  /\ UNCHANGED <<stats, last_writer, proc, done, dropped>>

\* A CPU on the pre-allocated block that another CPU wrote last wants its own.
WantsBlock(c) == /\ softirq[c] # c
                 /\ last_writer \notin {c, -1}
                 /\ ~stats[c].alloc

CountBoth(c, b) ==                                                 \* mutant
  [stats EXCEPT ![c] = [alloc |-> TRUE, count |-> 1, lock |-> Unlocked], ![0].count = @ + 1]

\* stats[c] starts with this packet.
NewBlock(c, b) == [stats EXCEPT ![c] = [alloc |-> TRUE, count |-> 1, lock |-> Unlocked]]

\* The section under the spinlock of block b.  Nothing in it can be observed
\* before the lock is released but the new pointer, whose block is complete.
update_locked(c) ==
  LET b == softirq[c]
  IN
  /\ b # Idle
  /\ stats[b].lock = Unlocked
  /\ \/ /\ WantsBlock(c)
        /\ stats' = NewBlock(c, b)
        /\ UNCHANGED last_writer
     \/ /\ stats' = [stats EXCEPT ![b].count = @ + 1]
        /\ last_writer' = IF b = 0 THEN c ELSE last_writer
  /\ softirq' = [softirq EXCEPT ![c] = Idle]
  /\ done' = done + 1
  /\ UNCHANGED <<proc, dropped>>

-----------------------------------------------------------------------------
(* Commands: ovs_flow_stats_get() and ovs_flow_stats_clear(). *)

Runs(p) == softirq[proc[p].cpu] = Idle

\* A get starts on CPU c: with ovs_mutex, or from a dump with the RCU read lock.
ovs_flow_stats_get(p, c) ==
  /\ proc[p].pc = "idle"
  /\ softirq[c] = Idle
  /\ proc' = [proc EXCEPT ![p] = [IdleProc EXCEPT !.pc = "next", !.cpu = c,
                !.before = Total, !.done = done, !.since = proc[p].since,
                !.disturbed = \E q \in Procs : proc[q].pc # "idle" /\ proc[q].op = "clear"]]
  /\ UNCHANGED <<stats, last_writer, softirq, done, dropped>>

\* A clear starts; ovs_mutex keeps other clears out.
ovs_flow_stats_clear(p, c) ==
  /\ proc[p].pc = "idle"
  /\ softirq[c] = Idle
  /\ \A q \in Procs : proc[q].pc # "idle" => proc[q].op = "get"
  /\ proc' = [q \in Procs |->
                IF q = p THEN [IdleProc EXCEPT !.pc = "next", !.op = "clear", !.cpu = c,
                                 !.done = done, !.since = proc[p].since]
                         ELSE [proc[q] EXCEPT !.disturbed = TRUE]]
  /\ UNCHANGED <<stats, last_writer, softirq, done, dropped>>

\* The next block of the loop, if there is one, is locked.
spin_lock_bh(p) ==
  LET b == proc[p].at
  IN
  /\ proc[p].pc = "next" /\ b < NR_CPUS
  /\ Runs(p)
  /\ \/ /\ stats[b].alloc
        /\ stats[b].lock = Unlocked
        /\ stats' = [stats EXCEPT ![b].lock = p]
        /\ proc' = [proc EXCEPT ![p].pc = "locked"]
     \/ /\ ~stats[b].alloc
        /\ proc' = [proc EXCEPT ![p].at = b + 1]
        /\ UNCHANGED stats
  /\ UNCHANGED <<last_writer, softirq, done, dropped>>

KeptCount(b) == [stats EXCEPT ![b].lock = Unlocked]                \* mutant
Zeroed(b)    == [stats EXCEPT ![b].lock = Unlocked, ![b].count = 0]

AddedTwice(p) == proc[p].sum + 2 * stats[proc[p].at].count         \* mutant
Added(p)      == proc[p].sum + stats[proc[p].at].count

\* The block is read or cleared, and released.
spin_unlock_bh(p) ==
  LET b == proc[p].at
  IN
  /\ proc[p].pc = "locked"
  /\ Runs(p)
  /\ IF proc[p].op = "get"
     THEN /\ stats' = [stats EXCEPT ![b].lock = Unlocked]
          /\ proc' = [proc EXCEPT ![p].pc = "next", ![p].at = b + 1, ![p].sum = Added(p)]
          /\ UNCHANGED dropped
     ELSE /\ stats' = Zeroed(b)
          /\ proc' = [proc EXCEPT ![p].pc = "next", ![p].at = b + 1]
          /\ dropped' = dropped + stats[b].count
  /\ UNCHANGED <<last_writer, softirq, done>>

\* The loop is over.  History: what later gets must not report any more.
return(p) ==
  /\ proc[p].pc = "next" /\ proc[p].at = NR_CPUS
  /\ Runs(p)
  /\ proc' = [q \in Procs |->
                IF q = p THEN [IdleProc EXCEPT !.since = IF proc[p].op = "clear"
                                 THEN proc[p].done ELSE proc[p].since]
                ELSE IF proc[p].op = "clear" THEN [proc[q] EXCEPT !.since =
                                 IF proc[q].pc = "idle" THEN proc[p].done ELSE @]
                ELSE proc[q]]
  /\ UNCHANGED <<stats, last_writer, softirq, done, dropped>>

-----------------------------------------------------------------------------
Command(p) == spin_lock_bh(p) \/ spin_unlock_bh(p) \/ return(p)

Next ==
  \/ \E c \in Cpus : ovs_flow_stats_update(c) \/ update_locked(c)
  \/ \E p \in Procs, c \in Cpus : ovs_flow_stats_get(p, c) \/ ovs_flow_stats_clear(p, c)
  \/ \E p \in Procs : Command(p)

Spec == Init /\ [][Next]_vars

\* Softirqs and commands that have begun go on, and a spinlock that is released
\* again and again is taken in the end (they are fair ticket locks).
FairSpec ==
  /\ Spec
  /\ \A c \in Cpus : SF_vars(update_locked(c))
  /\ \A p \in Procs : SF_vars(Command(p))

-----------------------------------------------------------------------------
(* Properties. *)

TypeOK ==
  /\ stats \in [Cpus -> [alloc : BOOLEAN, count : Nat, lock : Procs \cup {Unlocked}]]
  /\ stats[0].alloc
  /\ last_writer \in Cpus \cup {-1}
  /\ softirq \in [Cpus -> Cpus \cup {Idle}]
  /\ proc \in [Procs -> [pc : {"idle", "next", "locked"}, op : {"get", "clear"},
                         at : 0 .. NR_CPUS, cpu : Cpus, sum : Nat, before : Nat,
                         done : Nat, disturbed : BOOLEAN, since : Nat]]
  /\ done \in Nat
  /\ dropped \in Nat

\* No packet is lost or counted twice, whichever block it was counted in and
\* however the blocks came to be: the blocks hold every packet counted so far
\* that has not been cleared (ovs_flow_stats_update).
EveryPacketCounted == Total = done - dropped

\* The types and the counts (ovs_flow_stats_update, ovs_flow_stats_clear).
StatsInv == TypeOK /\ EveryPacketCounted

\* What a get reports when it returns lies between the packets in the blocks when
\* it began and those when it ends, though it locks one block at a time; a clear
\* that runs meanwhile can only make it report less.  It never reports packets that
\* were counted before a clear began that had ended when the get began
\* (ovs_flow_stats_get, ovs_flow_stats_clear, OVS_FLOW_ATTR_CLEAR).
ReportsRight ==
  \A p \in Procs :
    proc[p].pc = "next" /\ proc[p].op = "get" /\ proc[p].at = NR_CPUS =>
      /\ proc[p].sum <= proc[p].before + (done - proc[p].done)
      /\ ~proc[p].disturbed => proc[p].sum >= proc[p].before
      /\ proc[p].sum <= done - proc[p].since

\* A packet is counted in the end and a command returns: a softirq never waits
\* for a lock that the command it interrupted holds.
NobodySpinsForever ==
  /\ \A c \in Cpus : softirq[c] # Idle ~> softirq[c] = Idle
  /\ \A p \in Procs : proc[p].pc # "idle" ~> proc[p].pc = "idle"
================================================================================
