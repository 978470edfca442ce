--------------------------------- MODULE Sketch ---------------------------------
(***************************************************************************)
(* The sketch of one egress device as the kernel runs it                   *)
(* (sketch_manage.c, countmax.c): every CPU that forwards a packet to the  *)
(* device updates it without a lock, and the thread that answers the       *)
(* collector reads it without one.  One line stands for all: each is       *)
(* updated like the first.  A key is copied in two halves, as a structure  *)
(* of 16 bytes is.                                                         *)
(***************************************************************************)
EXTENDS Integers, FiniteSets

CONSTANTS
  Flows, ZeroKey, W, Hash,   \* as in CountMax
  Sampled,                   \* flows whose flow_key_hash() is odd
  Cpus,
  MAX_TRAFFIC                \* bound: packets counted in one bucket

Buckets == 0 .. W - 1

VARIABLES
  hi, lo,     \* the halves of the key of each bucket: those of which flow
  counters,
  cpu,        \* progress and locals of countmax_line_update() on each CPU
  thread,     \* progress and locals of get_stat_and_send_back()
  sent,       \* history: packets of each flow that have been counted
  traffic,    \* history: packets that have been counted in each bucket
  raced       \* history: two CPUs have been in one bucket at the same time

vars == <<hi, lo, counters, cpu, thread, sent, traffic, raced>>

IdleCpu    == [pc |-> "idle", key |-> ZeroKey, now |-> 0]
IdleThread == [pc |-> "listen", at |-> 0, hi |-> ZeroKey, lo |-> ZeroKey, value |-> 0]

\* The counters and keys of new_countmax_line() have been allocated; see SketchModule.
Init ==
  /\ hi = [b \in Buckets |-> ZeroKey]
  /\ lo = [b \in Buckets |-> ZeroKey]
  /\ counters = [b \in Buckets |-> 0]
  /\ cpu = [c \in Cpus |-> IdleCpu]
  /\ thread = IdleThread
  /\ sent = [k \in Flows |-> 0]
  /\ traffic = [b \in Buckets |-> 0]
  /\ raced = FALSE

-----------------------------------------------------------------------------
(* countmax_line_update() with value 1, one action per access to the line. *)

Index(c) == Hash[cpu[c].key]
Updating(b) == {c \in Cpus : cpu[c].pc # "idle" /\ Index(c) = b}

Goto(c, pc) == cpu' = [cpu EXCEPT ![c].pc = pc]
Load(c, pc) == cpu' = [cpu EXCEPT ![c].pc = pc, ![c].now = counters[Index(c)]]

\* The packet is counted: history.
Done(c) ==
  /\ cpu' = [cpu EXCEPT ![c] = IdleCpu]
  /\ sent' = [sent EXCEPT ![cpu[c].key] = @ + 1]
  /\ traffic' = [traffic EXCEPT ![Index(c)] = @ + 1]
  /\ UNCHANGED raced

Counts == <<sent, traffic, raced>>

\* A packet for the device: half of the flows are counted here, those whose hash
\* is odd.
my_label_sketch(c, k) ==
  /\ cpu[c].pc = "idle"
  /\ k \in Sampled
  /\ traffic[Hash[k]] + Cardinality(Updating(Hash[k])) < MAX_TRAFFIC
  /\ cpu' = [cpu EXCEPT ![c] = [IdleCpu EXCEPT !.pc = "equal_hi", !.key = k]]
  /\ raced' = (raced \/ Updating(Hash[k]) # {})
  /\ UNCHANGED <<hi, lo, counters, thread, sent, traffic>>

\* flow_key_equal() stops at the first field that differs.
flow_key_equal(c) ==
  /\ \/ /\ cpu[c].pc = "equal_hi"
        /\ Goto(c, IF hi[Index(c)] = cpu[c].key THEN "equal_lo" ELSE "now")
     \/ /\ cpu[c].pc = "equal_lo"
        /\ Goto(c, IF lo[Index(c)] = cpu[c].key THEN "load" ELSE "now")
  /\ UNCHANGED <<hi, lo, counters, thread, Counts>>

\* counters[index] += value: a load and a store.
AddTwice(n) == n + 2                                               \* mutant
PlusValue(n) == n + 1

add_load(c) ==
  /\ cpu[c].pc = "load"
  /\ Load(c, "add")
  /\ UNCHANGED <<hi, lo, counters, thread, Counts>>

add_store(c) ==
  /\ cpu[c].pc = "add"
  /\ counters' = [counters EXCEPT ![Index(c)] = PlusValue(cpu[c].now)]
  /\ Done(c)
  /\ UNCHANGED <<hi, lo, thread>>

\* now = counters[index], and whether the flow takes the bucket over.
TakeOverLate(n) == 1 >= n                                          \* mutant
TakesOver(n) == 1 > n

load_now(c) ==
  /\ cpu[c].pc = "now"
  /\ Load(c, IF TakesOver(counters[Index(c)]) THEN "take" ELSE "reload")
  /\ UNCHANGED <<hi, lo, counters, thread, Counts>>

\* counters[index] = value - now, then keys[index] = *key.
take_counter(c) ==
  /\ cpu[c].pc = "take"
  /\ counters' = [counters EXCEPT ![Index(c)] = 1 - cpu[c].now]
  /\ Goto(c, "key_hi")
  /\ UNCHANGED <<hi, lo, thread, Counts>>

take_hi(c) ==
  /\ cpu[c].pc = "key_hi"
  /\ hi' = [hi EXCEPT ![Index(c)] = cpu[c].key]
  /\ Goto(c, "key_lo")
  /\ UNCHANGED <<lo, counters, thread, Counts>>

take_lo(c) ==
  /\ cpu[c].pc = "key_lo"
  /\ lo' = [lo EXCEPT ![Index(c)] = cpu[c].key]
  /\ Done(c)
  /\ UNCHANGED <<hi, counters, thread>>

\* counters[index] -= value: the compiler may use 'now' or load again.
sub_load(c) ==
  /\ cpu[c].pc = "reload"
  /\ Goto(c, "sub") \/ Load(c, "sub")
  /\ UNCHANGED <<hi, lo, counters, thread, Counts>>

sub_store(c) ==
  /\ cpu[c].pc = "sub"
  /\ counters' = [counters EXCEPT ![Index(c)] = cpu[c].now - 1]
  /\ Done(c)
  /\ UNCHANGED <<hi, lo, thread>>

-----------------------------------------------------------------------------
(* sketch_report_listen(), get_stat_and_send_back(): the collector asks, and *)
(* the thread copies key and counter of one bucket after another.            *)

Report(t) == thread' = t /\ UNCHANGED <<hi, lo, counters, cpu, Counts>>

LastBucket(b) == b + 1 = W

get_stat_and_send_back ==
  LET b == thread.at
  IN  \/ thread.pc = "listen" /\ Report([IdleThread EXCEPT !.pc = "hi"])
      \/ thread.pc = "hi"     /\ Report([thread EXCEPT !.pc = "lo", !.hi = hi[b]])
      \/ thread.pc = "lo"     /\ Report([thread EXCEPT !.pc = "value", !.lo = lo[b]])
      \/ thread.pc = "value"  /\ Report([thread EXCEPT !.pc = "sent", !.value = counters[b]])
      \/ thread.pc = "sent"   /\ Report(IF LastBucket(b) THEN IdleThread
                                        ELSE [IdleThread EXCEPT !.pc = "hi", !.at = b + 1])

-----------------------------------------------------------------------------
Update(c) ==
  \/ flow_key_equal(c) \/ add_load(c) \/ add_store(c) \/ load_now(c)
  \/ take_counter(c) \/ take_hi(c) \/ take_lo(c) \/ sub_load(c) \/ sub_store(c)

Next ==
  \/ \E c \in Cpus : Update(c) \/ \E k \in Flows : my_label_sketch(c, k)
  \/ get_stat_and_send_back

Spec == Init /\ [][Next]_vars

-----------------------------------------------------------------------------
(* Properties. *)

TypeOK ==
  /\ hi \in [Buckets -> Flows] /\ lo \in [Buckets -> Flows]
  /\ counters \in [Buckets -> Int]
  /\ cpu \in [Cpus -> [pc : {"idle", "equal_hi", "equal_lo", "load", "add", "now", "take",
                             "key_hi", "key_lo", "reload", "sub"},
                       key : Flows, now : Int]]
  /\ thread \in [pc : {"listen", "hi", "lo", "value", "sent"}, at : Buckets,
                 hi : Flows, lo : Flows, value : Int]
  /\ sent \in [Flows -> Nat]
  /\ traffic \in [Buckets -> Nat]
  /\ raced \in BOOLEAN

\* Updates that race may be lost, counted for another flow or drive a counter
\* below zero, but they never blow it up: neither a counter nor a value told to the
\* collector exceeds the packets of its bucket (countmax_line_update).
WithinTraffic ==
  /\ \A b \in Buckets :
       LET most == traffic[b] + Cardinality(Updating(b))
       IN  -most <= counters[b] /\ counters[b] <= most
  /\ thread.pc = "sent" =>
       thread.value <= traffic[thread.at] + Cardinality(Updating(thread.at))

\* The types and the bound on racing updates (countmax_line_update).
TrafficInv == TypeOK /\ WithinTraffic

\* As long as no two CPUs have been in one bucket at the same time, whatever they do
\* in different ones and whatever the thread reads, the updates are those of CountMax;
\* an update that has stored the counter but not the key yet counts as not begun.
Half(b) == {c \in Updating(b) : cpu[c].pc \in {"key_hi", "key_lo"}}
CM == INSTANCE CountMax WITH
  D <- 1, Values <- {1},
  lines <- <<[keys |-> lo,
              counters |-> [b \in Buckets |-> IF Half(b) = {} THEN counters[b]
                              ELSE cpu[CHOOSE c \in Half(b) : TRUE].now]]>>

UpdatesOfCountMax == ~raced' => [CM!Next]_(CM!vars)
ImplementsCountMax == CM!Init /\ [][UpdatesOfCountMax]_vars
================================================================================
