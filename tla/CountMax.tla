-------------------------------- MODULE CountMax --------------------------------
(***************************************************************************)
(* The CountMax sketch of one device (countmax.c): d lines of w buckets,   *)
(* each with the key of a flow and a counter that packets of this flow     *)
(* count up and packets of other flows count down.  An update is one step; *)
(* module Sketch cuts it into the loads and stores of concurrent CPUs.     *)
(***************************************************************************)
EXTENDS Integers, FiniteSets, FiniteSetsExt

CONSTANTS
  Flows,        \* values of struct flow_key
  ZeroKey,      \* the one of kzalloc(): all fields 0, also that of non-IP packets
  W, D,         \* width and number of the lines
  Hash,         \* flow_key_hash_old(key) % w
  Values,       \* values of an update; my_label_sketch() counts packets, each 1
  MAX_TRAFFIC   \* bound: no update once a bucket has seen this much

Buckets == 0 .. W - 1
Lines   == 1 .. D

ASSUME ConstantsAssumption ==
  /\ W \in Nat \ {0} /\ D \in Nat \ {0}
  /\ ZeroKey \in Flows
  /\ Hash \in [Flows -> Buckets]
  /\ Values \subseteq Nat
  /\ MAX_TRAFFIC \in Nat

VARIABLES
  lines,      \* struct countmax_line: keys and counters
  sent,       \* history: the total of the updates of each flow
  traffic     \* history: the total of the updates of each bucket

vars == <<lines, sent, traffic>>

Line == [keys : [Buckets -> Flows], counters : [Buckets -> Int]]

new_countmax_line == [keys |-> [b \in Buckets |-> ZeroKey], counters |-> [b \in Buckets |-> 0]]

Init ==
  /\ lines = [l \in Lines |-> new_countmax_line]
  /\ sent = [k \in Flows |-> 0]
  /\ traffic = [b \in Buckets |-> 0]

\* The counter of bucket b of a line after an update of flow k by v.
AlwaysCountsUp(line, b, k, v) == line.counters[b] + v              \* mutant
Counted(line, b, k, v) ==
  IF line.keys[b] = k THEN line.counters[b] + v
  ELSE IF v > line.counters[b] THEN v - line.counters[b]
  ELSE line.counters[b] - v

\* Flow k takes the bucket over from one whose counter is smaller than v.
TakesOverAlways(line, b, k, v) == line.keys[b] # k                 \* mutant
TakesOver(line, b, k, v) == line.keys[b] # k /\ v > line.counters[b]

countmax_line_update(line, k, v) ==
  LET b == Hash[k]
  IN  [keys     |-> [line.keys EXCEPT ![b] = IF TakesOver(line, b, k, v) THEN k ELSE @],
       counters |-> [line.counters EXCEPT ![b] = Counted(line, b, k, v)]]

countmax_line_query(line, k) ==
  IF line.keys[Hash[k]] = k THEN line.counters[Hash[k]] ELSE 0

countmax_sketch_query(k) == Max({0} \cup {countmax_line_query(lines[l], k) : l \in Lines})

countmax_sketch_update(k, v) ==
  /\ traffic[Hash[k]] < MAX_TRAFFIC
  /\ lines' = [l \in Lines |-> countmax_line_update(lines[l], k, v)]
  /\ sent' = [sent EXCEPT ![k] = @ + v]
  /\ traffic' = [traffic EXCEPT ![Hash[k]] = @ + v]

Next == \E k \in Flows, v \in Values : countmax_sketch_update(k, v)

Spec == Init /\ [][Next]_vars

-----------------------------------------------------------------------------
(* Properties. *)

TypeOK ==
  /\ lines \in [Lines -> Line]
  /\ sent \in [Flows -> Nat]
  /\ traffic \in [Buckets -> Nat]

\* The sketch never claims more of a flow than was sent, however often its bucket
\* was lost to other flows and won back (countmax_sketch_query).
NeverOverestimates == \A k \in Flows : countmax_sketch_query(k) <= sent[k]

\* It misses at most what the other flows of the bucket sent: a flow with more
\* than half of the traffic of its bucket is found (countmax_sketch_query).
HeavyFlowFound ==
  \A k \in Flows : countmax_sketch_query(k) >= 2 * sent[k] - traffic[Hash[k]]

\* What the collector may conclude from a query (get_stat_and_send_back).
QueryBounds == NeverOverestimates /\ HeavyFlowFound

-----------------------------------------------------------------------------
(* The inductive invariant. *)

\* The lines use the same hash function (line->mask is never applied), so they
\* hold the same.
LinesAgree == \A l, m \in Lines : lines[l] = lines[m]

\* The counter of a bucket pays for what its own flow lacks of the majority, and
\* is at most what any other flow lacks.
CellInv ==
  \A l \in Lines, b \in Buckets :
    LET own == lines[l].keys[b]
        c   == lines[l].counters[b]
    IN  /\ 0 <= c /\ c <= sent[own]
        /\ \A k \in Flows : Hash[k] = b =>
             IF k = own THEN 2 * sent[k] <= traffic[b] + c
                        ELSE 2 * sent[k] <= traffic[b] - c

\* What a sketch of any width, depth and hash function satisfies after every
\* update (countmax_sketch_update).
SketchInv == TypeOK /\ LinesAgree /\ CellInv
================================================================================
