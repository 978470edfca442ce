----------------------------- MODULE ServicesProofs -----------------------------
(***************************************************************************)
(* What is proved of the parts of MCServices: the sketch as an algorithm   *)
(* and as the code runs it, without locks, for every number of CPUs, the   *)
(* life of the module, and transmission through tunnels.                   *)
(***************************************************************************)
EXTENDS MCServices, Sequences, FiniteSetTheorems, TLAPS

-----------------------------------------------------------------------------
(* The sketch as an algorithm (CountMax). *)

\* An empty sketch owes nobody anything.
LEMMA CountMaxInit == Init => SketchInv
<1> SUFFICES ASSUME Init PROVE SketchInv
  OBVIOUS
<1> USE ConstantsAssumption
<1>1. TypeOK
  BY DEF Init, TypeOK, new_countmax_line, Line
<1>2. CellInv
  BY DEF Init, CellInv, new_countmax_line
<1>3. LinesAgree
  BY DEF Init, LinesAgree
<1> QED
  BY <1>1, <1>2, <1>3 DEF SketchInv

\* An update by v of flow k changes bucket Hash[k] of each line and keeps the
\* balance of every bucket.
LEMMA CountMaxUpdate ==
  ASSUME NEW k \in Flows, NEW v \in Values, SketchInv, countmax_sketch_update(k, v)
  PROVE  SketchInv'
<1> USE ConstantsAssumption DEF SketchInv
<1> DEFINE h == Hash[k]
<1>h. h \in Buckets
  OBVIOUS
<1>v. v \in Nat
  OBVIOUS
<1>s. /\ sent' \in [Flows -> Nat] /\ traffic' \in [Buckets -> Nat]
      /\ sent'[k] = sent[k] + v
      /\ \A j \in Flows : j # k => sent'[j] = sent[j]
      /\ traffic'[h] = traffic[h] + v
      /\ \A b \in Buckets : b # h => traffic'[b] = traffic[b]
  BY <1>h, <1>v DEF TypeOK, countmax_sketch_update
<1>l. ASSUME NEW l \in Lines
      PROVE  /\ lines[l] \in Line
             /\ lines'[l] = countmax_line_update(lines[l], k, v)
  BY DEF TypeOK, countmax_sketch_update
<1>n. ASSUME NEW l \in Lines
      PROVE  /\ lines'[l].keys[h] = IF TakesOver(lines[l], h, k, v) THEN k ELSE lines[l].keys[h]
             /\ lines'[l].counters[h] = Counted(lines[l], h, k, v)
             /\ \A b \in Buckets : b # h => /\ lines'[l].keys[b] = lines[l].keys[b]
                                            /\ lines'[l].counters[b] = lines[l].counters[b]
             /\ lines'[l] \in Line
  <2> DEFINE line == lines[l]
  <2>1. line.keys \in [Buckets -> Flows] /\ line.counters \in [Buckets -> Int]
    BY <1>l DEF Line
  <2>2. Counted(line, h, k, v) \in Int
    BY <2>1, <1>h, <1>v DEF Counted
  <2>3. (IF TakesOver(line, h, k, v) THEN k ELSE line.keys[h]) \in Flows
    BY <2>1, <1>h
  <2>4. lines'[l] = [keys |-> [line.keys EXCEPT ![h] =
                                 IF TakesOver(line, h, k, v) THEN k ELSE line.keys[h]],
                     counters |-> [line.counters EXCEPT ![h] = Counted(line, h, k, v)]]
    BY <1>l DEF countmax_line_update
  <2> HIDE DEF line, h
  <2>5. QED
    BY <2>1, <2>2, <2>3, <2>4, <1>h DEF Line, line
<1>1. TypeOK'
  BY <1>s, <1>n DEF TypeOK, countmax_sketch_update
<1>2. CellInv'
  <2> SUFFICES ASSUME NEW l \in Lines, NEW b \in Buckets
      PROVE  /\ 0 <= lines'[l].counters[b]
             /\ lines'[l].counters[b] <= sent'[lines'[l].keys[b]]
             /\ \A j \in Flows : Hash[j] = b =>
                  IF j = lines'[l].keys[b]
                  THEN 2 * sent'[j] <= traffic'[b] + lines'[l].counters[b]
                  ELSE 2 * sent'[j] <= traffic'[b] - lines'[l].counters[b]
    BY DEF CellInv
  <2> DEFINE own == lines[l].keys[b]
             c   == lines[l].counters[b]
  <2>t. /\ own \in Flows /\ c \in Int
        /\ sent \in [Flows -> Nat] /\ traffic \in [Buckets -> Nat]
    BY <1>l DEF Line, TypeOK
  <2>i. /\ 0 <= c /\ c <= sent[own]
        /\ \A j \in Flows : Hash[j] = b =>
             IF j = own THEN 2 * sent[j] <= traffic[b] + c
                        ELSE 2 * sent[j] <= traffic[b] - c
    BY DEF CellInv
  <2>1. CASE b # h
    <3>1. lines'[l].keys[b] = own /\ lines'[l].counters[b] = c /\ traffic'[b] = traffic[b]
      BY <2>1, <1>n, <1>s
    <3>2. \A j \in Flows : Hash[j] = b => sent'[j] = sent[j]
      BY <2>1, <1>s
    <3>3. c <= sent'[own]
      BY <2>t, <2>i, <1>s, <1>v
    <3> QED
      BY <3>1, <3>2, <3>3, <2>i
  <2>2. CASE b = h
    <3>k. /\ 2 * sent[k] <= traffic[b] + c
          /\ k # own => 2 * sent[k] <= traffic[b] - c
          /\ sent[k] \in Nat /\ traffic[b] \in Nat
      BY <2>2, <2>i, <2>t
    <3>1. CASE own = k
      <4>1. lines'[l].keys[b] = k /\ lines'[l].counters[b] = c + v
        BY <3>1, <2>2, <1>n DEF TakesOver, Counted
      <4> QED
        BY <4>1, <3>1, <3>k, <2>2, <2>i, <2>t, <1>s, <1>v
    <3>2. CASE own # k /\ v > c
      <4>1. lines'[l].keys[b] = k /\ lines'[l].counters[b] = v - c
        BY <3>2, <2>2, <1>n DEF TakesOver, Counted
      <4> QED
        BY <4>1, <3>2, <3>k, <2>2, <2>i, <2>t, <1>s, <1>v
    <3>3. CASE own # k /\ ~(v > c)
      <4>1. lines'[l].keys[b] = own /\ lines'[l].counters[b] = c - v
        BY <3>3, <2>2, <1>n DEF TakesOver, Counted
      <4> QED
        BY <4>1, <3>3, <3>k, <2>2, <2>i, <2>t, <1>s, <1>v
    <3> QED
      BY <3>1, <3>2, <3>3
  <2> QED
    BY <2>1, <2>2
<1>3. LinesAgree'
  BY <1>l DEF LinesAgree
<1> QED
  BY <1>1, <1>2, <1>3

\* The balance of every bucket holds for ever (countmax_line_update).
THEOREM SketchInvariant == Spec => []SketchInv
<1>1. SketchInv /\ [Next]_vars => SketchInv'
  <2> SUFFICES ASSUME SketchInv, [Next]_vars PROVE SketchInv'
    OBVIOUS
  <2>1. CASE Next
    BY <2>1, CountMaxUpdate DEF Next
  <2>2. CASE UNCHANGED vars
    BY <2>2 DEF vars, SketchInv, TypeOK, LinesAgree, CellInv
  <2> QED
    BY <2>1, <2>2
<1> QED
  BY CountMaxInit, <1>1, PTL DEF Spec

\* The query of the sketch is the query of any of its lines.
LEMMA QueryOfLine ==
  ASSUME SketchInv, NEW k \in Flows
  PROVE  countmax_sketch_query(k) = countmax_line_query(lines[1], k)
<1> DEFINE q == countmax_line_query(lines[1], k)
<1>1. 1 \in Lines
  BY ConstantsAssumption DEF Lines
<1>2. {countmax_line_query(lines[l], k) : l \in Lines} = {q}
  BY <1>1 DEF SketchInv, LinesAgree
<1>3. q \in Nat
  BY <1>1, ConstantsAssumption DEF SketchInv, TypeOK, CellInv, Line, countmax_line_query
<1>4. Max({0} \cup {q}) = q
  <2> HIDE DEF q
  <2>1. q \in {0} \cup {q} /\ \A y \in {0} \cup {q} : q >= y
    BY <1>3
  <2>2. \A x \in {0} \cup {q} : (\A y \in {0} \cup {q} : x >= y) => x = q
    BY <1>3
  <2> QED
    BY <2>1, <2>2 DEF Max
<1> QED
  BY <1>2, <1>4 DEF countmax_sketch_query

\* No query ever exceeds what the flow sent (countmax_sketch_query).
THEOREM NoOverestimate == Spec => []NeverOverestimates
<1>1. SketchInv => NeverOverestimates
  <2> SUFFICES ASSUME SketchInv, NEW k \in Flows
      PROVE  countmax_line_query(lines[1], k) <= sent[k]
    BY QueryOfLine DEF NeverOverestimates
  <2>1. /\ Hash[k] \in Buckets /\ sent[k] \in Nat /\ 1 \in Lines
    BY ConstantsAssumption DEF SketchInv, TypeOK, Lines
  <2> QED
    BY <2>1 DEF SketchInv, CellInv, countmax_line_query
<1> QED
  BY <1>1, SketchInvariant, PTL

\* A flow with more than half of the traffic of its bucket is the one it holds, and
\* no query falls short by more than the traffic of the others.
THEOREM HeavyFlow == Spec => []HeavyFlowFound
<1>1. SketchInv => HeavyFlowFound
  <2> SUFFICES ASSUME SketchInv, NEW k \in Flows
      PROVE  countmax_line_query(lines[1], k) >= 2 * sent[k] - traffic[Hash[k]]
    BY QueryOfLine DEF HeavyFlowFound
  <2>1. /\ Hash[k] \in Buckets /\ sent[k] \in Nat /\ traffic[Hash[k]] \in Nat
        /\ 1 \in Lines /\ lines[1].counters[Hash[k]] \in Int
    BY ConstantsAssumption DEF SketchInv, TypeOK, Lines, Line
  <2> QED
    BY <2>1 DEF SketchInv, CellInv, countmax_line_query
<1> QED
  BY <1>1, SketchInvariant, PTL

\* Both bounds of a query, as the runs check them.
THEOREM QueriesBounded == Spec => []QueryBounds
<1>1. NeverOverestimates /\ HeavyFlowFound => QueryBounds
  BY DEF QueryBounds
<1> QED
  BY <1>1, NoOverestimate, HeavyFlow, PTL

-----------------------------------------------------------------------------
(* The sketch without locks (Sketch). *)

CpuType == [pc : {"idle", "equal_hi", "equal_lo", "load", "add", "now", "take",
                  "key_hi", "key_lo", "reload", "sub"},
            key : Flows, now : Int]
Taking == {"key_hi", "key_lo"}

\* The stores to the counter of bucket b so far: the packets that have been counted, and
\* those whose flow is still taking the bucket over.
Stores(b) == seen[b] + Cardinality(S!Half(b))
Within(n, b) == -Stores(b) <= n /\ n <= Stores(b)

\* No value that was ever loaded from a counter is further from zero than the stores.
StoresInv ==
  /\ \A b \in S!Buckets : Within(counters[b], b)
  /\ \A c \in Cpus : cpu[c].pc \in {"add", "take", "reload", "sub"} => Within(cpu[c].now, S!Index(c))
  /\ reporter.pc = "sent" => reporter.value <= Stores(reporter.at)

\* Packets are admitted up to the bound.
Admitted == \A b \in S!Buckets : S!Updating(b) # {} =>
              seen[b] + Cardinality(S!Updating(b)) <= MAX_RACES

\* While no two CPUs have met, the one in a bucket finds it as it has seen and left it.
Seen(c) ==
  LET b == S!Index(c)  k == cpu[c].key  n == cpu[c].now
  IN  /\ cpu[c].pc \in {"equal_lo", "load", "add", "key_lo"} => hi[b] = k
      /\ cpu[c].pc \in {"load", "add"} => lo[b] = k
      /\ cpu[c].pc \in {"now", "take", "key_hi", "key_lo", "reload", "sub"} => lo[b] # k
      /\ cpu[c].pc \in {"add", "take", "reload", "sub"} => counters[b] = n
      /\ cpu[c].pc \in Taking => counters[b] = 1 - n
      /\ cpu[c].pc \in {"take", "key_hi", "key_lo"} => 1 > n
      /\ cpu[c].pc \in {"reload", "sub"} => ~(1 > n)
Alone ==
  /\ \A c, d \in Cpus : /\ cpu[c].pc # "idle" /\ cpu[d].pc # "idle"
                        /\ S!Index(c) = S!Index(d)
                        => c = d
  /\ \A c \in Cpus : cpu[c].pc # "idle" => Seen(c)
  /\ \A b \in S!Buckets : hi[b] # lo[b] => \E c \in Cpus : cpu[c].pc = "key_lo" /\ S!Index(c) = b

RaceInv == S!TypeOK /\ StoresInv /\ Admitted /\ (~raced => Alone)

\* A CPU is at its bucket.
LEMMA IndexType ==
  ASSUME S!TypeOK, NEW c \in Cpus
  PROVE  /\ cpu[c] \in CpuType /\ S!Index(c) \in S!Buckets
         /\ IsFiniteSet(S!Updating(S!Index(c)))
<1>1. cpu[c] \in CpuType
  BY DEF S!TypeOK, CpuType
<1>2. Hash \in [Flows -> S!Buckets]
  BY ConstantsAssumption DEF S!Buckets, Buckets
<1>3. IsFiniteSet(S!Updating(S!Index(c)))
  BY RacesAssumption, FS_Subset DEF S!Updating
<1> QED BY <1>1, <1>2, <1>3 DEF S!Index, CpuType

\* The instance counts as this module does.
LEMMA SameCardinality == \A U : S!Cardinality(U) = Cardinality(U)
  BY DEF S!Cardinality, Cardinality, S!IsFiniteSet, IsFiniteSet

LEMMA SetsFinite == \A b : /\ IsFiniteSet(S!Updating(b)) /\ IsFiniteSet(S!Half(b))
                           /\ Cardinality(S!Updating(b)) \in Nat /\ Cardinality(S!Half(b)) \in Nat
                           /\ Cardinality(S!Half(b)) <= Cardinality(S!Updating(b))
<1> TAKE b
<1>1. S!Updating(b) \subseteq Cpus /\ S!Half(b) \subseteq S!Updating(b)
  BY DEF S!Updating, S!Half
<1>2. IsFiniteSet(S!Updating(b)) /\ IsFiniteSet(S!Half(b))
  BY <1>1, RacesAssumption, FS_Subset
<1> QED BY <1>1, <1>2, FS_Subset, FS_CardinalityType

\* A step of one CPU: it goes on in its bucket, or its packet is counted.
Moves(c) ==
  /\ cpu[c].pc # "idle"
  /\ cpu' \in [Cpus -> CpuType]
  /\ \A d \in Cpus : d # c => cpu'[d] = cpu[d]
  /\ cpu'[c].pc # "idle" => cpu'[c].key = cpu[c].key /\ seen' = seen /\ updated' = updated
  /\ cpu'[c].pc = "idle" => /\ seen' = [seen EXCEPT ![S!Index(c)] = @ + 1]
                            /\ updated' = [updated EXCEPT ![cpu[c].key] = @ + 1]

LEMMA SetsStep ==
  ASSUME S!TypeOK, NEW c \in Cpus, Moves(c), NEW b \in S!Buckets
  PROVE  /\ S!Updating(b)' = IF cpu'[c].pc = "idle" THEN S!Updating(b) \ {c} ELSE S!Updating(b)
         /\ S!Half(b)' = IF b = S!Index(c) /\ cpu'[c].pc \in Taking THEN S!Half(b) \cup {c} ELSE S!Half(b) \ {c}
         /\ c \in S!Updating(b) <=> b = S!Index(c)
         /\ c \in S!Half(b) <=> b = S!Index(c) /\ cpu[c].pc \in Taking
<1>1. \A d \in Cpus : d # c => S!Index(d)' = S!Index(d) /\ cpu'[d].pc = cpu[d].pc
  BY DEF Moves, S!Index
<1>2. cpu'[c].pc # "idle" => S!Index(c)' = S!Index(c)
  BY DEF Moves, S!Index
<1>3. \A d : /\ d \in S!Updating(b)' <=> d \in Cpus /\ cpu'[d].pc # "idle" /\ S!Index(d)' = b
             /\ d \in S!Updating(b) <=> d \in Cpus /\ cpu[d].pc # "idle" /\ S!Index(d) = b
             /\ d \in S!Half(b)' <=> d \in S!Updating(b)' /\ cpu'[d].pc \in Taking
             /\ d \in S!Half(b) <=> d \in S!Updating(b) /\ cpu[d].pc \in Taking
  BY DEF S!Updating, S!Half, Taking
<1>4. cpu[c].pc # "idle" /\ \A x \in Taking : x # "idle"
  BY DEF Moves, Taking
<1> QED BY <1>1, <1>2, <1>3, <1>4

LEMMA StoresStep ==
  ASSUME S!TypeOK, NEW c \in Cpus, Moves(c), NEW b \in S!Buckets
  PROVE  /\ Stores(b)' \in Nat /\ Stores(b) \in Nat
         /\ Stores(b)' = Stores(b) +
              IF b = S!Index(c)
              THEN (IF cpu'[c].pc \in Taking \cup {"idle"} THEN 1 ELSE 0) - (IF cpu[c].pc \in Taking THEN 1 ELSE 0)
              ELSE 0
         /\ seen'[b] + Cardinality(S!Updating(b)') = seen[b] + Cardinality(S!Updating(b))
<1>1. /\ seen[b] \in Nat
      /\ seen'[b] = IF b = S!Index(c) /\ cpu'[c].pc = "idle" THEN seen[b] + 1 ELSE seen[b]
  BY DEF Moves, S!TypeOK
<1>2. \A x \in Taking : x # "idle"
  BY DEF Taking
<1> DEFINE H == S!Half(b)
           U == S!Updating(b)
<1>3. IsFiniteSet(H) /\ IsFiniteSet(U) /\ Cardinality(H) \in Nat /\ Cardinality(U) \in Nat
  BY SetsFinite
<1>4. /\ U' = IF cpu'[c].pc = "idle" THEN U \ {c} ELSE U
      /\ H' = IF b = S!Index(c) /\ cpu'[c].pc \in Taking THEN H \cup {c} ELSE H \ {c}
      /\ c \in U <=> b = S!Index(c)
      /\ c \in H <=> b = S!Index(c) /\ cpu[c].pc \in Taking
  BY SetsStep
<1> DEFINE h == Cardinality(H)
           u == Cardinality(U)
<1> HIDE DEF H, U
<1>5. /\ Cardinality(H \cup {c}) = IF c \in H THEN h ELSE h + 1
      /\ Cardinality(H \ {c}) = IF c \in H THEN h - 1 ELSE h
      /\ Cardinality(U \ {c}) = IF c \in U THEN u - 1 ELSE u
      /\ Cardinality(H \ {c}) \in Nat
  BY FS_CardinalityType, <1>3, FS_AddElement, FS_RemoveElement
<1>6. Stores(b) = seen[b] + h /\ Stores(b)' = seen'[b] + Cardinality(H')
  BY DEF Stores, H
<1>7. Cardinality(U') = IF b = S!Index(c) /\ cpu'[c].pc = "idle" THEN u - 1 ELSE u
  BY <1>4, <1>5
<1>8. Cardinality(H') = h + IF b = S!Index(c)
                            THEN (IF cpu'[c].pc \in Taking THEN 1 ELSE 0) - (IF cpu[c].pc \in Taking THEN 1 ELSE 0)
                            ELSE 0
  BY <1>3, <1>4, <1>5
<1>9. Cardinality(H') \in Nat /\ u \in Nat /\ h \in Nat
  BY <1>3, <1>4, <1>5
<1>10. seen'[b] + Cardinality(U') = seen[b] + u
  BY <1>1, <1>7, <1>9
<1>11. /\ Stores(b)' \in Nat /\ Stores(b) \in Nat
       /\ Stores(b)' = Stores(b) +
            IF b = S!Index(c)
            THEN (IF cpu'[c].pc \in Taking \cup {"idle"} THEN 1 ELSE 0) - (IF cpu[c].pc \in Taking THEN 1 ELSE 0)
            ELSE 0
  BY <1>1, <1>2, <1>6, <1>8, <1>9
<1> QED BY <1>10, <1>11 DEF U

\* The steps of an update keep its sets and its types.
LEMMA UpdateMoves ==
  ASSUME S!TypeOK, NEW c \in Cpus, S!Update(c)
  PROVE  /\ Moves(c) /\ S!TypeOK'
         /\ reporter' = reporter /\ raced' = raced
<1>1. cpu[c] \in CpuType /\ S!Index(c) \in S!Buckets
  BY IndexType
<1>2. cpu \in [Cpus -> CpuType] /\ counters \in [S!Buckets -> Int]
  BY DEF S!TypeOK, CpuType
<1>3. /\ reporter' = reporter /\ raced' = raced
      /\ hi' \in [S!Buckets -> Flows] /\ lo' \in [S!Buckets -> Flows] /\ counters' \in [S!Buckets -> Int]
      /\ updated' \in [Flows -> Nat] /\ seen' \in [S!Buckets -> Nat]
  <2> DEFINE k == cpu[c].key
             n == cpu[c].now
             b == S!Index(c)
  <2>1. /\ k \in Flows /\ n \in Int /\ b \in S!Buckets
    BY <1>1 DEF CpuType
  <2>2. /\ hi \in [S!Buckets -> Flows] /\ lo \in [S!Buckets -> Flows] /\ counters \in [S!Buckets -> Int]
        /\ updated \in [Flows -> Nat] /\ seen \in [S!Buckets -> Nat]
    BY DEF S!TypeOK
  <2>3. /\ hi' = hi \/ hi' = [hi EXCEPT ![b] = k]
        /\ lo' = lo \/ lo' = [lo EXCEPT ![b] = k]
        /\ counters' = counters \/ counters' = [counters EXCEPT ![b] = n + 1]
           \/ counters' = [counters EXCEPT ![b] = 1 - n] \/ counters' = [counters EXCEPT ![b] = n - 1]
        /\ updated' = updated \/ updated' = [updated EXCEPT ![k] = @ + 1]
        /\ seen' = seen \/ seen' = [seen EXCEPT ![b] = @ + 1]
        /\ reporter' = reporter /\ raced' = raced
    BY DEF S!Update, S!flow_key_equal, S!add_load, S!add_store, S!load_now, S!take_counter, S!take_hi, S!take_lo,
           S!sub_load, S!sub_store, S!Counts, S!Done, S!PlusValue
  <2> HIDE DEF k, n, b
  <2> QED BY <2>1, <2>2, <2>3
<1>4. Moves(c)
  <2>1. CASE S!flow_key_equal(c)
    BY <2>1, <1>1, <1>2 DEF S!flow_key_equal, S!Goto, S!Counts, Moves, CpuType
  <2>2. CASE S!add_load(c)
    BY <2>2, <1>1, <1>2 DEF S!add_load, S!Load, S!Counts, Moves, CpuType
  <2>3. CASE S!add_store(c)
    BY <2>3, <1>1, <1>2, ConstantsAssumption DEF S!add_store, S!Done, S!IdleCpu, Moves, CpuType
  <2>4. CASE S!load_now(c)
    BY <2>4, <1>1, <1>2 DEF S!load_now, S!Load, S!Counts, Moves, CpuType
  <2>5. CASE S!take_counter(c)
    BY <2>5, <1>1, <1>2 DEF S!take_counter, S!Goto, S!Counts, Moves, CpuType
  <2>6. CASE S!take_hi(c)
    BY <2>6, <1>1, <1>2 DEF S!take_hi, S!Goto, S!Counts, Moves, CpuType
  <2>7. CASE S!take_lo(c)
    BY <2>7, <1>1, <1>2, ConstantsAssumption DEF S!take_lo, S!Done, S!IdleCpu, Moves, CpuType
  <2>8. CASE S!sub_load(c)
    BY <2>8, <1>1, <1>2 DEF S!sub_load, S!Goto, S!Load, S!Counts, Moves, CpuType
  <2>9. CASE S!sub_store(c)
    BY <2>9, <1>1, <1>2, ConstantsAssumption DEF S!sub_store, S!Done, S!IdleCpu, Moves, CpuType
  <2> QED BY <2>1, <2>2, <2>3, <2>4, <2>5, <2>6, <2>7, <2>8, <2>9 DEF S!Update
<1> QED BY <1>3, <1>4 DEF S!TypeOK, Moves, CpuType

\* What a CPU and the counter of its bucket are after a step of its update.
LEMMA UpdateEffect ==
  ASSUME S!TypeOK, NEW c \in Cpus, S!Update(c), NEW b \in S!Buckets, b = S!Index(c)
  PROVE  LET r == cpu'[c]
         IN  /\ \A m \in S!Buckets : m # b => counters'[m] = counters[m] /\ hi'[m] = hi[m] /\ lo'[m] = lo[m]
             /\ CASE cpu[c].pc = "equal_hi" ->
                       /\ r.pc = IF hi[b] = cpu[c].key THEN "equal_lo" ELSE "now"
                       /\ counters'[b] = counters[b] /\ hi'[b] = hi[b] /\ lo'[b] = lo[b]
                  [] cpu[c].pc = "equal_lo" ->
                       /\ r.pc = IF lo[b] = cpu[c].key THEN "load" ELSE "now"
                       /\ counters'[b] = counters[b] /\ hi'[b] = hi[b] /\ lo'[b] = lo[b]
                  [] cpu[c].pc = "load" ->
                       /\ r.pc = "add" /\ r.now = counters[b]
                       /\ counters'[b] = counters[b] /\ hi'[b] = hi[b] /\ lo'[b] = lo[b]
                  [] cpu[c].pc = "add" ->
                       /\ r.pc = "idle"
                       /\ counters'[b] = cpu[c].now + 1 /\ hi'[b] = hi[b] /\ lo'[b] = lo[b]
                  [] cpu[c].pc = "now" ->
                       /\ r.pc = IF 1 > counters[b] THEN "take" ELSE "reload"
                       /\ r.now = counters[b]
                       /\ counters'[b] = counters[b] /\ hi'[b] = hi[b] /\ lo'[b] = lo[b]
                  [] cpu[c].pc = "take" ->
                       /\ r.pc = "key_hi" /\ r.now = cpu[c].now
                       /\ counters'[b] = 1 - cpu[c].now /\ hi'[b] = hi[b] /\ lo'[b] = lo[b]
                  [] cpu[c].pc = "key_hi" ->
                       /\ r.pc = "key_lo" /\ r.now = cpu[c].now
                       /\ counters'[b] = counters[b] /\ hi'[b] = cpu[c].key /\ lo'[b] = lo[b]
                  [] cpu[c].pc = "key_lo" ->
                       /\ r.pc = "idle"
                       /\ counters'[b] = counters[b] /\ hi'[b] = hi[b] /\ lo'[b] = cpu[c].key
                  [] cpu[c].pc = "reload" ->
                       /\ r.pc = "sub" /\ r.now \in {cpu[c].now, counters[b]}
                       /\ counters'[b] = counters[b] /\ hi'[b] = hi[b] /\ lo'[b] = lo[b]
                  [] cpu[c].pc = "sub" ->
                       /\ r.pc = "idle"
                       /\ counters'[b] = cpu[c].now - 1 /\ hi'[b] = hi[b] /\ lo'[b] = lo[b]
                  [] OTHER -> FALSE
<1>1. cpu[c] \in CpuType /\ cpu \in [Cpus -> CpuType]
  BY DEF S!TypeOK, CpuType
<1>2. /\ counters \in [S!Buckets -> Int] /\ hi \in [S!Buckets -> Flows] /\ lo \in [S!Buckets -> Flows]
  BY DEF S!TypeOK
<1>3. CASE S!flow_key_equal(c)
  BY <1>3, <1>1, <1>2 DEF S!flow_key_equal, S!Goto, CpuType
<1>4. CASE S!add_load(c)
  BY <1>4, <1>1, <1>2 DEF S!add_load, S!Load, CpuType
<1>5. CASE S!add_store(c)
  BY <1>5, <1>1, <1>2 DEF S!add_store, S!Done, S!IdleCpu, S!PlusValue, CpuType
<1>6. CASE S!load_now(c)
  BY <1>6, <1>1, <1>2 DEF S!load_now, S!Load, S!TakesOver, CpuType
<1>7. CASE S!take_counter(c)
  BY <1>7, <1>1, <1>2 DEF S!take_counter, S!Goto, CpuType
<1>8. CASE S!take_hi(c)
  BY <1>8, <1>1, <1>2 DEF S!take_hi, S!Goto, CpuType
<1>9. CASE S!take_lo(c)
  BY <1>9, <1>1, <1>2 DEF S!take_lo, S!Done, S!IdleCpu, CpuType
<1>10. CASE S!sub_load(c)
  BY <1>10, <1>1, <1>2 DEF S!sub_load, S!Goto, S!Load, CpuType
<1>11. CASE S!sub_store(c)
  BY <1>11, <1>1, <1>2 DEF S!sub_store, S!Done, S!IdleCpu, CpuType
<1> QED BY <1>3, <1>4, <1>5, <1>6, <1>7, <1>8, <1>9, <1>10, <1>11 DEF S!Update

\* The bounds of the counters are kept by a step of an update ...
LEMMA StoresUpdate ==
  ASSUME RaceInv, NEW c \in Cpus, S!Update(c)
  PROVE  StoresInv'
<1>1. S!TypeOK /\ StoresInv
  BY DEF RaceInv
<1>2. Moves(c) /\ S!TypeOK' /\ reporter' = reporter
  BY <1>1, UpdateMoves
<1>b. PICK b \in S!Buckets : b = S!Index(c)
  BY <1>1, IndexType
<1> DEFINE St(m) == Stores(m)
<1>3. /\ b = S!Index(c) /\ counters[b] \in Int /\ cpu[c].now \in Int
      /\ counters'[b] \in Int /\ cpu'[c].now \in Int
  BY <1>b, <1>1, <1>2, IndexType DEF S!TypeOK
<1>4. \A m \in S!Buckets :
        /\ St(m) \in Nat /\ St(m)' \in Nat /\ St(m)' >= St(m)
        /\ m # b => St(m)' = St(m)
        /\ m = b => St(m)' = St(m) + (IF cpu'[c].pc \in Taking \cup {"idle"} THEN 1 ELSE 0)
                                   - (IF cpu[c].pc \in Taking THEN 1 ELSE 0)
  <2> SUFFICES ASSUME NEW m \in S!Buckets
               PROVE  /\ St(m) \in Nat /\ St(m)' \in Nat /\ St(m)' >= St(m)
                      /\ m # b => St(m)' = St(m)
                      /\ m = b => St(m)' = St(m) + (IF cpu'[c].pc \in Taking \cup {"idle"} THEN 1 ELSE 0)
                                                 - (IF cpu[c].pc \in Taking THEN 1 ELSE 0)
    OBVIOUS
  <2>1. cpu[c].pc \in Taking => cpu'[c].pc \in Taking \cup {"idle"}
    BY <1>1, <1>3, UpdateEffect DEF Taking
  <2>2. /\ St(m) \in Nat /\ St(m)' \in Nat
        /\ St(m)' = St(m) + IF m = b
              THEN (IF cpu'[c].pc \in Taking \cup {"idle"} THEN 1 ELSE 0) - (IF cpu[c].pc \in Taking THEN 1 ELSE 0)
              ELSE 0
    BY <1>1, <1>2, <1>3, StoresStep
  <2> HIDE DEF St
  <2> QED BY <2>1, <2>2
<1>5. \A n \in Int, m \in S!Buckets : Within(n, m) => -(St(m)') <= n /\ n <= St(m)'
  BY <1>4 DEF Within
<1>6. /\ -(St(b)') <= counters'[b] /\ counters'[b] <= St(b)'
      /\ cpu'[c].pc \in {"add", "take", "reload", "sub"} => -(St(b)') <= cpu'[c].now /\ cpu'[c].now <= St(b)'
  <2>1. /\ Within(counters[b], b)
        /\ cpu[c].pc \in {"add", "take", "reload", "sub"} => Within(cpu[c].now, b)
    BY <1>1, <1>3 DEF StoresInv
  <2>2. /\ cpu[c].pc \in {"add", "take", "sub"} => St(b)' = St(b) + 1
    BY <1>1, <1>3, <1>4, UpdateEffect DEF Taking
  <2>3. /\ \/ counters'[b] = counters[b]
           \/ cpu[c].pc \in {"add", "take", "sub"} /\ counters'[b] \in {cpu[c].now + 1, cpu[c].now - 1, 1 - cpu[c].now}
        /\ cpu'[c].pc \in {"add", "take", "reload", "sub"} =>
             cpu'[c].now = counters[b] \/ (cpu[c].pc = "reload" /\ cpu'[c].now = cpu[c].now)
    <3>1. \/ counters'[b] = counters[b]
          \/ cpu[c].pc \in {"add", "take", "sub"} /\ counters'[b] \in {cpu[c].now + 1, cpu[c].now - 1, 1 - cpu[c].now}
      BY <1>1, <1>3, UpdateEffect
    <3>2. cpu'[c].pc \in {"add", "take", "reload", "sub"} =>
             cpu'[c].now = counters[b] \/ (cpu[c].pc = "reload" /\ cpu'[c].now = cpu[c].now)
      <4>1. cpu'[c].pc = "add" => cpu'[c].now = counters[b]
        BY <1>1, <1>3, UpdateEffect
      <4>2. cpu'[c].pc \in {"take", "reload"} => cpu'[c].now = counters[b]
        BY <1>1, <1>3, UpdateEffect
      <4>3. cpu'[c].pc = "sub" => cpu[c].pc = "reload"
        BY <1>1, <1>3, UpdateEffect
      <4>4. cpu[c].pc = "reload" => cpu'[c].now \in {cpu[c].now, counters[b]}
        BY <1>1, <1>3, UpdateEffect
      <4> QED BY <4>1, <4>2, <4>3, <4>4
    <3> QED BY <3>1, <3>2
  <2>4. /\ St(b) \in Nat /\ St(b)' \in Nat /\ St(b)' >= St(b)
    BY <1>4
  <2>5. Within(counters[b], b) => -St(b) <= counters[b] /\ counters[b] <= St(b)
    BY DEF Within
  <2>6. Within(cpu[c].now, b) => -St(b) <= cpu[c].now /\ cpu[c].now <= St(b)
    BY DEF Within
  <2> HIDE DEF St
  <2> QED BY <1>3, <2>1, <2>2, <2>3, <2>4, <2>5, <2>6
<1>7. \A m \in S!Buckets : -(St(m)') <= counters'[m] /\ counters'[m] <= St(m)'
  <2>1. \A m \in S!Buckets : m # b => counters'[m] = counters[m] /\ counters[m] \in Int /\ Within(counters[m], m)
    BY <1>1, <1>3, UpdateEffect DEF StoresInv, S!TypeOK
  <2> QED BY <2>1, <1>5, <1>6
<1>8. \A d \in Cpus : cpu'[d].pc \in {"add", "take", "reload", "sub"} =>
         -Stores(S!Index(d))' <= cpu'[d].now /\ cpu'[d].now <= Stores(S!Index(d))'
  <2> TAKE d \in Cpus
  <2>1. CASE d = c
    <3>1. cpu'[c].pc # "idle" => S!Index(c)' = b
      BY <1>2, <1>3 DEF Moves, S!Index
    <3> QED BY <2>1, <3>1, <1>6 DEF Stores, S!Half, S!Updating
  <2>2. CASE d # c
    <3>1. S!Index(d)' = S!Index(d) /\ cpu'[d] = cpu[d] /\ S!Index(d) \in S!Buckets /\ cpu[d].now \in Int
      BY <1>1, <1>2, <2>2, IndexType DEF Moves, S!Index, CpuType
    <3>2. cpu[d].pc \in {"add", "take", "reload", "sub"} => Within(cpu[d].now, S!Index(d))
      BY <1>1 DEF StoresInv
    <3> QED BY <3>1, <3>2, <1>5 DEF Stores, S!Half, S!Updating
  <2> QED BY <2>1, <2>2
<1>9. reporter'.pc = "sent" => reporter'.value <= Stores(reporter.at)'
  <2>1. PICK a \in S!Buckets : a = reporter.at
    BY <1>1 DEF S!TypeOK
  <2>2. Stores(a)' >= Stores(a) /\ Stores(a) \in Nat /\ Stores(a)' \in Nat /\ reporter.value \in Int
    BY <1>1, <1>4 DEF S!TypeOK
  <2>3. reporter.pc = "sent" => reporter.value <= Stores(a)
    BY <1>1, <2>1 DEF StoresInv
  <2>4. Stores(reporter.at)' = Stores(a)'
    BY <1>2, <2>1 DEF Stores, S!Half, S!Updating
  <2> QED BY <1>2, <2>2, <2>3, <2>4
<1> QED BY <1>2, <1>7, <1>8, <1>9 DEF StoresInv, Within

\* ... and what holds while no CPUs have met.
LEMMA AdmittedUpdate ==
  ASSUME RaceInv, NEW c \in Cpus, S!Update(c)
  PROVE  Admitted'
<1>1. S!TypeOK /\ Admitted /\ Moves(c)
  BY UpdateMoves DEF RaceInv
<1>2. SUFFICES ASSUME NEW b \in S!Buckets, S!Updating(b)' # {}
               PROVE  seen'[b] + Cardinality(S!Updating(b)') <= MAX_RACES
  BY DEF Admitted
<1>3. S!Updating(b) # {}
  BY <1>1, <1>2, SetsStep
<1>4. seen'[b] + Cardinality(S!Updating(b)') = seen[b] + Cardinality(S!Updating(b))
  BY <1>1, StoresStep
<1> QED BY <1>1, <1>3, <1>4 DEF Admitted

LEMMA AloneUpdate ==
  ASSUME S!TypeOK, Alone, NEW c \in Cpus, S!Update(c)
  PROVE  Alone'
<1>1. Moves(c)
  BY UpdateMoves
<1>b. PICK b \in S!Buckets : b = S!Index(c)
  BY IndexType
<1>k. PICK k \in Flows : k = cpu[c].key
  BY IndexType DEF CpuType
<1>2. /\ cpu'[c].pc # "idle" => S!Index(c)' = b /\ cpu'[c].key = k
      /\ \A d \in Cpus : d # c => S!Index(d)' = S!Index(d) /\ cpu'[d] = cpu[d]
  BY <1>1, <1>b, <1>k DEF Moves, S!Index
<1>3. Seen(c) /\ cpu[c].pc # "idle"
  BY <1>1 DEF Alone, Moves
<1>4. \A d, e \in Cpus : /\ cpu'[d].pc # "idle" /\ cpu'[e].pc # "idle"
                         /\ S!Index(d)' = S!Index(e)'
                         => d = e
  BY <1>2, <1>3, <1>b DEF Alone
<1>5. ASSUME NEW m \in S!Buckets
      PROVE  hi'[m] # lo'[m] => \E d \in Cpus : cpu'[d].pc = "key_lo" /\ S!Index(d)' = m
  <2>1. CASE m # b
    <3>1. hi'[m] = hi[m] /\ lo'[m] = lo[m]
      BY <2>1, <1>b, UpdateEffect
    <3> QED BY <2>1, <3>1, <1>2, <1>b DEF Alone
  <2>2. CASE m = b
    <3>1. cpu[c].pc # "key_lo" => hi[b] = lo[b]
      BY <1>3, <1>b DEF Alone
    <3>2. \/ cpu'[c].pc = "key_lo"
          \/ cpu[c].pc = "key_lo" /\ hi'[b] = hi[b] /\ lo'[b] = cpu[c].key
          \/ cpu[c].pc # "key_lo" /\ hi'[b] = hi[b] /\ lo'[b] = lo[b]
      BY <1>b, UpdateEffect
    <3>3. cpu[c].pc = "key_lo" => hi[b] = cpu[c].key
      BY <1>3, <1>b DEF Seen
    <3> QED BY <2>2, <3>1, <3>2, <3>3, <1>2
  <2> QED BY <2>1, <2>2
<1>6. ASSUME NEW d \in Cpus, cpu'[d].pc # "idle" PROVE Seen(d)'
  <2>1. CASE d # c
    <3>1. PICK m \in S!Buckets : m = S!Index(d)
      BY IndexType
    <3>2. m # b /\ Seen(d)
      BY <2>1, <3>1, <1>2, <1>3, <1>6, <1>b DEF Alone
    <3>3. counters'[m] = counters[m] /\ hi'[m] = hi[m] /\ lo'[m] = lo[m]
      BY <3>2, <1>b, UpdateEffect
    <3>4. S!Index(d)' = m /\ cpu'[d] = cpu[d]
      BY <2>1, <3>1, <1>2
    <3> QED BY <3>1, <3>2, <3>3, <3>4 DEF Seen
  <2>2. CASE d = c
    <3>1. cpu'[c].pc # "idle"
      BY <2>2, <1>6
    <3>2. S!Index(c)' = b /\ cpu'[c].key = k
      BY <3>1, <1>2
    <3>3. cpu[c].pc # "key_lo" => hi[b] = lo[b]
      BY <1>3, <1>b DEF Alone
    <3>4. /\ cpu'[c].pc \in {"equal_lo", "load", "add", "key_lo"} => hi'[b] = k
          /\ cpu'[c].pc \in {"load", "add"} => lo'[b] = k
          /\ cpu'[c].pc \in {"now", "take", "key_hi", "key_lo", "reload", "sub"} => lo'[b] # k
          /\ cpu'[c].pc \in {"add", "take", "reload", "sub"} => counters'[b] = cpu'[c].now
          /\ cpu'[c].pc \in Taking => counters'[b] = 1 - cpu'[c].now
          /\ cpu'[c].pc \in {"take", "key_hi", "key_lo"} => 1 > cpu'[c].now
          /\ cpu'[c].pc \in {"reload", "sub"} => ~(1 > cpu'[c].now)
      BY <1>3, <3>1, <3>3, <1>b, <1>k, UpdateEffect, SMTT(30) DEF Seen, Taking
    <3> QED BY <2>2, <3>2, <3>4 DEF Seen
  <2> QED BY <2>1, <2>2
<1> QED BY <1>4, <1>5, <1>6 DEF Alone

\* The other steps: a packet begins, the thread reads, nothing happens.
LEMMA RaceStep ==
  ASSUME RaceInv, [S!Next]_SketchVars
  PROVE  RaceInv'
<1>1. S!TypeOK
  BY DEF RaceInv
<1>2. CASE \E c \in Cpus : S!Update(c)
  <2>1. PICK c \in Cpus : S!Update(c)
    BY <1>2
  <2> QED BY <2>1, UpdateMoves, StoresUpdate, AdmittedUpdate, AloneUpdate DEF RaceInv
<1>3. ASSUME NEW c \in Cpus, NEW k \in Flows, S!my_label_sketch(c, k)
      PROVE  RaceInv'
  <2>b. PICK b \in S!Buckets : b = Hash[k]
    BY ConstantsAssumption DEF S!Buckets, Buckets
  <2>1. /\ hi' = hi /\ lo' = lo /\ counters' = counters /\ reporter' = reporter /\ updated' = updated /\ seen' = seen
        /\ cpu[c].pc = "idle" /\ seen[b] + Cardinality(S!Updating(b)) < MAX_RACES
        /\ raced' = (raced \/ S!Updating(b) # {})
        /\ cpu' = [cpu EXCEPT ![c] = [S!IdleCpu EXCEPT !.pc = "equal_hi", !.key = k]]
    <3>1. /\ hi' = hi /\ lo' = lo /\ counters' = counters /\ reporter' = reporter /\ updated' = updated /\ seen' = seen
          /\ cpu[c].pc = "idle" /\ cpu' = [cpu EXCEPT ![c] = [S!IdleCpu EXCEPT !.pc = "equal_hi", !.key = k]]
      BY <1>3 DEF S!my_label_sketch
    <3>2. raced' = (raced \/ S!Updating(b) # {})
      BY <1>3, <2>b, Zenon DEF S!my_label_sketch
    <3>3. seen[b] + Cardinality(S!Updating(b)) < MAX_RACES
      <4>1. seen[Hash[k]] + Cardinality(S!Updating(Hash[k])) < MAX_RACES
        BY <1>3, SameCardinality DEF S!my_label_sketch
      <4> QED BY <2>b, <4>1, Zenon
    <3> QED BY <3>1, <3>2, <3>3, Zenon
  <2>2. /\ cpu' \in [Cpus -> CpuType] /\ cpu'[c].pc = "equal_hi" /\ S!Index(c)' = b
        /\ \A d \in Cpus : d # c => cpu'[d] = cpu[d] /\ S!Index(d)' = S!Index(d)
    <3>0. cpu' = [cpu EXCEPT ![c] = [S!IdleCpu EXCEPT !.pc = "equal_hi", !.key = k]]
      BY <2>1, Zenon
    <3>1. cpu \in [Cpus -> CpuType]
      BY <1>1 DEF S!TypeOK, CpuType
    <3>2. \A x \in CpuType : /\ [x EXCEPT !.pc = "equal_hi", !.key = k] \in CpuType
                             /\ [x EXCEPT !.pc = "equal_hi", !.key = k].pc = "equal_hi"
                             /\ [x EXCEPT !.pc = "equal_hi", !.key = k].key = k
      BY DEF CpuType
    <3>3. S!IdleCpu \in CpuType
      BY ConstantsAssumption DEF S!IdleCpu, CpuType
    <3>4. PICK r \in CpuType : r.pc = "equal_hi" /\ r.key = k /\ cpu' = [cpu EXCEPT ![c] = r]
      BY <3>0, <3>2, <3>3
    <3> QED BY <2>b, <3>1, <3>4 DEF S!Index
  <2>3. S!TypeOK'
    BY <1>1, <2>1, <2>2 DEF S!TypeOK, CpuType
  <2>4. \A m \in S!Buckets : /\ S!Updating(m)' = IF m = b THEN S!Updating(m) \cup {c} ELSE S!Updating(m)
                             /\ S!Half(m)' = S!Half(m)
    <3> TAKE m \in S!Buckets
    <3>1. \A d : /\ d \in S!Updating(m)' <=> d \in Cpus /\ cpu'[d].pc # "idle" /\ S!Index(d)' = m
                 /\ d \in S!Updating(m) <=> d \in Cpus /\ cpu[d].pc # "idle" /\ S!Index(d) = m
                 /\ d \in S!Half(m)' <=> d \in S!Updating(m)' /\ cpu'[d].pc \in Taking
                 /\ d \in S!Half(m) <=> d \in S!Updating(m) /\ cpu[d].pc \in Taking
      BY DEF S!Updating, S!Half, Taking
    <3>2. "equal_hi" \notin Taking /\ "equal_hi" # "idle" /\ "idle" \notin Taking
      BY DEF Taking
    <3> QED BY <2>1, <2>2, <3>1, <3>2
  <2>5. StoresInv'
    <3>1. \A m \in S!Buckets : Stores(m)' = Stores(m)
      BY <2>1, <2>4 DEF Stores
    <3>2. \A n, m : m \in S!Buckets /\ Within(n, m) => -(Stores(m)') <= n /\ n <= Stores(m)'
      BY <3>1 DEF Within
    <3>3. \A m \in S!Buckets : Within(counters[m], m)
      BY DEF RaceInv, StoresInv
    <3>4. ASSUME NEW d \in Cpus, cpu'[d].pc \in {"add", "take", "reload", "sub"}
          PROVE  -Stores(S!Index(d))' <= cpu'[d].now /\ cpu'[d].now <= Stores(S!Index(d))'
      <4>1. d # c
        BY <2>2, <3>4
      <4>2. PICK m \in S!Buckets : m = S!Index(d)
        BY <1>1, IndexType
      <4>3. Within(cpu[d].now, m)
        BY <2>2, <3>4, <4>1, <4>2 DEF RaceInv, StoresInv
      <4>4. Stores(S!Index(d))' = Stores(m)' /\ cpu'[d] = cpu[d]
        BY <2>2, <4>1, <4>2 DEF Stores, S!Half, S!Updating
      <4> QED BY <3>2, <4>3, <4>4
    <3>5. reporter'.pc = "sent" => reporter'.value <= Stores(reporter.at)'
      <4>1. PICK a \in S!Buckets : a = reporter.at
        BY <1>1 DEF S!TypeOK
      <4>2. reporter.pc = "sent" => reporter.value <= Stores(a)
        BY <4>1 DEF RaceInv, StoresInv
      <4>3. Stores(reporter.at)' = Stores(a)'
        BY <2>1, <4>1 DEF Stores, S!Half, S!Updating
      <4> QED BY <2>1, <3>1, <4>2, <4>3
    <3> QED BY <2>1, <3>2, <3>3, <3>4, <3>5 DEF StoresInv, Within
  <2>6. Admitted'
    <3>1. ASSUME NEW m \in S!Buckets, S!Updating(m)' # {}
          PROVE  seen[m] + Cardinality(S!Updating(m)') <= MAX_RACES
      <4>1. CASE m = b
        <5>1. c \notin S!Updating(b)
          BY <2>1 DEF S!Updating
        <5>2. Cardinality(S!Updating(b) \cup {c}) = Cardinality(S!Updating(b)) + 1
          BY <5>1, SetsFinite, FS_AddElement
        <5>3. Cardinality(S!Updating(b)) \in Nat /\ seen[b] \in Nat /\ MAX_RACES \in Nat
          BY <1>1, SetsFinite, RacesAssumption DEF S!TypeOK
        <5> QED BY <2>1, <2>4, <4>1, <5>2, <5>3
      <4>2. CASE m # b
        BY <2>4, <3>1, <4>2 DEF RaceInv, Admitted
      <4> QED BY <4>1, <4>2
    <3> QED BY <2>1, <3>1 DEF Admitted
  <2>7. ~raced' => Alone'
    <3>1. SUFFICES ASSUME ~raced' PROVE Alone'
      OBVIOUS
    <3>2. Alone /\ S!Updating(b) = {}
      BY <2>1, <3>1 DEF RaceInv
    <3>3. \A d \in Cpus : d # c /\ cpu[d].pc # "idle" => S!Index(d) # b
      BY <3>2 DEF S!Updating
    <3>4. \A d \in Cpus, e \in Cpus : /\ cpu'[d].pc # "idle" /\ cpu'[e].pc # "idle"
                                      /\ S!Index(d)' = S!Index(e)'
                                      => d = e
      BY <2>2, <3>2, <3>3 DEF Alone
    <3>5. \A d \in Cpus : cpu'[d].pc # "idle" => Seen(d)'
      <4> TAKE d \in Cpus
      <4>1. CASE d = c
        BY <2>2, <4>1 DEF Seen, Taking
      <4>2. CASE d # c
        BY <2>1, <2>2, <3>2, <4>2 DEF Seen, Alone
      <4> QED BY <4>1, <4>2
    <3>6. \A m \in S!Buckets : hi'[m] # lo'[m] => \E d \in Cpus : cpu'[d].pc = "key_lo" /\ S!Index(d)' = m
      BY <2>1, <2>2, <3>2 DEF Alone
    <3> QED BY <3>4, <3>5, <3>6 DEF Alone
  <2> QED BY <2>3, <2>5, <2>6, <2>7 DEF RaceInv
<1>4. ASSUME UNCHANGED <<hi, lo, counters, cpu, updated, seen, raced>>
      PROVE  /\ Stores(reporter.at)' = Stores(reporter'.at)
             /\ S!TypeOK' /\ (reporter'.pc = "sent" => reporter'.value <= Stores(reporter'.at)) => RaceInv'
  <2>1. /\ Admitted' /\ (~raced' => Alone')
    BY <1>4 DEF RaceInv, Admitted, Alone, Seen, S!Updating, S!Index, Taking
  <2>2. /\ \A b \in S!Buckets : Within(counters[b], b)'
        /\ \A c \in Cpus : cpu'[c].pc \in {"add", "take", "reload", "sub"} => Within(cpu[c].now, S!Index(c))'
    BY <1>4 DEF RaceInv, StoresInv, Within, Stores, S!Half, S!Updating, S!Index
  <2>3. Stores(reporter.at)' = Stores(reporter'.at)
    BY <1>4 DEF Stores, S!Half, S!Updating, S!Index
  <2> QED BY <2>1, <2>2, <2>3 DEF RaceInv, StoresInv
<1>5. CASE S!get_stat_and_send_back
  <2>1. UNCHANGED <<hi, lo, counters, cpu, updated, seen, raced>>
    BY <1>5 DEF S!get_stat_and_send_back, S!Report, S!Counts
  <2> DEFINE Type == [pc : {"listen", "hi", "lo", "value", "sent"}, at : S!Buckets,
                      hi : Flows, lo : Flows, value : Int]
  <2>2. PICK m \in S!Buckets : m = reporter.at
    BY <1>1 DEF S!TypeOK
  <2>3. /\ reporter \in Type /\ hi[m] \in Flows /\ lo[m] \in Flows /\ counters[m] \in Int
        /\ S!IdleThread \in Type /\ S!IdleThread.pc = "listen"
        /\ 0 \in S!Buckets /\ ZeroKey \in Flows
        /\ S!LastBucket(m) \/ m + 1 \in S!Buckets
    <3>1. 0 \in S!Buckets /\ ZeroKey \in Flows /\ (S!LastBucket(m) \/ m + 1 \in S!Buckets)
      BY ConstantsAssumption DEF S!Buckets, S!LastBucket
    <3>2. S!IdleThread \in Type /\ S!IdleThread.pc = "listen"
      BY <3>1 DEF S!IdleThread
    <3> QED BY <1>1, <3>1, <3>2 DEF S!TypeOK
  <2>5. \/ reporter' = [S!IdleThread EXCEPT !.pc = "hi"]
        \/ reporter' = [reporter EXCEPT !.pc = "lo", !.hi = hi[m]]
        \/ reporter' = [reporter EXCEPT !.pc = "value", !.lo = lo[m]]
        \/ reporter' = [reporter EXCEPT !.pc = "sent", !.value = counters[m]]
        \/ reporter' = S!IdleThread
        \/ ~S!LastBucket(m) /\ reporter' = [S!IdleThread EXCEPT !.pc = "hi", !.at = m + 1]
    BY <1>5, <2>2 DEF S!get_stat_and_send_back, S!Report
  <2>6. /\ reporter' \in Type
        /\ reporter'.pc = "sent" => reporter'.at = m /\ reporter'.value = counters[m]
    <3> HIDE DEF Type
    <3>1. \A x \in Type, h \in Flows, v \in Int, j \in S!Buckets :
            /\ [x EXCEPT !.pc = "hi"] \in Type /\ [x EXCEPT !.pc = "hi"].pc = "hi"
            /\ [x EXCEPT !.pc = "lo", !.hi = h] \in Type /\ [x EXCEPT !.pc = "lo", !.hi = h].pc = "lo"
            /\ [x EXCEPT !.pc = "value", !.lo = h] \in Type /\ [x EXCEPT !.pc = "value", !.lo = h].pc = "value"
            /\ [x EXCEPT !.pc = "sent", !.value = v] \in Type /\ [x EXCEPT !.pc = "sent", !.value = v].at = x.at
            /\ [x EXCEPT !.pc = "sent", !.value = v].value = v
            /\ [x EXCEPT !.pc = "hi", !.at = j] \in Type /\ [x EXCEPT !.pc = "hi", !.at = j].pc = "hi"
      BY ZenonT(60) DEF Type
    <3>2. reporter.at = m /\ reporter \in Type /\ S!IdleThread \in Type
      BY <2>2, <2>3
    <3>3. CASE reporter' = [S!IdleThread EXCEPT !.pc = "hi"]
      BY <2>3, <3>1, <3>3
    <3>4. CASE reporter' = [reporter EXCEPT !.pc = "lo", !.hi = hi[m]]
      BY ZenonT(60), <2>3, <3>1, <3>4
    <3>5. CASE reporter' = [reporter EXCEPT !.pc = "value", !.lo = lo[m]]
      BY <2>3, <3>1, <3>5
    <3>6. CASE reporter' = [reporter EXCEPT !.pc = "sent", !.value = counters[m]]
      <4>1. PICK v \in Int : v = counters[m]
        BY <2>3
      <4>2. reporter' = [reporter EXCEPT !.pc = "sent", !.value = v]
        BY <3>6, <4>1
      <4>3. /\ reporter' \in Type /\ reporter'.at = reporter.at /\ reporter'.value = v
        <5>1. \A x \in Type : /\ [x EXCEPT !.pc = "sent", !.value = v] \in Type
                              /\ [x EXCEPT !.pc = "sent", !.value = v].at = x.at
                              /\ [x EXCEPT !.pc = "sent", !.value = v].value = v
          BY <4>1 DEF Type
        <5> HIDE DEF Type
        <5> QED BY ONLY <3>2, <4>2, <5>1
      <4> HIDE DEF Type
      <4>4. reporter'.at = m /\ reporter'.value = counters[m]
        BY ONLY <3>2, <4>1, <4>3
      <4> QED BY <4>3, <4>4
    <3>7. CASE reporter' = S!IdleThread
      BY <2>3, <3>7
    <3>8. CASE ~S!LastBucket(m) /\ reporter' = [S!IdleThread EXCEPT !.pc = "hi", !.at = m + 1]
      BY ZenonT(60), <2>3, <3>1, <3>8
    <3> QED BY <2>5, <3>3, <3>4, <3>5, <3>6, <3>7, <3>8
  <2>7. S!TypeOK'
    BY <1>1, <2>1, <2>6 DEF S!TypeOK
  <2>4. reporter'.pc = "sent" => reporter'.value <= Stores(reporter'.at)
    <3>1. Within(counters[m], m)
      BY DEF RaceInv, StoresInv
    <3>2. reporter'.pc = "sent" => Stores(reporter'.at) = Stores(m)
      BY <2>6 DEF Stores
    <3> QED BY <2>6, <3>1, <3>2 DEF Within
  <2> QED BY <1>4, <2>1, <2>4, <2>7
<1>6. CASE UNCHANGED SketchVars
  <2>1. UNCHANGED <<hi, lo, counters, cpu, updated, seen, raced>> /\ reporter' = reporter
    BY <1>6 DEF SketchVars
  <2>2. S!TypeOK'
    BY <1>1, <2>1 DEF S!TypeOK
  <2> QED BY <1>4, <2>1, <2>2 DEF RaceInv, StoresInv
<1> QED BY <1>2, <1>3, <1>5, <1>6 DEF S!Next

LEMMA RaceInit ==
  ASSUME S!Init
  PROVE  RaceInv
<1>1. \A b : S!Updating(b) = {} /\ S!Half(b) = {}
  BY DEF S!Init, S!IdleCpu, S!Updating, S!Half
<1>2. S!TypeOK
  <2>1. ZeroKey \in Flows /\ 0 \in S!Buckets
    BY ConstantsAssumption DEF S!Buckets
  <2>2. S!IdleCpu \in CpuType
    BY <2>1 DEF S!IdleCpu, CpuType
  <2>3. S!IdleThread \in [pc : {"listen", "hi", "lo", "value", "sent"}, at : S!Buckets,
                         hi : Flows, lo : Flows, value : Int]
    BY <2>1 DEF S!IdleThread
  <2>4. /\ hi \in [S!Buckets -> Flows] /\ lo \in [S!Buckets -> Flows]
        /\ counters \in [S!Buckets -> Int] /\ seen \in [S!Buckets -> Nat]
        /\ updated \in [Flows -> Nat]
    BY <2>1 DEF S!Init
  <2>5. raced \in BOOLEAN
    BY Zenon DEF S!Init
  <2> QED BY <2>2, <2>3, <2>4, <2>5 DEF S!Init, S!TypeOK, CpuType
<1>3. \A b \in S!Buckets : Stores(b) = 0
  BY <1>1, FS_EmptySet DEF S!Init, Stores
<1>4. StoresInv
  BY <1>3 DEF S!Init, S!IdleCpu, S!IdleThread, StoresInv, Within
<1>5. Admitted /\ Alone
  BY <1>1 DEF S!Init, S!IdleCpu, Admitted, Alone
<1> QED BY <1>2, <1>4, <1>5 DEF RaceInv

\* The bound on racing updates.
LEMMA TrafficOfRaceInv ==
  ASSUME RaceInv
  PROVE  S!TrafficInv
<1>1. \A b \in S!Buckets : \A n \in Int : Within(n, b) =>
        LET most == seen[b] + S!Cardinality(S!Updating(b)) IN -most <= n /\ n <= most
  <2> TAKE b \in S!Buckets
  <2> TAKE n \in Int
  <2>1. seen[b] \in Nat
    BY DEF RaceInv, S!TypeOK
  <2> QED BY <2>1, SetsFinite, SameCardinality DEF Within, Stores
<1>2. /\ \A b \in S!Buckets : counters[b] \in Int /\ Within(counters[b], b)
      /\ reporter.at \in S!Buckets /\ reporter.value \in Int
      /\ reporter.pc = "sent" => reporter.value <= Stores(reporter.at)
  BY DEF RaceInv, S!TypeOK, StoresInv
<1>3. reporter.pc = "sent" => reporter.value <= seen[reporter.at] + S!Cardinality(S!Updating(reporter.at))
  <2>1. PICK b \in S!Buckets : b = reporter.at
    BY <1>2
  <2>2. /\ Stores(b) \in Int /\ Stores(b) <= seen[b] + S!Cardinality(S!Updating(b)) /\ seen[b] \in Nat
        /\ S!Cardinality(S!Updating(b)) \in Nat
    BY SetsFinite, SameCardinality DEF RaceInv, S!TypeOK, Stores
  <2> QED BY <1>2, <2>1, <2>2
<1> QED BY <1>1, <1>2, <1>3 DEF S!TrafficInv, S!WithinTraffic, RaceInv

-----------------------------------------------------------------------------
(* Updates that do not race are those of CountMax. *)

\* The line as CountMax has it.
Told == [b \in S!Buckets |-> IF S!Half(b) = {} THEN counters[b]
                             ELSE cpu[CHOOSE c \in S!Half(b) : TRUE].now]
AsLine == [keys |-> lo, counters |-> Told]

LEMMA LineVars == S!CM!vars = << <<AsLine>>, updated, seen >>
  BY DEF S!CM!vars, AsLine, Told

\* While nobody is half way through a take-over, the counter is the one of CountMax;
\* otherwise CountMax has the one that was found.
ToldRight ==
  \A b \in S!Buckets :
    /\ (\A c \in Cpus : S!Index(c) = b => cpu[c].pc \notin Taking) => Told[b] = counters[b]
    /\ \A c \in Cpus : S!Index(c) = b /\ cpu[c].pc \in Taking => Told[b] = cpu[c].now
LEMMA ToldOf == S!TypeOK /\ Alone => ToldRight
<1> SUFFICES ASSUME S!TypeOK, Alone, NEW b \in S!Buckets
             PROVE  /\ (\A c \in Cpus : S!Index(c) = b => cpu[c].pc \notin Taking) => Told[b] = counters[b]
                    /\ \A c \in Cpus : S!Index(c) = b /\ cpu[c].pc \in Taking => Told[b] = cpu[c].now
  BY DEF ToldRight
<1>1. Told[b] = IF S!Half(b) = {} THEN counters[b] ELSE cpu[CHOOSE c \in S!Half(b) : TRUE].now
  BY DEF Told
<1>2. \A d : d \in S!Half(b) <=> d \in Cpus /\ S!Index(d) = b /\ cpu[d].pc \in Taking
  BY DEF S!Half, S!Updating, Taking
<1>3. ASSUME NEW c \in Cpus, S!Index(c) = b, cpu[c].pc \in Taking
      PROVE  Told[b] = cpu[c].now
  <2>1. S!Half(b) = {c}
    BY <1>2, <1>3 DEF Alone, Taking
  <2>2. (CHOOSE d \in S!Half(b) : TRUE) = c
    BY <2>1
  <2> QED BY <1>1, <2>1, <2>2
<1>4. (\A c \in Cpus : S!Index(c) = b => cpu[c].pc \notin Taking) => Told[b] = counters[b]
  BY <1>1, <1>2
<1> QED BY <1>3, <1>4

\* A step that counts no packet shows nothing.
LEMMA UpdateRefines ==
  ASSUME RaceInv, ~raced, NEW c \in Cpus, S!Update(c)
  PROVE  [S!CM!Next]_(S!CM!vars)
<1>1. S!TypeOK /\ Alone /\ Moves(c) /\ S!TypeOK' /\ Alone'
  BY UpdateMoves, AloneUpdate DEF RaceInv
<1>b. PICK b \in S!Buckets : b = S!Index(c)
  BY <1>1, IndexType
<1>k. PICK k \in Flows : k = cpu[c].key
  BY <1>1, IndexType DEF CpuType
<1>2. Seen(c) /\ cpu[c].pc # "idle" /\ b = Hash[k]
  BY <1>1, <1>b, <1>k DEF Alone, Moves, S!Index
<1>3. \A m \in S!Buckets : m # b => Told'[m] = Told[m] /\ lo'[m] = lo[m]
  <2> SUFFICES ASSUME NEW m \in S!Buckets, m # b PROVE Told'[m] = Told[m] /\ lo'[m] = lo[m]
    OBVIOUS
  <2>1. lo'[m] = lo[m] /\ counters'[m] = counters[m]
    BY <1>1, <1>b, UpdateEffect
  <2>2. S!Half(m)' = S!Half(m) /\ c \notin S!Half(m)
    BY ZenonT(60), <1>1, <1>b, SetsStep
  <2>3. \A d \in S!Half(m) : cpu'[d] = cpu[d]
    BY <1>1, <2>2 DEF Moves, S!Half, S!Updating
  <2>4. S!Half(m) # {} => (CHOOSE d \in S!Half(m) : TRUE) \in S!Half(m)
    OBVIOUS
  <2>5. /\ Told[m] = IF S!Half(m) = {} THEN counters[m] ELSE cpu[CHOOSE d \in S!Half(m) : TRUE].now
        /\ Told'[m] = IF S!Half(m)' = {} THEN counters'[m] ELSE cpu'[CHOOSE d \in S!Half(m)' : TRUE].now
    BY DEF Told
  <2> QED BY <2>1, <2>2, <2>3, <2>4, <2>5
<1>4. /\ Told[b] = IF cpu[c].pc \in Taking THEN cpu[c].now ELSE counters[b]
      /\ cpu'[c].pc \in Taking => Told'[b] = cpu'[c].now
      /\ cpu'[c].pc \notin Taking => Told'[b] = counters'[b]
  <2>1. ToldRight /\ ToldRight'
    <3>1. (S!TypeOK /\ Alone => ToldRight)'
      BY ToldOf, PTL
    <3> QED BY <1>1, <3>1, ToldOf
  <2>2. /\ \A d \in Cpus : d # c => S!Index(d)' = S!Index(d) /\ cpu'[d] = cpu[d]
        /\ cpu'[c].pc # "idle" => S!Index(c)' = b
    BY <1>1, <1>b DEF Moves, S!Index
  <2>3. \A d \in Cpus : d # c /\ S!Index(d) = b => cpu[d].pc = "idle"
    BY <1>1, <1>2, <1>b DEF Alone
  <2>4. "idle" \notin Taking
    BY DEF Taking
  <2>5. \A d \in Cpus : d # c /\ S!Index(d)' = b => cpu'[d].pc \notin Taking
    BY <2>2, <2>3, <2>4
  <2>6. Told[b] = IF cpu[c].pc \in Taking THEN cpu[c].now ELSE counters[b]
    BY <1>b, <2>1, <2>3, <2>4 DEF ToldRight
  <2>7. cpu'[c].pc \in Taking => Told'[b] = cpu'[c].now
    BY <2>1, <2>2, <2>4 DEF ToldRight
  <2>8. cpu'[c].pc \notin Taking => Told'[b] = counters'[b]
    BY <2>1, <2>5 DEF ToldRight
  <2> QED BY <2>6, <2>7, <2>8
<1>5. CASE cpu'[c].pc # "idle"
  <2>1. lo'[b] = lo[b] /\ Told'[b] = Told[b]
    <3>1. CASE cpu[c].pc = "take"
      BY ZenonT(60), <3>1, <1>b, <1>1, <1>2, <1>4, UpdateEffect DEF Seen, Taking
    <3>2. CASE cpu[c].pc = "key_hi"
      BY <3>2, <1>b, <1>1, <1>4, UpdateEffect DEF Taking
    <3>3. CASE cpu[c].pc \notin {"take", "key_hi"}
      <4>1. cpu[c].pc \notin Taking /\ cpu'[c].pc \notin Taking /\ lo'[b] = lo[b] /\ counters'[b] = counters[b]
        BY <1>5, <3>3, <1>b, <1>1, UpdateEffect DEF Taking
      <4> QED BY <1>4, <4>1
    <3> QED BY <3>1, <3>2, <3>3
  <2>2. lo' = lo /\ Told' = Told
    <3>1. /\ lo \in [S!Buckets -> Flows] /\ lo' \in [S!Buckets -> Flows]
          /\ \A m \in S!Buckets : lo'[m] = lo[m] /\ Told'[m] = Told[m]
      BY <1>1, <1>3, <2>1 DEF S!TypeOK
    <3>2. Told' = [m \in S!Buckets |-> Told'[m]] /\ Told = [m \in S!Buckets |-> Told[m]]
      BY DEF Told
    <3> QED BY <3>1, <3>2
  <2>3. updated' = updated /\ seen' = seen
    BY <1>1, <1>5 DEF Moves
  <2>4. (S!CM!vars = << <<AsLine>>, updated, seen >>)'
    BY LineVars, PTL
  <2>5. AsLine' = AsLine
    BY <2>2 DEF AsLine
  <2>6. << <<AsLine>>, updated, seen >>' = << <<AsLine>>, updated, seen >>
    BY <2>3, <2>5
  <2> QED BY <2>4, <2>6, LineVars
<1>6. CASE cpu'[c].pc = "idle"
  <2>1. /\ lo'[b] = IF S!CM!TakesOver(AsLine, b, k, 1) THEN k ELSE lo[b]
        /\ Told'[b] = S!CM!Counted(AsLine, b, k, 1)
    <3>1. AsLine.keys[b] = lo[b] /\ AsLine.counters[b] = Told[b] /\ cpu[c].now \in Int
      BY <1>1, IndexType DEF AsLine, CpuType
    <3>2. CASE cpu[c].pc = "add"
      <4>1. counters'[b] = cpu[c].now + 1 /\ lo'[b] = lo[b]
        BY <3>2, <1>b, <1>1, UpdateEffect
      <4>2. lo[b] = k /\ counters[b] = cpu[c].now
        BY <3>2, <1>b, <1>k, <1>2 DEF Seen
      <4>3. Told[b] = cpu[c].now /\ Told'[b] = cpu[c].now + 1
        BY <3>2, <1>4, <1>6, <4>1, <4>2 DEF Taking
      <4> QED BY <3>1, <4>1, <4>2, <4>3 DEF S!CM!TakesOver, S!CM!Counted
    <3>3. CASE cpu[c].pc = "key_lo"
      <4>1. counters'[b] = counters[b] /\ lo'[b] = k
        BY <3>3, <1>b, <1>k, <1>1, UpdateEffect
      <4>2. lo[b] # k /\ 1 > cpu[c].now /\ counters[b] = 1 - cpu[c].now
        BY <3>3, <1>b, <1>k, <1>2 DEF Seen, Taking
      <4>3. Told[b] = cpu[c].now /\ Told'[b] = 1 - cpu[c].now
        BY <3>3, <1>4, <1>6, <4>1, <4>2 DEF Taking
      <4> QED BY <3>1, <4>1, <4>2, <4>3 DEF S!CM!TakesOver, S!CM!Counted
    <3>4. CASE cpu[c].pc = "sub"
      <4>1. counters'[b] = cpu[c].now - 1 /\ lo'[b] = lo[b]
        BY <3>4, <1>b, <1>1, UpdateEffect
      <4>2. lo[b] # k /\ ~(1 > cpu[c].now) /\ counters[b] = cpu[c].now
        BY <3>4, <1>b, <1>k, <1>2 DEF Seen
      <4>3. Told[b] = cpu[c].now /\ Told'[b] = cpu[c].now - 1
        BY <3>4, <1>4, <1>6, <4>1, <4>2 DEF Taking
      <4> QED BY <3>1, <4>1, <4>2, <4>3 DEF S!CM!TakesOver, S!CM!Counted
    <3>5. cpu[c].pc \in {"add", "key_lo", "sub"}
      BY <1>6, <1>b, <1>1, UpdateEffect
    <3> QED BY <3>2, <3>3, <3>4, <3>5
  <2>2. AsLine' = S!CM!countmax_line_update(AsLine, k, 1)
    <3>1. /\ lo \in [S!Buckets -> Flows] /\ lo' \in [S!Buckets -> Flows]
          /\ \A m \in S!Buckets : m # b => lo'[m] = lo[m] /\ Told'[m] = Told[m]
      BY <1>1, <1>3 DEF S!TypeOK
    <3>2. Told' = [m \in S!Buckets |-> Told'[m]] /\ Told = [m \in S!Buckets |-> Told[m]]
      BY DEF Told
    <3>3. /\ lo' = [lo EXCEPT ![b] = IF S!CM!TakesOver(AsLine, b, k, 1) THEN k ELSE @]
          /\ Told' = [Told EXCEPT ![b] = S!CM!Counted(AsLine, b, k, 1)]
      BY <2>1, <3>1, <3>2
    <3>4. AsLine' = [keys |-> lo', counters |-> Told']
      BY DEF AsLine
    <3>5. AsLine.keys = lo /\ AsLine.counters = Told
      BY DEF AsLine
    <3> QED BY <1>2, <3>3, <3>4, <3>5 DEF S!CM!countmax_line_update
  <2>3. seen[b] < MAX_RACES
    <3>1. c \in S!Updating(b)
      BY <1>b, <1>2 DEF S!Updating
    <3>2. seen[b] + Cardinality(S!Updating(b)) <= MAX_RACES
      BY <3>1 DEF RaceInv, Admitted
    <3>3. Cardinality(S!Updating(b)) \in Nat \ {0} /\ seen[b] \in Nat
      BY <1>1, <3>1, SetsFinite, FS_EmptySet DEF S!TypeOK
    <3> QED BY <3>2, <3>3, RacesAssumption
  <2>4. S!CM!countmax_sketch_update(k, 1)
    <3>1. << <<AsLine>> >>' = << [l \in S!CM!Lines |-> S!CM!countmax_line_update(<<AsLine>>[l], k, 1)] >>
      BY <2>2 DEF S!CM!Lines
    <3>2. updated' = [updated EXCEPT ![k] = @ + 1] /\ seen' = [seen EXCEPT ![b] = @ + 1]
      BY <1>1, <1>6, <1>b, <1>k DEF Moves
    <3> QED BY <1>2, <2>3, <3>1, <3>2 DEF S!CM!countmax_sketch_update, AsLine, Told
  <2> QED BY <2>4 DEF S!CM!Next
<1> QED BY <1>5, <1>6

\* Neither does what the thread reads, or a packet that begins, and the line begins empty.
LEMMA StepRefines ==
  ASSUME RaceInv, [S!Next]_SketchVars
  PROVE  ~raced' => [S!CM!Next]_(S!CM!vars)
<1>1. SUFFICES ASSUME ~raced' PROVE [S!CM!Next]_(S!CM!vars)
  OBVIOUS
<1>2. CASE \E c \in Cpus : S!Update(c)
  <2>1. PICK c \in Cpus : S!Update(c)
    BY <1>2
  <2>2. ~raced
    BY <1>1, <2>1, UpdateMoves DEF RaceInv
  <2> QED BY <2>1, <2>2, UpdateRefines
<1>3. ASSUME lo' = lo /\ counters' = counters /\ updated' = updated /\ seen' = seen,
             \A b \in S!Buckets : S!Half(b)' = S!Half(b) /\ \A d \in S!Half(b) : cpu'[d] = cpu[d]
      PROVE  UNCHANGED S!CM!vars
  <2>1. Told' = Told
    <3>1. \A b \in S!Buckets : S!Half(b) # {} => (CHOOSE d \in S!Half(b) : TRUE) \in S!Half(b)
      OBVIOUS
    <3>2. ASSUME NEW b \in S!Buckets PROVE Told'[b] = Told[b]
      <4>1. /\ Told[b] = IF S!Half(b) = {} THEN counters[b] ELSE cpu[CHOOSE d \in S!Half(b) : TRUE].now
            /\ Told'[b] = IF S!Half(b)' = {} THEN counters'[b] ELSE cpu'[CHOOSE d \in S!Half(b)' : TRUE].now
        BY DEF Told
      <4> QED BY <1>3, <3>1, <4>1
    <3>3. Told' = [m \in S!Buckets |-> Told'[m]] /\ Told = [m \in S!Buckets |-> Told[m]]
      BY DEF Told
    <3> QED BY <3>2, <3>3
  <2>2. << <<AsLine>>, updated, seen >>' = << <<AsLine>>, updated, seen >>
    BY <1>3, <2>1 DEF AsLine
  <2>3. (S!CM!vars = << <<AsLine>>, updated, seen >>)'
    BY LineVars, PTL
  <2> QED BY <2>2, <2>3, LineVars
<1>4. ASSUME NEW c \in Cpus, NEW k \in Flows, S!my_label_sketch(c, k)
      PROVE  UNCHANGED S!CM!vars
  <2>1. /\ lo' = lo /\ counters' = counters /\ updated' = updated /\ seen' = seen
        /\ cpu[c].pc = "idle" /\ cpu' = [cpu EXCEPT ![c] = [S!IdleCpu EXCEPT !.pc = "equal_hi", !.key = k]]
    BY <1>4 DEF S!my_label_sketch
  <2>2. [S!IdleCpu EXCEPT !.pc = "equal_hi", !.key = k].pc = "equal_hi"
    BY DEF S!IdleCpu
  <2>3. /\ \A d \in Cpus : d # c => cpu'[d] = cpu[d] /\ S!Index(d)' = S!Index(d)
        /\ cpu'[c].pc = "equal_hi"
    BY <2>1, <2>2 DEF RaceInv, S!TypeOK, S!Index
  <2>4. \A b \in S!Buckets : S!Half(b)' = S!Half(b) /\ \A d \in S!Half(b) : cpu'[d] = cpu[d]
    BY <2>1, <2>3 DEF S!Half, S!Updating
  <2> QED BY <1>3, <2>1, <2>4
<1>5. CASE S!get_stat_and_send_back \/ UNCHANGED SketchVars
  <2>1. lo' = lo /\ counters' = counters /\ updated' = updated /\ seen' = seen /\ cpu' = cpu
    BY <1>5 DEF S!get_stat_and_send_back, S!Report, S!Counts, SketchVars
  <2>2. \A b \in S!Buckets : S!Half(b)' = S!Half(b) /\ \A d \in S!Half(b) : cpu'[d] = cpu[d]
    BY <2>1 DEF S!Half, S!Updating, S!Index
  <2> QED BY <1>3, <2>1, <2>2
<1> QED BY <1>2, <1>4, <1>5 DEF S!Next

LEMMA InitRefines ==
  ASSUME S!Init
  PROVE  S!CM!Init
<1>1. \A b : S!Half(b) = {}
  BY DEF S!Init, S!IdleCpu, S!Updating, S!Half
<1>2. AsLine = S!CM!new_countmax_line
  BY <1>1 DEF AsLine, Told, S!Init, S!CM!new_countmax_line, S!CM!Buckets, S!Buckets
<1>3. << AsLine >> = [l \in S!CM!Lines |-> S!CM!new_countmax_line]
  BY <1>2 DEF S!CM!Lines
<1> QED BY <1>3 DEF S!CM!Init, AsLine, Told, S!Init, S!CM!Buckets, S!Buckets

\* Each part takes its own steps.
LEMMA SketchSteps ==
  /\ PartInit => S!Init
  /\ [PartNext]_Parts => [S!Next]_SketchVars
<1>1. PartInit => S!Init
  BY DEF PartInit
<1>2. [PartNext]_Parts => [S!Next]_SketchVars
  BY DEF PartNext, Parts
<1> QED BY <1>1, <1>2

\* The inductive invariant of updates without a lock.
THEOREM RaceInductive == PartSpec => []RaceInv
<1>1. PartInit => RaceInv
  BY SketchSteps, RaceInit
<1>2. RaceInv /\ [PartNext]_Parts => RaceInv'
  BY SketchSteps, RaceStep
<1> QED BY <1>1, <1>2, PTL DEF PartSpec

\* Racing updates never blow a counter up (countmax_line_update).
THEOREM TrafficBounded == PartSpec => []TrafficInv
<1>1. RaceInv => TrafficInv
  BY TrafficOfRaceInv DEF TrafficInv
<1> QED BY <1>1, RaceInductive, PTL

\* Until two CPUs meet in a bucket, concurrent updates are those of CountMax, one after the
\* other (countmax_line_update).
THEOREM RacelessIsCountMax == PartSpec => ImplementsCountMax
<1>1. PartInit => S!CM!Init
  BY SketchSteps, InitRefines
<1>2. RaceInv /\ [PartNext]_Parts => [part = "races" => S!UpdatesOfCountMax]_Parts
  BY SketchSteps, StepRefines DEF S!UpdatesOfCountMax
<1> QED BY <1>1, <1>2, RaceInductive, PTL DEF PartSpec, ImplementsCountMax

-----------------------------------------------------------------------------
(* Loading and unloading (SketchModule). *)

UpTo(n) == {M!Steps[i] : i \in 1 .. n}

LoadType == [pc : {"out", "init", "in", "undo", "cleanup", "dead"}, at : 0 .. 12, failed : BOOLEAN]
ThreadType == [pc : {"none", "started", "loop", "recv", "report", "ended", "dead"},
               at : {0} \cup M!Switches, sock : {"none", "own", "stray"}, buf : BOOLEAN, stop : BOOLEAN]

\* What is set up follows from the progress of dp_init(), of its labels or of dp_cleanup();
\* only the last steps of the first can kill its task, and the first step of the last.
UpInv ==
  /\ load.failed => load.pc \in {"undo", "out"}
  /\ load.pc = "out" => load.at = 0 /\ up = {}
  /\ load.pc = "init" => load.at > 0 /\ up = UpTo(load.at - 1)
  /\ load.pc = "in" => load.at = 12 /\ up = UpTo(12)
  /\ load.pc = "cleanup" => up = UpTo(load.at)
  /\ load.pc = "undo" => load.failed /\ load.at <= 9 /\ up = UpTo(load.at)
  /\ load.pc = "dead" => load.at >= 11 /\ (up = UpTo(load.at - 1) \/ up = UpTo(load.at))

\* The sketches are there while the step that made them is up, and otherwise only when the
\* task that made them was killed; the thread runs only between the last step and the first
\* of dp_cleanup(), which waits for it, and has reported whole sketches; there are datapaths
\* while their namespaces are registered, and callbacks until the barrier.
RestInv ==
  /\ "filter_sketch" \in up => \A i \in M!Egress : M!Held(sketch[i])
  /\ \/ "filter_sketch" \in up
     \/ load.pc = "dead"
     \/ \A i \in M!Switches : ~M!Held(sketch[i])
  /\ thread.pc \notin {"none", "ended", "dead"} => load.pc = "in" \/ (load.pc = "cleanup" /\ load.at = 12)
  /\ thread.pc = "report" => \A i \in M!Egress : i < thread.at => sketch[i] = "made"
  /\ dps => "pernet" \in up
  /\ callbacks > 0 /\ ~load.failed => "vport" \in up

ModuleType ==
  /\ load \in LoadType /\ sketch \in [M!Switches -> M!Sketches] /\ thread \in ThreadType
  /\ dps \in BOOLEAN /\ callbacks \in Nat

ModuleInv == ModuleType /\ UpInv /\ RestInv

\* The steps are different.
LEMMA StepsAre ==
  /\ DOMAIN M!Steps = 1 .. 12 /\ Len(M!Steps) = 12
  /\ M!Steps[3] = "flow" /\ M!Steps[4] = "vport" /\ M!Steps[5] = "pernet"
  /\ M!Steps[9] = "dp_family" /\ M!Steps[11] = "filter_sketch" /\ M!Steps[12] = "report"
  /\ \A i, j \in 1 .. 12 : M!Steps[i] = M!Steps[j] => i = j
<1>1. /\ M!Steps[1] = "action_fifos" /\ M!Steps[2] = "rtnl_link" /\ M!Steps[3] = "flow" /\ M!Steps[4] = "vport"
      /\ M!Steps[5] = "pernet" /\ M!Steps[6] = "compat" /\ M!Steps[7] = "notifier" /\ M!Steps[8] = "netdev"
      /\ M!Steps[9] = "dp_family" /\ M!Steps[10] = "genl" /\ M!Steps[11] = "filter_sketch"
      /\ M!Steps[12] = "report"
  BY DEF M!Steps
<1>2. DOMAIN M!Steps = 1 .. 12 /\ Len(M!Steps) = 12
  BY DEF M!Steps
<1>3. \A i \in 1 .. 12 : i = 1 \/ i = 2 \/ i = 3 \/ i = 4 \/ i = 5 \/ i = 6 \/ i = 7 \/ i = 8 \/ i = 9
                         \/ i = 10 \/ i = 11 \/ i = 12
  OBVIOUS
<1>4. \A i, j \in 1 .. 12 : M!Steps[i] = M!Steps[j] => i = j
  BY <1>1, <1>3
<1> QED BY <1>1, <1>2, <1>4

\* How the set of steps that are up changes with the progress.
LEMMA UpToStep ==
  ASSUME NEW n \in 1 .. 12
  PROVE  /\ UpTo(n) = UpTo(n - 1) \cup {M!Steps[n]}
         /\ UpTo(n) \ {M!Steps[n]} = UpTo(n - 1)
         /\ UpTo(0) = {}
<1>1. \A m \in 0 .. 12 : \A x : x \in UpTo(m) <=> \E i \in 1 .. m : x = M!Steps[i]
  BY DEF UpTo
<1>2. \A i \in 1 .. n : i = n \/ i \in 1 .. n - 1
  OBVIOUS
<1>3. \A i \in 1 .. n - 1 : M!Steps[i] # M!Steps[n]
  BY StepsAre
<1> QED BY <1>1, <1>2, <1>3

LEMMA InUpTo ==
  ASSUME NEW n \in 0 .. 12, NEW m \in 1 .. 12
  PROVE  M!Steps[m] \in UpTo(n) <=> m <= n
<1>1. \A i \in 1 .. n : M!Steps[m] = M!Steps[i] => i = m
  BY StepsAre
<1>2. M!Steps[m] \in UpTo(n) <=> \E i \in 1 .. n : M!Steps[m] = M!Steps[i]
  BY DEF UpTo
<1> QED BY <1>1, <1>2

LEMMA SwitchTypes ==
  /\ M!Switches = 1 .. 6 /\ M!Egress = {5, 6} /\ Len(M!switch_types) = 6
  /\ \A i \in M!Switches : M!switch_types[i] # "ingress" <=> i \notin {3, 4}
<1>1. /\ DOMAIN M!switch_types = 1 .. 6
      /\ M!switch_types[1] = "filter" /\ M!switch_types[2] = "filter" /\ M!switch_types[3] = "ingress"
      /\ M!switch_types[4] = "ingress" /\ M!switch_types[5] = "egress" /\ M!switch_types[6] = "egress"
      /\ Len(M!switch_types) = 6
  BY DEF M!switch_types
<1>2. \A i \in 1 .. 6 : i = 1 \/ i = 2 \/ i = 3 \/ i = 4 \/ i = 5 \/ i = 6
  OBVIOUS
<1> QED BY <1>1, <1>2 DEF M!Switches, M!Egress

\* What is up is what some first steps set up.
LEMMA UpIsUpTo ==
  ASSUME load \in LoadType, UpInv
  PROVE  \E n \in 0 .. 12 : up = UpTo(n)
<1>1. load.at \in 0 .. 12 /\ load.pc \in {"out", "init", "in", "undo", "cleanup", "dead"}
  BY DEF LoadType
<1>2. UpTo(0) = {}
  BY UpToStep
<1>3. CASE load.pc \in {"out", "in", "undo", "cleanup"}
  BY <1>1, <1>2, <1>3 DEF UpInv
<1>4. CASE load.pc = "init"
  BY <1>1, <1>4 DEF UpInv
<1>5. CASE load.pc = "dead"
  BY <1>1, <1>5 DEF UpInv
<1> QED BY <1>1, <1>3, <1>4, <1>5

LEMMA ModuleInit ==
  ASSUME M!Init
  PROVE  ModuleInv
<1>1. load = [pc |-> "out", at |-> 0, failed |-> FALSE] /\ up = {} /\ thread = M!NoThread /\ dps = FALSE /\ callbacks = 0
      /\ sketch = [i \in M!Switches |-> "null"]
  BY DEF M!Init
<1>2. ModuleType
  <2>1. load \in LoadType
    BY <1>1 DEF LoadType
  <2>2. thread \in ThreadType
    BY <1>1 DEF M!NoThread, ThreadType
  <2> QED BY <1>1, <2>1, <2>2 DEF ModuleType, M!Sketches
<1>3. UpInv
  BY <1>1 DEF UpInv
<1>4. RestInv
  BY <1>1 DEF RestInv, M!NoThread, M!Held
<1> QED BY <1>2, <1>3, <1>4 DEF ModuleInv

\* The step at the progress of the load.
LEMMA StepAt ==
  ASSUME load \in LoadType
  PROVE  /\ load.at = 0 => M!Step = "none"
         /\ load.at > 0 => M!Step = M!Steps[load.at]
         /\ load.at > 0 => /\ M!Step = "flow" <=> load.at = 3
                           /\ M!Step = "vport" <=> load.at = 4
                           /\ M!Step = "pernet" <=> load.at = 5
                           /\ M!Step = "filter_sketch" <=> load.at = 11
                           /\ M!Step = "report" <=> load.at = 12
<1>1. load.at \in 0 .. 12
  BY DEF LoadType
<1>2. load.at = 0 => M!Step = "none"
  BY DEF M!Step
<1>3. load.at > 0 => M!Step = M!Steps[load.at]
  BY DEF M!Step
<1> QED BY <1>1, <1>2, <1>3, StepsAre

\* One more step is up.
LEMMA Advanced ==
  ASSUME ModuleInv, load.pc = "init", M!Advance
  PROVE  /\ load' \in LoadType /\ UpInv' /\ up' = up \cup {M!Step}
         /\ load'.failed = load.failed /\ ~load.failed
         /\ load'.pc = "in" <=> load.at = 12
         /\ load'.pc \in {"init", "in"}
<1>1. load \in LoadType /\ load.at \in 1 .. 12 /\ up = UpTo(load.at - 1) /\ ~load.failed
  BY DEF ModuleInv, ModuleType, UpInv, LoadType
<1>p. PICK n \in 1 .. 12 : n = load.at
  BY <1>1
<1>2. up' = UpTo(n) /\ up' = up \cup {M!Step}
  BY <1>1, <1>p, StepAt, UpToStep DEF M!Advance
<1>3. /\ \A x \in LoadType : /\ [x EXCEPT !.pc = "in"] \in LoadType /\ [x EXCEPT !.pc = "in"].pc = "in"
                             /\ [x EXCEPT !.pc = "in"].at = x.at /\ [x EXCEPT !.pc = "in"].failed = x.failed
      /\ \A x \in LoadType : x.at < 12 =>
                             /\ [x EXCEPT !.at = @ + 1] \in LoadType /\ [x EXCEPT !.at = @ + 1].pc = x.pc
                             /\ [x EXCEPT !.at = @ + 1].at = x.at + 1 /\ [x EXCEPT !.at = @ + 1].failed = x.failed
  BY DEF LoadType
<1>4. CASE n = 12
  <2>1. load' = [load EXCEPT !.pc = "in"]
    BY <1>4, <1>p, StepsAre DEF M!Advance
  <2>2. load' \in LoadType /\ load'.pc = "in" /\ load'.at = 12 /\ load'.failed = load.failed
    BY <1>1, <1>3, <1>4, <1>p, <2>1
  <2> QED BY <1>1, <1>2, <1>4, <1>p, <2>2 DEF UpInv, UpTo
<1>5. CASE n # 12
  <2>1. load' = [load EXCEPT !.at = @ + 1]
    BY <1>5, <1>p, StepsAre DEF M!Advance
  <2>2. load' \in LoadType /\ load'.pc = "init" /\ load'.at = n + 1 /\ load'.failed = load.failed
    BY <1>1, <1>3, <1>5, <1>p, <2>1
  <2> QED BY <1>1, <1>2, <1>5, <1>p, <2>2 DEF UpInv, UpTo
<1> QED BY <1>4, <1>5

\* A task that is killed leaves everything as it is.
LEMMA Killed ==
  ASSUME ModuleInv, M!Oops, load.at >= 11, load.pc \in {"init", "in"}
  PROVE  /\ load' \in LoadType /\ UpInv' /\ up' = up
         /\ load'.pc = "dead" /\ ~load'.failed /\ ~load.failed
<1>1. load \in LoadType /\ UpInv /\ up' = up /\ load' = [load EXCEPT !.pc = "dead"]
  BY DEF ModuleInv, ModuleType, M!Oops
<1>2. \A x \in LoadType :
        /\ [x EXCEPT !.pc = "dead"] \in LoadType /\ [x EXCEPT !.pc = "dead"].pc = "dead"
        /\ [x EXCEPT !.pc = "dead"].at = x.at /\ [x EXCEPT !.pc = "dead"].failed = x.failed
  BY DEF LoadType
<1>3. load' \in LoadType /\ load'.pc = "dead" /\ load'.at = load.at /\ load'.failed = load.failed
  BY <1>1, <1>2
<1>4. ~load.failed
  BY <1>1 DEF UpInv
<1>5. up = UpTo(load.at - 1) \/ up = UpTo(load.at)
  BY <1>1 DEF UpInv
<1>6. UpInv'
  BY <1>1, <1>3, <1>4, <1>5 DEF UpInv, UpTo
<1> QED BY <1>1, <1>3, <1>4, <1>6

\* The sketches after init_filter_sketch() and after clean_filter_sketch().
LEMMA BuiltAndFreed ==
  ASSUME sketch \in [M!Switches -> M!Sketches]
  PROVE  /\ \A n \in Int : \A s \in M!Built(n) : s \in [M!Switches -> M!Sketches]
         /\ \A s \in M!Built(Len(M!switch_types)), i \in M!Egress : M!Held(s[i])
         /\ M!Freed \in [M!Switches -> M!Sketches]
         /\ \A i \in M!Switches : ~M!Held(M!Freed[i])
<1>1. ASSUME NEW n \in Int, NEW s \in M!Built(n)
      PROVE  s \in [M!Switches -> M!Sketches]
  BY <1>1 DEF M!Built, M!Sketches
<1>2. ASSUME NEW s \in M!Built(Len(M!switch_types)), NEW i \in M!Egress
      PROVE  M!Held(s[i])
  <2>1. i \in M!Switches /\ i <= 6 /\ M!switch_types[i] # "ingress"
    BY SwitchTypes
  <2>2. s[i] \in {"null", "made", "half"} /\ s[i] # "null"
    BY <2>1, SwitchTypes DEF M!Built
  <2> QED BY <2>2 DEF M!Held
<1>3. M!Freed \in [M!Switches -> M!Sketches]
  BY DEF M!Freed, M!Sketches
<1>4. \A i \in M!Switches : ~M!Held(M!Freed[i])
  BY DEF M!Freed, M!Held
<1> QED BY <1>1, <1>2, <1>3, <1>4

LEMMA LoadStep ==
  ASSUME ModuleInv,
         M!insmod \/ M!register \/ M!init_filter_sketch \/ M!sketch_report_init
  PROVE  ModuleInv'
<1> USE DEF ModuleInv, ModuleType
<1>0. load \in LoadType /\ load.at \in 0 .. 12 /\ UpInv /\ RestInv
  BY DEF LoadType
<1>1. CASE M!insmod
  <2>1. load' \in LoadType /\ load'.pc = "init" /\ load'.at = 1 /\ ~load'.failed /\ up' = {}
        /\ load.pc = "out" /\ ~load.failed /\ up = {}
    BY <1>1 DEF M!insmod, LoadType
  <2>2. UpInv'
    BY <2>1, UpToStep DEF UpInv
  <2>3. RestInv'
    BY <1>0, <1>1, <2>1 DEF RestInv, M!insmod
  <2> QED BY <1>1, <2>1, <2>2, <2>3 DEF M!insmod
<1>2. CASE M!register /\ M!Advance
  <2>1. load.pc = "init" /\ UNCHANGED <<sketch, thread, conns, dps, callbacks>>
    BY <1>2 DEF M!register
  <2>2. load' \in LoadType /\ UpInv' /\ up \subseteq up' /\ ~load.failed /\ ~load'.failed
    BY <1>2, <2>1, Advanced
  <2>4. load.at # 11
    BY <1>0, <1>2, <2>1, StepAt DEF M!register
  <2>5. "filter_sketch" \in up' => "filter_sketch" \in up
    BY <1>0, <1>2, <2>1, <2>4, Advanced, StepAt, StepsAre DEF M!register
  <2>6. RestInv'
    BY <1>0, <2>1, <2>2, <2>5 DEF RestInv
  <2> QED BY <2>1, <2>2, <2>6
<1>3. CASE M!register /\ ~M!Advance
  <2>1. /\ load.pc = "init" /\ UNCHANGED <<up, sketch, thread, conns, dps, callbacks>>
        /\ load' = [load EXCEPT !.pc = "undo", !.at = @ - 1, !.failed = TRUE]
        /\ M!Step # "filter_sketch" /\ M!Step # "report"
    BY <1>3 DEF M!register
  <2>2. load.at > 0 /\ load.at < 11 /\ up = UpTo(load.at - 1)
    BY <1>0, <2>1, StepAt DEF UpInv
  <2>3. \A x \in LoadType : x.at > 0 =>
          LET y == [x EXCEPT !.pc = "undo", !.at = @ - 1, !.failed = TRUE]
          IN  y \in LoadType /\ y.pc = "undo" /\ y.at = x.at - 1 /\ y.failed
    <3> TAKE x \in LoadType
    <3> HAVE x.at > 0
    <3>1. x.at - 1 \in 0 .. 12
      BY DEF LoadType
    <3> QED BY <3>1 DEF LoadType
  <2>4. load' \in LoadType /\ load'.pc = "undo" /\ load'.at = load.at - 1 /\ load'.failed
    BY <1>0, <2>1, <2>2, <2>3
  <2>5. UpInv'
    BY <1>0, <2>1, <2>2, <2>4 DEF UpInv, UpTo
  <2>6. RestInv'
    BY <1>0, <2>1, <2>4 DEF RestInv
  <2> QED BY <2>1, <2>4, <2>5, <2>6
<1>4. CASE M!init_filter_sketch /\ M!Advance /\ sketch' \in M!Built(Len(M!switch_types))
  <2>1. load.pc = "init" /\ UNCHANGED <<thread, conns, dps, callbacks>> /\ M!Step = "filter_sketch"
    BY <1>4 DEF M!init_filter_sketch
  <2>2. load' \in LoadType /\ UpInv' /\ up' = up \cup {"filter_sketch"} /\ ~load.failed /\ ~load'.failed
    BY <1>4, <2>1, Advanced
  <2>3. sketch' \in [M!Switches -> M!Sketches] /\ \A i \in M!Egress : M!Held(sketch'[i])
    BY <1>4, BuiltAndFreed, SwitchTypes
  <2>4. thread.pc \in {"none", "ended", "dead"}
    BY <1>0, <2>1 DEF RestInv, ThreadType
  <2>5. RestInv'
    BY <1>0, <2>1, <2>2, <2>3, <2>4 DEF RestInv
  <2> QED BY <2>1, <2>2, <2>3, <2>5
<1>5. CASE M!init_filter_sketch /\ M!Oops /\ \E n \in Int : sketch' \in M!Built(n)
  <2>1. load.pc = "init" /\ UNCHANGED <<thread, conns, dps, callbacks>> /\ M!Step = "filter_sketch"
    BY <1>5 DEF M!init_filter_sketch
  <2>2. load.at = 11 /\ up = UpTo(10)
    BY <1>0, <2>1, StepAt DEF UpInv
  <2>3. load' \in LoadType /\ UpInv' /\ up' = up /\ load'.pc = "dead" /\ ~load'.failed /\ ~load.failed
    BY <1>5, <2>1, <2>2, Killed
  <2>4. sketch' \in [M!Switches -> M!Sketches]
    BY <1>5, BuiltAndFreed
  <2>5. "filter_sketch" \notin up
    BY <2>2, InUpTo, StepsAre
  <2>6. thread.pc \in {"none", "ended", "dead"}
    BY <1>0, <2>1 DEF RestInv, ThreadType
  <2>7. RestInv'
    BY <1>0, <2>1, <2>3, <2>5, <2>6 DEF RestInv
  <2> QED BY <2>1, <2>3, <2>4, <2>7
<1>6. CASE M!sketch_report_init /\ M!Advance /\ thread' = [M!NoThread EXCEPT !.pc = "started"]
  <2>1. load.pc = "init" /\ UNCHANGED <<sketch, conns, dps, callbacks>> /\ M!Step = "report"
    BY <1>6 DEF M!sketch_report_init
  <2>2. load' \in LoadType /\ UpInv' /\ up' = up \cup {"report"} /\ ~load.failed /\ ~load'.failed
    BY <1>6, <2>1, Advanced
  <2>3. load'.pc = "in"
    BY <1>0, <1>6, <2>1, Advanced, StepAt
  <2>4. thread' \in ThreadType /\ thread'.pc = "started"
    BY <1>6 DEF M!NoThread, ThreadType
  <2>5. RestInv'
    BY <1>0, <2>1, <2>2, <2>3, <2>4 DEF RestInv
  <2> QED BY <2>1, <2>2, <2>4, <2>5
<1>7. CASE M!sketch_report_init /\ M!Oops /\ thread' = thread
  <2>1. load.pc = "init" /\ UNCHANGED <<sketch, conns, dps, callbacks>> /\ M!Step = "report"
    BY <1>7 DEF M!sketch_report_init
  <2>2. load.at = 12
    BY <1>0, <2>1, StepAt DEF UpInv
  <2>3. load' \in LoadType /\ UpInv' /\ up' = up /\ load'.pc = "dead" /\ ~load'.failed /\ ~load.failed
    BY <1>7, <2>1, <2>2, Killed
  <2>4. RestInv'
    BY <1>0, <1>7, <2>1, <2>3 DEF RestInv
  <2> QED BY <1>7, <2>1, <2>3, <2>4
<1>8. M!init_filter_sketch => \/ M!Advance /\ sketch' \in M!Built(Len(M!switch_types))
                              \/ M!Oops /\ \E n \in Int : sketch' \in M!Built(n)
  <2> SUFFICES ASSUME M!init_filter_sketch,
                      ~(M!Advance /\ sketch' \in M!Built(Len(M!switch_types)))
               PROVE  M!Oops /\ \E n \in Int : sketch' \in M!Built(n)
    OBVIOUS
  <2>1. PICK i \in M!Switches : sketch' \in M!Built(i - 1) /\ M!Oops
    BY DEF M!init_filter_sketch
  <2>2. i - 1 \in Int
    BY SwitchTypes
  <2> QED BY <2>1, <2>2
<1>9. M!sketch_report_init => \/ M!Advance /\ thread' = [M!NoThread EXCEPT !.pc = "started"]
                              \/ M!Oops /\ thread' = thread
  BY DEF M!sketch_report_init
<1> QED BY <1>1, <1>2, <1>3, <1>4, <1>5, <1>6, <1>7, <1>8, <1>9

\* One step is taken down: by the labels of dp_init() or of dp_cleanup().
LEMMA DownStep ==
  ASSUME ModuleInv, M!undo \/ M!dp_cleanup \/ M!sketch_report_clean \/ M!cleaned_up
  PROVE  ModuleInv'
<1> USE DEF ModuleInv, ModuleType
<1>0. load \in LoadType /\ load.at \in 0 .. 12 /\ UpInv /\ RestInv
  BY DEF LoadType
<1>p. PICK n \in 0 .. 12 : n = load.at
  BY <1>0
<1>d. \A x \in LoadType : x.at > 0 =>
        /\ [x EXCEPT !.at = @ - 1] \in LoadType /\ [x EXCEPT !.at = @ - 1].pc = x.pc
        /\ [x EXCEPT !.at = @ - 1].at = x.at - 1 /\ [x EXCEPT !.at = @ - 1].failed = x.failed
  <2> TAKE x \in LoadType
  <2> HAVE x.at > 0
  <2>1. x.at - 1 \in 0 .. 12
    BY DEF LoadType
  <2> QED BY <2>1 DEF LoadType
<1>o. \A x \in LoadType :
        /\ [x EXCEPT !.pc = "out"] \in LoadType /\ [x EXCEPT !.pc = "out"].pc = "out"
        /\ [x EXCEPT !.pc = "out"].at = x.at /\ [x EXCEPT !.pc = "out"].failed = x.failed
  BY DEF LoadType
<1>f. M!Freed \in [M!Switches -> M!Sketches] /\ \A i \in M!Switches : ~M!Held(M!Freed[i])
  BY BuiltAndFreed
<1>g. M!PernetGone => dps' = FALSE /\ callbacks' \in Nat /\ (callbacks' > 0 => callbacks > 0 \/ dps)
  BY DEF M!PernetGone
<1>1. CASE (M!undo /\ n = 0) \/ M!cleaned_up
  <2>1. /\ UNCHANGED <<up, sketch, dps, callbacks, thread>> /\ load' = [load EXCEPT !.pc = "out"]
        /\ load.pc \in {"undo", "cleanup"} /\ load.at = 0
    BY <1>1, <1>p DEF M!undo, M!cleaned_up, M!Out
  <2>2. load' \in LoadType /\ load'.pc = "out" /\ load'.at = 0 /\ load'.failed = load.failed
    BY <1>0, <1>o, <2>1
  <2>3. up = {}
    BY <1>0, <2>1, UpToStep DEF UpInv
  <2>4. UpInv'
    BY <2>1, <2>2, <2>3 DEF UpInv
  <2>5. RestInv'
    BY <1>0, <2>1, <2>2 DEF RestInv
  <2> QED BY <2>1, <2>2, <2>4, <2>5
<1>2. CASE (M!undo /\ n > 0) \/ M!dp_cleanup \/ M!sketch_report_clean
  <2>1. /\ UNCHANGED thread /\ load' = [load EXCEPT !.at = @ - 1] /\ n > 0
        /\ load.pc = "undo" \/ (load.pc = "cleanup" /\ (M!Step = "vport" => callbacks = 0))
        /\ up' = up \ {M!Step}
        /\ sketch' = IF load.pc = "cleanup" /\ M!Step = "filter_sketch" THEN M!Freed ELSE sketch
        /\ M!Step # "pernet" => UNCHANGED <<dps, callbacks>>
        /\ M!Step = "pernet" => M!PernetGone
        /\ load.pc = "cleanup" /\ M!Step = "report" => thread.pc \in {"ended", "dead"}
    <3>1. CASE M!undo /\ n > 0
      BY <1>p, <3>1 DEF M!undo, M!Down
    <3>2. CASE M!dp_cleanup
      BY <1>0, <1>p, <3>2 DEF M!dp_cleanup, M!Down, M!BarrierPassed
    <3>3. CASE M!sketch_report_clean
      BY <1>0, <1>p, <3>3, StepAt DEF M!sketch_report_clean, M!Down, M!ThreadEnded
    <3> QED BY <1>2, <3>1, <3>2, <3>3
  <2>2. /\ load' \in LoadType /\ load'.pc = load.pc /\ load'.at = n - 1 /\ load'.failed = load.failed
        /\ load.failed <=> load.pc = "undo"
        /\ load.pc = "undo" => n <= 9
    BY <1>0, <1>p, <1>d, <2>1 DEF UpInv
  <2>3. /\ M!Step = M!Steps[n] /\ (M!Step = "pernet" <=> n = 5) /\ (M!Step = "vport" <=> n = 4)
        /\ (M!Step = "filter_sketch" <=> n = 11) /\ (M!Step = "report" <=> n = 12)
    BY <1>0, <1>p, <2>1, StepAt
  <2>4. up = UpTo(n) /\ up' = UpTo(n - 1)
    <3>1. up = UpTo(n)
      BY <1>0, <1>p, <2>1 DEF UpInv
    <3>2. UpTo(n) \ {M!Steps[n]} = UpTo(n - 1)
      BY <2>1, UpToStep
    <3> QED BY <2>1, <2>3, <3>1, <3>2
  <2>5. UpInv'
    BY <2>1, <2>2, <2>4 DEF UpInv
  <2>6. sketch' \in [M!Switches -> M!Sketches] /\ dps' \in BOOLEAN /\ callbacks' \in Nat
    BY <1>f, <1>g, <2>1
  <2>7. n - 1 \in 0 .. 12 /\ n \in 1 .. 12
    BY <2>1
  <2>8. /\ "filter_sketch" \in up <=> n >= 11
        /\ "filter_sketch" \in up' <=> n - 1 >= 11
        /\ "pernet" \in up <=> n >= 5
        /\ "pernet" \in up' <=> n - 1 >= 5
        /\ "vport" \in up <=> n >= 4
        /\ "vport" \in up' <=> n - 1 >= 4
    BY <2>4, <2>7, InUpTo, StepsAre
  <2>9. "filter_sketch" \in up' => \A i \in M!Egress : M!Held(sketch'[i])
    BY <1>0, <2>1, <2>3, <2>8 DEF RestInv
  <2>10. "filter_sketch" \in up' \/ \A i \in M!Switches : ~M!Held(sketch'[i])
    <3>1. CASE n = 11
      <4>1. load.pc = "cleanup"
        BY <2>1, <2>2, <3>1
      <4> QED BY <1>f, <2>1, <2>3, <3>1, <4>1
    <3>2. CASE n # 11
      <4>1. sketch' = sketch /\ load.pc # "dead"
        BY <2>1, <2>3, <3>2
      <4> QED BY <1>0, <2>7, <2>8, <3>2, <4>1 DEF RestInv
    <3> QED BY <3>1, <3>2
  <2>11. thread'.pc \in {"none", "ended", "dead"}
    BY <1>0, <1>p, <2>1, <2>2, <2>3 DEF RestInv
  <2>12. dps' => "pernet" \in up'
    BY <1>0, <1>g, <2>1, <2>3, <2>7, <2>8 DEF RestInv
  <2>13. callbacks' > 0 /\ ~load'.failed => "vport" \in up'
    <3> SUFFICES ASSUME callbacks' > 0, load.pc = "cleanup", ~load.failed
                 PROVE  "vport" \in up'
      BY <2>1, <2>2
    <3>1. CASE n = 5
      BY <2>8, <3>1
    <3>2. CASE n # 5
      BY <1>0, <2>1, <2>3, <2>7, <2>8, <3>2 DEF RestInv
    <3> QED BY <3>1, <3>2
  <2>14. RestInv'
    BY <2>9, <2>10, <2>11, <2>12, <2>13 DEF RestInv
  <2> QED BY <2>1, <2>2, <2>5, <2>6, <2>14
<1> QED BY <1>1, <1>2

\* What the thread goes to.
Goes(t, p) == [t EXCEPT !.pc = p]
GoesWith(t, p, s) == [t EXCEPT !.pc = p, !.sock = s]
Reports(t, i, b) == [t EXCEPT !.pc = "report", !.at = i, !.buf = b]

LEMMA ThreadGoes ==
  ASSUME NEW t \in ThreadType
  PROVE  /\ \A p \in {"recv", "ended", "loop", "dead"} : Goes(t, p) \in ThreadType /\ Goes(t, p).pc = p
         /\ \A p \in {"ended", "loop", "dead"}, s \in {"none", "own", "stray"} :
              GoesWith(t, p, s) \in ThreadType /\ GoesWith(t, p, s).pc = p
         /\ \A i \in M!Switches, b \in BOOLEAN :
              Reports(t, i, b) \in ThreadType /\ Reports(t, i, b).at = i
<1>1. ASSUME NEW p \in {"recv", "ended", "loop", "dead"}
      PROVE  Goes(t, p) \in ThreadType /\ Goes(t, p).pc = p
  BY DEF Goes, ThreadType
<1>2. ASSUME NEW p \in {"ended", "loop", "dead"}, NEW s \in {"none", "own", "stray"}
      PROVE  GoesWith(t, p, s) \in ThreadType /\ GoesWith(t, p, s).pc = p
  BY DEF GoesWith, ThreadType
<1>3. ASSUME NEW i \in M!Switches, NEW b \in BOOLEAN
      PROVE  Reports(t, i, b) \in ThreadType /\ Reports(t, i, b).at = i
  BY DEF Reports, ThreadType
<1> QED BY ONLY <1>1, <1>2, <1>3

\* What the thread does to itself: it goes on to the next sketch only from a whole one.
LEMMA ThreadStep ==
  ASSUME thread \in ThreadType, M!listen \/ M!accept \/ M!recv \/ M!get_stat_and_send_back,
         thread.pc = "report" => \A i \in M!Egress : i < thread.at => sketch[i] = "made"
  PROVE  /\ thread' \in ThreadType
         /\ thread'.pc = "report" => \A i \in M!Egress : i < thread'.at => sketch[i] = "made"
<1>t. thread \in ThreadType
  OBVIOUS
<1>k. M!Killed => thread' \in ThreadType /\ thread'.pc = "dead"
  <2>1. M!Killed => thread' = Goes(thread, "dead")
    BY DEF M!Killed, M!Goto, Goes
  <2> QED BY ONLY <1>t, <2>1, ThreadGoes
<1>1. CASE M!listen
  <2>1. \/ \E s \in {"own", "stray"}, p \in {"loop", "ended"} : thread' = GoesWith(thread, p, s)
        \/ thread' = GoesWith(thread, "dead", "stray")
        \/ thread' = Goes(thread, "ended")
    BY <1>1 DEF M!listen, M!Goto, Goes, GoesWith
  <2>2. thread' \in ThreadType /\ thread'.pc \in {"loop", "ended", "dead"}
    BY ONLY <1>t, <2>1, ThreadGoes
  <2> QED BY <2>2
<1>2. CASE M!accept
  <2>1. \/ \E p \in {"recv", "ended"} : thread' = Goes(thread, p)
        \/ thread' = GoesWith(thread, "ended", "none")
        \/ M!Killed
    BY <1>2 DEF M!accept, M!Goto, M!StrayKills, Goes, GoesWith
  <2>2. thread' \in ThreadType /\ thread'.pc \in {"recv", "ended", "dead"}
    BY ONLY <1>k, <1>t, <2>1, ThreadGoes
  <2> QED BY <2>2
<1>3. CASE M!recv
  <2>1. M!FirstEgress = 5 /\ 5 \in M!Switches
    <3>1. M!FirstEgress \in {5, 6} /\ \A j \in {5, 6} : M!FirstEgress <= j
      <4>1. 5 \in M!Egress /\ \A j \in M!Egress : 5 <= j
        BY SwitchTypes
      <4> QED BY <4>1, SwitchTypes DEF M!FirstEgress
    <3> QED BY <3>1, SwitchTypes
  <2>2. \/ \E b \in BOOLEAN : thread' = Reports(thread, M!FirstEgress, b)
        \/ thread' = Goes(thread, "loop")
        \/ M!Killed
    BY <1>3 DEF M!recv, M!Goto, M!StrayKills, Goes, Reports
  <2>3. CASE \E b \in BOOLEAN : thread' = Reports(thread, M!FirstEgress, b)
    <3>1. thread' \in ThreadType /\ thread'.at = 5
      BY ONLY <1>t, <2>1, <2>3, ThreadGoes
    <3>2. \A i \in M!Egress : ~(i < 5)
      BY SwitchTypes
    <3> QED BY ONLY <3>1, <3>2
  <2>4. CASE thread' = Goes(thread, "loop") \/ M!Killed
    <3>1. thread' \in ThreadType /\ thread'.pc \in {"loop", "dead"}
      BY ONLY <1>k, <1>t, <2>4, ThreadGoes
    <3> QED BY <3>1
  <2> QED BY ONLY <2>2, <2>3, <2>4
<1>4. CASE M!get_stat_and_send_back
  <2>1. thread.pc = "report" /\ thread.at \in {0} \cup 1 .. 6
    BY <1>4, SwitchTypes DEF M!get_stat_and_send_back, ThreadType
  <2>2. CASE ~M!Killed
    <3>1. /\ sketch[thread.at] = "made"
          /\ M!Goto(IF M!Later = {} THEN [thread EXCEPT !.pc = "loop", !.at = 0, !.buf = FALSE]
                    ELSE [thread EXCEPT !.at = CHOOSE i \in M!Later : \A j \in M!Later : i <= j])
      BY <1>4, <2>2 DEF M!get_stat_and_send_back, M!StrayKills
    <3>2. CASE M!Later = {}
      <4>1. thread' = [thread EXCEPT !.pc = "loop", !.at = 0, !.buf = FALSE]
        BY <3>1, <3>2 DEF M!Goto
      <4> QED BY <4>1 DEF ThreadType
    <3>3. CASE M!Later # {}
      <4>1. M!Later \subseteq {5, 6} /\ \E i \in M!Later : \A j \in M!Later : i <= j
        BY <3>3, SwitchTypes DEF M!Later
      <4>2. PICK x \in M!Later : /\ x = (CHOOSE i \in M!Later : \A j \in M!Later : i <= j)
                                 /\ \A j \in M!Later : x <= j
        BY ONLY <4>1, Zenon
      <4>3. thread' = [thread EXCEPT !.at = x]
        BY <3>1, <3>3, <4>2 DEF M!Goto
      <4>4. x \in {5, 6} /\ x \in M!Switches
        BY <4>1, SwitchTypes
      <4>5. thread' \in ThreadType /\ thread'.at = x
        BY <4>3, <4>4 DEF ThreadType
      <4>6. ASSUME NEW i \in M!Egress, i < x
            PROVE  sketch[i] = "made"
        <5>1. i \in {5, 6} /\ ~(i > thread.at)
          BY <4>2, <4>4, <4>6, SwitchTypes DEF M!Later
        <5>2. i < thread.at \/ i = thread.at
          BY <2>1, <5>1
        <5> QED BY <2>1, <3>1, <5>2
      <4> QED BY <4>5, <4>6
    <3> QED BY <3>2, <3>3
  <2> QED BY <1>k, <2>2
<1> QED BY <1>1, <1>2, <1>3, <1>4

\* Userspace, RCU, the collector and the thread.
LEMMA OtherStep ==
  ASSUME ModuleInv, M!Next \/ UNCHANGED ModuleVars,
         ~(M!insmod \/ M!register \/ M!init_filter_sketch \/ M!sketch_report_init),
         ~(M!undo \/ M!dp_cleanup \/ M!sketch_report_clean \/ M!cleaned_up)
  PROVE  ModuleInv'
<1> USE DEF ModuleInv, ModuleType
<1>0. load \in LoadType /\ UpInv /\ RestInv
  OBVIOUS
<1>t. thread \in ThreadType
  OBVIOUS
<1>1. CASE M!rmmod /\ ~M!Oops
  <2>1. /\ UNCHANGED <<up, sketch, dps, callbacks>> /\ load' = [load EXCEPT !.pc = "cleanup"]
        /\ thread' = [thread EXCEPT !.stop = TRUE] /\ load.pc = "in"
    BY <1>1 DEF M!rmmod
  <2>2. \A x \in LoadType :
          /\ [x EXCEPT !.pc = "cleanup"] \in LoadType /\ [x EXCEPT !.pc = "cleanup"].pc = "cleanup"
          /\ [x EXCEPT !.pc = "cleanup"].at = x.at /\ [x EXCEPT !.pc = "cleanup"].failed = x.failed
    BY DEF LoadType
  <2>3. load' \in LoadType /\ load'.pc = "cleanup" /\ load'.at = 12 /\ ~load'.failed /\ ~load.failed /\ up = UpTo(12)
    BY <1>0, <2>1, <2>2 DEF UpInv
  <2>4. thread' \in ThreadType /\ thread'.pc = thread.pc /\ thread'.at = thread.at
    BY <1>t, <2>1 DEF ThreadType
  <2>5. UpInv'
    BY <2>1, <2>3 DEF UpInv
  <2>6. RestInv'
    BY <1>0, <2>1, <2>3, <2>4 DEF RestInv
  <2> QED BY <2>1, <2>3, <2>4, <2>5, <2>6
<1>5. CASE M!rmmod /\ M!Oops
  <2>1. UNCHANGED <<sketch, dps, callbacks>> /\ load.pc = "in"
    BY <1>5 DEF M!rmmod
  <2>2. UNCHANGED thread /\ thread.pc \in {"ended", "dead"}
    <3>1. load' # [load EXCEPT !.pc = "cleanup"]
      BY <1>5 DEF M!Oops, LoadType
    <3> QED BY <1>5, <3>1 DEF M!rmmod, M!ThreadEnded
  <2>3. load.at = 12
    BY <1>0, <2>1 DEF UpInv
  <2>4. load' \in LoadType /\ UpInv' /\ up' = up /\ load'.pc = "dead" /\ ~load'.failed /\ ~load.failed
    BY <1>5, <2>1, <2>3, Killed
  <2>5. RestInv'
    BY <1>0, <2>1, <2>2, <2>4 DEF RestInv
  <2> QED BY <2>1, <2>2, <2>4, <2>5
<1>2. CASE M!ovs_dp_cmd_new \/ M!ovs_dp_cmd_del \/ M!rcu_callback
  <2>1. /\ UNCHANGED <<load, up, sketch, thread>> /\ dps' \in BOOLEAN /\ callbacks' \in Nat
        /\ dps' => dps \/ "pernet" \in up
        /\ callbacks' > 0 => callbacks > 0 \/ "pernet" \in up
    <3>1. CASE M!ovs_dp_cmd_new
      BY <3>1 DEF M!ovs_dp_cmd_new
    <3>2. CASE M!ovs_dp_cmd_del
      <4>1. UNCHANGED <<load, up, sketch, thread>> /\ dps' = FALSE /\ "pernet" \in up
        BY <3>2 DEF M!ovs_dp_cmd_del
      <4>2. callbacks' \in Nat
        BY <3>2 DEF M!ovs_dp_cmd_del
      <4> QED BY <4>1, <4>2
    <3>3. CASE M!rcu_callback
      BY <3>3 DEF M!rcu_callback
    <3> QED BY <1>2, <3>1, <3>2, <3>3
  <2>2. UpInv'
    BY <1>0, <2>1 DEF UpInv, UpTo
  <2>3. "pernet" \in up /\ ~load.failed => "vport" \in up
    <3> SUFFICES ASSUME "pernet" \in up, ~load.failed
                 PROVE  "vport" \in up
      OBVIOUS
    <3>2. PICK n \in 0 .. 12 : up = UpTo(n)
      BY <1>0, UpIsUpTo
    <3> QED BY <3>2, InUpTo, StepsAre
  <2>4. RestInv'
    BY <1>0, <2>1, <2>3 DEF RestInv
  <2> QED BY <2>1, <2>2, <2>4
<1>3. CASE M!connect \/ UNCHANGED ModuleVars
  <2>1. UNCHANGED <<load, up, sketch, thread, dps, callbacks>>
    BY <1>3 DEF M!connect, ModuleVars
  <2>2. UpInv' /\ RestInv'
    BY <1>0, <2>1 DEF UpInv, UpTo, RestInv
  <2> QED BY <2>1, <2>2
<1>4. CASE M!listen \/ M!accept \/ M!recv \/ M!get_stat_and_send_back
  <2>1. UNCHANGED <<load, up, sketch, dps, callbacks>> /\ thread.pc \notin {"none", "ended", "dead"}
    BY <1>4 DEF M!listen, M!accept, M!recv, M!get_stat_and_send_back, M!Goto, M!Killed, M!StrayKills
  <2>2. UpInv'
    BY <1>0, <2>1 DEF UpInv, UpTo
  <2>3. thread' \in ThreadType /\ (thread'.pc = "report" => \A i \in M!Egress : i < thread'.at => sketch[i] = "made")
    BY <1>0, <1>4, <1>t, ThreadStep DEF RestInv
  <2>4. RestInv'
    BY <1>0, <2>1, <2>3 DEF RestInv
  <2> QED BY <2>1, <2>2, <2>3, <2>4
<1> QED BY <1>1, <1>2, <1>3, <1>4, <1>5 DEF M!Next

\* What still runs finds what it uses.
LEMMA ModuleIsSafe ==
  ASSUME ModuleInv
  PROVE  M!ModuleSafe
<1> USE DEF ModuleInv, ModuleType
<1>0. load \in LoadType /\ load.at \in 0 .. 12 /\ UpInv /\ RestInv
  BY DEF LoadType
<1>n. PICK n \in 0 .. 12 : up = UpTo(n)
  BY <1>0, UpIsUpTo
<1>1. thread.pc \in {"recv", "report"} => \A i \in M!Egress : M!Held(sketch[i])
  <2> SUFFICES ASSUME thread.pc \in {"recv", "report"}
               PROVE  \A i \in M!Egress : M!Held(sketch[i])
    OBVIOUS
  <2>1. up = UpTo(12)
    BY <1>0 DEF RestInv, UpInv
  <2>2. "filter_sketch" \in up
    BY <2>1, InUpTo, StepsAre
  <2> QED BY <1>0, <2>2 DEF RestInv
<1>2. M!ReportReadsLive
  BY <1>0, <1>1 DEF M!ReportReadsLive, RestInv
<1>3. \A s \in up : M!Before(s) \subseteq up
  <2> SUFFICES ASSUME NEW s \in up, NEW i \in 1 .. 12, NEW k \in 1 .. 12,
                      i < k, M!Steps[k] = s
               PROVE  M!Steps[i] \in up
    BY StepsAre DEF M!Before
  <2>1. k <= n
    BY <1>n, InUpTo
  <2> QED BY <1>n, <2>1, InUpTo
<1>4. load.pc = "out" =>
        /\ up = {} /\ ~dps /\ \A i \in M!Switches : ~M!Held(sketch[i])
        /\ thread.pc = "none" \/ M!ThreadEnded
  BY <1>0 DEF UpInv, RestInv, M!ThreadEnded
<1>5. callbacks > 0 /\ ~load.failed => "flow" \in up
  <2> SUFFICES ASSUME callbacks > 0, ~load.failed
               PROVE  "flow" \in up
    OBVIOUS
  <2>1. "vport" \in up
    BY <1>0 DEF RestInv
  <2> QED BY <1>n, <2>1, InUpTo, StepsAre
<1> QED BY <1>2, <1>3, <1>4, <1>5 DEF M!ModuleSafe, M!TakenDownInOrder

\* The inductive invariant of loading and unloading: what is up, and which sketches are
\* there for the thread, follows from how far dp_init(), its labels or dp_cleanup() have
\* come, also when a constructor, the thread or rmmod goes through a wild pointer.
THEOREM ModuleInductive == PartSpec => []ModuleInv
<1>1. PartInit => ModuleInv
  BY ModuleInit DEF PartInit
<1>2. ModuleInv /\ [PartNext]_Parts => ModuleInv'
  <2> SUFFICES ASSUME ModuleInv, [PartNext]_Parts
               PROVE  ModuleInv'
    OBVIOUS
  <2>1. M!Next \/ UNCHANGED ModuleVars
    BY DEF PartNext, Parts
  <2> QED BY <2>1, LoadStep, DownStep, OtherStep
<1> QED BY <1>1, <1>2, PTL DEF PartSpec

\* The thread reads no sketch that has not been made or has been freed, and reports none
\* that follows one without its arrays; the module is set up and taken down in order,
\* wherever dp_init() fails, whatever the collector does and whoever is killed.
THEOREM TakenDown == PartSpec => []ModuleSafe
<1>1. ModuleInv => ModuleSafe
  BY ModuleIsSafe DEF ModuleSafe
<1> QED BY <1>1, ModuleInductive, PTL

-----------------------------------------------------------------------------
(* Transmission.  What is proved of TunnelXmit in TunnelXmitProofs holds   *)
(* of the instance of it in Tunnels.                                       *)

XP == INSTANCE TunnelXmitProofs

LEMMA XmitSameDrivers == T!X!Driver = XP!Driver
BY DEF T!X!Step, XP!Step, T!X!Look, XP!Look, T!X!Read, XP!Read, T!X!Work, XP!Work,
       T!X!rpl_vxlan_xmit, XP!rpl_vxlan_xmit, T!X!vxlan_xmit_one, XP!vxlan_xmit_one,
       T!X!vxlan_get_route, XP!vxlan_get_route, T!X!CircularRoute, XP!CircularRoute,
       T!X!vxlan_build_skb, XP!vxlan_build_skb, T!X!vxlan4_xmit, XP!vxlan4_xmit,
       T!X!vxlan6_get_route, XP!vxlan6_get_route, T!X!vxlan6_xmit, XP!vxlan6_xmit,
       T!X!geneve_get_v4_rt, XP!geneve_get_v4_rt, T!X!geneve_build_skb, XP!geneve_build_skb,
       T!X!geneve_xmit_skb, XP!geneve_xmit_skb, T!X!geneve_get_v6_dst, XP!geneve_get_v6_dst,
       T!X!geneve6_build_skb, XP!geneve6_build_skb, T!X!geneve6_xmit_skb, XP!geneve6_xmit_skb,
       T!X!lisp_get_rt, XP!lisp_get_rt, T!X!__udp_tunnel_handle_offloads,
       XP!__udp_tunnel_handle_offloads, T!X!rpl_lisp_xmit, XP!rpl_lisp_xmit, T!X!gre_get_rt,
       XP!gre_get_rt, T!X!rpl_gre_handle_offloads, XP!rpl_gre_handle_offloads, T!X!rpl_gre_fb_xmit,
       XP!rpl_gre_fb_xmit, T!X!stt_get_rt, XP!stt_get_rt, T!X!stt_can_offload, XP!stt_can_offload,
       T!X!handle_offloads, XP!handle_offloads, T!X!ovs_stt_xmit, XP!ovs_stt_xmit, T!X!Driver,
       XP!Driver

LEMMA XmitSame ==
  /\ T!X!Steps = XP!Steps /\ T!X!Out = XP!Out /\ T!X!None = XP!None /\ T!X!vars = XP!vars
  /\ T!X!HasSocket <=> XP!HasSocket
  /\ \A n : T!X!Clones(n) = XP!Clones(n)
  /\ \A p : /\ T!X!Now(p) = XP!Now(p)
            /\ T!X!At(p) <=> XP!At(p)
            /\ T!X!AtEnd(p) <=> XP!AtEnd(p)
            /\ T!X!Sees(p) <=> XP!Sees(p)
            /\ T!X!Fails(p) <=> XP!Fails(p)
            /\ T!X!Leave(p) <=> XP!Leave(p)
<1>1. T!X!Steps = XP!Steps
  BY XmitSameDrivers DEF T!X!Steps, XP!Steps
<1>2. /\ T!X!Out = XP!Out /\ T!X!None = XP!None /\ T!X!vars = XP!vars
      /\ T!X!HasSocket <=> XP!HasSocket
      /\ \A n : T!X!Clones(n) = XP!Clones(n)
  BY DEF T!X!Out, XP!Out, T!X!None, XP!None, T!X!vars, XP!vars, T!X!HasSocket, XP!HasSocket,
         T!X!Clones, XP!Clones
<1>3. ASSUME NEW p
      PROVE  /\ T!X!Now(p) = XP!Now(p)
             /\ T!X!At(p) <=> XP!At(p)
             /\ T!X!AtEnd(p) <=> XP!AtEnd(p)
             /\ T!X!Leave(p) <=> XP!Leave(p)
  BY <1>1 DEF T!X!Now, XP!Now, T!X!At, XP!At, T!X!AtEnd, XP!AtEnd, T!X!Leave, XP!Leave
<1>4. ASSUME NEW p
      PROVE  T!X!Sees(p) <=> XP!Sees(p)
  BY <1>3 DEF T!X!Sees, XP!Sees
<1>5. ASSUME NEW p
      PROVE  T!X!Fails(p) <=> XP!Fails(p)
  BY <1>3, <1>4 DEF T!X!Fails, XP!Fails
<1> QED BY <1>1, <1>2, <1>3, <1>4, <1>5

LEMMA XmitSameSteps == [T!X!Next]_T!X!vars => [XP!Next]_XP!vars
<1>1. ASSUME NEW p \in PACKETS
      PROVE  /\ T!X!ovs_vport_send(p) => XP!ovs_vport_send(p)
             /\ T!X!forward(p) => XP!forward(p)
             /\ T!X!drop(p) => XP!drop(p)
             /\ T!X!xmit(p) => XP!xmit(p)
             /\ T!X!stt_segments(p) => XP!stt_segments(p)
             /\ T!X!push_stt_header(p) => XP!push_stt_header(p)
             /\ T!X!skb_list_xmit(p) => XP!skb_list_xmit(p)
  <2>1. T!X!ovs_vport_send(p) => XP!ovs_vport_send(p)
    BY XmitSame DEF T!X!ovs_vport_send, XP!ovs_vport_send
  <2>2. T!X!forward(p) => XP!forward(p)
    BY XmitSame DEF T!X!forward, XP!forward
  <2>3. T!X!drop(p) => XP!drop(p)
    BY XmitSame DEF T!X!drop, XP!drop
  <2>4. T!X!xmit(p) => XP!xmit(p)
    BY XmitSame DEF T!X!xmit, XP!xmit
  <2>5. T!X!stt_segments(p) => XP!stt_segments(p)
    BY XmitSame DEF T!X!stt_segments, XP!stt_segments
  <2>6. T!X!push_stt_header(p) => XP!push_stt_header(p)
    BY XmitSame DEF T!X!push_stt_header, XP!push_stt_header
  <2>7. T!X!skb_list_xmit(p) => XP!skb_list_xmit(p)
    BY XmitSame DEF T!X!skb_list_xmit, XP!skb_list_xmit
  <2> QED BY <2>1, <2>2, <2>3, <2>4, <2>5, <2>6, <2>7
<1>2. T!X!sock_release => XP!sock_release
  BY XmitSame DEF T!X!sock_release, XP!sock_release
<1>3. T!X!udp_tunnel_sock_release => XP!udp_tunnel_sock_release
  BY DEF T!X!udp_tunnel_sock_release, XP!udp_tunnel_sock_release
<1>4. T!X!open => XP!open
  BY XmitSame DEF T!X!open, XP!open
<1>5. T!X!vars = XP!vars /\ T!X!vars' = XP!vars'
  BY DEF T!X!vars, XP!vars
<1> QED BY <1>1, <1>2, <1>3, <1>4, <1>5 DEF T!X!Next, XP!Next

LEMMA XmitSameInv == XP!XmitInv => T!X!XmitInv
<1>1. \A p : T!X!Routed(p) <=> XP!Routed(p)
  BY XmitSame DEF T!X!Routed, XP!Routed
<1>2. XP!GivenBackOnce => T!X!GivenBackOnce
  BY <1>1, XmitSame DEF T!X!GivenBackOnce, XP!GivenBackOnce
<1>3. XP!SocketUsable => T!X!SocketUsable
  BY XmitSame DEF T!X!SocketUsable, XP!SocketUsable
<1> QED BY <1>2, <1>3 DEF T!X!XmitInv, XP!XmitInv

LEMMA XmitAssumed == XP!XmitAssumption
<1>1. T!X!XmitAssumption
  BY XmitConstants
<1> QED BY <1>1, XmitSameDrivers DEF T!X!XmitAssumption, XP!XmitAssumption

\* While packets are transmitted, the invariant of TunnelXmitProofs holds.
TransmitInv == driver = "xmit" => XP!IInv

LEMMA TransmitInit == PartInit => TransmitInv
<1> SUFFICES ASSUME PartInit, driver = "xmit"
             PROVE  XP!IInv
  BY DEF TransmitInv
<1>1. ~T!NoDriver
  BY XmitConstants DEF T!NoDriver
<1>2. T!X!Init
  BY <1>1 DEF PartInit, T!Init
<1>3. XP!Init
  BY <1>2, XmitSame DEF T!X!Init, XP!Init
<1> QED BY <1>3, XmitAssumed, XP!InitXmit

LEMMA TransmitStep == TransmitInv /\ [PartNext]_Parts => TransmitInv'
<1> SUFFICES ASSUME TransmitInv, [PartNext]_Parts, driver' = "xmit"
             PROVE  XP!IInv'
  BY DEF TransmitInv
<1>1. \/ UNCHANGED TunnelVars
      \/ T!Next
  BY DEF PartNext, Parts
<1>2. driver = "xmit" /\ [T!X!Next]_T!X!vars
  BY <1>1 DEF TunnelVars, T!Next, T!X!vars
<1>3. XP!IInv /\ [XP!Next]_XP!vars
  BY <1>2, XmitSameSteps DEF TransmitInv
<1> QED BY <1>3, XmitAssumed, XP!NextXmit

\* Whatever step of whichever driver's transmit function fails, a packet that is gone has left
\* nothing and given nothing back twice, and its socket is not released under it; of the
\* composition that the run explores, with any packets, drivers and bounds.
THEOREM XmitHolds == PartSpec => []XmitInv
<1>1. TransmitInv => XmitInv
  BY XmitAssumed, XP!XmitOfInv, XmitSameInv DEF TransmitInv, XmitInv, T!XmitInv
<1> QED BY <1>1, TransmitInit, TransmitStep, PTL DEF PartSpec
================================================================================
