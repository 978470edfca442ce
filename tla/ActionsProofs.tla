----------------------------- MODULE ActionsProofs -----------------------------
(***************************************************************************)
(* What is proved of the execution of actions (Actions) for any action     *)
(* lists, number of skbs, recursion limit and size of the FIFO: the level  *)
(* counts the executions in progress and is bounded, every skb has one     *)
(* owner, and a valid key describes the packet it is used for.             *)
(***************************************************************************)
EXTENDS Actions, FiniteSetTheorems, SequenceTheorems, TLAPS

-----------------------------------------------------------------------------
(* The stack, counted from the outermost function.  What a function waits in *)
(* keeps its place there, whatever is called and returns above it.           *)

N     == Len(stack)
At(q) == stack[N + 1 - q]

\* How many of the functions below place q have raised the level.
Counted  == {"execute", "deferred", "clone_level"}
Below(q) == Cardinality({r \in 1 .. q - 1 : At(r).fn \in Counted})
Raised   == Cardinality({r \in 1 .. N : At(r).fn \in Counted})

\* The function at place q still has its skb.
Has(q) == \/ At(q).fn \in {"process", "actions"}
          \/ At(q).fn \in {"output", "clone", "clone_level"} /\ At(q).acts # <<>>

Entries == fifo.tail .. (fifo.head - 1)

-----------------------------------------------------------------------------
(* The inductive invariant. *)

\* Only the innermost function is not waiting for another one.  The FIFO is filled from
\* its start while the outermost function executes a flow's actions, and emptied when
\* that function is done with them; only there.
Nesting ==
  /\ level = Raised
  /\ \A q \in 1 .. N - 1 : At(q).fn \notin {"process", "actions"}
  /\ \A q \in 2 .. N : At(q).fn # "deferred"
  /\ N > 0 => At(1).fn \in {"process", "execute", "deferred"}
  /\ N = 0 \/ At(1).fn = "process" => fifo.head = 0
  /\ N = 0 \/ At(1).fn # "deferred" => fifo.tail = 0

\* The actions that leave the key alone.
Harmless(acts) == ~actions_may_change_flow(acts)

\* skbs: every one is live and in one hand.
OneHand ==
  /\ \A q \in 1 .. N : Has(q) => skb[At(q).skb].live
  /\ \A q \in 1 .. N, r \in 1 .. N : Has(q) /\ Has(r) /\ q # r => At(q).skb # At(r).skb
  /\ \A i \in Entries : fifo.entry[i].skb \in Skbs /\ skb[fifo.entry[i].skb].live
  /\ \A i \in Entries, q \in 1 .. N : Has(q) => At(q).skb # fifo.entry[i].skb
  /\ \A i \in Entries, j \in Entries : i # j => fifo.entry[i].skb # fifo.entry[j].skb
  /\ \A s \in Skbs : skb[s].live => \/ \E q \in 1 .. N : Has(q) /\ At(q).skb = s
                                    \/ \E i \in Entries : fifo.entry[i].skb = s
                                    \/ s \in leaked

\* Places of keys: a place of a level is used below that level only, and a place of the FIFO
\* after its entry has been taken.  A place is shared only by the actions of a sample that
\* do not change the key, on a packet that is as yet the same.
OnePlace ==
  /\ \A q \in 1 .. N : Has(q) =>
       /\ At(q).key[1] = "fifo" => At(q).key[2] < fifo.tail
       /\ At(q).key[1] # "fifo" => \/ At(q).key[2] < Below(q)
                                   \/ At(q).key[2] = Below(q) /\ At(q).fn = "process"
  /\ \A q \in 1 .. N : \A r \in 1 .. q - 1 :
       Has(q) /\ Has(r) /\ At(q).key = At(r).key =>
         /\ At(q).fn # "process" /\ Harmless(At(q).acts)
         /\ skb[At(q).skb].hdr = skb[At(r).skb].hdr

\* A valid key describes its packet.
Described ==
  /\ \A q \in 1 .. N : Has(q) /\ key[At(q).key].valid => key[At(q).key].hdr = skb[At(q).skb].hdr
  /\ \A i \in Entries : key[<<"fifo", i>>].valid => key[<<"fifo", i>>].hdr = skb[fifo.entry[i].skb].hdr

IInv == TypeOK /\ Nesting /\ OneHand /\ OnePlace /\ Described

-----------------------------------------------------------------------------
(* Stacks. *)

\* The functions that are left when the innermost one returns, is replaced or calls.
LEMMA Top ==
  ASSUME stack \in Seq(FrameType), stack # <<>>
  PROVE  N \in Nat \ {0} /\ top = At(N) /\ top \in FrameType /\ \A q \in 1 .. N : At(q) \in FrameType
BY DEF N, At, top

LEMMA Popped ==
  ASSUME stack \in Seq(FrameType), stack # <<>>, stack' = Tail(stack)
  PROVE  stack' \in Seq(FrameType) /\ N' = N - 1 /\ \A q \in 1 .. N - 1 : At(q)' = At(q)
BY Top DEF N, At

LEMMA Replaced ==
  ASSUME stack \in Seq(FrameType), stack # <<>>, NEW g \in FrameType, stack' = <<g>> \o Tail(stack)
  PROVE  /\ stack' \in Seq(FrameType) /\ N' = N
         /\ \A q \in 1 .. N - 1 : At(q)' = At(q)
         /\ \A q \in 1 .. N : At(q)' = IF q = N THEN g ELSE At(q)
<1>1. <<g>> \in Seq(FrameType) /\ Len(<<g>>) = 1 /\ <<g>>[1] = g /\ Tail(stack) \in Seq(FrameType)
      /\ Len(Tail(stack)) = N - 1 /\ \A i \in 1 .. N - 1 : Tail(stack)[i] = stack[i + 1]
  BY Top DEF N
<1>2. stack' \in Seq(FrameType) /\ N' = N
  BY <1>1, Top DEF N
<1>3. \A i \in 1 .. N : stack'[i] = IF i = 1 THEN g ELSE stack[i]
  BY <1>1, Top
<1>4. \A q \in 1 .. N : N + 1 - q \in 1 .. N /\ At(q)' = stack'[N + 1 - q] /\ At(q) = stack[N + 1 - q]
  BY <1>2, Top DEF At
<1>5. \A q \in 1 .. N : At(q)' = IF q = N THEN g ELSE At(q)
  <2> TAKE q \in 1 .. N
  <2> DEFINE i == N + 1 - q
  <2>1. i \in 1 .. N /\ At(q)' = stack'[i] /\ At(q) = stack[i]
    BY <1>4
  <2>2. i = 1 <=> q = N
    BY Top
  <2> HIDE DEF i
  <2> QED BY <1>3, <2>1, <2>2
<1> QED BY <1>2, <1>5, Top

LEMMA Pushed ==
  ASSUME stack \in Seq(FrameType), stack # <<>>, NEW f \in FrameType, NEW g \in FrameType,
         stack' = <<f, g>> \o Tail(stack)
  PROVE  /\ stack' \in Seq(FrameType) /\ N' = N + 1
         /\ \A q \in 1 .. N - 1 : At(q)' = At(q)
         /\ \A q \in 1 .. N + 1 : At(q)' = IF q = N + 1 THEN f ELSE IF q = N THEN g ELSE At(q)
<1>1. <<f, g>> \in Seq(FrameType) /\ Len(<<f, g>>) = 2 /\ <<f, g>>[1] = f /\ <<f, g>>[2] = g
      /\ Tail(stack) \in Seq(FrameType)
      /\ Len(Tail(stack)) = N - 1 /\ \A i \in 1 .. N - 1 : Tail(stack)[i] = stack[i + 1]
  BY Top DEF N
<1>2. stack' \in Seq(FrameType) /\ N' = N + 1
  BY <1>1, Top DEF N
<1>3. \A i \in 1 .. N + 1 : stack'[i] = IF i = 1 THEN f ELSE IF i = 2 THEN g ELSE stack[i - 1]
  BY <1>1, Top
<1>4. \A q \in 1 .. N + 1 : N + 2 - q \in 1 .. N + 1 /\ At(q)' = stack'[N + 2 - q]
  <2> TAKE q \in 1 .. N + 1
  <2>1. N \in Nat /\ N' = N + 1
    BY <1>2, Top
  <2>2. N' + 1 - q = N + 2 - q /\ N + 2 - q \in 1 .. N + 1
    BY <2>1
  <2>3. At(q)' = stack'[N' + 1 - q]
    BY DEF At
  <2> QED BY <2>2, <2>3
<1>5. \A q \in 1 .. N : At(q) = stack[N + 1 - q]
  BY Top DEF At
<1>6. \A q \in 1 .. N + 1 : At(q)' = IF q = N + 1 THEN f ELSE IF q = N THEN g ELSE At(q)
  <2> TAKE q \in 1 .. N + 1
  <2> DEFINE i == N + 2 - q
  <2>1. At(q)' = stack'[i] /\ i \in 1 .. N + 1
    BY <1>4
  <2>2. At(q)' = IF i = 1 THEN f ELSE IF i = 2 THEN g ELSE stack[i - 1]
    <3> HIDE DEF i
    <3> QED BY <1>3, <2>1
  <2>3. (i = 1 <=> q = N + 1) /\ (i = 2 <=> q = N) /\ i - 1 = N + 1 - q
    BY Top
  <2>4. q # N + 1 => q \in 1 .. N
    BY Top
  <2> HIDE DEF i
  <2> QED BY <1>5, <2>2, <2>3, <2>4
<1> QED BY <1>2, <1>6, Top

\* How Below goes up the stack.
LEMMA Belows ==
  ASSUME N \in Nat
  PROVE  /\ \A q \in 1 .. N + 1 : Below(q) \in Nat
         /\ Below(1) = 0 /\ Below(N + 1) = Raised
         /\ \A q \in 1 .. N : Below(q + 1) = Below(q) + (IF At(q).fn \in Counted THEN 1 ELSE 0)
         /\ \A q \in 1 .. N + 1, r \in 1 .. N + 1 : q <= r => Below(q) <= Below(r)
<1> DEFINE S(q) == {r \in 1 .. q - 1 : At(r).fn \in Counted}
<1>1. \A q \in 1 .. N + 1 : IsFiniteSet(S(q))
  <2> TAKE q \in 1 .. N + 1
  <2>1. IsFiniteSet(1 .. q - 1)
    BY FS_Interval
  <2> QED BY <2>1, FS_Subset
<1>2. \A q \in 1 .. N + 1 : Below(q) = Cardinality(S(q))
  BY DEF Below
<1>3. \A q \in 1 .. N + 1 : Below(q) \in Nat
  BY <1>1, <1>2, FS_CardinalityType
<1>4. Below(1) = 0
  <2>1. S(1) = {}
    OBVIOUS
  <2> QED BY <1>2, <2>1, FS_EmptySet
<1>5. \A q \in 1 .. N : Below(q + 1) = Below(q) + (IF At(q).fn \in Counted THEN 1 ELSE 0)
  <2> TAKE q \in 1 .. N
  <2>1. CASE At(q).fn \in Counted
    <3>1. S(q + 1) = S(q) \cup {q} /\ q \notin S(q)
      BY <2>1
    <3>2. IsFiniteSet(S(q))
      BY <1>1
    <3> HIDE DEF S
    <3>3. Cardinality(S(q) \cup {q}) = Cardinality(S(q)) + 1
      BY <3>1, <3>2, FS_AddElement
    <3> QED BY <1>2, <2>1, <3>1, <3>3
  <2>2. CASE At(q).fn \notin Counted
    <3>1. S(q + 1) = S(q)
      BY <2>2
    <3> HIDE DEF S
    <3> QED BY <1>2, <1>3, <2>2, <3>1
  <2> QED BY <2>1, <2>2
<1>6. \A q \in 1 .. N + 1, r \in 1 .. N + 1 : q <= r => Below(q) <= Below(r)
  <2> SUFFICES ASSUME NEW q \in 1 .. N + 1, NEW r \in 1 .. N + 1, q <= r PROVE Below(q) <= Below(r)
    OBVIOUS
  <2>1. S(q) \subseteq S(r)
    OBVIOUS
  <2> HIDE DEF S
  <2> QED BY <1>1, <1>2, <2>1, FS_Subset
<1>7. Below(N + 1) = Raised
  BY DEF Below, Raised
<1> QED BY <1>3, <1>4, <1>5, <1>6, <1>7

\* What is below a place that did not change has not changed.
LEMMA BelowSame ==
  ASSUME NEW n \in Nat, \A q \in 1 .. n : At(q)' = At(q), N' \in Nat
  PROVE  /\ \A q \in 1 .. n + 1 : Below(q)' = Below(q)
         /\ N' = n => Raised' = Below(n + 1)
         /\ Below(n + 2)' = Below(n + 1) + (IF At(n + 1)'.fn \in Counted THEN 1 ELSE 0)
         /\ N' = n + 1 => Raised' = Below(n + 1) + (IF At(n + 1)'.fn \in Counted THEN 1 ELSE 0)
         /\ N' = n + 2 => Raised' = Below(n + 1) + (IF At(n + 1)'.fn \in Counted THEN 1 ELSE 0)
                                                + (IF At(n + 2)'.fn \in Counted THEN 1 ELSE 0)
<1>1. \A q \in 1 .. n + 1 : Below(q)' = Below(q)
  <2> TAKE q \in 1 .. n + 1
  <2>1. {r \in 1 .. q - 1 : At(r)'.fn \in Counted} = {r \in 1 .. q - 1 : At(r).fn \in Counted}
    OBVIOUS
  <2> QED BY <2>1 DEF Below, Counted
<1> DEFINE S(m) == {r \in 1 .. m : At(r)'.fn \in Counted}
<1>2. \A m \in Nat : IsFiniteSet(S(m)) /\ Cardinality(S(m)) \in Nat
  <2> TAKE m \in Nat
  <2>1. IsFiniteSet(1 .. m)
    BY FS_Interval
  <2>2. S(m) \subseteq 1 .. m
    OBVIOUS
  <2> HIDE DEF S
  <2> QED BY <2>1, <2>2, FS_Subset, FS_CardinalityType
<1>3. \A m \in Nat : Cardinality(S(m + 1)) = Cardinality(S(m)) + (IF At(m + 1)'.fn \in Counted THEN 1 ELSE 0)
  <2> TAKE m \in Nat
  <2>1. CASE At(m + 1)'.fn \in Counted
    <3>1. S(m + 1) = S(m) \cup {m + 1} /\ m + 1 \notin S(m)
      BY <2>1
    <3> HIDE DEF S
    <3>2. Cardinality(S(m) \cup {m + 1}) = Cardinality(S(m)) + 1
      BY <1>2, <3>1, FS_AddElement
    <3> QED BY <2>1, <3>1, <3>2
  <2>2. CASE At(m + 1)'.fn \notin Counted
    <3>1. S(m + 1) = S(m)
      BY <2>2
    <3> HIDE DEF S
    <3> QED BY <1>2, <2>2, <3>1
  <2> QED BY <2>1, <2>2
<1>4. Raised' = Cardinality(S(N'))
  BY DEF Raised, Counted
<1>5. Cardinality(S(n)) = Below(n + 1)
  <2>1. S(n) = {r \in 1 .. n + 1 - 1 : At(r).fn \in Counted}
    OBVIOUS
  <2> QED BY <2>1 DEF Below
<1>7. Below(n + 2)' = Cardinality(S(n + 1))
  <2>1. S(n + 1) = {r \in 1 .. n + 2 - 1 : At(r)'.fn \in Counted}
    OBVIOUS
  <2> QED BY <2>1 DEF Below, Counted
<1> HIDE DEF S
<1>6. Cardinality(S(n + 2)) = Cardinality(S(n + 1)) + (IF At(n + 2)'.fn \in Counted THEN 1 ELSE 0)
  <2>1. n + 1 \in Nat /\ n + 1 + 1 = n + 2
    OBVIOUS
  <2> QED BY <1>3, <2>1
<1> QED BY <1>1, <1>3, <1>4, <1>5, <1>6, <1>7

-----------------------------------------------------------------------------
(* What the steps have in common. *)

\* A step that changes no key but that of the innermost function, which has its skb, and
\* leaves that key invalid or describing the packet.
Fitting(k) ==
  /\ k \in [Places -> Key]
  /\ \A p \in Places : \/ k[p] = key[p]
                       \/ /\ p = top.key /\ Has(N)
                          /\ k[p].valid => k[p].hdr = skb[top.skb].hdr

\* It fits all others that use the key: their packets are the same as yet.
LEMMA KeysFit ==
  ASSUME IInv, stack # <<>>, NEW k, Fitting(k)
  PROVE  /\ \A q \in 1 .. N : Has(q) /\ k[At(q).key].valid =>
                                k[At(q).key].hdr = skb[At(q).skb].hdr
         /\ \A i \in Entries : k[<<"fifo", i>>].valid =>
                                 k[<<"fifo", i>>].hdr = skb[fifo.entry[i].skb].hdr
<1>1. /\ N \in Nat \ {0} /\ top = At(N) /\ \A q \in 1 .. N : At(q) \in FrameType
  BY Top DEF IInv, TypeOK
<1>2. \A q \in 1 .. N : At(q).key \in Places
  BY <1>1 DEF FrameType
<1>3. ASSUME NEW q \in 1 .. N, Has(q), k[At(q).key].valid
      PROVE  k[At(q).key].hdr = skb[At(q).skb].hdr
  <2>1. CASE k[At(q).key] = key[At(q).key]
    BY <1>3, <2>1 DEF IInv, Described
  <2>2. CASE /\ At(q).key = top.key /\ Has(N)
             /\ k[At(q).key].valid => k[At(q).key].hdr = skb[top.skb].hdr
    <3>1. skb[At(q).skb].hdr = skb[top.skb].hdr
      <4>1. CASE q = N
        BY <1>1, <4>1
      <4>2. CASE q # N
        <5>1. q \in 1 .. N - 1 /\ N \in 1 .. N
          BY <1>1, <4>2
        <5> QED BY <1>1, <1>3, <2>2, <5>1 DEF IInv, OnePlace
      <4> QED BY <4>1, <4>2
    <3> QED BY <1>3, <2>2, <3>1
  <2> QED BY <1>2, <2>1, <2>2 DEF Fitting
<1>4. ASSUME NEW i \in Entries, k[<<"fifo", i>>].valid
      PROVE  k[<<"fifo", i>>].hdr = skb[fifo.entry[i].skb].hdr
  <2>1. <<"fifo", i>> \in Places /\ i >= fifo.tail
    <3>1. fifo.head \in 0 .. DEFERRED_ACTION_FIFO_SIZE - 1 /\ fifo.tail \in Nat
      BY DEF IInv, TypeOK
    <3>2. i \in 0 .. DEFERRED_ACTION_FIFO_SIZE - 1 /\ i >= fifo.tail
      BY <3>1, ConstantsAssumption DEF Entries
    <3> QED BY <3>2 DEF Places
  <2>2. ~(<<"fifo", i>> = top.key /\ Has(N))
    <3> SUFFICES ASSUME <<"fifo", i>> = top.key, Has(N) PROVE FALSE
      OBVIOUS
    <3>1. At(N).key[1] = "fifo" /\ At(N).key[2] = i
      BY <1>1
    <3>2. i < fifo.tail
      BY <1>1, <3>1 DEF IInv, OnePlace
    <3> QED BY <2>1, <3>2 DEF IInv, TypeOK, Entries
  <2> QED BY <1>4, <2>1, <2>2 DEF Fitting, IInv, Described
<1> QED BY <1>3, <1>4

LEMMA FitsItself ==
  ASSUME IInv, stack # <<>>
  PROVE  /\ Fitting(key)
         /\ Has(N) => Fitting(Updated)
         /\ \A k : Fitting(k) /\ Has(N) /\ k[top.key].valid => k[top.key].hdr = skb[top.skb].hdr
<1>1. /\ N \in Nat \ {0} /\ top = At(N) /\ top \in FrameType
  BY Top DEF IInv, TypeOK
<1>2. Fitting(key)
  BY DEF Fitting, IInv, TypeOK
<1>3. ASSUME Has(N) PROVE Fitting(Updated)
  <2>1. top.key \in Places /\ top.skb \in Skbs
    BY <1>1 DEF FrameType
  <2>2. Extracted(top.skb) \in Key /\ Extracted(top.skb).hdr = skb[top.skb].hdr
    BY <2>1 DEF Extracted, Key, IInv, TypeOK
  <2>3. Updated \in [Places -> Key] /\ \A p \in Places : Updated[p] = key[p] \/ p = top.key
    BY <2>1, <2>2 DEF Updated, IInv, TypeOK
  <2>4. Updated[top.key] = key[top.key] \/ Updated[top.key] = Extracted(top.skb)
    BY <2>1 DEF Updated, IInv, TypeOK
  <2> QED BY <1>3, <2>2, <2>3, <2>4 DEF Fitting
<1>4. ASSUME NEW k, Fitting(k), Has(N), k[top.key].valid PROVE k[top.key].hdr = skb[top.skb].hdr
  <2>1. N \in 1 .. N
    BY <1>1
  <2> QED BY <1>1, <1>4, <2>1, KeysFit
<1> QED BY <1>2, <1>3, <1>4

LEMMA FreedType ==
  ASSUME NEW s \in Skbs, skb \in [Skbs -> [live : BOOLEAN, hdr : 0..1, dp : Dps]]
  PROVE  Freed(s) \in [Skbs -> [live : BOOLEAN, hdr : 0..1, dp : Dps]]
<1>1. (CHOOSE d \in Dps : TRUE) \in Dps
  BY ConstantsAssumption
<1> QED BY <1>1 DEF Freed, NoSkb


\* A step of the innermost function replaces it, from its place on, and takes an entry from the
\* FIFO or adds one.  M are the skbs it disposes of, which nobody else has.
Lasting   == Entries \cap Entries'
Added     == Entries' \ Entries
Disposes(M) ==
  /\ \A s \in Skbs \ M : skb'[s] = skb[s]
  /\ \A q \in 1 .. N - 1 : Has(q) => At(q).skb \notin M
  /\ Has(N) => top.skb \in M
  /\ \A i \in Lasting : fifo'.entry[i] = fifo.entry[i] /\ fifo.entry[i].skb \notin M
  /\ \A i \in Entries \ Entries' : fifo.entry[i].skb \in M
Hands(M) ==
  /\ \A q \in N .. N' : Has(q)' => At(q)'.skb \in M /\ skb'[At(q)'.skb].live
  /\ \A q \in N .. N', r \in N .. N' : Has(q)' /\ Has(r)' /\ q # r => At(q)'.skb # At(r)'.skb
  /\ \A i \in Added : fifo'.entry[i].skb \in M /\ skb'[fifo'.entry[i].skb].live
  /\ \A i \in Added, q \in N .. N' : Has(q)' => At(q)'.skb # fifo'.entry[i].skb
  /\ \A i \in Added, j \in Added : i = j
  /\ \A s \in M : skb'[s].live => \/ \E q \in N .. N' : Has(q)' /\ At(q)'.skb = s
                                  \/ \E i \in Added : fifo'.entry[i].skb = s
                                  \/ s \in leaked'
Upper == N' \in {N - 1, N, N + 1} /\ \A q \in 1 .. N - 1 : At(q)' = At(q)

LEMMA HandStep ==
  ASSUME IInv, stack # <<>>, Upper, leaked \subseteq leaked', NEW M \in SUBSET Skbs, Disposes(M), Hands(M)
  PROVE  /\ OneHand'
         /\ \A q \in 1 .. N - 1 : Has(q)' = Has(q) /\ (Has(q) => skb'[At(q).skb] = skb[At(q).skb])
         /\ \A i \in Lasting : skb'[fifo'.entry[i].skb] = skb[fifo.entry[i].skb]
<1>1. N \in Nat \ {0} /\ top = At(N) /\ \A q \in 1 .. N : At(q).skb \in Skbs
  BY Top DEF IInv, TypeOK, FrameType
<1>2. \A q \in 1 .. N - 1 : Has(q)' = Has(q) /\ At(q)' = At(q)
  BY <1>1 DEF Has, Upper
<1>3. \A q \in 1 .. N - 1 : Has(q) => skb'[At(q).skb] = skb[At(q).skb]
  BY <1>1 DEF Disposes
<1>4. \A i \in Lasting : /\ fifo'.entry[i] = fifo.entry[i] /\ fifo.entry[i].skb \in Skbs \ M
                         /\ skb'[fifo'.entry[i].skb] = skb[fifo.entry[i].skb]
  BY DEF Disposes, IInv, OneHand, Lasting
<1>5. \A q \in 1 .. N' : q \in 1 .. N - 1 \/ q \in N .. N'
  BY <1>1 DEF Upper
<1>6. \A i \in Entries' : i \in Lasting \/ i \in Added
  BY DEF Lasting, Added
<1>7. \A q \in 1 .. N' : Has(q)' => skb'[At(q)'.skb].live
  BY <1>1, <1>2, <1>3, <1>5 DEF IInv, OneHand, Hands
<1>8. \A q \in 1 .. N', r \in 1 .. N' : Has(q)' /\ Has(r)' /\ q # r => At(q)'.skb # At(r)'.skb
  <2> SUFFICES ASSUME NEW q \in 1 .. N', NEW r \in 1 .. N', Has(q)', Has(r)', q # r
               PROVE  At(q)'.skb # At(r)'.skb
    OBVIOUS
  <2>1. CASE q \in 1 .. N - 1 /\ r \in 1 .. N - 1
    <3>1. q \in 1 .. N /\ r \in 1 .. N
      BY <1>1, <2>1
    <3> QED BY <1>2, <2>1, <3>1 DEF IInv, OneHand
  <2>2. CASE q \in 1 .. N - 1 /\ r \in N .. N'
    BY <1>2, <2>2 DEF Disposes, Hands
  <2>3. CASE q \in N .. N' /\ r \in 1 .. N - 1
    BY <1>2, <2>3 DEF Disposes, Hands
  <2>4. CASE q \in N .. N' /\ r \in N .. N'
    BY <2>4 DEF Hands
  <2> QED BY <1>5, <2>1, <2>2, <2>3, <2>4
<1>9. \A i \in Entries' : fifo'.entry[i].skb \in Skbs /\ skb'[fifo'.entry[i].skb].live
  BY <1>4, <1>6 DEF Lasting, IInv, OneHand, Hands
<1>10. \A i \in Entries', q \in 1 .. N' : Has(q)' => At(q)'.skb # fifo'.entry[i].skb
  <2> SUFFICES ASSUME NEW i \in Entries', NEW q \in 1 .. N', Has(q)'
               PROVE  At(q)'.skb # fifo'.entry[i].skb
    OBVIOUS
  <2>1. CASE i \in Lasting /\ q \in 1 .. N - 1
    <3>1. q \in 1 .. N /\ i \in Entries
      BY <1>1, <2>1 DEF Lasting
    <3> QED BY <1>2, <1>4, <2>1, <3>1 DEF IInv, OneHand
  <2>2. CASE i \in Lasting /\ q \in N .. N'
    BY <1>4, <2>2 DEF Hands
  <2>3. CASE i \in Added /\ q \in 1 .. N - 1
    BY <1>2, <2>3 DEF Disposes, Hands
  <2>4. CASE i \in Added /\ q \in N .. N'
    BY <2>4 DEF Hands
  <2> QED BY <1>5, <1>6, <2>1, <2>2, <2>3, <2>4
<1>11. \A i \in Entries', j \in Entries' : i # j => fifo'.entry[i].skb # fifo'.entry[j].skb
  <2>1. \A i \in Lasting, j \in Lasting : i # j => fifo'.entry[i].skb # fifo'.entry[j].skb
    BY <1>4 DEF Lasting, IInv, OneHand
  <2> QED BY <1>4, <1>6, <2>1 DEF Hands
<1>12. ASSUME NEW s \in Skbs, skb'[s].live, s \notin leaked', \A i \in Entries' : fifo'.entry[i].skb # s
       PROVE  \E q \in 1 .. N' : Has(q)' /\ At(q)'.skb = s
  <2>1. CASE s \in M
    <3>1. PICK q \in N .. N' : Has(q)' /\ At(q)'.skb = s
      BY <1>12, <2>1 DEF Hands, Added
    <3>2. q \in 1 .. N'
      BY <1>1 DEF Upper
    <3> QED BY <3>1, <3>2
  <2>2. CASE s \notin M
    <3>1. skb[s].live /\ s \notin leaked
      BY <1>12, <2>2 DEF Disposes
    <3>2. \A i \in Entries : fifo.entry[i].skb # s
      BY <1>4, <1>12, <2>2 DEF Disposes, Lasting
    <3>3. PICK q \in 1 .. N : Has(q) /\ At(q).skb = s
      BY <3>1, <3>2 DEF IInv, OneHand
    <3>4. q # N
      BY <1>1, <2>2, <3>3 DEF Disposes
    <3>5. q \in 1 .. N - 1 /\ q \in 1 .. N'
      BY <1>1, <3>4 DEF Upper
    <3> QED BY <1>2, <3>3, <3>5
  <2> QED BY <2>1, <2>2
<1> QED BY <1>2, <1>3, <1>4, <1>7, <1>8, <1>9, <1>10, <1>11, <1>12 DEF OneHand

\* ... the places of the keys of those above,
PlacesAbove ==
  /\ fifo.tail <= fifo'.tail
  /\ \A q \in N .. N' : Has(q)' =>
       /\ At(q)'.key[1] = "fifo" => At(q)'.key[2] < fifo'.tail
       /\ At(q)'.key[1] # "fifo" => \/ At(q)'.key[2] < Below(q)'
                                    \/ At(q)'.key[2] = Below(q)' /\ At(q)'.fn = "process"
  /\ \A q \in N .. N' : \A r \in 1 .. q - 1 :
       Has(q)' /\ Has(r)' /\ At(q)'.key = At(r)'.key =>
         /\ At(q)'.fn # "process" /\ Harmless(At(q)'.acts)
         /\ skb'[At(q)'.skb].hdr = skb'[At(r)'.skb].hdr

LEMMA PlaceStep ==
  ASSUME IInv, stack # <<>>, Upper, fifo.tail \in Nat, fifo'.tail \in Nat, PlacesAbove,
         \A q \in 1 .. N - 1 : Has(q)' = Has(q) /\ (Has(q) => skb'[At(q).skb] = skb[At(q).skb])
  PROVE  OnePlace'
<1>1. N \in Nat \ {0} /\ N' \in Nat /\ \A q \in 1 .. N : At(q) \in FrameType
  BY Top DEF IInv, TypeOK, Upper
<1>2. \A q \in 1 .. N - 1 : At(q)' = At(q) /\ Below(q)' = Below(q)
  <2> DEFINE n == N - 1
  <2>1. n \in Nat /\ \A q \in 1 .. n : At(q)' = At(q)
    BY <1>1 DEF Upper
  <2> HIDE DEF n
  <2>2. \A q \in 1 .. n + 1 : Below(q)' = Below(q)
    BY <1>1, <2>1, BelowSame
  <2>3. \A q \in 1 .. n : Below(q)' = Below(q)
    BY <2>1, <2>2
  <2> QED BY <2>1, <2>3 DEF n
<1>3. \A q \in 1 .. N' : q \in 1 .. N - 1 \/ q \in N .. N'
  BY <1>1 DEF Upper
<1>4. ASSUME NEW q \in 1 .. N', Has(q)'
      PROVE  /\ At(q)'.key[1] = "fifo" => At(q)'.key[2] < fifo'.tail
             /\ At(q)'.key[1] # "fifo" => \/ At(q)'.key[2] < Below(q)'
                                          \/ At(q)'.key[2] = Below(q)' /\ At(q)'.fn = "process"
  <2>1. CASE q \in 1 .. N - 1
    <3>1. q \in 1 .. N /\ Has(q)
      BY <1>1, <1>4, <2>1
    <3>2. /\ At(q).key[1] = "fifo" => At(q).key[2] < fifo.tail
          /\ At(q).key[1] # "fifo" => \/ At(q).key[2] < Below(q)
                                      \/ At(q).key[2] = Below(q) /\ At(q).fn = "process"
      BY <3>1 DEF IInv, OnePlace
    <3>3. At(q).key[1] = "fifo" => At(q).key[2] \in Nat
      BY <1>1, <3>1, ConstantsAssumption DEF FrameType, Places
    <3>4. At(q).key[1] = "fifo" => At(q).key[2] < fifo'.tail
      BY <3>2, <3>3 DEF PlacesAbove
    <3> QED BY <1>2, <2>1, <3>2, <3>4
  <2>2. CASE q \in N .. N'
    BY <1>4, <2>2 DEF PlacesAbove
  <2> QED BY <1>3, <2>1, <2>2
<1>5. ASSUME NEW q \in 1 .. N', NEW r \in 1 .. q - 1, Has(q)', Has(r)', At(q)'.key = At(r)'.key
      PROVE  /\ At(q)'.fn # "process" /\ Harmless(At(q)'.acts)
             /\ skb'[At(q)'.skb].hdr = skb'[At(r)'.skb].hdr
  <2>1. CASE q \in 1 .. N - 1
    <3>1. r \in 1 .. N - 1 /\ q \in 1 .. N
      BY <1>1, <2>1
    <3>2. Has(q) /\ Has(r) /\ At(q).key = At(r).key
      BY <1>2, <1>5, <2>1, <3>1
    <3>3. At(q).fn # "process" /\ Harmless(At(q).acts) /\ skb[At(q).skb].hdr = skb[At(r).skb].hdr
      BY <3>1, <3>2 DEF IInv, OnePlace
    <3>4. skb'[At(q).skb] = skb[At(q).skb] /\ skb'[At(r).skb] = skb[At(r).skb]
      BY <2>1, <3>1, <3>2
    <3>5. At(q)' = At(q) /\ At(r)' = At(r)
      BY <1>2, <2>1, <3>1
    <3> QED BY <3>3, <3>4, <3>5
  <2>2. CASE q \in N .. N'
    BY <1>5, <2>2 DEF PlacesAbove
  <2> QED BY <1>3, <2>1, <2>2
<1>6. \A q : Harmless(At(q)'.acts) <=> Harmless(At(q).acts)'
  BY DEF Harmless, actions_may_change_flow
<1> HIDE DEF At, Has, Below, Harmless
<1> QED BY <1>4, <1>5, <1>6 DEF OnePlace

\* ... and the keys themselves: what is written fits all the others.
OtherKeys ==
  /\ \A q \in 1 .. N - 1 : Has(q) /\ key'[At(q).key].valid => key'[At(q).key].hdr = skb[At(q).skb].hdr
  /\ \A i \in Lasting : key'[<<"fifo", i>>].valid => key'[<<"fifo", i>>].hdr = skb[fifo.entry[i].skb].hdr
KeysAbove ==
  /\ \A q \in N .. N' : Has(q)' /\ key'[At(q)'.key].valid => key'[At(q)'.key].hdr = skb'[At(q)'.skb].hdr
  /\ \A i \in Added : key'[<<"fifo", i>>].valid => key'[<<"fifo", i>>].hdr = skb'[fifo'.entry[i].skb].hdr

LEMMA DescribedStep ==
  ASSUME IInv, stack # <<>>, Upper, OtherKeys, KeysAbove,
         \A q \in 1 .. N - 1 : Has(q)' = Has(q) /\ (Has(q) => skb'[At(q).skb] = skb[At(q).skb]),
         \A i \in Lasting : skb'[fifo'.entry[i].skb] = skb[fifo.entry[i].skb]
  PROVE  Described'
<1>1. N \in Nat \ {0} /\ \A q \in 1 .. N - 1 : q \in 1 .. N /\ At(q)' = At(q)
  BY Top DEF IInv, TypeOK, Upper
<1>2. \A q \in 1 .. N' : q \in 1 .. N - 1 \/ q \in N .. N'
  BY <1>1 DEF Upper
<1>3. ASSUME NEW q \in 1 .. N', Has(q)', key'[At(q)'.key].valid
      PROVE  key'[At(q)'.key].hdr = skb'[At(q)'.skb].hdr
  <2>1. CASE q \in 1 .. N - 1
    <3>1. At(q)' = At(q) /\ Has(q) /\ skb'[At(q).skb] = skb[At(q).skb]
      BY <1>1, <1>3, <2>1
    <3> QED BY <1>3, <2>1, <3>1 DEF OtherKeys
  <2>2. CASE q \in N .. N'
    BY <1>3, <2>2 DEF KeysAbove
  <2> QED BY <1>2, <2>1, <2>2
<1>4. ASSUME NEW i \in Entries', key'[<<"fifo", i>>].valid
      PROVE  key'[<<"fifo", i>>].hdr = skb'[fifo'.entry[i].skb].hdr
  <2>1. CASE i \in Lasting
    BY <1>4, <2>1 DEF OtherKeys
  <2>2. CASE i \in Added
    BY <1>4, <2>2 DEF KeysAbove
  <2> QED BY <2>1, <2>2 DEF Lasting, Added
<1> QED BY <1>3, <1>4 DEF Described

-----------------------------------------------------------------------------
(* The innermost function returns, goes on or calls. *)

LEMMA Waiting ==
  ASSUME NEW x \in FrameType, NEW acts \in Seq(Action),
         NEW fn \in {"process", "actions", "output", "clone", "clone_level", "execute", "deferred"}
  PROVE  /\ [x EXCEPT !.fn = fn, !.acts = acts] \in FrameType
         /\ [x EXCEPT !.fn = fn, !.acts = acts].fn = fn
         /\ [x EXCEPT !.fn = fn, !.acts = acts].acts = acts
         /\ [x EXCEPT !.fn = fn, !.acts = acts].skb = x.skb
         /\ [x EXCEPT !.fn = fn, !.acts = acts].key = x.key
BY DEF FrameType

\* What it has, and what nobody has, is in no other hand.
Mine(s) == (Has(N) /\ s = top.skb) \/ ~skb[s].live

LEMMA NobodyElses ==
  ASSUME IInv, stack # <<>>
  PROVE  /\ \A s \in Skbs : Mine(s) => \A q \in 1 .. N - 1 : Has(q) => At(q).skb # s
         /\ \A s \in Skbs : Mine(s) => \A i \in Entries : fifo.entry[i].skb # s
<1>1. N \in Nat \ {0} /\ top = At(N)
  BY Top DEF IInv, TypeOK
<1>2. ASSUME NEW s \in Skbs, Mine(s), NEW q \in 1 .. N - 1, Has(q) PROVE At(q).skb # s
  <2>1. q \in 1 .. N /\ N \in 1 .. N /\ q # N
    BY <1>1
  <2> QED BY <1>1, <1>2, <2>1 DEF Mine, IInv, OneHand
<1>3. ASSUME NEW s \in Skbs, Mine(s), NEW i \in Entries PROVE fifo.entry[i].skb # s
  <2>1. N \in 1 .. N
    BY <1>1
  <2> QED BY <1>1, <1>3, <2>1 DEF Mine, IInv, OneHand
<1> QED BY <1>2, <1>3

LEMMA PlaceType ==
  ASSUME NEW p \in Places
  PROVE  p[2] \in Nat
<1>1. CASE p \in {<<"clone", i>> : i \in 1..OVS_DEFERRED_ACTION_THRESHOLD}
  BY <1>1
<1>2. CASE p \in {<<"fifo", i>> : i \in 0..(DEFERRED_ACTION_FIFO_SIZE - 1)}
  BY <1>2
<1>3. CASE p \in {<<"local", i>> : i \in 0..OVS_RECURSION_LIMIT}
  BY <1>3
<1> QED BY <1>1, <1>2, <1>3 DEF Places

\* The places of the functions below.
LEMMA PlacesBelow ==
  ASSUME IInv, stack # <<>>
  PROVE  /\ Below(N) \in Nat /\ level = Below(N) + (IF top.fn \in Counted THEN 1 ELSE 0)
         /\ \A q \in 1 .. N - 1 : Has(q) /\ At(q).key[1] # "fifo" => At(q).key[2] < Below(N)
         /\ \A q \in 1 .. N : Has(q) /\ At(q).key[1] = "fifo" => At(q).key[2] < fifo.tail
         /\ top.fn \notin {"process", "execute", "deferred"} => N > 1
         /\ N > 1 => /\ Below(N) >= 1 /\ At(1).fn \in {"execute", "deferred"} /\ top.fn # "deferred"
<1>1. N \in Nat \ {0} /\ top = At(N) /\ \A q \in 1 .. N : At(q) \in FrameType
  BY Top DEF IInv, TypeOK
<1>2. /\ \A q \in 1 .. N + 1 : Below(q) \in Nat
      /\ Below(1) = 0 /\ Below(N + 1) = Raised
      /\ \A q \in 1 .. N : Below(q + 1) = Below(q) + (IF At(q).fn \in Counted THEN 1 ELSE 0)
      /\ \A q \in 1 .. N + 1, r \in 1 .. N + 1 : q <= r => Below(q) <= Below(r)
  BY <1>1, Belows
<1>3. Below(N) \in Nat /\ level = Below(N) + (IF top.fn \in Counted THEN 1 ELSE 0)
  BY <1>1, <1>2 DEF IInv, Nesting
<1>4. ASSUME NEW q \in 1 .. N - 1, Has(q), At(q).key[1] # "fifo" PROVE At(q).key[2] < Below(N)
  <2>1. q \in 1 .. N /\ q \in 1 .. N + 1 /\ N \in 1 .. N + 1 /\ q <= N
    BY <1>1
  <2>2. At(q).key[2] < Below(q)
    BY <1>4, <2>1 DEF IInv, OnePlace, Nesting
  <2>3. Below(q) <= Below(N) /\ Below(q) \in Nat /\ Below(N) \in Nat
    BY <1>2, <2>1
  <2>4. At(q).key[2] \in Nat
    BY <1>1, <2>1, PlaceType DEF FrameType
  <2> QED BY <2>2, <2>3, <2>4
<1>5. \A q \in 1 .. N : Has(q) /\ At(q).key[1] = "fifo" => At(q).key[2] < fifo.tail
  BY DEF IInv, OnePlace
<1>6. top.fn \notin {"process", "execute", "deferred"} => N > 1
  BY <1>1 DEF IInv, Nesting
<1>7. ASSUME N > 1 PROVE Below(N) >= 1 /\ At(1).fn \in {"execute", "deferred"} /\ top.fn # "deferred"
  <2>1. 1 \in 1 .. N /\ 1 \in 1 .. N - 1 /\ N \in 2 .. N /\ 2 \in 1 .. N + 1 /\ N \in 1 .. N + 1 /\ 2 <= N /\ 1 + 1 = 2
    BY <1>1, <1>7
  <2>2. At(1).fn \in {"execute", "deferred"} /\ top.fn # "deferred"
    BY <1>1, <1>7, <2>1 DEF IInv, Nesting
  <2>3. Below(2) = 1
    BY <1>2, <2>1, <2>2 DEF Counted
  <2>4. Below(2) <= Below(N)
    BY <1>2, <2>1
  <2> QED BY <1>3, <2>2, <2>3, <2>4
<1> QED BY <1>3, <1>4, <1>5, <1>6, <1>7

\* The levels after a step of the function at place m.
LEMMA LevelStep ==
  ASSUME IInv, stack # <<>>, Upper, NEW m, m = N
  PROVE  /\ m \in Nat \ {0} /\ top = At(m) /\ \A q \in 1 .. m : Below(q)' = Below(q)
         /\ N' = m - 1 => Raised' = Below(m)
         /\ N' = m => Raised' = Below(m) + (IF At(m)'.fn \in Counted THEN 1 ELSE 0)
         /\ Below(m + 1)' = Below(m) + (IF At(m)'.fn \in Counted THEN 1 ELSE 0)
         /\ N' = m + 1 => Raised' = Below(m + 1)' + (IF At(m + 1)'.fn \in Counted THEN 1 ELSE 0)
<1>1. m \in Nat \ {0} /\ N' \in Nat /\ top = At(m)
  BY Top DEF IInv, TypeOK, Upper
<1> DEFINE n == m - 1
<1>2. n \in Nat /\ m = n + 1 /\ m + 1 = n + 2 /\ \A q \in 1 .. n : At(q)' = At(q)
  BY <1>1 DEF Upper
<1> HIDE DEF n
<1>3. /\ \A q \in 1 .. n + 1 : Below(q)' = Below(q)
      /\ N' = n => Raised' = Below(n + 1)
      /\ Below(n + 2)' = Below(n + 1) + (IF At(n + 1)'.fn \in Counted THEN 1 ELSE 0)
      /\ N' = n + 1 => Raised' = Below(n + 1) + (IF At(n + 1)'.fn \in Counted THEN 1 ELSE 0)
      /\ N' = n + 2 => Raised' = Below(n + 1) + (IF At(n + 1)'.fn \in Counted THEN 1 ELSE 0)
                                             + (IF At(n + 2)'.fn \in Counted THEN 1 ELSE 0)
  BY <1>1, <1>2, BelowSame
<1>4. m - 1 = n
  BY <1>2
<1> QED BY <1>1, <1>2, <1>3, <1>4

\* A nested function leaves the outermost one alone.
NestedAbove ==
  \A q \in N .. N' : At(q)'.fn # "deferred" /\ (q < N' => At(q)'.fn \notin {"process", "actions"})
LEMMA NestingStep ==
  ASSUME IInv, stack # <<>>, Upper, N > 1, level' = Raised', fifo'.tail = fifo.tail,
         NestedAbove
  PROVE  Nesting'
<1> PICK m \in Nat : m = N
  BY DEF IInv, TypeOK, N
<1>1. m > 1 /\ N' \in {m - 1, m, m + 1} /\ \A q \in 1 .. m - 1 : At(q)' = At(q)
  BY DEF Upper
<1>2. /\ \A q \in 1 .. m - 1 : At(q).fn \notin {"process", "actions"}
      /\ \A q \in 2 .. m : At(q).fn # "deferred"
      /\ At(1).fn \in {"execute", "deferred"}
      /\ At(1).fn # "deferred" => fifo.tail = 0
  BY <1>1, PlacesBelow DEF IInv, Nesting
<1> PICK k \in Nat : N' = k
  BY <1>1
<1>3. \A q \in 1 .. k - 1 : At(q)'.fn \notin {"process", "actions"}
  <2> TAKE q \in 1 .. k - 1
  <2>1. CASE q \in 1 .. m - 1
    BY <1>1, <1>2, <2>1
  <2>2. CASE q \notin 1 .. m - 1
    <3>1. k \in {m - 1, m, m + 1}
      BY <1>1
    <3>2. q \in m .. k /\ q < k
      BY <2>2, <3>1
    <3>3. q \in N .. N' /\ q < N'
      BY <3>2
    <3> QED BY <3>3 DEF NestedAbove
  <2> QED BY <2>1, <2>2
<1>4. \A q \in 2 .. N' : At(q)'.fn # "deferred"
  <2> TAKE q \in 2 .. N'
  <2>1. CASE q \in 1 .. m - 1
    <3>1. q \in 2 .. m
      BY <2>1
    <3> QED BY <1>1, <1>2, <2>1, <3>1
  <2>2. CASE q \notin 1 .. m - 1
    <3>1. q \in N .. N'
      BY <1>1, <2>2
    <3> QED BY <3>1 DEF NestedAbove
  <2> QED BY <2>1, <2>2
<1>5. N' > 0 /\ At(1)' = At(1)
  BY <1>1
<1> QED BY <1>2, <1>3, <1>4, <1>5 DEF Nesting


\* A step that keeps the FIFO's entries and changes no skb that another has.
Own == {s \in Skbs : Mine(s)}
LEMMA DisposesOwn ==
  ASSUME IInv, stack # <<>>, Entries \subseteq Entries',
         \A i \in Entries : fifo'.entry[i] = fifo.entry[i],
         \A s \in Skbs : Mine(s) \/ skb'[s] = skb[s]
  PROVE  Disposes(Own)
<1>1. N \in Nat \ {0} /\ top.skb \in Skbs
  BY Top DEF IInv, TypeOK, FrameType
<1>2. /\ \A s \in Skbs : Mine(s) => \A q \in 1 .. N - 1 : Has(q) => At(q).skb # s
      /\ \A s \in Skbs : Mine(s) => \A i \in Entries : fifo.entry[i].skb # s
  BY NobodyElses
<1>3. Has(N) => top.skb \in Own
  BY <1>1 DEF Own, Mine
<1> QED BY <1>2, <1>3 DEF Disposes, Own, Lasting

\* A key that fits its own packet fits the others'.
LEMMA KeyFitsOthers ==
  ASSUME IInv, stack # <<>>, NEW k, Fitting(k), NEW p, key' = k \/ \E v : key' = [k EXCEPT ![p] = v],
         key' = k \/ \A q \in 1 .. N - 1 : Has(q) => At(q).key # p,
         key' = k \/ \A i \in Lasting : <<"fifo", i>> # p
  PROVE  OtherKeys
<1>1. \A q \in 1 .. N - 1 : q \in 1 .. N
  BY Top DEF IInv, TypeOK
<1>2. \A x \in Places : x # p \/ key' = k => key'[x] = k[x]
  BY DEF Fitting
<1>3. /\ \A q \in 1 .. N : Has(q) /\ k[At(q).key].valid => k[At(q).key].hdr = skb[At(q).skb].hdr
      /\ \A i \in Entries : k[<<"fifo", i>>].valid => k[<<"fifo", i>>].hdr = skb[fifo.entry[i].skb].hdr
  BY KeysFit
<1>4. \A q \in 1 .. N - 1 : At(q).key \in Places
  BY <1>1, Top DEF IInv, TypeOK, FrameType
<1>5. \A i \in Lasting : <<"fifo", i>> \in Places /\ i \in Entries
  BY ConstantsAssumption DEF Lasting, Entries, Places, IInv, TypeOK
<1>6. \A q \in 1 .. N - 1 : Has(q) => key'[At(q).key] = k[At(q).key]
  BY <1>2, <1>4
<1>7. \A i \in Lasting : key'[<<"fifo", i>>] = k[<<"fifo", i>>]
  BY <1>2, <1>5
<1> QED BY <1>1, <1>3, <1>5, <1>6, <1>7 DEF OtherKeys

\* The innermost function returns, having freed its skb, left it behind or handed it on
\* before.
LEMMA ReturnIInv ==
  ASSUME IInv, stack # <<>>, stack' = Tail(stack), ret' \in {"ok", "err"},
         Has(N) \/ N > 1, level' = Below(N), fifo' = fifo, Fitting(key'),
         \A s \in Skbs : skb'[s] = skb[s] \/ (Mine(s) /\ ~skb'[s].live),
         skb' \in [Skbs -> [live : BOOLEAN, hdr : 0..1, dp : Dps]],
         Has(N) => ~skb'[top.skb].live \/ top.skb \in leaked',
         leaked \subseteq leaked', leaked' \subseteq Skbs
  PROVE  IInv'
<1> PICK m \in Nat : m = N
  BY DEF IInv, TypeOK, N
<1>1. m > 0 /\ top = At(m) /\ \A q \in 1 .. m : At(q) \in FrameType
  BY Top DEF IInv, TypeOK
<1>2. stack' \in Seq(FrameType) /\ N' = m - 1 /\ \A q \in 1 .. m - 1 : At(q)' = At(q)
  BY Popped DEF IInv, TypeOK
<1>3. Upper
  BY <1>2 DEF Upper
<1>4. Raised' = Below(N) /\ Below(N) \in Nat /\ Below(N) <= level
  BY <1>2, <1>3, LevelStep, PlacesBelow
<1>5. Entries' = Entries /\ Lasting = Entries /\ Added = {} /\ \A q : q \notin N .. N'
  BY <1>1, <1>2 DEF Entries, Lasting, Added
<1>6. TypeOK'
  <2>1. level' \in 0 .. OVS_RECURSION_LIMIT
    BY <1>4, ConstantsAssumption DEF IInv, TypeOK
  <2> QED BY <1>2, <2>1 DEF IInv, TypeOK, Fitting
<1>7. Nesting'
  <2>1. CASE m > 1
    <3>1. NestedAbove
      BY <1>5 DEF NestedAbove
    <3> QED BY <1>3, <1>4, <2>1, <3>1, NestingStep
  <2>2. CASE m = 1
    <3>1. N' = 0 /\ At(1).fn = "process"
      BY <1>1, <1>2, <2>2 DEF IInv, Nesting, Has
    <3> QED BY <1>4, <3>1 DEF IInv, Nesting
  <2> QED BY <1>1, <2>1, <2>2
<1>8. /\ OneHand'
      /\ \A q \in 1 .. N - 1 : Has(q)' = Has(q) /\ (Has(q) => skb'[At(q).skb] = skb[At(q).skb])
      /\ \A i \in Lasting : skb'[fifo'.entry[i].skb] = skb[fifo.entry[i].skb]
  <2>1. Disposes(Own)
    BY <1>5, DisposesOwn
  <2>2. Hands(Own)
    <3>1. ASSUME NEW s \in Own, skb'[s].live PROVE s \in leaked'
      BY <3>1 DEF Own, Mine
    <3> QED BY <1>5, <3>1 DEF Hands
  <2>3. Own \in SUBSET Skbs
    BY DEF Own
  <2> HIDE DEF Own
  <2> QED BY <1>3, <2>1, <2>2, <2>3, HandStep
<1>9. OnePlace'
  <2>1. PlacesAbove
    <3>1. fifo'.tail = fifo.tail /\ fifo.tail \in Nat
      BY DEF IInv, TypeOK
    <3> QED BY <1>5, <3>1 DEF PlacesAbove
  <2> QED BY <1>3, <1>8, <2>1, PlaceStep DEF IInv, TypeOK
<1>10. Described'
  <2>1. KeysAbove
    BY <1>5 DEF KeysAbove
  <2>2. OtherKeys
    BY KeyFitsOthers
  <2> QED BY <1>3, <1>8, <2>1, <2>2, DescribedStep
<1> QED BY <1>6, <1>7, <1>8, <1>9, <1>10 DEF IInv

\* The innermost function goes on with the rest of its actions.
LEMMA ContinueIInv ==
  ASSUME IInv, stack # <<>>, NEW acts \in Seq(Action),
         stack' = <<[top EXCEPT !.fn = "actions", !.acts = acts]>> \o Tail(stack), ret' \in {"ok", "err"},
         Has(N), top.fn # "process", level' = Below(N), fifo' = fifo, leaked' = leaked,
         key' \in [Places -> Key], OtherKeys,
         key'[top.key].valid => key'[top.key].hdr = skb'[top.skb].hdr,
         Harmless(top.acts) => Harmless(acts) /\ skb'[top.skb].hdr = skb[top.skb].hdr,
         skb' \in [Skbs -> [live : BOOLEAN, hdr : 0..1, dp : Dps]],
         skb'[top.skb].live,
         \A s \in Skbs \ {top.skb} : skb'[s] = skb[s] \/ (~skb[s].live /\ ~skb'[s].live)
  PROVE  IInv'
<1> PICK m \in Nat : m = N
  BY DEF IInv, TypeOK, N
<1>1. m > 0 /\ top = At(m) /\ top \in FrameType /\ \A q \in 1 .. m : At(q) \in FrameType
  BY Top DEF IInv, TypeOK
<1> DEFINE g == [top EXCEPT !.fn = "actions", !.acts = acts]
<1>2. /\ g \in FrameType /\ g.fn = "actions" /\ g.acts = acts /\ g.skb = top.skb /\ g.key = top.key
  BY <1>1 DEF FrameType
<1> HIDE DEF g
<1>3. /\ stack' \in Seq(FrameType) /\ N' = m /\ \A q \in 1 .. m - 1 : At(q)' = At(q)
      /\ At(m)' = g
  <2>1. stack' = <<g>> \o Tail(stack)
    BY DEF g
  <2>2. /\ stack' \in Seq(FrameType) /\ N' = N
        /\ \A q \in 1 .. N - 1 : At(q)' = At(q)
        /\ \A q \in 1 .. N : At(q)' = IF q = N THEN g ELSE At(q)
    BY <1>2, <2>1, Replaced DEF IInv, TypeOK
  <2> QED BY <1>1, <2>2
<1>4. Upper /\ N .. N' = {m}
  BY <1>1, <1>3 DEF Upper
<1>5. /\ Raised' = Below(N) /\ Below(N) \in Nat /\ Below(N) <= level /\ N > 1 /\ Below(m)' = Below(m)
      /\ Has(m)' /\ At(1).fn \in {"execute", "deferred"}
      /\ top.key[1] = "fifo" => top.key[2] < fifo.tail
      /\ top.key[1] # "fifo" => top.key[2] < Below(m)
  <2>1. N > 1 /\ Below(N) \in Nat /\ Below(N) <= level /\ At(1).fn \in {"execute", "deferred"}
    <3>1. top.fn \notin {"process", "execute", "deferred"}
      BY <1>1 DEF Has
    <3> QED BY <3>1, PlacesBelow
  <2>2. Raised' = Below(N) /\ Below(m)' = Below(m)
    <3>1. At(m)'.fn \notin Counted
      BY <1>2, <1>3 DEF Counted
    <3>2. /\ Raised' = Below(m) + (IF At(m)'.fn \in Counted THEN 1 ELSE 0)
          /\ \A q \in 1 .. m : Below(q)' = Below(q)
      BY <1>3, <1>4, LevelStep
    <3> QED BY <1>1, <2>1, <3>1, <3>2
  <2>3. Has(m)'
    BY <1>2, <1>3 DEF Has
  <2>4. /\ top.key[1] = "fifo" => top.key[2] < fifo.tail
        /\ top.key[1] # "fifo" => top.key[2] < Below(m)
    BY <1>1 DEF IInv, OnePlace
  <2> QED BY <2>1, <2>2, <2>3, <2>4
<1>6. Entries' = Entries /\ Lasting = Entries /\ Added = {}
  BY DEF Entries, Lasting, Added
<1>7. TypeOK'
  <2>1. level' \in 0 .. OVS_RECURSION_LIMIT
    BY <1>5, ConstantsAssumption DEF IInv, TypeOK
  <2> QED BY <1>3, <2>1 DEF IInv, TypeOK
<1>8. Nesting'
  <2>1. NestedAbove
    BY <1>2, <1>3, <1>4 DEF NestedAbove
  <2> QED BY <1>4, <1>5, <2>1, NestingStep
<1>9. /\ OneHand'
      /\ \A q \in 1 .. N - 1 : Has(q)' = Has(q) /\ (Has(q) => skb'[At(q).skb] = skb[At(q).skb])
      /\ \A i \in Lasting : skb'[fifo'.entry[i].skb] = skb[fifo.entry[i].skb]
  <2>1. Disposes(Own)
    <3>1. \A s \in Skbs : Mine(s) \/ skb'[s] = skb[s]
      BY DEF Mine
    <3> QED BY <1>6, <3>1, DisposesOwn
  <2>2. Hands(Own)
    <3>1. top.skb \in Own
      BY <1>1 DEF Own, Mine, FrameType
    <3>2. ASSUME NEW s \in Own, skb'[s].live PROVE s = top.skb
      BY <3>2 DEF Own, Mine
    <3> HIDE DEF Own
    <3> QED BY <1>2, <1>3, <1>4, <1>5, <1>6, <3>1, <3>2 DEF Hands
  <2>3. Own \in SUBSET Skbs
    BY DEF Own
  <2> HIDE DEF Own
  <2> QED BY <1>4, <2>1, <2>2, <2>3, HandStep
<1>10. OnePlace'
  <2>1. PlacesAbove
    <3>1. ASSUME NEW r \in 1 .. m - 1, Has(r)', At(r)'.key = top.key
          PROVE  Harmless(acts) /\ skb'[top.skb].hdr = skb'[At(r)'.skb].hdr
      <4>1. r \in 1 .. m /\ m \in 1 .. m /\ At(r)' = At(r) /\ Has(r)
        BY <1>1, <1>3, <1>9, <3>1
      <4>2. Harmless(top.acts) /\ skb[top.skb].hdr = skb[At(r).skb].hdr
        BY <1>1, <3>1, <4>1 DEF IInv, OnePlace
      <4> QED BY <1>9, <3>1, <4>1, <4>2
    <3>2. fifo'.tail = fifo.tail /\ fifo.tail \in Nat
      BY DEF IInv, TypeOK
    <3>3. ASSUME NEW q \in N .. N'
          PROVE  /\ q = m /\ At(q)'.key = top.key /\ At(q)'.fn = "actions" /\ At(q)'.acts = acts
                 /\ At(q)'.skb = top.skb /\ Below(q)' = Below(m)
      BY <1>2, <1>3, <1>4, <1>5, <3>3
    <3> QED BY <1>5, <3>1, <3>2, <3>3 DEF PlacesAbove
  <2> QED BY <1>4, <1>9, <2>1, PlaceStep DEF IInv, TypeOK
<1>11. Described'
  <2>1. KeysAbove
    BY <1>2, <1>3, <1>4, <1>6 DEF KeysAbove
  <2> QED BY <1>4, <1>9, <2>1, DescribedStep
<1> QED BY <1>7, <1>8, <1>9, <1>10, <1>11 DEF IInv

\* The innermost function becomes g, waiting for f, which works on its skb or a new one.
\* A key that both use stays the same while f works with it.
LEMMA CallIInv ==
  ASSUME IInv, stack # <<>>, NEW f \in FrameType, NEW g \in FrameType,
         stack' = <<f, g>> \o Tail(stack), ret' \in {"ok", "err"}, fifo' = fifo, leaked' = leaked,
         Has(N), f.fn \in {"process", "actions"}, g.fn \in {"output", "clone", "clone_level", "execute"},
         top.fn = "actions" \/ (g.fn = "execute" /\ top.fn = "process"),
         g.skb = top.skb, g.key = top.key,
         level' = Below(N) + (IF g.fn \in Counted THEN 1 ELSE 0), level' <= OVS_RECURSION_LIMIT,
         NEW kept \in BOOLEAN, kept <=> g.fn # "execute" /\ g.acts # <<>>,
         kept => f.skb # top.skb /\ (Harmless(top.acts) => Harmless(g.acts)),
         ~kept => f.skb = top.skb,
         Mine(f.skb), skb' \in [Skbs -> [live : BOOLEAN, hdr : 0..1, dp : Dps]],
         skb'[f.skb].live, \A s \in Skbs \ {f.skb} : skb'[s] = skb[s],
         key' \in [Places -> Key], OtherKeys,
         key'[f.key].valid => key'[f.key].hdr = skb'[f.skb].hdr,
         kept /\ key'[top.key].valid => key'[top.key].hdr = skb[top.skb].hdr,
         f.key[1] = "fifo" => f.key[2] < fifo.tail,
         f.key[1] # "fifo" => f.key[2] < level' \/ (f.key[2] = level' /\ f.fn = "process"),
         \A q \in 1 .. N - 1 : Has(q) => At(q).key # f.key,
         kept /\ f.key = top.key => /\ f.fn # "process" /\ Harmless(f.acts)
                                    /\ skb'[f.skb].hdr = skb[top.skb].hdr
  PROVE  IInv'
<1> PICK m \in Nat : m = N
  BY DEF IInv, TypeOK, N
<1>1. m > 0 /\ top = At(m) /\ top \in FrameType /\ \A q \in 1 .. m : At(q) \in FrameType
  <2>1. stack \in Seq(FrameType) /\ stack # <<>>
    BY DEF IInv, TypeOK
  <2>2. /\ N \in Nat \ {0} /\ top = At(N) /\ top \in FrameType
        /\ \A q \in 1 .. N : At(q) \in FrameType
    BY ONLY <2>1, Top
  <2> QED BY <2>2
<1>2. /\ stack' \in Seq(FrameType) /\ N' = m + 1 /\ \A q \in 1 .. m - 1 : At(q)' = At(q)
      /\ At(m)' = g /\ At(m + 1)' = f
  <2>1. /\ stack' \in Seq(FrameType) /\ N' = N + 1
        /\ \A q \in 1 .. N - 1 : At(q)' = At(q)
        /\ \A q \in 1 .. N + 1 : At(q)' = IF q = N + 1 THEN f ELSE IF q = N THEN g ELSE At(q)
    BY Pushed DEF IInv, TypeOK
  <2>2. m \in 1 .. m + 1 /\ m + 1 \in 1 .. m + 1 /\ m # m + 1
    BY <1>1
  <2> QED BY <2>1, <2>2
<1>3. Upper /\ N .. N' = {m, m + 1}
  BY <1>1, <1>2 DEF Upper
<1>4. /\ Below(m) \in Nat /\ Below(m)' = Below(m) /\ Below(m + 1)' = level' /\ Raised' = level'
      /\ Below(m) <= level'
  <2>1. /\ Below(m + 1)' = Below(m) + (IF At(m)'.fn \in Counted THEN 1 ELSE 0)
        /\ Raised' = Below(m + 1)' + (IF At(m + 1)'.fn \in Counted THEN 1 ELSE 0)
        /\ \A q \in 1 .. m : Below(q)' = Below(q)
    BY <1>2, <1>3, LevelStep
  <2>2. Below(m) \in Nat
    BY PlacesBelow
  <2>3. At(m + 1)'.fn \notin Counted
    BY <1>2 DEF Counted
  <2> QED BY <1>1, <1>2, <2>1, <2>2, <2>3
<1>5. (Has(m)' <=> kept) /\ Has(m + 1)' /\ m + 1 # m
  BY <1>1, <1>2 DEF Has
<1>6. Entries' = Entries /\ Lasting = Entries /\ Added = {}
  BY DEF Entries, Lasting, Added
<1>7. TypeOK'
  <2>1. level' \in 0 .. OVS_RECURSION_LIMIT
    BY <1>4, ConstantsAssumption
  <2> QED BY <1>2, <2>1 DEF IInv, TypeOK
<1>8. Nesting'
  <2>1. CASE m > 1
    <3>1. NestedAbove
      BY <1>1, <1>2, <1>3 DEF NestedAbove
    <3> QED BY <1>3, <1>4, <2>1, <3>1, NestingStep
  <2>2. CASE m = 1
    <3>1. N' = 2 /\ At(1)' = g /\ At(2)' = f /\ g.fn = "execute" /\ At(1).fn = "process"
      BY <1>1, <1>2, <2>2, PlacesBelow
    <3>2. fifo.head = 0 /\ fifo.tail = 0
      BY <3>1 DEF IInv, Nesting
    <3>3. \A q \in 2 .. N' : q = 2
      BY <3>1
    <3>4. \A q \in 1 .. N' - 1 : q = 1
      BY <3>1
    <3> QED BY <1>4, <3>1, <3>2, <3>3, <3>4 DEF Nesting
  <2> QED BY <1>1, <2>1, <2>2
<1>9. /\ OneHand'
      /\ \A q \in 1 .. N - 1 : Has(q)' = Has(q) /\ (Has(q) => skb'[At(q).skb] = skb[At(q).skb])
      /\ \A i \in Lasting : skb'[fifo'.entry[i].skb] = skb[fifo.entry[i].skb]
  <2>0. f.skb \in Own /\ top.skb \in Own /\ f.skb \in Skbs /\ top.skb \in Skbs /\ skb[top.skb].live
    <3>1. f.skb \in Skbs /\ top.skb \in Skbs
      BY <1>1 DEF FrameType
    <3> QED BY <1>1, <3>1 DEF Own, Mine, IInv, OneHand
  <2>1. Disposes(Own)
    <3>1. \A s \in Skbs : Mine(s) \/ skb'[s] = skb[s]
      BY DEF Mine
    <3> QED BY <1>6, <3>1, DisposesOwn
  <2>2. Hands(Own)
    <3>1. \A s \in Own : skb'[s].live => s = top.skb \/ s = f.skb
      BY DEF Own, Mine
    <3>2. kept => skb'[top.skb].live
      BY <2>0
    <3> HIDE DEF Own
    <3>3. \A q \in N .. N' : Has(q)' => \/ (q = m /\ kept /\ At(q)'.skb = top.skb)
                                       \/ (q = m + 1 /\ At(q)'.skb = f.skb)
      <4> SUFFICES ASSUME NEW q \in {m, m + 1}, Has(q)'
                   PROVE  \/ (q = m /\ kept /\ At(q)'.skb = top.skb)
                          \/ (q = m + 1 /\ At(q)'.skb = f.skb)
        BY <1>3
      <4>1. CASE q = m
        BY <1>2, <1>5, <4>1
      <4>2. CASE q = m + 1
        BY <1>2, <4>2
      <4> QED BY <4>1, <4>2
    <3>4. \A s \in Own : skb'[s].live => \E q \in N .. N' : Has(q)' /\ At(q)'.skb = s
      <4> SUFFICES ASSUME NEW s \in Own, skb'[s].live
                   PROVE  \E q \in {m, m + 1} : Has(q)' /\ At(q)'.skb = s
        BY <1>3
      <4>1. CASE s = f.skb
        BY <1>2, <1>5, <4>1
      <4>2. CASE s # f.skb
        <5>1. kept /\ s = top.skb
          BY <3>1, <4>2
        <5> QED BY <1>2, <1>5, <5>1
      <4> QED BY <4>1, <4>2
    <3>5. \A q \in N .. N', r \in N .. N' : Has(q)' /\ Has(r)' /\ q # r => At(q)'.skb # At(r)'.skb
      BY <3>3
    <3>6. \A q \in N .. N' : Has(q)' => At(q)'.skb \in Own /\ skb'[At(q)'.skb].live
      BY <2>0, <3>2, <3>3
    <3> QED BY <1>6, <3>4, <3>5, <3>6 DEF Hands
  <2>3. Own \in SUBSET Skbs
    BY DEF Own
  <2> HIDE DEF Own
  <2> QED BY <1>3, <2>1, <2>2, <2>3, HandStep
<1>10. OnePlace'
  <2>0. fifo'.tail = fifo.tail /\ fifo.tail \in Nat
    BY DEF IInv, TypeOK
  <2>1. ASSUME NEW q \in N .. N', Has(q)'
        PROVE  /\ At(q)'.key[1] = "fifo" => At(q)'.key[2] < fifo'.tail
               /\ At(q)'.key[1] # "fifo" => \/ At(q)'.key[2] < Below(q)'
                                            \/ At(q)'.key[2] = Below(q)' /\ At(q)'.fn = "process"
    <3>1. CASE q = m /\ kept
      <4>0. At(q)' = g /\ Below(q)' = Below(m)
        BY <1>2, <1>4, <3>1
      <4>1. top.fn # "process" /\ At(q)'.key = top.key /\ Below(q)' = Below(m)
        BY <3>1, <4>0
      <4>2. /\ top.key[1] = "fifo" => top.key[2] < fifo.tail
            /\ top.key[1] # "fifo" => top.key[2] < Below(m)
        BY <1>1, <4>1 DEF IInv, OnePlace
      <4> QED BY <2>0, <4>1, <4>2
    <3>2. CASE q = m + 1
      <4>1. At(q)' = f /\ Below(q)' = level'
        BY <1>2, <1>4, <3>2
      <4> QED BY <2>0, <4>1
    <3> QED BY <1>3, <1>5, <2>1, <3>1, <3>2
  <2>2. ASSUME NEW q \in N .. N', NEW r \in 1 .. q - 1, Has(q)', Has(r)', At(q)'.key = At(r)'.key
        PROVE  /\ At(q)'.fn # "process" /\ Harmless(At(q)'.acts)
               /\ skb'[At(q)'.skb].hdr = skb'[At(r)'.skb].hdr
    <3>0. r \in 1 .. m - 1 => At(r)' = At(r) /\ Has(r) /\ skb'[At(r).skb] = skb[At(r).skb]
      BY <1>2, <1>9, <2>2
    <3>1. CASE q = m /\ kept
      <4>1. r \in 1 .. m - 1 /\ r \in 1 .. m /\ m \in 1 .. m
        BY <1>1, <3>1
      <4>2. At(q)' = g
        BY <1>2, <3>1
      <4>3. Has(r) /\ At(r).key = top.key
        BY <2>2, <3>0, <4>1, <4>2
      <4>4. Harmless(top.acts) /\ skb[top.skb].hdr = skb[At(r).skb].hdr
        BY <1>1, <4>1, <4>3 DEF IInv, OnePlace
      <4>5. skb'[top.skb] = skb[top.skb]
        BY <1>1, <3>1 DEF FrameType
      <4> QED BY <3>0, <3>1, <4>1, <4>2, <4>4, <4>5
    <3>2. CASE q = m + 1
      <4>1. At(q)' = f
        BY <1>2, <3>2
      <4>2. r \in 1 .. m - 1 \/ r = m
        BY <1>1, <3>2
      <4>3. r \notin 1 .. m - 1
        BY <2>2, <3>0, <4>1
      <4>4. At(r)' = g /\ kept
        BY <1>2, <1>5, <2>2, <4>2, <4>3
      <4>5. skb'[top.skb] = skb[top.skb]
        BY <1>1, <4>4 DEF FrameType
      <4> QED BY <2>2, <4>1, <4>4, <4>5
    <3> QED BY <1>3, <1>5, <2>2, <3>1, <3>2
  <2>3. PlacesAbove
    BY <2>0, <2>1, <2>2 DEF PlacesAbove
  <2> QED BY <1>3, <1>9, <2>0, <2>3, PlaceStep
<1>11. Described'
  <2>1. ASSUME NEW q \in N .. N', Has(q)', key'[At(q)'.key].valid
        PROVE  key'[At(q)'.key].hdr = skb'[At(q)'.skb].hdr
    <3>1. CASE q = m /\ kept
      <4>1. At(q)' = g /\ skb'[top.skb] = skb[top.skb]
        BY <1>1, <1>2, <3>1 DEF FrameType
      <4> QED BY <2>1, <3>1, <4>1
    <3>2. CASE q = m + 1
      BY <1>2, <2>1, <3>2
    <3> QED BY <1>3, <1>5, <2>1, <3>1, <3>2
  <2>2. KeysAbove
    BY <1>6, <2>1 DEF KeysAbove
  <2> QED BY <1>3, <1>9, <2>2, DescribedStep
<1> QED BY <1>7, <1>8, <1>9, <1>10, <1>11 DEF IInv

\* action_fifo_put() and action_fifo_get().
FifoType == [head : 0..(DEFERRED_ACTION_FIFO_SIZE - 1), tail : 0..(DEFERRED_ACTION_FIFO_SIZE - 1),
             entry : [0..(DEFERRED_ACTION_FIFO_SIZE - 1) -> EntryType]]
WithPut(f, e) == [f EXCEPT !.head = f.head + 1, !.entry[f.head] = e]
LEMMA Put ==
  ASSUME NEW f \in FifoType, NEW e \in EntryType, f.head < DEFERRED_ACTION_FIFO_SIZE - 1,
         NEW p, p = WithPut(f, e)
  PROVE  /\ p \in FifoType /\ p.head = f.head + 1 /\ p.tail = f.tail /\ p.entry[f.head] = e
         /\ \A i \in 0..(DEFERRED_ACTION_FIFO_SIZE - 1) : i # f.head => p.entry[i] = f.entry[i]
<1>1. f.head + 1 \in 0..(DEFERRED_ACTION_FIFO_SIZE - 1)
  BY ConstantsAssumption DEF FifoType
<1>2. p.head = f.head + 1 /\ p.tail = f.tail /\ p.entry = [f.entry EXCEPT ![f.head] = e]
  BY DEF FifoType, WithPut
<1>3. p = [head |-> p.head, tail |-> p.tail, entry |-> p.entry]
  BY DEF FifoType, WithPut
<1>4. p.entry \in [0..(DEFERRED_ACTION_FIFO_SIZE - 1) -> EntryType] /\ p.entry[f.head] = e
      /\ \A i \in 0..(DEFERRED_ACTION_FIFO_SIZE - 1) : i # f.head => p.entry[i] = f.entry[i]
  BY <1>2 DEF FifoType
<1>5. f.tail \in 0..(DEFERRED_ACTION_FIFO_SIZE - 1)
  BY DEF FifoType
<1> QED BY <1>1, <1>2, <1>3, <1>4, <1>5 DEF FifoType

LEMMA Get ==
  ASSUME NEW f \in FifoType, f.tail < f.head, NEW p, p = Got(f)
  PROVE  /\ p \in FifoType /\ p.head = f.head /\ p.tail = f.tail + 1
         /\ \A i \in 0..(DEFERRED_ACTION_FIFO_SIZE - 1) : i # f.tail => p.entry[i] = f.entry[i]
<1>0. NoEntry \in EntryType
  BY DEF NoEntry, EntryType
<1>1. f.tail + 1 \in 0..(DEFERRED_ACTION_FIFO_SIZE - 1)
  BY ConstantsAssumption DEF FifoType
<1>2. p.head = f.head /\ p.tail = f.tail + 1 /\ p.entry = [f.entry EXCEPT ![f.tail] = NoEntry]
  BY DEF FifoType, Got
<1>3. p = [head |-> p.head, tail |-> p.tail, entry |-> p.entry]
  BY DEF FifoType, Got
<1>4. p.entry \in [0..(DEFERRED_ACTION_FIFO_SIZE - 1) -> EntryType]
      /\ \A i \in 0..(DEFERRED_ACTION_FIFO_SIZE - 1) : i # f.tail => p.entry[i] = f.entry[i]
  BY <1>0, <1>2 DEF FifoType
<1>5. f.head \in 0..(DEFERRED_ACTION_FIFO_SIZE - 1)
  BY DEF FifoType
<1> QED BY <1>1, <1>2, <1>3, <1>4, <1>5 DEF FifoType

LEMMA FifoPlace ==
  ASSUME NEW i \in 0..(DEFERRED_ACTION_FIFO_SIZE - 1)
  PROVE  <<"fifo", i>> \in Places
BY DEF Places

\* The innermost function defers actions on its skb or a new one, and returns or goes on.
LEMMA DeferIInv ==
  ASSUME IInv, stack # <<>>, top.fn = "actions", ret' \in {"ok", "err"}, level' = level, leaked' = leaked,
         NEW fn \in {"process", "actions"}, NEW s \in Skbs, NEW acts \in Seq(Action), NEW rst \in Seq(Action),
         fifo.head < DEFERRED_ACTION_FIFO_SIZE - 1,
         fifo' = WithPut(fifo, [fn |-> fn, skb |-> s, acts |-> acts]),
         \/ s = top.skb /\ stack' = Tail(stack)
         \/ /\ s # top.skb /\ Mine(s)
            /\ stack' = <<[top EXCEPT !.fn = "actions", !.acts = rst]>> \o Tail(stack),
         Harmless(top.acts) => Harmless(rst),
         skb' = [skb EXCEPT ![s] = skb[top.skb]],
         NEW k, Fitting(k), key' = [k EXCEPT ![<<"fifo", fifo.head>>] = k[top.key]]
  PROVE  IInv'
<1> PICK m \in Nat : m = N
  BY Top DEF IInv, TypeOK
<1> DEFINE g == [top EXCEPT !.fn = "actions", !.acts = rst]
           h == fifo.head
<1>1. m > 0 /\ top = At(m) /\ top \in FrameType /\ \A q \in 1 .. m : At(q) \in FrameType
  BY Top DEF IInv, TypeOK
<1>2. /\ g \in FrameType /\ g.fn = "actions" /\ g.acts = rst /\ g.skb = top.skb /\ g.key = top.key
  BY <1>1 DEF FrameType
<1>3. /\ h \in 0 .. DEFERRED_ACTION_FIFO_SIZE - 2 /\ fifo'.head = h + 1 /\ fifo'.tail = fifo.tail
      /\ fifo.tail \in 0 .. h /\ fifo' \in FifoType /\ fifo'.entry[h] = [fn |-> fn, skb |-> s, acts |-> acts]
      /\ \A i \in 0..(DEFERRED_ACTION_FIFO_SIZE - 1) : i # h => fifo'.entry[i] = fifo.entry[i]
  <2>1. fifo \in FifoType /\ fifo.tail <= fifo.head
    BY DEF IInv, TypeOK, FifoType
  <2> DEFINE e == [fn |-> fn, skb |-> s, acts |-> acts]
  <2>2. e \in EntryType
    BY DEF EntryType
  <2>3. h \in 0 .. DEFERRED_ACTION_FIFO_SIZE - 2 /\ fifo.tail \in 0 .. h
    BY <2>1, ConstantsAssumption DEF FifoType
  <2>4. fifo' = WithPut(fifo, e)
    OBVIOUS
  <2> HIDE DEF h, e
  <2>5. fifo.head < DEFERRED_ACTION_FIFO_SIZE - 1
    OBVIOUS
  <2>6. /\ fifo' \in FifoType /\ fifo'.head = fifo.head + 1 /\ fifo'.tail = fifo.tail
        /\ fifo'.entry[fifo.head] = e
        /\ \A i \in 0..(DEFERRED_ACTION_FIFO_SIZE - 1) : i # fifo.head => fifo'.entry[i] = fifo.entry[i]
    BY ONLY <2>1, <2>2, <2>4, <2>5, Put
  <2> QED BY <2>3, <2>6 DEF h, e
<1> HIDE DEF g
<1>4. /\ stack' \in Seq(FrameType) /\ \A q \in 1 .. m - 1 : At(q)' = At(q)
      /\ \/ s = top.skb /\ N' = m - 1
         \/ s # top.skb /\ Mine(s) /\ N' = m /\ At(m)' = g
  <2>1. CASE s = top.skb
    BY <1>1, <2>1, Popped DEF IInv, TypeOK
  <2>2. CASE s # top.skb
    <3>1. stack' = <<g>> \o Tail(stack)
      BY <2>2 DEF g
    <3>2. /\ stack' \in Seq(FrameType) /\ N' = N
          /\ \A q \in 1 .. N - 1 : At(q)' = At(q)
          /\ \A q \in 1 .. N : At(q)' = IF q = N THEN g ELSE At(q)
      BY <1>2, <3>1, Replaced DEF IInv, TypeOK
    <3> QED BY <1>1, <2>2, <3>2
  <2> QED BY <2>1, <2>2
<1>5. Upper /\ \A q \in N .. N' : q = m /\ s # top.skb /\ N' = m /\ At(q)' = g
  BY <1>1, <1>4 DEF Upper
<1>6. /\ Raised' = Below(N) /\ Below(N) \in Nat /\ Below(N) = level /\ N > 1 /\ Below(m)' = Below(m)
      /\ s # top.skb => Has(m)'
      /\ top.key[1] = "fifo" => top.key[2] < fifo.tail
      /\ top.key[1] # "fifo" => top.key[2] < Below(m)
  <2>1. N > 1 /\ Below(N) \in Nat /\ Below(N) = level
    BY PlacesBelow DEF Counted
  <2>2. Raised' = Below(N) /\ Below(m)' = Below(m)
    <3>1. /\ N' = m => Raised' = Below(m) + (IF At(m)'.fn \in Counted THEN 1 ELSE 0)
          /\ N' = m - 1 => Raised' = Below(m)
          /\ \A q \in 1 .. m : Below(q)' = Below(q)
      BY <1>5, LevelStep
    <3>2. N' = m => At(m)'.fn \notin Counted
      BY <1>2, <1>4 DEF Counted
    <3>3. CASE N' = m
      BY <1>1, <2>1, <3>1, <3>2, <3>3
    <3>4. CASE N' = m - 1
      <4>1. Raised' = Below(N) /\ \A q \in 1 .. m : Below(q)' = Below(q)
        BY <1>5, <3>4, LevelStep
      <4>2. m \in 1 .. m
        BY <1>1
      <4> QED BY <4>1, <4>2
    <3> QED BY <1>4, <3>3, <3>4
  <2>3. s # top.skb => Has(m)'
    BY <1>2, <1>4 DEF Has
  <2>4. /\ top.key[1] = "fifo" => top.key[2] < fifo.tail
        /\ top.key[1] # "fifo" => top.key[2] < Below(m)
    BY <1>1 DEF IInv, OnePlace, Has
  <2> QED BY <2>1, <2>2, <2>3, <2>4
<1>7. /\ Entries' = Entries \cup {h} /\ h \notin Entries /\ Lasting = Entries /\ Added = {h}
      /\ fifo'.entry[h] = [fn |-> fn, skb |-> s, acts |-> acts]
      /\ \A i \in Entries : fifo'.entry[i] = fifo.entry[i]
  <2>1. Entries' = Entries \cup {h} /\ h \notin Entries
    BY <1>3 DEF Entries
  <2>2. fifo'.entry[h] = [fn |-> fn, skb |-> s, acts |-> acts]
        /\ \A i \in Entries : fifo'.entry[i] = fifo.entry[i]
    <3>1. \A i \in Entries : i \in 0..(DEFERRED_ACTION_FIFO_SIZE - 1) /\ i # h
      BY ONLY <1>3, ConstantsAssumption DEF Entries
    <3> QED BY <1>3, <3>1
  <2> QED BY <2>1, <2>2 DEF Lasting, Added
<1>8. /\ top.skb \in Skbs /\ Has(N) /\ skb[top.skb].live /\ skb'[s] = skb[top.skb] /\ skb'[top.skb] = skb[top.skb]
      /\ \A x \in Skbs \ {s} : skb'[x] = skb[x]
      /\ skb' \in [Skbs -> [live : BOOLEAN, hdr : 0..1, dp : Dps]]
  <2>1. top.skb \in Skbs /\ Has(N)
    BY <1>1 DEF FrameType, Has
  <2>2. skb[top.skb].live
    BY <1>1, <2>1 DEF IInv, OneHand
  <2>3. skb \in [Skbs -> [live : BOOLEAN, hdr : 0..1, dp : Dps]]
    BY DEF IInv, TypeOK
  <2>4. skb' \in [Skbs -> [live : BOOLEAN, hdr : 0..1, dp : Dps]] /\ skb'[s] = skb[top.skb]
        /\ \A x \in Skbs \ {s} : skb'[x] = skb[x]
    BY <2>1, <2>3
  <2> QED BY <2>1, <2>2, <2>4
<1>9. /\ key' \in [Places -> Key] /\ key'[<<"fifo", h>>] = k[top.key]
      /\ top.key # <<"fifo", h>> => key'[top.key] = k[top.key]
  <2>1. <<"fifo", h>> \in Places /\ top.key \in Places
    <3>1. h \in 0..(DEFERRED_ACTION_FIFO_SIZE - 1)
      BY <1>3, ConstantsAssumption
    <3> QED BY <1>1, <3>1, FifoPlace DEF FrameType
  <2> QED BY <2>1 DEF Fitting
<1>10. k[top.key].valid => k[top.key].hdr = skb[top.skb].hdr
  BY <1>8, FitsItself
<1>11. TypeOK'
  BY <1>3, <1>4, <1>6, <1>8, <1>9 DEF IInv, TypeOK, FifoType
<1>12. Nesting'
  <2>1. NestedAbove
    BY <1>2, <1>5 DEF NestedAbove
  <2> QED BY <1>3, <1>5, <1>6, <2>1, NestingStep
<1>13. /\ OneHand'
       /\ \A q \in 1 .. N - 1 : Has(q)' = Has(q) /\ (Has(q) => skb'[At(q).skb] = skb[At(q).skb])
       /\ \A i \in Lasting : skb'[fifo'.entry[i].skb] = skb[fifo.entry[i].skb]
  <2>1. Mine(s) /\ Mine(top.skb)
    BY <1>4, <1>8 DEF Mine
  <2>2. Disposes(Own)
    <3>1. \A x \in Skbs : Mine(x) \/ skb'[x] = skb[x]
      BY <1>8, <2>1
    <3> QED BY <1>7, <3>1, DisposesOwn
  <2>3. Hands(Own)
    <3>1. s \in Own /\ top.skb \in Own
      BY <1>8, <2>1 DEF Own
    <3>2. \A x \in Own : skb'[x].live => x = s \/ x = top.skb
      BY <1>8 DEF Own, Mine
    <3>3. \A q \in N .. N' : At(q)'.skb = top.skb /\ s # top.skb
      BY <1>2, <1>5
    <3>4. s # top.skb => m \in N .. N' /\ Has(m)' /\ At(m)'.skb = top.skb
      BY <1>1, <1>2, <1>4, <1>6
    <3>5. \A i \in Added : i = h /\ fifo'.entry[i].skb = s
      BY <1>7
    <3>6. \A q \in N .. N', r \in N .. N' : q = r
      BY <1>5
    <3>7. \A x \in Own : skb'[x].live => \/ \E q \in N .. N' : Has(q)' /\ At(q)'.skb = x
                                         \/ \E i \in Added : fifo'.entry[i].skb = x
      <4> SUFFICES ASSUME NEW x \in Own, skb'[x].live
                   PROVE  \/ \E q \in N .. N' : Has(q)' /\ At(q)'.skb = x
                          \/ \E i \in Added : fifo'.entry[i].skb = x
        OBVIOUS
      <4>1. CASE x = s
        <5>1. h \in Added
          BY <1>7
        <5> QED BY <3>5, <4>1, <5>1
      <4>2. CASE x # s
        <5>1. x = top.skb
          BY <3>2, <4>2
        <5> QED BY <3>4, <4>2, <5>1
      <4> QED BY <4>1, <4>2
    <3> HIDE DEF Own
    <3>8. skb'[s].live /\ skb'[top.skb].live
      BY <1>8
    <3>9. \A q \in N .. N' : At(q)'.skb \in Own /\ skb'[At(q)'.skb].live
      BY <3>1, <3>3, <3>8
    <3>10. \A i \in Added : fifo'.entry[i].skb \in Own /\ skb'[fifo'.entry[i].skb].live
      BY <3>1, <3>5, <3>8
    <3>11. \A i \in Added, q \in N .. N' : At(q)'.skb # fifo'.entry[i].skb
      BY <3>3, <3>5
    <3>12. \A i \in Added, j \in Added : i = j
      BY <3>5
    <3> QED BY <3>6, <3>7, <3>9, <3>10, <3>11, <3>12 DEF Hands
  <2>4. Own \in SUBSET Skbs
    BY DEF Own
  <2> HIDE DEF Own
  <2> QED BY <1>5, <2>2, <2>3, <2>4, HandStep
<1>14. OnePlace'
  <2>1. PlacesAbove
    <3>1. ASSUME NEW r \in 1 .. m - 1, Has(r)', At(r)'.key = top.key, s # top.skb
          PROVE  Harmless(rst) /\ skb'[top.skb].hdr = skb'[At(r)'.skb].hdr
      <4>1. r \in 1 .. m /\ m \in 1 .. m /\ At(r)' = At(r) /\ Has(r)
        BY <1>1, <1>4, <1>13, <3>1
      <4>2. Harmless(top.acts) /\ skb[top.skb].hdr = skb[At(r).skb].hdr
        BY <1>1, <1>8, <3>1, <4>1 DEF IInv, OnePlace
      <4> QED BY <1>8, <1>13, <3>1, <4>1, <4>2
    <3>3. ASSUME NEW q \in N .. N'
          PROVE  /\ q = m /\ At(q)'.key = top.key /\ At(q)'.fn = "actions" /\ At(q)'.acts = rst
                 /\ At(q)'.skb = top.skb /\ Below(q)' = Below(m) /\ s # top.skb
      BY <1>2, <1>5, <1>6, <3>3
    <3>4. fifo.tail <= fifo'.tail
      BY <1>3
    <3> QED BY <1>3, <1>6, <3>1, <3>3, <3>4 DEF PlacesAbove
  <2> QED BY <1>3, <1>5, <1>13, <2>1, PlaceStep
<1>15. Described'
  <2>1. ~(top.key = <<"fifo", h>>)
    BY <1>3, <1>6
  <2>2. OtherKeys
    <3>1. \A q \in 1 .. N - 1 : Has(q) => At(q).key # <<"fifo", h>>
      <4> SUFFICES ASSUME NEW q \in 1 .. N - 1, Has(q), At(q).key = <<"fifo", h>> PROVE FALSE
        OBVIOUS
      <4>1. q \in 1 .. N
        BY <1>1
      <4>2. At(q).key[1] = "fifo" /\ At(q).key[2] = h
        OBVIOUS
      <4>3. h < fifo.tail
        BY <4>1, <4>2, PlacesBelow
      <4> QED BY <1>3, <4>3
    <3>2. \A i \in Lasting : <<"fifo", i>> # <<"fifo", h>>
      BY <1>7
    <3> QED BY <3>1, <3>2, KeyFitsOthers
  <2>3. KeysAbove
    BY <1>2, <1>5, <1>7, <1>8, <1>9, <1>10, <2>1, SMTT(30) DEF KeysAbove
  <2> QED BY <1>5, <1>13, <2>2, <2>3, DescribedStep
<1> QED BY <1>11, <1>12, <1>13, <1>14, <1>15 DEF IInv

\* process_deferred_actions() takes the oldest entry: its skb, and the key beside it.
LEMMA TakeIInv ==
  ASSUME IInv, process_deferred_actions
  PROVE  IInv'
<1> DEFINE t  == fifo.tail
           da == fifo.entry[t]
           p  == <<"fifo", t>>
           f  == Frame(da.fn, top.dp, da.skb, p, da.acts)
           g  == [top EXCEPT !.fn = "deferred", !.acts = <<>>]
<1>1. /\ stack # <<>> /\ top.fn \in {"execute", "deferred"} /\ level = 1 /\ fifo.head # t
      /\ fifo' = Got(fifo) /\ stack' = <<f, g>> \o Tail(stack)
      /\ leaked' = leaked /\ ret' = ret /\ level' = level /\ key' = key /\ skb' = skb
  BY DEF process_deferred_actions, In, Call
<1>2. /\ N \in Nat \ {0} /\ top = At(N) /\ top \in FrameType /\ \A q \in 1 .. N : At(q) \in FrameType
  BY <1>1, Top DEF IInv, TypeOK
<1>3. N = 1 /\ Below(N) = 0
  BY <1>1, <1>2, PlacesBelow DEF Counted
<1>4. /\ fifo' \in FifoType /\ fifo'.head = fifo.head /\ fifo'.tail = t + 1
      /\ t \in Nat /\ fifo.head \in Nat /\ t < fifo.head
      /\ \A i \in Entries : i # t => fifo'.entry[i] = fifo.entry[i]
  <2>1. fifo \in FifoType /\ fifo.tail < fifo.head
    BY <1>1 DEF IInv, TypeOK, FifoType
  <2>2. fifo' = Got(fifo)
    BY <1>1
  <2>3. /\ fifo' \in FifoType /\ fifo'.head = fifo.head /\ fifo'.tail = fifo.tail + 1
        /\ \A i \in 0..(DEFERRED_ACTION_FIFO_SIZE - 1) : i # fifo.tail => fifo'.entry[i] = fifo.entry[i]
    BY ONLY <2>1, <2>2, Get
  <2>4. \A i \in Entries : i \in 0..(DEFERRED_ACTION_FIFO_SIZE - 1)
    BY <2>1, ConstantsAssumption DEF Entries, FifoType
  <2> QED BY <2>1, <2>3, <2>4, ConstantsAssumption DEF FifoType
<1>5. t \in Entries /\ Entries' = Entries \ {t} /\ Lasting = Entries \ {t} /\ Added = {}
  <2>1. t \in Entries /\ Entries' = Entries \ {t}
    BY <1>4 DEF Entries
  <2> QED BY <2>1 DEF Lasting, Added
<1>6. /\ da.skb \in Skbs /\ skb[da.skb].live /\ da.fn \in {"process", "actions"} /\ da.acts \in Seq(Action)
      /\ p \in Places
  <2>1. t \in 0..(DEFERRED_ACTION_FIFO_SIZE - 1) /\ da \in EntryType
    BY DEF IInv, TypeOK
  <2>2. da.skb \in Skbs /\ skb[da.skb].live
    BY <1>5 DEF IInv, OneHand
  <2> QED BY <2>1, <2>2, FifoPlace DEF EntryType
<1>7. f \in FrameType /\ g \in FrameType /\ g.fn = "deferred"
      /\ f.fn \in {"process", "actions"} /\ f.skb = da.skb /\ f.key = p
  <2>1. g \in FrameType /\ g.fn = "deferred"
    <3>1. <<>> \in Seq(Action)
      OBVIOUS
    <3> QED BY ONLY ZenonT(60), <1>2, <3>1, Waiting
  <2> HIDE DEF da, p, g
  <2>2. f \in FrameType
    BY <1>2, <1>6 DEF FrameType, Frame
  <2>3. f.fn = da.fn /\ f.skb = da.skb /\ f.key = p
    BY DEF Frame
  <2> QED BY <1>6, <2>1, <2>2, <2>3
<1> HIDE DEF f, g
<1>8. stack' \in Seq(FrameType) /\ N' = 2 /\ At(1)' = g /\ At(2)' = f
  <2>1. /\ stack' \in Seq(FrameType) /\ N' = N + 1
        /\ \A q \in 1 .. N + 1 : At(q)' = IF q = N + 1 THEN f ELSE IF q = N THEN g ELSE At(q)
    BY <1>1, <1>7, Pushed DEF IInv, TypeOK
  <2>2. N + 1 = 2 /\ 1 \in 1 .. 2 /\ 2 \in 1 .. 2
    BY <1>3
  <2> QED BY <1>3, <2>1, <2>2
<1>9. Upper /\ N .. N' = {1, 2}
  BY <1>3, <1>8 DEF Upper
<1>10. /\ ~Has(1)' /\ Has(2)' /\ ~Has(N)
       /\ \A q \in N .. N' : Has(q)' => q = 2 /\ At(q)' = f
  <2>1. ~Has(1)' /\ Has(2)'
    BY <1>7, <1>8 DEF Has
  <2>2. ~Has(N)
    BY <1>1, <1>2 DEF Has
  <2> QED BY <1>8, <1>9, <2>1, <2>2
<1>11. Raised' = level'
  <2> PICK m \in Nat : m = N
    BY <1>2
  <2>1. m = 1
    BY <1>3
  <2>2. At(1)'.fn \in Counted /\ At(2)'.fn \notin Counted
    BY <1>7, <1>8 DEF Counted
  <2>3. /\ Below(m + 1)' = Below(m) + (IF At(m)'.fn \in Counted THEN 1 ELSE 0)
        /\ N' = m + 1 => Raised' = Below(m + 1)' + (IF At(m + 1)'.fn \in Counted THEN 1 ELSE 0)
    BY <1>1, <1>9, LevelStep
  <2>4. /\ Below(2)' = Below(1) + (IF At(1)'.fn \in Counted THEN 1 ELSE 0)
        /\ Raised' = Below(2)' + (IF At(2)'.fn \in Counted THEN 1 ELSE 0)
    BY <1>8, <2>1, <2>3
  <2> QED BY <1>1, <1>3, <2>2, <2>4
<1>12. TypeOK'
  BY <1>1, <1>4, <1>8 DEF IInv, TypeOK, FifoType
<1>13. Nesting'
  <2>1. \A q \in 1 .. N' - 1 : q = 1
    BY <1>8
  <2>2. \A q \in 2 .. N' : q = 2
    BY <1>8
  <2> QED BY <1>7, <1>8, <1>11, <2>1, <2>2 DEF Nesting
<1> DEFINE M == {da.skb}
<1>14. Disposes(M)
  <2>1. \A i \in Lasting : i \in Entries /\ i # t /\ t \in Entries
    BY <1>5
  <2>2. \A i \in Lasting : fifo'.entry[i] = fifo.entry[i] /\ fifo.entry[i].skb \notin M
    BY <1>4, <2>1 DEF IInv, OneHand
  <2>3. \A i \in Entries \ Entries' : fifo.entry[i].skb \in M
    BY <1>5
  <2>4. \A q \in 1 .. N - 1 : FALSE
    BY <1>3
  <2> QED BY <1>1, <1>10, <2>2, <2>3, <2>4 DEF Disposes
<1>15. Hands(M)
  <2>1. 2 \in N .. N' /\ Has(2)' /\ At(2)'.skb = da.skb
    BY <1>7, <1>8, <1>9, <1>10
  <2>2. \A s \in M : \E q \in N .. N' : Has(q)' /\ At(q)'.skb = s
    BY <2>1
  <2> QED BY <1>1, <1>5, <1>6, <1>7, <1>10, <2>2 DEF Hands
<1>16. /\ OneHand'
       /\ \A q \in 1 .. N - 1 : Has(q)' = Has(q) /\ (Has(q) => skb'[At(q).skb] = skb[At(q).skb])
       /\ \A i \in Lasting : skb'[fifo'.entry[i].skb] = skb[fifo.entry[i].skb]
  <2>1. M \in SUBSET Skbs
    BY <1>6
  <2> HIDE DEF M
  <2> QED BY <1>1, <1>9, <1>14, <1>15, <2>1, HandStep
<1>17. OnePlace'
  <2>1. \A q \in N .. N' : \A r \in 1 .. q - 1 : ~(Has(q)' /\ Has(r)')
    <3> SUFFICES ASSUME NEW q \in N .. N', NEW r \in 1 .. q - 1, Has(q)', Has(r)' PROVE FALSE
      OBVIOUS
    <3>1. r = 1
      BY <1>10
    <3> QED BY <1>10, <3>1
  <2>2. f.key[1] = "fifo" /\ f.key[2] < fifo'.tail
    BY <1>4, <1>7
  <2>3. PlacesAbove
    BY <1>4, <1>10, <2>1, <2>2 DEF PlacesAbove
  <2> QED BY <1>1, <1>4, <1>9, <1>16, <2>3, PlaceStep
<1>18. Described'
  <2>1. OtherKeys
    <3>1. \A i \in Lasting : i \in Entries
      BY <1>5
    <3>2. \A q \in 1 .. N - 1 : FALSE
      BY <1>3
    <3> QED BY <1>1, <3>1, <3>2 DEF OtherKeys, IInv, Described
  <2>2. key[p].valid => key[p].hdr = skb[da.skb].hdr
    BY <1>5 DEF IInv, Described
  <2>3. KeysAbove
    BY <1>1, <1>5, <1>7, <1>10, <2>2 DEF KeysAbove
  <2> QED BY <1>1, <1>9, <1>16, <2>1, <2>3, DescribedStep
<1> QED BY <1>12, <1>13, <1>16, <1>17, <1>18 DEF IInv

\* The end of the outermost execution: nothing is left, on the stack or in the FIFO.
LEMMA FinishIInv ==
  ASSUME IInv, executed, N = 1
  PROVE  IInv'
<1>1. /\ stack # <<>> /\ top.fn \in {"execute", "deferred"} /\ (level = 1 => fifo.head = fifo.tail)
      /\ fifo' = (IF top.fn = "deferred" THEN [fifo EXCEPT !.head = 0, !.tail = 0] ELSE fifo)
      /\ stack' = Tail(stack) /\ level' = level - 1 /\ ret' = "ok"
      /\ leaked' = leaked /\ key' = key /\ skb' = skb
  BY DEF executed, In, Return
<1>2. /\ top = At(1) /\ \A q \in 1 .. N : q = 1
  BY <1>1, Top DEF IInv, TypeOK
<1>3. level = 1 /\ Below(N) = 0
  <2>1. Below(1) = 0
    BY Belows
  <2> QED BY <1>1, <2>1, PlacesBelow DEF Counted
<1>4. stack' \in Seq(FrameType) /\ N' = 0
  BY <1>1, Popped DEF IInv, TypeOK
<1>5. Raised' = 0
  <2>1. {r \in 1 .. 0 : At(r)'.fn \in Counted} = {}
    OBVIOUS
  <2>2. Raised' = Cardinality({r \in 1 .. 0 : At(r)'.fn \in Counted})
    BY <1>4 DEF Raised, Counted
  <2> QED BY <2>1, <2>2, FS_EmptySet
<1>6. fifo.head = fifo.tail /\ fifo'.head = 0 /\ fifo'.tail = 0
      /\ fifo' \in [head : 0..(DEFERRED_ACTION_FIFO_SIZE - 1), tail : 0..(DEFERRED_ACTION_FIFO_SIZE - 1),
                    entry : [0..(DEFERRED_ACTION_FIFO_SIZE - 1) -> EntryType]]
  <2>1. 0 \in 0..(DEFERRED_ACTION_FIFO_SIZE - 1)
    BY ConstantsAssumption
  <2>2. fifo.head = fifo.tail
    BY <1>1, <1>3
  <2>3. CASE top.fn = "deferred"
    BY <1>1, <2>1, <2>2, <2>3 DEF IInv, TypeOK
  <2>4. CASE top.fn = "execute"
    BY <1>1, <1>2, <2>2, <2>4 DEF IInv, TypeOK, Nesting
  <2> QED BY <1>1, <2>3, <2>4
<1>7. TypeOK'
  BY <1>1, <1>3, <1>4, <1>6, ConstantsAssumption DEF IInv, TypeOK
<1>8. \A i \in Entries : FALSE
  BY <1>6 DEF Entries, IInv, TypeOK
<1>9. \A i \in Entries' : FALSE
  BY <1>6 DEF Entries
<1>10. \A q \in 1 .. N' : FALSE
  BY <1>4
<1>11. Nesting'
  <2>1. \A q \in 1 .. N' - 1 : FALSE
    BY <1>4
  <2>2. \A q \in 2 .. N' : FALSE
    BY <1>4
  <2> QED BY <1>1, <1>3, <1>4, <1>5, <1>6, <2>1, <2>2 DEF Nesting
<1>12. OneHand'
  <2>1. ~Has(1)
    BY <1>1, <1>2 DEF Has
  <2>2. \A s \in Skbs : skb[s].live => s \in leaked
    BY <1>2, <1>8, <2>1 DEF IInv, OneHand
  <2> QED BY <1>1, <1>9, <1>10, <2>2 DEF OneHand
<1>13. OnePlace' /\ Described'
  BY <1>9, <1>10 DEF OnePlace, Described
<1> QED BY <1>7, <1>11, <1>12, <1>13 DEF IInv

\* The next packet: its skb is the only one in use, and its key the only one stored.
LEMMA ReceiveIInv ==
  ASSUME IInv, receive
  PROVE  IInv'
<1>1. /\ stack = <<>> /\ N = 0 /\ fifo.head = 0 /\ fifo.tail = 0
  <2>1. stack = <<>> /\ N = 0
    BY DEF receive, N
  <2> QED BY <2>1 DEF IInv, Nesting
<1>2. PICK d \in Dps, s \in Skbs :
        /\ skb' = [x \in Skbs |-> IF x = s THEN [live |-> TRUE, hdr |-> 0, dp |-> d] ELSE NoSkb]
        /\ leaked' = {}
        /\ key' = [p \in Places |-> [valid |-> p = <<"local", 0>>, hdr |-> 0]]
        /\ stack' = <<Frame("process", d, s, <<"local", 0>>, <<>>)>>
        /\ ret' = ret /\ level' = level /\ fifo' = fifo
  BY DEF receive
<1> DEFINE f == Frame("process", d, s, <<"local", 0>>, <<>>)
<1>3. f \in FrameType /\ f.fn = "process" /\ f.skb = s /\ f.key = <<"local", 0>>
  <2>1. <<"local", 0>> \in Places
    BY ConstantsAssumption DEF Places
  <2> QED BY <2>1 DEF Frame, FrameType
<1>4. stack' \in Seq(FrameType) /\ N' = 1 /\ At(1)' = f
  <2>1. stack' = <<f>>
    BY <1>2
  <2> HIDE DEF f
  <2>2. <<f>> \in Seq(FrameType) /\ Len(<<f>>) = 1 /\ <<f>>[1] = f
    BY <1>3
  <2>3. N' = 1 /\ stack' \in Seq(FrameType)
    BY <2>1, <2>2 DEF N
  <2>4. At(1)' = stack'[1]
    BY <2>3 DEF At
  <2> QED BY <2>1, <2>2, <2>3, <2>4
<1> HIDE DEF f
<1>5. /\ \A q \in 1 .. N' : q = 1
      /\ Has(1)'
      /\ \A i \in Entries' : FALSE
  <2>1. Has(1)'
    BY <1>3, <1>4 DEF Has
  <2> QED BY <1>1, <1>2, <1>4, <2>1 DEF Entries
<1>6. Raised' = 0 /\ Below(1)' = 0
  <2>1. {r \in 1 .. 1 : At(r)'.fn \in Counted} = {} /\ {r \in 1 .. 1 - 1 : At(r)'.fn \in Counted} = {}
    BY <1>3, <1>4 DEF Counted
  <2>2. Raised' = Cardinality({r \in 1 .. 1 : At(r)'.fn \in Counted})
    BY <1>4 DEF Raised, Counted
  <2>3. Below(1)' = Cardinality({r \in 1 .. 1 - 1 : At(r)'.fn \in Counted})
    BY DEF Below, Counted
  <2> QED BY <2>1, <2>2, <2>3, FS_EmptySet
<1>7. level = 0
  <2>1. Below(N + 1) = Raised /\ Below(1) = 0
    BY <1>1, Belows
  <2> QED BY <1>1, <2>1 DEF IInv, Nesting
<1>8. /\ skb' \in [Skbs -> [live : BOOLEAN, hdr : 0..1, dp : Dps]]
      /\ skb'[s].live /\ skb'[s].hdr = 0
      /\ \A x \in Skbs : skb'[x].live => x = s
  <2>1. (CHOOSE x \in Dps : TRUE) \in Dps
    BY ConstantsAssumption
  <2> QED BY <1>2, <2>1 DEF NoSkb
<1>9. /\ key' \in [Places -> Key]
      /\ \A p \in Places : key'[p].hdr = 0
  BY <1>2 DEF Key
<1>10. TypeOK'
  BY <1>2, <1>4, <1>8, <1>9 DEF IInv, TypeOK
<1>11. Nesting'
  <2>1. \A q \in 1 .. N' - 1 : FALSE
    BY <1>4
  <2>2. \A q \in 2 .. N' : FALSE
    BY <1>4
  <2> QED BY <1>1, <1>2, <1>3, <1>4, <1>6, <1>7, <2>1, <2>2 DEF Nesting
<1>12. OneHand'
  <2>1. 1 \in 1 .. N'
    BY <1>4
  <2> QED BY <1>3, <1>4, <1>5, <1>8, <2>1 DEF OneHand
<1>13. OnePlace'
  <2>1. \A q \in 1 .. N' : \A r \in 1 .. q - 1 : FALSE
    BY <1>5
  <2> QED BY <1>3, <1>4, <1>5, <1>6, <2>1 DEF OnePlace
<1>14. Described'
  <2>1. f.key \in Places
    BY <1>3 DEF FrameType
  <2> QED BY <1>3, <1>4, <1>5, <1>8, <1>9, <2>1 DEF Described
<1> QED BY <1>10, <1>11, <1>12, <1>13, <1>14 DEF IInv

-----------------------------------------------------------------------------
(* The actions. *)

\* A function that executes actions, or processes a packet, has its skb.
LEMMA Running ==
  ASSUME IInv, In("actions") \/ In("process")
  PROVE  /\ stack # <<>> /\ Has(N) /\ top \in FrameType /\ level = Below(N)
         /\ top.skb \in Skbs /\ top.key \in Places /\ top.acts \in Seq(Action) /\ top.dp \in Dps
         /\ skb[top.skb].live /\ Mine(top.skb)
         /\ top.fn \in {"actions", "process"}
         /\ top.fn = "actions" => /\ N > 1 /\ Below(N) >= 1
                                  /\ top.key[1] # "fifo" => top.key[2] < Below(N)
                                  /\ top.key[1] = "fifo" => top.key[2] < fifo.tail
<1>1. stack # <<>> /\ top.fn \in {"actions", "process"}
  BY DEF In
<1>2. /\ N \in Nat \ {0} /\ top = At(N) /\ top \in FrameType
  BY <1>1, Top DEF IInv, TypeOK
<1>3. Has(N) /\ N \in 1 .. N
  BY <1>1, <1>2 DEF Has
<1>4. /\ top.skb \in Skbs /\ top.key \in Places /\ top.acts \in Seq(Action) /\ top.dp \in Dps
      /\ skb[top.skb].live /\ Mine(top.skb)
  BY <1>2, <1>3 DEF FrameType, IInv, OneHand, Mine
<1>5. level = Below(N)
  BY <1>1, PlacesBelow DEF Counted
<1>6. top.fn = "actions" => /\ N > 1 /\ Below(N) >= 1
                            /\ top.key[1] # "fifo" => top.key[2] < Below(N)
                            /\ top.key[1] = "fifo" => top.key[2] < fifo.tail
  BY <1>1, <1>2, <1>3, PlacesBelow DEF IInv, OnePlace
<1> QED BY <1>1, <1>2, <1>3, <1>4, <1>5, <1>6

\* The actions that are left change no more than all of them.
LEMMA Remaining ==
  ASSUME IInv, In("actions"), top.acts # <<>>
  PROVE  /\ rest \in Seq(Action) /\ action \in Action
         /\ Harmless(top.acts) => Harmless(rest) /\ action.op \in {"output", "enter", "recirc"}
<1>1. top.acts \in Seq(Action)
  BY Running
<1> DEFINE a == top.acts
<1> HIDE DEF a
<1>2. a \in Seq(Action) /\ a # <<>>
  BY <1>1 DEF a
<1>3. /\ Tail(a) \in Seq(Action) /\ Head(a) \in Action /\ Head(a) = a[1] /\ Len(a) \in Nat \ {0}
      /\ Len(Tail(a)) = Len(a) - 1 /\ \A i \in 1 .. Len(a) - 1 : Tail(a)[i] = a[i + 1]
  BY <1>2
<1>4. Harmless(a) => Harmless(Tail(a)) /\ Head(a).op \in {"output", "enter", "recirc"}
  <2> SUFFICES ASSUME \A i \in 1 .. Len(a) : a[i].op \in {"output", "enter", "recirc"}
               PROVE  /\ \A i \in 1 .. Len(Tail(a)) : Tail(a)[i].op \in {"output", "enter", "recirc"}
                      /\ Head(a).op \in {"output", "enter", "recirc"}
    BY DEF Harmless, actions_may_change_flow
  <2> QED BY <1>3
<1> QED BY <1>3, <1>4 DEF a, rest, action

LEMMA FreedOwn ==
  ASSUME IInv, NEW s \in Skbs, Mine(s), skb' = Freed(s)
  PROVE  /\ \A x \in Skbs : skb'[x] = skb[x] \/ (Mine(x) /\ ~skb'[x].live)
         /\ skb' \in [Skbs -> [live : BOOLEAN, hdr : 0..1, dp : Dps]]
         /\ ~skb'[s].live
<1>1. skb \in [Skbs -> [live : BOOLEAN, hdr : 0..1, dp : Dps]]
  BY DEF IInv, TypeOK
<1>2. skb' \in [Skbs -> [live : BOOLEAN, hdr : 0..1, dp : Dps]]
  BY <1>1, FreedType
<1>3. ~skb'[s].live /\ \A x \in Skbs : x # s => skb'[x] = skb[x]
  BY <1>1 DEF Freed, NoSkb
<1> QED BY <1>2, <1>3

\* Returning with the skb freed.
LEMMA Consumes ==
  ASSUME IInv, In("actions") \/ In("process"), NEW v \in {"ok", "err"}, Return(v),
         skb' = Freed(top.skb), level' = level, fifo' = fifo, leaked' = leaked, Fitting(key')
  PROVE  IInv'
<1>1. /\ stack # <<>> /\ Has(N) /\ level = Below(N) /\ top.skb \in Skbs /\ Mine(top.skb)
  BY Running
<1>2. /\ \A x \in Skbs : skb'[x] = skb[x] \/ (Mine(x) /\ ~skb'[x].live)
      /\ skb' \in [Skbs -> [live : BOOLEAN, hdr : 0..1, dp : Dps]]
      /\ ~skb'[top.skb].live
  BY <1>1, FreedOwn
<1>3. stack' = Tail(stack) /\ ret' \in {"ok", "err"}
  BY DEF Return
<1>4. leaked \subseteq leaked' /\ leaked' \subseteq Skbs
  BY DEF IInv, TypeOK
<1> QED BY <1>1, <1>2, <1>3, <1>4, ReturnIInv

\* Returning and leaving the skb behind.
LEMMA Leaves ==
  ASSUME IInv, In("actions"), ReturnsAtOnce, level' = level, fifo' = fifo, key' = key
  PROVE  IInv'
<1>1. /\ stack # <<>> /\ Has(N) /\ level = Below(N) /\ top.skb \in Skbs
  BY Running
<1>2. skb' = skb /\ stack' = Tail(stack) /\ ret' \in {"ok", "err"} /\ leaked' = leaked \cup {top.skb}
  BY DEF ReturnsAtOnce, Return
<1>3. leaked \subseteq leaked' /\ leaked' \subseteq Skbs /\ top.skb \in leaked'
  BY <1>1, <1>2 DEF IInv, TypeOK
<1>4. Fitting(key')
  BY <1>1, FitsItself
<1>5. skb' \in [Skbs -> [live : BOOLEAN, hdr : 0..1, dp : Dps]] /\ \A x \in Skbs : skb'[x] = skb[x]
  BY <1>2 DEF IInv, TypeOK
<1> QED BY <1>1, <1>2, <1>3, <1>4, <1>5, ReturnIInv

\* Going on with the packet as it is.
LEMMA GoesOn ==
  ASSUME IInv, stack # <<>>, Has(N), top.fn # "process", level' = Below(N), fifo' = fifo, leaked' = leaked,
         NEW acts \in Seq(Action), Continue(acts), Harmless(top.acts) => Harmless(acts), ret' \in {"ok", "err"},
         NEW s \in Skbs, skb' = skb \/ (~skb[s].live /\ skb' = Freed(s)), Fitting(key')
  PROVE  IInv'
<1>1. top \in FrameType /\ top = At(N) /\ N \in 1 .. N
  BY Top DEF IInv, TypeOK
<1>2. top.skb \in Skbs /\ skb[top.skb].live
  BY <1>1 DEF FrameType, IInv, OneHand
<1>3. skb \in [Skbs -> [live : BOOLEAN, hdr : 0..1, dp : Dps]]
  BY DEF IInv, TypeOK
<1>4. /\ skb' \in [Skbs -> [live : BOOLEAN, hdr : 0..1, dp : Dps]]
      /\ skb'[top.skb] = skb[top.skb]
      /\ \A x \in Skbs \ {top.skb} : skb'[x] = skb[x] \/ (~skb[x].live /\ ~skb'[x].live)
  <2>1. CASE skb' = skb
    BY <1>3, <2>1
  <2>2. CASE ~skb[s].live /\ skb' = Freed(s)
    <3>1. Mine(s)
      BY <2>2 DEF Mine
    <3>2. skb' \in [Skbs -> [live : BOOLEAN, hdr : 0..1, dp : Dps]] /\ ~skb'[s].live
      BY <2>2, <3>1, FreedOwn
    <3>3. \A x \in Skbs : x # s => skb'[x] = skb[x]
      BY <1>3, <2>2 DEF Freed
    <3> QED BY <1>2, <2>2, <3>2, <3>3
  <2> QED BY <2>1, <2>2
<1>5. OtherKeys
  BY KeyFitsOthers
<1>6. /\ key' \in [Places -> Key]
      /\ key'[top.key].valid => key'[top.key].hdr = skb'[top.skb].hdr
  BY <1>4, FitsItself DEF Fitting
<1>7. stack' = <<[top EXCEPT !.fn = "actions", !.acts = acts]>> \o Tail(stack)
  BY DEF Continue
<1>8. skb'[top.skb].live /\ (Harmless(top.acts) => Harmless(acts) /\ skb'[top.skb].hdr = skb[top.skb].hdr)
  BY <1>2, <1>4
<1> QED BY <1>4, <1>5, <1>6, <1>7, <1>8, ContinueIInv

LEMMA ProcessStep ==
  ASSUME IInv, ovs_dp_process_packet
  PROVE  IInv'
<1> DEFINE d == skb[top.skb].dp
<1>1. In("process") /\ leaked' = leaked /\ fifo' = fifo /\ key' = key
  BY DEF ovs_dp_process_packet
<1>2. /\ stack # <<>> /\ Has(N) /\ top \in FrameType /\ level = Below(N) /\ top.fn = "process"
      /\ top.skb \in Skbs /\ top.key \in Places /\ skb[top.skb].live /\ Mine(top.skb)
  BY <1>1, Running DEF In
<1>3. Fitting(key')
  BY <1>1, <1>2, FitsItself
<1>4. CASE skb' = Freed(top.skb) /\ Return("ok") /\ level' = level
  BY <1>1, <1>3, <1>4, Consumes
<1>5. CASE /\ ~LimitReached /\ level' = level + 1 /\ skb' = skb /\ ret' = ret
           /\ \E acts \in Flows[d] :
                stack' = <<Frame("actions", d, top.skb, top.key, acts),
                           [top EXCEPT !.fn = "execute", !.dp = d]>> \o Tail(stack)
  <2>1. PICK acts \in Flows[d] :
          stack' = <<Frame("actions", d, top.skb, top.key, acts),
                     [top EXCEPT !.fn = "execute", !.dp = d]>> \o Tail(stack)
    BY <1>5
  <2> DEFINE f == Frame("actions", d, top.skb, top.key, acts)
             g == [top EXCEPT !.fn = "execute", !.dp = d]
  <2>2. d \in Dps
    BY <1>2 DEF IInv, TypeOK
  <2>3. acts \in Seq(Action)
    BY <2>2, ConstantsAssumption
  <2>4. /\ f \in FrameType /\ f.fn = "actions" /\ f.skb = top.skb /\ f.key = top.key
    <3> HIDE DEF d
    <3> QED BY <1>2, <2>2, <2>3 DEF Frame, FrameType
  <2>5. /\ g \in FrameType /\ g.fn = "execute" /\ g.skb = top.skb /\ g.key = top.key
    <3> HIDE DEF d
    <3>1. top \in FrameType
      BY <1>2
    <3>2. \A x \in FrameType, c \in Dps :
            /\ [x EXCEPT !.fn = "execute", !.dp = c] \in FrameType
            /\ [x EXCEPT !.fn = "execute", !.dp = c].fn = "execute"
            /\ [x EXCEPT !.fn = "execute", !.dp = c].skb = x.skb
            /\ [x EXCEPT !.fn = "execute", !.dp = c].key = x.key
      BY DEF FrameType
    <3> QED BY <2>2, <3>1, <3>2
  <2>6. stack' = <<f, g>> \o Tail(stack)
    BY <2>1
  <2> HIDE DEF f, g
  <2>7. /\ N \in Nat \ {0} /\ top = At(N)
    BY <1>2, Top DEF IInv, TypeOK
  <2>8. OtherKeys
    BY <1>2, <1>3, KeyFitsOthers
  <2>9. /\ key' \in [Places -> Key] /\ (key'[f.key].valid => key'[f.key].hdr = skb'[f.skb].hdr)
    BY <1>1, <1>2, <1>5, <2>4, FitsItself DEF Fitting
  <2>10. level' = Below(N) + (IF g.fn \in Counted THEN 1 ELSE 0) /\ level' <= OVS_RECURSION_LIMIT
    BY <1>2, <1>5, <2>5, ConstantsAssumption DEF Counted, LimitReached, IInv, TypeOK
  <2>11. /\ top.key[1] = "fifo" => top.key[2] < fifo.tail
         /\ top.key[1] # "fifo" => top.key[2] < level'
    <3>1. N \in 1 .. N /\ Below(N) \in Nat /\ top.key[2] \in Nat
      BY <1>2, <2>7, PlacesBelow, PlaceType
    <3>2. /\ top.key[1] = "fifo" => top.key[2] < fifo.tail
          /\ top.key[1] # "fifo" => top.key[2] <= Below(N)
      BY <1>2, <2>7, <3>1 DEF IInv, OnePlace
    <3>3. level' = Below(N) + 1
      BY <1>2, <1>5
    <3> QED BY <3>1, <3>2, <3>3
  <2>12. \A q \in 1 .. N - 1 : Has(q) => At(q).key # f.key
    <3> SUFFICES ASSUME NEW q \in 1 .. N - 1, Has(q), At(q).key = top.key PROVE FALSE
      BY <2>4
    <3>1. N \in 1 .. N
      BY <2>7
    <3> QED BY <1>2, <2>7, <3>1 DEF IInv, OnePlace
  <2>13. skb' \in [Skbs -> [live : BOOLEAN, hdr : 0..1, dp : Dps]] /\ skb' = skb /\ ret' \in {"ok", "err"}
    BY <1>5 DEF IInv, TypeOK
  <2>14. top.fn = "actions" \/ (g.fn = "execute" /\ top.fn = "process")
    BY <1>2, <2>5
  <2>15. Mine(f.skb) /\ skb'[f.skb].live /\ \A s \in Skbs \ {f.skb} : skb'[s] = skb[s]
    BY <1>2, <2>4, <2>13
  <2>16. PICK kept \in BOOLEAN : ~kept
    OBVIOUS
  <2>17. kept <=> g.fn # "execute" /\ g.acts # <<>>
    BY <2>5, <2>16
  <2>18. /\ f.fn \in {"process", "actions"} /\ g.fn \in {"output", "clone", "clone_level", "execute"}
         /\ f.key[1] = "fifo" => f.key[2] < fifo.tail
         /\ f.key[1] # "fifo" => f.key[2] < level' \/ (f.key[2] = level' /\ f.fn = "process")
    BY <2>4, <2>5, <2>11
  <2>19. /\ stack # <<>> /\ Has(N) /\ fifo' = fifo /\ leaked' = leaked
    BY <1>1, <1>2
  <2> QED
    BY ONLY IInv, <2>4, <2>5, <2>6, <2>8, <2>9, <2>10, <2>12, <2>13, <2>14, <2>15, <2>16, <2>17, <2>18, <2>19, CallIInv
<1> QED BY <1>4, <1>5 DEF ovs_dp_process_packet

LEMMA ConsumeStep ==
  ASSUME IInv, consume_skb
  PROVE  IInv'
<1>1. In("actions") /\ skb' = Freed(top.skb) /\ Return("ok") /\ leaked' = leaked /\ level' = level
      /\ fifo' = fifo /\ key' = key
  BY DEF consume_skb
<1>2. Fitting(key')
  BY <1>1, Running, FitsItself
<1> QED BY <1>1, <1>2, Consumes

\* Going on with the rest of the actions.
LEMMA Proceeds ==
  ASSUME IInv, In("actions"), top.acts # <<>>, Continue(rest), level' = level, fifo' = fifo, leaked' = leaked,
         ret' = ret, NEW s \in Skbs, skb' = skb \/ (~skb[s].live /\ skb' = Freed(s)), Fitting(key')
  PROVE  IInv'
<1>1. /\ stack # <<>> /\ Has(N) /\ level = Below(N) /\ top.fn = "actions" /\ ret' \in {"ok", "err"}
  BY Running DEF In, IInv, TypeOK
<1>2. rest \in Seq(Action) /\ (Harmless(top.acts) => Harmless(rest))
  BY Remaining
<1> QED BY <1>1, <1>2, GoesOn

LEMMA OutputStep ==
  ASSUME IInv, output
  PROVE  IInv'
<1>1. In("actions") /\ top.acts # <<>> /\ leaked' = leaked /\ level' = level /\ fifo' = fifo /\ key' = key
  BY DEF output, Doing
<1>2. Fitting(key') /\ top.skb \in Skbs
  BY <1>1, Running, FitsItself
<1>3. CASE Return("ok") /\ skb' = Freed(top.skb)
  BY <1>1, <1>2, <1>3, Consumes
<1>4. CASE Continue(rest) /\ skb' = skb /\ ret' = ret
  BY <1>1, <1>2, <1>4, Proceeds
<1> QED BY <1>3, <1>4 DEF output

LEMMA CtStep ==
  ASSUME IInv, ct
  PROVE  IInv'
<1>1. In("actions") /\ top.acts # <<>> /\ level' = level /\ fifo' = fifo
  BY DEF ct, Doing
<1>2. Fitting(Updated) /\ top.skb \in Skbs
  BY <1>1, Running, FitsItself
<1>3. CASE ReturnsAtOnce /\ key' = key
  BY <1>1, <1>3, Leaves
<1>4. CASE key' = Updated /\ Continue(rest) /\ ret' = ret /\ skb' = skb /\ leaked' = leaked
  BY <1>1, <1>2, <1>4, Proceeds
<1>5. CASE key' = Updated /\ skb' = Freed(top.skb) /\ (\E v \in {"ok", "err"} : Return(v)) /\ leaked' = leaked
  BY <1>1, <1>2, <1>5, Consumes
<1> QED BY <1>3, <1>4, <1>5 DEF ct

LEMMA SkipStep ==
  ASSUME IInv, skip
  PROVE  IInv'
<1>1. In("actions") /\ top.acts # <<>> /\ Continue(rest) /\ leaked' = leaked /\ level' = level
      /\ fifo' = fifo /\ skb' = skb /\ ret' = ret /\ (key' = key \/ key' = Updated)
  BY DEF skip, Doing
<1>2. Fitting(key') /\ top.skb \in Skbs
  BY <1>1, Running, FitsItself
<1> QED BY <1>1, <1>2, Proceeds

LEMMA ModifyStep ==
  ASSUME IInv, modify
  PROVE  IInv'
<1>1. /\ In("actions") /\ top.acts # <<>> /\ action.op \in {"set", "push"}
      /\ leaked' = leaked /\ level' = level /\ fifo' = fifo
  BY DEF modify, Doing, action
<1>2. /\ stack # <<>> /\ Has(N) /\ top \in FrameType /\ level = Below(N) /\ top.fn = "actions"
      /\ top.skb \in Skbs /\ top.key \in Places /\ skb[top.skb].live
  BY <1>1, Running DEF In
<1>3. CASE kfree_skb /\ key' = key
  <2>1. Fitting(key')
    BY <1>2, <1>3, FitsItself
  <2> QED BY <1>1, <1>3, <2>1, Consumes DEF kfree_skb
<1>4. CASE /\ skb' = [skb EXCEPT ![top.skb].hdr = 1 - @]
           /\ key' = [key EXCEPT ![top.key] = IF action.op = "set" THEN Changed(@)
                                                                  ELSE Invalidated(@)]
           /\ Continue(rest) /\ ret' = ret
  <2>1. rest \in Seq(Action) /\ ~Harmless(top.acts)
    BY <1>1, Remaining
  <2>2. /\ skb' \in [Skbs -> [live : BOOLEAN, hdr : 0..1, dp : Dps]]
        /\ skb'[top.skb].live /\ skb'[top.skb].hdr = 1 - skb[top.skb].hdr
        /\ \A s \in Skbs \ {top.skb} : skb'[s] = skb[s]
    BY <1>2, <1>4 DEF IInv, TypeOK
  <2>3. /\ key' \in [Places -> Key] /\ \A p \in Places \ {top.key} : key'[p] = key[p]
        /\ key'[top.key].valid => key[top.key].valid /\ key'[top.key].hdr = 1 - key[top.key].hdr
    <3>1. key \in [Places -> Key]
      BY DEF IInv, TypeOK
    <3>2. key[top.key] \in Key
      BY <1>2, <3>1
    <3>3. \A v \in Key : Changed(v) \in Key /\ Changed(v).hdr = 1 - v.hdr
                           /\ Changed(v).valid = v.valid
      BY DEF Key, Changed
    <3>4. \A v \in Key : Invalidated(v) \in Key /\ Invalidated(v).valid = FALSE
      BY DEF Key, Invalidated
    <3>5. CASE action.op = "set"
      <4>1. key' = [key EXCEPT ![top.key] = Changed(key[top.key])]
        BY <1>4, <3>5
      <4>2. key'[top.key] = Changed(key[top.key])
        BY <1>2, <3>1, <4>1
      <4>3. \A p \in Places \ {top.key} : key'[p] = key[p]
        BY <3>1, <4>1
      <4>4. key' \in [Places -> Key]
        BY <3>1, <3>2, <3>3, <4>1
      <4> QED BY <3>2, <3>3, <4>2, <4>3, <4>4
    <3>6. CASE action.op # "set"
      <4>1. key' = [key EXCEPT ![top.key] = Invalidated(key[top.key])]
        BY <1>4, <3>6
      <4>2. key'[top.key] = Invalidated(key[top.key])
        BY <1>2, <3>1, <4>1
      <4>3. \A p \in Places \ {top.key} : key'[p] = key[p]
        BY <3>1, <4>1
      <4>4. key' \in [Places -> Key]
        BY <3>1, <3>2, <3>4, <4>1
      <4> QED BY <3>2, <3>4, <4>2, <4>3, <4>4
    <3> QED BY <3>5, <3>6
  <2>4. key'[top.key].valid => key'[top.key].hdr = skb'[top.skb].hdr
    BY <1>2, <2>2, <2>3, FitsItself
  <2>5. OtherKeys
    <3>1. \A q \in 1 .. N - 1 : Has(q) => At(q).key # top.key
      <4>1. N \in 1 .. N /\ top = At(N)
        BY <1>2, Top DEF IInv, TypeOK
      <4> QED BY <1>2, <2>1, <4>1 DEF IInv, OnePlace
    <3>2. \A i \in Lasting : <<"fifo", i>> # top.key
      <4> SUFFICES ASSUME NEW i \in Lasting, <<"fifo", i>> = top.key PROVE FALSE
        OBVIOUS
      <4>1. top.key[1] = "fifo" /\ top.key[2] = i
        OBVIOUS
      <4>2. i < fifo.tail
        BY <1>1, <1>2, <4>1, Running
      <4> QED BY <4>2 DEF Lasting, Entries, IInv, TypeOK
    <3>3. \E v : key' = [key EXCEPT ![top.key] = v]
      BY <1>4
    <3> QED BY <1>2, <3>1, <3>2, <3>3, FitsItself, KeyFitsOthers
  <2>6. stack' = <<[top EXCEPT !.fn = "actions", !.acts = rest]>> \o Tail(stack) /\ ret' \in {"ok", "err"}
    BY <1>4 DEF Continue, IInv, TypeOK
  <2> QED BY <1>1, <1>2, <2>1, <2>2, <2>3, <2>4, <2>5, <2>6, ContinueIInv
<1> QED BY <1>3, <1>4 DEF modify

\* The skb for a nested function is the packet's own or a new one.
LEMMA OwnedSkb ==
  ASSUME IInv, In("actions"), NEW s \in OwnSkb
  PROVE  /\ s \in Skbs /\ Mine(s)
         /\ last => s = top.skb
         /\ ~last => s # top.skb /\ ~skb[s].live
<1>1. top.skb \in Skbs /\ skb[top.skb].live /\ Mine(top.skb)
  BY Running
<1>2. CASE last
  BY <1>1, <1>2 DEF OwnSkb
<1>3. CASE ~last
  BY <1>1, <1>3 DEF OwnSkb, Fresh, Unused, Mine
<1> QED BY <1>2, <1>3

\* A nested function is called on it, with the caller's key or one at a place of this level.
OfLevel(k, p) ==
  /\ p[1] # "fifo" /\ p[2] = level
  /\ \E v \in Key : key' = [k EXCEPT ![p] = v] /\ (v.valid => v.hdr = skb[top.skb].hdr)
LEMMA NestIInv ==
  ASSUME IInv, In("actions"), top.acts # <<>>, NEW k, Fitting(k), NEW s \in OwnSkb, NEW p \in Places,
         NEW fn \in {"output", "clone", "clone_level"}, NEW f \in FrameType,
         f.fn \in {"process", "actions"}, f.skb = s, f.key = p, Call(fn, rest, f),
         fifo' = fifo, ret' = ret, leaked' = leaked,
         skb' \in [Skbs -> [live : BOOLEAN, hdr : 0..1, dp : Dps]],
         skb'[s].live, skb'[s].hdr = skb[top.skb].hdr, \A x \in Skbs \ {s} : skb'[x] = skb[x],
         level' = level + (IF fn = "clone_level" THEN 1 ELSE 0), level' <= OVS_RECURSION_LIMIT,
         \/ /\ p = top.key /\ key' = k /\ f.fn = "actions"
            /\ ~Harmless(top.acts) /\ (last \/ Harmless(f.acts))
         \/ OfLevel(k, p) /\ (f.fn = "process" \/ fn = "clone_level")
  PROVE  IInv'
<1>1. /\ stack # <<>> /\ Has(N) /\ level = Below(N) /\ top.skb \in Skbs /\ top.key \in Places
      /\ top \in FrameType /\ skb[top.skb].live /\ top.fn = "actions"
      /\ top.key[1] # "fifo" => top.key[2] < Below(N)
      /\ top.key[1] = "fifo" => top.key[2] < fifo.tail
  BY Running DEF In
<1>2. /\ s \in Skbs /\ Mine(s)
      /\ last => s = top.skb
      /\ ~last => s # top.skb /\ ~skb[s].live
  BY OwnedSkb
<1>3. /\ rest \in Seq(Action) /\ (Harmless(top.acts) => Harmless(rest))
  BY Remaining
<1> DEFINE g == [top EXCEPT !.fn = fn, !.acts = rest]
<1>4. /\ g \in FrameType /\ g.fn = fn /\ g.acts = rest /\ g.skb = top.skb /\ g.key = top.key
  <2>1. fn \in {"process", "actions", "output", "clone", "clone_level", "execute", "deferred"}
    OBVIOUS
  <2>2. top \in FrameType /\ rest \in Seq(Action)
    BY <1>1, <1>3
  <2>3. \A x \in FrameType, a \in Seq(Action) :
          /\ [x EXCEPT !.fn = fn, !.acts = a] \in FrameType
          /\ [x EXCEPT !.fn = fn, !.acts = a].fn = fn
          /\ [x EXCEPT !.fn = fn, !.acts = a].acts = a
          /\ [x EXCEPT !.fn = fn, !.acts = a].skb = x.skb
          /\ [x EXCEPT !.fn = fn, !.acts = a].key = x.key
    BY <2>1, ZenonT(40) DEF FrameType
  <2> QED BY ZenonT(60), <2>2, <2>3
<1>5. stack' = <<f, g>> \o Tail(stack)
  BY DEF Call
<1> HIDE DEF g
<1>6. PICK kept \in BOOLEAN : kept <=> ~last
  OBVIOUS
<1>7. kept <=> g.fn # "execute" /\ g.acts # <<>>
  BY <1>4, <1>6 DEF last
<1>8. /\ level' = Below(N) + (IF g.fn \in Counted THEN 1 ELSE 0)
  BY <1>1, <1>4 DEF Counted
<1>9. k[top.key].valid => k[top.key].hdr = skb[top.skb].hdr
  BY <1>1, FitsItself
<1>10. k \in [Places -> Key]
  BY DEF Fitting
<1>11. CASE /\ p = top.key /\ key' = k /\ f.fn = "actions"
            /\ ~Harmless(top.acts) /\ (last \/ Harmless(f.acts))
  <2>1. OtherKeys
    BY <1>1, <1>11, KeyFitsOthers
  <2>2. /\ key' \in [Places -> Key]
        /\ key'[f.key].valid => key'[f.key].hdr = skb'[f.skb].hdr
        /\ kept /\ key'[top.key].valid => key'[top.key].hdr = skb[top.skb].hdr
    BY <1>9, <1>10, <1>11
  <2>3. \A q \in 1 .. N - 1 : Has(q) => At(q).key # f.key
    <3> SUFFICES ASSUME NEW q \in 1 .. N - 1, Has(q), At(q).key = top.key PROVE FALSE
      BY <1>11
    <3>1. N \in 1 .. N /\ top = At(N)
      BY <1>1, Top DEF IInv, TypeOK
    <3> QED BY <1>1, <1>11, <3>1 DEF IInv, OnePlace
  <2>4. /\ f.key[1] = "fifo" => f.key[2] < fifo.tail
        /\ f.key[1] # "fifo" => f.key[2] < level' \/ (f.key[2] = level' /\ f.fn = "process")
    <3>1. Below(N) \in Nat /\ top.key[2] \in Nat
      BY <1>1, PlacesBelow, PlaceType
    <3>2. Below(N) <= level'
      BY <1>8, <3>1
    <3> QED BY <1>1, <1>8, <1>11, <3>1, <3>2
  <2>5. kept /\ f.key = top.key => /\ f.fn # "process" /\ Harmless(f.acts)
                                   /\ skb'[f.skb].hdr = skb[top.skb].hdr
    BY <1>6, <1>11
  <2>6. /\ ret' \in {"ok", "err"} /\ g.fn \in {"output", "clone", "clone_level", "execute"}
        /\ top.fn = "actions" \/ (g.fn = "execute" /\ top.fn = "process")
        /\ kept => f.skb # top.skb /\ (Harmless(top.acts) => Harmless(g.acts))
        /\ ~kept => f.skb = top.skb
        /\ Mine(f.skb) /\ skb'[f.skb].live /\ \A x \in Skbs \ {f.skb} : skb'[x] = skb[x]
    BY <1>1, <1>2, <1>3, <1>4, <1>6 DEF IInv, TypeOK
  <2>7. /\ fifo' = fifo /\ leaked' = leaked /\ f.fn \in {"process", "actions"} /\ level' <= OVS_RECURSION_LIMIT
        /\ skb' \in [Skbs -> [live : BOOLEAN, hdr : 0..1, dp : Dps]]
    OBVIOUS
  <2> QED BY ONLY IInv, f \in FrameType, <1>1, <1>4, <1>5, <1>6, <1>7, <1>8, <2>1, <2>2, <2>3, <2>4, <2>5, <2>6, <2>7, CallIInv
<1>12. ASSUME OfLevel(k, p), f.fn = "process" \/ fn = "clone_level"
       PROVE  IInv'
  <2>0. PICK v \in Key : key' = [k EXCEPT ![p] = v] /\ (v.valid => v.hdr = skb[top.skb].hdr)
    BY <1>12 DEF OfLevel
  <2>9. p[1] # "fifo" /\ p[2] = level /\ (f.fn = "process" \/ fn = "clone_level")
    BY <1>12 DEF OfLevel
  <2>1. Below(N) \in Nat /\ top.key[2] \in Nat /\ top.key # p
    <3>1. Below(N) \in Nat /\ top.key[2] \in Nat
      BY <1>1, PlacesBelow, PlaceType
    <3>2. top.key # p
      <4> SUFFICES ASSUME top.key = p PROVE FALSE
        OBVIOUS
      <4> QED BY <1>1, <2>9, <3>1
    <3> QED BY <3>1, <3>2
  <2>2. /\ key' \in [Places -> Key]
        /\ key'[f.key].valid => key'[f.key].hdr = skb'[f.skb].hdr
        /\ kept /\ key'[top.key].valid => key'[top.key].hdr = skb[top.skb].hdr
    <3>1. key' \in [Places -> Key] /\ key'[p] = v /\ key'[top.key] = k[top.key]
      BY <1>1, <1>10, <2>0, <2>1
    <3> QED BY <1>9, <2>0, <3>1
  <2>3. \A q \in 1 .. N - 1 : Has(q) => At(q).key # p
    <3> SUFFICES ASSUME NEW q \in 1 .. N - 1, Has(q), At(q).key = p PROVE FALSE
      OBVIOUS
    <3>1. At(q).key[1] # "fifo"
      BY <2>9
    <3>2. At(q).key[2] < Below(N)
      BY <1>1, <3>1, PlacesBelow
    <3>3. At(q).key[2] = Below(N)
      BY <1>1, <2>9
    <3> QED BY <2>1, <3>2, <3>3
  <2>4. OtherKeys
    <3>1. \A i \in Lasting : <<"fifo", i>> # p
      <4> SUFFICES ASSUME NEW i \in Lasting, <<"fifo", i>> = p PROVE FALSE
        OBVIOUS
      <4>1. p[1] = "fifo"
        OBVIOUS
      <4> QED BY <2>9, <4>1
    <3>2. \E x : key' = [k EXCEPT ![p] = x]
      BY <2>0
    <3> QED BY ONLY IInv, Fitting(k), <1>1, <2>3, <3>1, <3>2, KeyFitsOthers
  <2>5. /\ f.key[1] = "fifo" => f.key[2] < fifo.tail
        /\ f.key[1] # "fifo" => f.key[2] < level' \/ (f.key[2] = level' /\ f.fn = "process")
    <3>1. level \in Nat
      BY <1>1, <2>1
    <3> QED BY <2>9, <3>1
  <2>6. /\ ret' \in {"ok", "err"} /\ g.fn \in {"output", "clone", "clone_level", "execute"}
        /\ top.fn = "actions" \/ (g.fn = "execute" /\ top.fn = "process")
        /\ kept => f.skb # top.skb /\ (Harmless(top.acts) => Harmless(g.acts))
        /\ ~kept => f.skb = top.skb
        /\ Mine(f.skb) /\ skb'[f.skb].live /\ \A x \in Skbs \ {f.skb} : skb'[x] = skb[x]
        /\ \A q \in 1 .. N - 1 : Has(q) => At(q).key # f.key
        /\ f.key # top.key
    BY <1>1, <1>2, <1>3, <1>4, <1>6, <2>1, <2>3 DEF IInv, TypeOK
  <2>7. /\ fifo' = fifo /\ leaked' = leaked /\ f.fn \in {"process", "actions"} /\ level' <= OVS_RECURSION_LIMIT
        /\ skb' \in [Skbs -> [live : BOOLEAN, hdr : 0..1, dp : Dps]]
    OBVIOUS
  <2> QED BY ONLY IInv, f \in FrameType, <1>1, <1>4, <1>5, <1>6, <1>7, <1>8, <2>2, <2>4, <2>5, <2>6, <2>7, CallIInv
<1> QED BY <1>11, <1>12

LEMMA EnterStep ==
  ASSUME IInv, enter
  PROVE  IInv'
<1> DEFINE p == <<"local", level>>
<1>1. /\ In("actions") /\ top.acts # <<>> /\ action.op = "enter"
      /\ leaked' = leaked /\ level' = level /\ fifo' = fifo
  BY DEF enter, Doing, action
<1>2. /\ top.skb \in Skbs /\ skb[top.skb].live
      /\ Fitting(key)
  BY <1>1, Running, FitsItself
<1>3. CASE \E s \in OwnSkb :
          /\ skb' = [skb EXCEPT ![s] = [skb[top.skb] EXCEPT !.dp = action.arg]]
          /\ key' = [key EXCEPT ![p] = Extracted(top.skb)]
          /\ Call("output", rest, Frame("process", action.arg, s, p, <<>>))
          /\ ret' = ret
  <2>1. PICK s \in OwnSkb :
          /\ skb' = [skb EXCEPT ![s] = [skb[top.skb] EXCEPT !.dp = action.arg]]
          /\ key' = [key EXCEPT ![p] = Extracted(top.skb)]
          /\ Call("output", rest, Frame("process", action.arg, s, p, <<>>))
          /\ ret' = ret
    BY <1>3
  <2>2. action.arg \in Dps /\ s \in Skbs
    BY <1>1, Remaining, OwnedSkb DEF Action
  <2>3. level \in 0 .. OVS_RECURSION_LIMIT
    BY DEF IInv, TypeOK
  <2>4. p \in Places /\ p[1] # "fifo" /\ p[2] = level
    BY <2>3 DEF Places
  <2> DEFINE f == Frame("process", action.arg, s, p, <<>>)
  <2>5. f \in FrameType /\ f.fn = "process" /\ f.skb = s /\ f.key = p
    <3> HIDE DEF p
    <3> QED BY <2>2, <2>4 DEF Frame, FrameType
  <2> PICK fn \in {"output", "clone", "clone_level"} : fn = "output"
    OBVIOUS
  <2>6. Call(fn, rest, f) /\ ret' = ret
    BY <2>1
  <2>7. /\ Extracted(top.skb) \in Key /\ Extracted(top.skb).hdr = skb[top.skb].hdr
    BY <1>2 DEF Extracted, Key, IInv, TypeOK
  <2>8. /\ skb' \in [Skbs -> [live : BOOLEAN, hdr : 0..1, dp : Dps]]
        /\ skb'[s].live /\ skb'[s].hdr = skb[top.skb].hdr /\ \A x \in Skbs \ {s} : skb'[x] = skb[x]
    <3>1. skb \in [Skbs -> [live : BOOLEAN, hdr : 0..1, dp : Dps]]
      BY DEF IInv, TypeOK
    <3>2. \A x \in [live : BOOLEAN, hdr : 0..1, dp : Dps], c \in Dps :
            /\ [x EXCEPT !.dp = c] \in [live : BOOLEAN, hdr : 0..1, dp : Dps]
            /\ [x EXCEPT !.dp = c].live = x.live /\ [x EXCEPT !.dp = c].hdr = x.hdr
      OBVIOUS
    <3>3. skb[top.skb] \in [live : BOOLEAN, hdr : 0..1, dp : Dps]
      BY <1>2, <3>1
    <3> DEFINE v == [skb[top.skb] EXCEPT !.dp = action.arg]
    <3>4. v \in [live : BOOLEAN, hdr : 0..1, dp : Dps] /\ v.live = skb[top.skb].live /\ v.hdr = skb[top.skb].hdr
      BY <2>2, <3>2, <3>3
    <3>5. skb' = [skb EXCEPT ![s] = v]
      BY <2>1
    <3> HIDE DEF v
    <3> QED BY <1>2, <2>2, <3>1, <3>4, <3>5
  <2>9. key' = [key EXCEPT ![p] = Extracted(top.skb)]
    BY <2>1
  <2>10. level' = level + (IF fn = "clone_level" THEN 1 ELSE 0) /\ level' <= OVS_RECURSION_LIMIT
    BY <1>1, <2>3
  <2>11. OfLevel(key, p)
    BY <2>4, <2>7, <2>9 DEF OfLevel
  <2>12. fn \in {"output", "clone", "clone_level"} /\ f.fn \in {"process", "actions"}
    BY <2>5
  <2> HIDE DEF f, p
  <2> QED BY ONLY IInv, s \in OwnSkb, <1>1, <1>2, <2>4, <2>5, <2>6, <2>8, <2>10, <2>11, <2>12, NestIInv
<1>4. CASE Return("ok") /\ skb' = Freed(top.skb) /\ key' = key
  BY <1>1, <1>2, <1>4, Consumes
<1>5. CASE Continue(rest) /\ ret' = ret /\ skb' = skb /\ key' = key
  BY <1>1, <1>2, <1>5, Proceeds
<1> QED BY <1>3, <1>4, <1>5 DEF enter

\* clone_execute(), k being the caller's key or that brought up to date.
LEMMA CloneIInv ==
  ASSUME IInv, In("actions"), top.acts # <<>>, NEW k, Fitting(k),
         NEW f \in {"process", "actions"}, NEW acts \in Seq(Action), NEW ckey \in BOOLEAN,
         clone_execute(k, f, acts, ckey), leaked' = leaked,
         ~ckey => f = "actions" /\ ~Harmless(top.acts) /\ (last \/ Harmless(acts))
  PROVE  IInv'
<1>1. /\ stack # <<>> /\ Has(N) /\ level = Below(N) /\ top.skb \in Skbs /\ top.key \in Places /\ top.dp \in Dps
      /\ top \in FrameType /\ skb[top.skb].live /\ top.fn = "actions" /\ Below(N) >= 1
      /\ Below(N) \in Nat
  BY Running, PlacesBelow DEF In
<1>2. /\ rest \in Seq(Action) /\ (Harmless(top.acts) => Harmless(rest))
  BY Remaining
<1>3. k[top.key] \in Key /\ (k[top.key].valid => k[top.key].hdr = skb[top.skb].hdr)
  BY <1>1, FitsItself DEF Fitting
<1> DEFINE fn  == IF f = "actions" /\ ckey THEN "clone_level" ELSE "clone"
           run(s, p) == Frame(f, top.dp, s, p, acts)
           nest(s, p) == Call(fn, rest, run(s, p))
           copied(s) == skb' = [skb EXCEPT ![s] = skb[top.skb]]
           i == fifo.head
<1>4. PICK s \in OwnSkb :
        \/ /\ ~ckey /\ key' = k /\ copied(s) /\ nest(s, top.key)
           /\ level' = level /\ fifo' = fifo /\ ret' = ret
        \/ /\ ckey
           /\ \E p \in clone_key : key' = [k EXCEPT ![p] = k[top.key]] /\ nest(s, p)
           /\ copied(s)
           /\ level' = IF fn = "clone_level" THEN level + 1 ELSE level
           /\ fifo' = fifo /\ ret' = ret
        \/ /\ ckey /\ clone_key = {}
           /\ IF HasRoom(i)
              THEN /\ fifo' = [fifo EXCEPT !.head = i + 1, !.entry[i] = [fn |-> f, skb |-> s, acts |-> acts]]
                   /\ key' = [k EXCEPT ![<<"fifo", i>>] = k[top.key]]
                   /\ copied(s)
              ELSE /\ skb' = Freed(s)
                   /\ key' = k
                   /\ fifo' = fifo
           /\ IF last THEN Return("ok") ELSE Continue(rest) /\ ret' = ret
           /\ level' = level
  BY DEF clone_execute
<1>5. /\ s \in Skbs /\ Mine(s)
      /\ last => s = top.skb
      /\ ~last => s # top.skb /\ ~skb[s].live
  BY OwnedSkb
<1>6. fn \in {"output", "clone", "clone_level"}
  OBVIOUS
<1>7. copied(s) => /\ skb' \in [Skbs -> [live : BOOLEAN, hdr : 0..1, dp : Dps]]
                   /\ skb'[s].live /\ skb'[s].hdr = skb[top.skb].hdr
                   /\ \A x \in Skbs \ {s} : skb'[x] = skb[x]
  <2>1. skb \in [Skbs -> [live : BOOLEAN, hdr : 0..1, dp : Dps]]
    BY DEF IInv, TypeOK
  <2> QED BY <1>1, <1>5, <2>1
<1>8. \A p \in Places : /\ run(s, p) \in FrameType /\ run(s, p).fn = f /\ run(s, p).skb = s
                        /\ run(s, p).key = p /\ run(s, p).acts = acts
  BY <1>1, <1>5 DEF Frame, FrameType
<1>9. level \in 0 .. OVS_RECURSION_LIMIT
  BY DEF IInv, TypeOK
<1>10. CASE /\ ~ckey /\ key' = k /\ copied(s) /\ nest(s, top.key)
            /\ level' = level /\ fifo' = fifo /\ ret' = ret
  <2> DEFINE p == top.key
             r == run(s, p)
  <2>1. p \in Places
    BY <1>1
  <2>2. r \in FrameType /\ r.fn \in {"process", "actions"} /\ r.fn = f /\ r.skb = s /\ r.key = p /\ r.acts = acts
    BY <1>8, <2>1
  <2>3. Call(fn, rest, r)
    BY <1>10
  <2>4. level' = level + (IF fn = "clone_level" THEN 1 ELSE 0) /\ level' <= OVS_RECURSION_LIMIT
    BY <1>9, <1>10, ConstantsAssumption
  <2>5. p = top.key /\ key' = k /\ r.fn = "actions" /\ ~Harmless(top.acts) /\ (last \/ Harmless(r.acts))
    BY <1>10, <2>2
  <2>6. /\ fifo' = fifo /\ ret' = ret /\ leaked' = leaked /\ copied(s)
    BY <1>10
  <2> HIDE DEF fn, r, p, run
  <2> QED BY <1>6, <1>7, <2>1, <2>2, <2>3, <2>4, <2>5, <2>6, NestIInv
<1>11. CASE /\ ckey
            /\ \E p \in clone_key : key' = [k EXCEPT ![p] = k[top.key]] /\ nest(s, p)
            /\ copied(s)
            /\ level' = IF fn = "clone_level" THEN level + 1 ELSE level
            /\ fifo' = fifo /\ ret' = ret
  <2>1. PICK p \in clone_key : key' = [k EXCEPT ![p] = k[top.key]] /\ nest(s, p)
    BY <1>11
  <2>2. p = <<"clone", level>> /\ level <= OVS_DEFERRED_ACTION_THRESHOLD
    <3>1. CASE level <= OVS_DEFERRED_ACTION_THRESHOLD
      BY <3>1 DEF clone_key
    <3>2. CASE ~(level <= OVS_DEFERRED_ACTION_THRESHOLD)
      BY <3>2 DEF clone_key
    <3> QED BY <3>1, <3>2
  <2>3. p \in Places /\ p[1] # "fifo" /\ p[2] = level
    <3>1. level \in 1 .. OVS_DEFERRED_ACTION_THRESHOLD
      BY <1>1, <1>9, <2>2, ConstantsAssumption
    <3> QED BY <2>2, <3>1 DEF Places
  <2> DEFINE r == run(s, p)
  <2>4. r \in FrameType /\ r.fn \in {"process", "actions"} /\ r.fn = f /\ r.skb = s /\ r.key = p /\ r.acts = acts
    BY <1>8, <2>3
  <2>5. Call(fn, rest, r)
    BY <2>1
  <2>6. level' = level + (IF fn = "clone_level" THEN 1 ELSE 0) /\ level' <= OVS_RECURSION_LIMIT
    BY <1>9, <1>11, <2>2, ConstantsAssumption
  <2>7. OfLevel(k, p) /\ (r.fn = "process" \/ fn = "clone_level")
    BY <1>3, <1>11, <2>1, <2>3, <2>4 DEF OfLevel
  <2>8. /\ fifo' = fifo /\ ret' = ret /\ leaked' = leaked /\ copied(s)
    BY <1>11
  <2> HIDE DEF fn, r, run
  <2> QED BY <1>6, <1>7, <2>3, <2>4, <2>5, <2>6, <2>7, <2>8, NestIInv
<1>12. CASE /\ HasRoom(i)
            /\ fifo' = [fifo EXCEPT !.head = i + 1, !.entry[i] = [fn |-> f, skb |-> s, acts |-> acts]]
            /\ key' = [k EXCEPT ![<<"fifo", i>>] = k[top.key]]
            /\ copied(s)
            /\ IF last THEN Return("ok") ELSE Continue(rest) /\ ret' = ret
            /\ level' = level
  <2>1. fifo' = WithPut(fifo, [fn |-> f, skb |-> s, acts |-> acts])
    BY <1>12 DEF WithPut
  <2>2. fifo.head < DEFERRED_ACTION_FIFO_SIZE - 1 /\ key' = [k EXCEPT ![<<"fifo", fifo.head>>] = k[top.key]]
    BY <1>12 DEF HasRoom
  <2>3. \/ s = top.skb /\ stack' = Tail(stack)
        \/ /\ s # top.skb /\ Mine(s)
           /\ stack' = <<[top EXCEPT !.fn = "actions", !.acts = rest]>> \o Tail(stack)
    BY <1>5, <1>12 DEF Return, Continue
  <2>4. ret' \in {"ok", "err"}
    BY <1>12 DEF Return, IInv, TypeOK
  <2>5. skb' = [skb EXCEPT ![s] = skb[top.skb]] /\ level' = level
    BY <1>12
  <2> QED
    BY ONLY IInv, Fitting(k), f \in {"process", "actions"}, acts \in Seq(Action), leaked' = leaked,
            <1>1, <1>2, <1>5, <2>1, <2>2, <2>3, <2>4, <2>5, DeferIInv
<1>13. CASE /\ skb' = Freed(s) /\ key' = k /\ fifo' = fifo
            /\ IF last THEN Return("ok") ELSE Continue(rest) /\ ret' = ret
            /\ level' = level
  <2>1. CASE last
    BY <1>5, <1>13, <2>1, Consumes
  <2>2. CASE ~last
    BY <1>5, <1>13, <2>2, Proceeds
  <2> QED BY <2>1, <2>2
<1> QED BY <1>4, <1>10, <1>11, <1>12, <1>13

LEMMA RecircStep ==
  ASSUME IInv, execute_recirc
  PROVE  IInv'
<1>1. In("actions") /\ top.acts # <<>>
  BY DEF execute_recirc, Doing
<1>2. Fitting(Updated) /\ Fitting(key)
  BY <1>1, Running, FitsItself
<1>3. CASE clone_execute(Updated, "process", <<>>, TRUE) /\ leaked' = leaked
  <2>1. <<>> \in Seq(Action) /\ TRUE \in BOOLEAN
    OBVIOUS
  <2> QED BY <1>1, <1>2, <1>3, <2>1, CloneIInv
<1>4. CASE ReturnsAtOnce /\ level' = level /\ fifo' = fifo /\ key' = key
  BY <1>1, <1>4, Leaves
<1>5. CASE kfree_skb /\ leaked' = leaked /\ level' = level /\ fifo' = fifo /\ key' = key
  BY <1>1, <1>2, <1>5, Consumes DEF kfree_skb
<1> QED BY <1>3, <1>4, <1>5 DEF execute_recirc

LEMMA SampleStep ==
  ASSUME IInv, sample
  PROVE  IInv'
<1>1. In("actions") /\ top.acts # <<>> /\ action.op = "sample" /\ leaked' = leaked
  BY DEF sample, Doing, action
<1>2. Fitting(key)
  BY <1>1, Running, FitsItself
<1> DEFINE sub == action.sub
           ckey == ~(last \/ ~actions_may_change_flow(sub))
<1>3. CASE clone_execute(key, "actions", sub, ckey)
  <2>1. sub \in Seq(Action) /\ ~Harmless(top.acts)
    BY <1>1, Remaining, ConstantsAssumption DEF Action
  <2>2. ckey \in BOOLEAN /\ (~ckey => last \/ Harmless(sub))
    BY DEF Harmless
  <2> HIDE DEF sub, ckey
  <2> QED BY <1>1, <1>2, <1>3, <2>1, <2>2, CloneIInv
<1>4. CASE skb' = Freed(top.skb) /\ Return("ok") /\ level' = level /\ fifo' = fifo /\ key' = key
  BY <1>1, <1>2, <1>4, Consumes
<1> QED BY <1>3, <1>4 DEF sample

\* A function that has been waiting returns, or goes on if it has its skb.
LEMMA DoneFacts ==
  ASSUME IInv, stack # <<>>, top.fn \in {"output", "clone", "clone_level"}
  PROVE  /\ N > 1 /\ (Has(N) <=> top.acts # <<>>) /\ top.acts \in Seq(Action) /\ Below(N) \in Nat
         /\ level = Below(N) + (IF top.fn \in Counted THEN 1 ELSE 0) /\ top.fn # "process"
         /\ Fitting(key) /\ top.skb \in Skbs /\ (top.acts # <<>> => Mine(top.skb))
         /\ skb \in [Skbs -> [live : BOOLEAN, hdr : 0..1, dp : Dps]]
         /\ leaked \subseteq Skbs /\ ret \in {"ok", "err"}
<1>1. N \in Nat \ {0} /\ top = At(N) /\ top \in FrameType
  BY Top DEF IInv, TypeOK
<1>2. /\ Has(N) <=> top.acts # <<>>
      /\ top.acts \in Seq(Action) /\ top.skb \in Skbs
  BY <1>1 DEF Has, FrameType
<1> QED BY <1>1, <1>2, PlacesBelow, FitsItself DEF IInv, TypeOK, Mine

LEMMA OutputDoneStep ==
  ASSUME IInv, output_done
  PROVE  IInv'
<1>1. /\ stack # <<>> /\ top.fn = "output" /\ leaked' = leaked /\ level' = level /\ fifo' = fifo
      /\ key' = key /\ skb' = skb
  BY DEF output_done, In
<1>0. /\ N > 1 /\ (Has(N) <=> top.acts # <<>>) /\ top.acts \in Seq(Action) /\ Below(N) \in Nat
      /\ level = Below(N) + (IF top.fn \in Counted THEN 1 ELSE 0) /\ top.fn # "process"
      /\ Fitting(key) /\ top.skb \in Skbs /\ (top.acts # <<>> => Mine(top.skb))
      /\ skb \in [Skbs -> [live : BOOLEAN, hdr : 0..1, dp : Dps]]
      /\ leaked \subseteq Skbs /\ ret \in {"ok", "err"}
  BY ONLY IInv, <1>1, DoneFacts
<1>2. /\ N > 1 /\ (Has(N) <=> top.acts # <<>>) /\ top.acts \in Seq(Action)
      /\ level' = Below(N) /\ Fitting(key') /\ top.skb \in Skbs
      /\ skb' \in [Skbs -> [live : BOOLEAN, hdr : 0..1, dp : Dps]]
      /\ leaked' \subseteq Skbs /\ ret \in {"ok", "err"}
  BY <1>0, <1>1 DEF Counted
<1>3. CASE top.acts = <<>> /\ Return("ok")
  <2>1. stack' = Tail(stack) /\ ret' \in {"ok", "err"} /\ ~Has(N)
    BY <1>2, <1>3 DEF Return
  <2> QED BY <1>1, <1>2, <2>1, ReturnIInv
<1>4. CASE top.acts # <<>> /\ Continue(top.acts) /\ ret' = ret
  BY <1>1, <1>2, <1>4, GoesOn
<1> QED BY <1>3, <1>4 DEF output_done

LEMMA CloneDoneStep ==
  ASSUME IInv, clone_done
  PROVE  IInv'
<1>1. /\ stack # <<>> /\ top.fn \in {"clone", "clone_level"} /\ leaked' = leaked /\ level' = LevelAfter
      /\ fifo' = fifo /\ key' = key
  BY DEF clone_done, In
<1>0. /\ N > 1 /\ (Has(N) <=> top.acts # <<>>) /\ top.acts \in Seq(Action) /\ Below(N) \in Nat
      /\ level = Below(N) + (IF top.fn \in Counted THEN 1 ELSE 0) /\ top.fn # "process"
      /\ Fitting(key) /\ top.skb \in Skbs /\ (top.acts # <<>> => Mine(top.skb))
      /\ skb \in [Skbs -> [live : BOOLEAN, hdr : 0..1, dp : Dps]]
      /\ leaked \subseteq Skbs /\ ret \in {"ok", "err"}
  BY ONLY IInv, <1>1, DoneFacts
<1>2. /\ N > 1 /\ (Has(N) <=> top.acts # <<>>) /\ top.acts \in Seq(Action)
      /\ level' = Below(N) /\ Fitting(key') /\ top.skb \in Skbs
      /\ skb \in [Skbs -> [live : BOOLEAN, hdr : 0..1, dp : Dps]]
      /\ top.acts # <<>> => Mine(top.skb)
      /\ leaked' \subseteq Skbs /\ ret \in {"ok", "err"}
  BY <1>0, <1>1 DEF Counted, LevelAfter
<1>3. CASE top.acts = <<>> /\ Return(ret) /\ skb' = skb
  <2>1. stack' = Tail(stack) /\ ret' \in {"ok", "err"} /\ ~Has(N)
    BY <1>2, <1>3 DEF Return
  <2>2. skb' \in [Skbs -> [live : BOOLEAN, hdr : 0..1, dp : Dps]] /\ \A s \in Skbs : skb'[s] = skb[s]
    BY <1>2, <1>3
  <2> QED BY <1>1, <1>2, <2>1, <2>2, ReturnIInv
<1>4. CASE top.acts # <<>> /\ kfree_skb
  <2>1. stack' = Tail(stack) /\ ret' \in {"ok", "err"} /\ Has(N) /\ Mine(top.skb) /\ skb' = Freed(top.skb)
    BY <1>2, <1>4 DEF Return, kfree_skb
  <2>2. /\ \A x \in Skbs : skb'[x] = skb[x] \/ (Mine(x) /\ ~skb'[x].live)
        /\ skb' \in [Skbs -> [live : BOOLEAN, hdr : 0..1, dp : Dps]]
        /\ ~skb'[top.skb].live
    BY <1>2, <2>1, FreedOwn
  <2> QED BY <1>1, <1>2, <2>1, <2>2, ReturnIInv
<1>5. CASE top.acts # <<>> /\ Continue(top.acts) /\ ret' = ret /\ skb' = skb
  BY <1>1, <1>2, <1>5, GoesOn
<1> QED BY <1>3, <1>4, <1>5 DEF clone_done

LEMMA ExecutedStep ==
  ASSUME IInv, executed
  PROVE  IInv'
<1>1. CASE N = 1
  BY <1>1, FinishIInv
<1>2. CASE N # 1
  <2>1. /\ stack # <<>> /\ top.fn \in {"execute", "deferred"} /\ stack' = Tail(stack) /\ ret' \in {"ok", "err"}
        /\ fifo' = (IF top.fn = "deferred" THEN [fifo EXCEPT !.head = 0, !.tail = 0] ELSE fifo)
        /\ leaked' = leaked /\ level' = level - 1 /\ key' = key /\ skb' = skb
    BY DEF executed, In, Return
  <2>2. N \in Nat \ {0} /\ top = At(N)
    BY <2>1, Top DEF IInv, TypeOK
  <2>3. N > 1 /\ ~Has(N)
    BY <1>2, <2>1, <2>2 DEF Has
  <2>4. top.fn # "deferred" /\ level' = Below(N)
    BY <2>1, <2>3, PlacesBelow DEF Counted
  <2>5. fifo' = fifo /\ Fitting(key')
    BY <2>1, <2>4, FitsItself
  <2>6. /\ skb' \in [Skbs -> [live : BOOLEAN, hdr : 0..1, dp : Dps]] /\ \A s \in Skbs : skb'[s] = skb[s]
        /\ leaked \subseteq leaked' /\ leaked' \subseteq Skbs
    BY <2>1 DEF IInv, TypeOK
  <2> QED BY <2>1, <2>3, <2>4, <2>5, <2>6, ReturnIInv
<1> QED BY <1>1, <1>2

-----------------------------------------------------------------------------
(* The invariant holds, and says what was asked. *)

LEMMA InitIInv ==
  ASSUME Init
  PROVE  IInv
<1>1. stack = <<>> /\ N = 0 /\ fifo.head = 0 /\ fifo.tail = 0 /\ level = 0 /\ leaked = {}
  BY DEF Init, N
<1>2. /\ fifo \in FifoType
      /\ ret \in {"ok", "err"}
  <2>1. NoEntry \in EntryType
    BY DEF NoEntry, EntryType
  <2>2. 0 \in 0..(DEFERRED_ACTION_FIFO_SIZE - 1)
    BY ConstantsAssumption
  <2> HIDE DEF NoEntry, EntryType
  <2> QED BY <2>1, <2>2 DEF Init, FifoType
<1>3. key \in [Places -> Key]
  BY DEF Init, Unset, Key
<1>4. /\ skb \in [Skbs -> [live : BOOLEAN, hdr : 0..1, dp : Dps]]
      /\ \A s \in Skbs : ~skb[s].live
  <2>1. (CHOOSE d \in Dps : TRUE) \in Dps
    BY ConstantsAssumption
  <2> QED BY <2>1 DEF Init, NoSkb
<1>5. TypeOK
  <2>1. stack \in Seq(FrameType) /\ level \in 0..OVS_RECURSION_LIMIT
    BY <1>1, ConstantsAssumption
  <2> QED BY <1>1, <1>2, <1>3, <1>4, <2>1 DEF TypeOK, FifoType
<1>6. Raised = 0
  <2>1. {r \in 1 .. N : At(r).fn \in Counted} = {}
    BY <1>1
  <2> QED BY <2>1, FS_EmptySet DEF Raised
<1>7. /\ \A i \in Entries : FALSE
      /\ \A q \in 1 .. N : FALSE
      /\ \A q \in 1 .. N - 1 : FALSE
      /\ \A q \in 2 .. N : FALSE
  BY <1>1 DEF Entries
<1> QED BY <1>1, <1>4, <1>5, <1>6, <1>7 DEF IInv, Nesting, OneHand, OnePlace, Described

LEMMA NextIInv ==
  ASSUME IInv, [Next]_vars
  PROVE  IInv'
<1>1. CASE receive
  BY <1>1, ReceiveIInv
<1>2. CASE ovs_dp_process_packet
  BY <1>2, ProcessStep
<1>3. CASE consume_skb
  BY <1>3, ConsumeStep
<1>4. CASE output
  BY <1>4, OutputStep
<1>5. CASE enter
  BY <1>5, EnterStep
<1>6. CASE output_done
  BY <1>6, OutputDoneStep
<1>7. CASE modify
  BY <1>7, ModifyStep
<1>8. CASE ct
  BY <1>8, CtStep
<1>9. CASE skip
  BY <1>9, SkipStep
<1>10. CASE execute_recirc
  BY <1>10, RecircStep
<1>11. CASE sample
  BY <1>11, SampleStep
<1>12. CASE clone_done
  BY <1>12, CloneDoneStep
<1>13. CASE process_deferred_actions
  BY <1>13, TakeIInv
<1>14. CASE executed
  BY <1>14, ExecutedStep
<1>15. CASE UNCHANGED vars
  <2>1. /\ stack' = stack /\ ret' = ret /\ level' = level /\ fifo' = fifo
        /\ key' = key /\ skb' = skb /\ leaked' = leaked
    BY <1>15 DEF vars
  <2>2. TypeOK'
    BY <2>1 DEF IInv, TypeOK
  <2>3. Nesting'
    BY <2>1 DEF IInv, Nesting, Raised, N, At, Counted
  <2>4. OneHand'
    BY <2>1 DEF IInv, OneHand, N, At, Has, Entries
  <2>5. OnePlace'
    <3>1. /\ N' = N /\ \A q \in 1 .. N : At(q)' = At(q) /\ Has(q)' = Has(q) /\ Below(q)' = Below(q)
          /\ \A q \in 1 .. N : Harmless(At(q).acts)' = Harmless(At(q).acts)
      BY <2>1 DEF N, At, Has, Below, Harmless, Counted, actions_may_change_flow
    <3>2. /\ N \in Nat
          /\ \A q \in 1 .. N : \A r \in 1 .. q - 1 : r \in 1 .. N
      BY DEF N, IInv, TypeOK
    <3>3. \A q \in 1 .. N : Has(q)' =>
             /\ At(q)'.key[1] = "fifo" => At(q)'.key[2] < fifo'.tail
             /\ At(q)'.key[1] # "fifo" => \/ At(q)'.key[2] < Below(q)'
                                          \/ At(q)'.key[2] = Below(q)' /\ At(q)'.fn = "process"
      BY <2>1, <3>1, <3>2 DEF IInv, OnePlace
    <3>4. \A q \in 1 .. N : \A r \in 1 .. q - 1 :
             Has(q)' /\ Has(r)' /\ At(q)'.key = At(r)'.key =>
               /\ At(q)'.fn # "process" /\ Harmless(At(q).acts)'
               /\ skb'[At(q)'.skb].hdr = skb'[At(r)'.skb].hdr
      BY <2>1, <3>1, <3>2 DEF IInv, OnePlace
    <3> QED
      BY <3>1, <3>3, <3>4 DEF OnePlace
  <2>6. Described'
    BY <2>1 DEF IInv, Described, N, At, Has, Entries
  <2> QED
    BY <2>2, <2>3, <2>4, <2>5, <2>6 DEF IInv
<1> QED
  BY <1>1, <1>2, <1>3, <1>4, <1>5, <1>6, <1>7, <1>8, <1>9, <1>10, <1>11, <1>12, <1>13, <1>14, <1>15
  DEF Next, Execution

\* The executions, counted from the innermost or from the outermost.
LEMMA CountRaised ==
  ASSUME stack \in Seq(FrameType)
  PROVE  /\ Count(Counted) = Raised
         /\ Count({"execute", "deferred"}) \in Nat
         /\ Count({"execute", "deferred"}) <= Count(Counted)
<1> DEFINE C == {i \in 1 .. N : stack[i].fn \in Counted}
           R == {r \in 1 .. N : At(r).fn \in Counted}
           D == {i \in 1 .. N : stack[i].fn \in {"execute", "deferred"}}
           F == [r \in R |-> N + 1 - r]
<1>1. N \in Nat
  BY DEF N
<1>2. IsFiniteSet(1 .. N)
  BY <1>1, FS_Interval
<1>3. IsFiniteSet(C) /\ IsFiniteSet(R) /\ IsFiniteSet(D) /\ D \subseteq C
  <2>1. C \subseteq 1 .. N /\ R \subseteq 1 .. N /\ D \subseteq C
    BY DEF Counted
  <2> HIDE DEF C, R, D
  <2> QED BY <1>2, <2>1, FS_Subset
<1>4. Cardinality(C) = Cardinality(R)
  <2>1. \A r \in R : N + 1 - r \in C
    BY <1>1 DEF At
  <2>2. \A i \in C : N + 1 - i \in R /\ N + 1 - (N + 1 - i) = i
    <3> TAKE i \in C
    <3>1. N + 1 - i \in 1 .. N /\ N + 1 - (N + 1 - i) = i
      BY <1>1
    <3> QED BY <3>1 DEF At
  <2>3. \A r \in R, q \in R : N + 1 - r = N + 1 - q => r = q
    BY <1>1
  <2> HIDE DEF C, R
  <2>4. F \in [R -> C]
    BY <2>1
  <2>5. \A r \in R, q \in R : F[r] = F[q] => r = q
    BY <2>3
  <2>6. \A i \in C : \E r \in R : F[r] = i
    BY <2>2
  <2> HIDE DEF F
  <2>7. F \in Bijection(R, C)
    BY <2>4, <2>5, <2>6 DEF Bijection, Injection, Surjection, IsInjective
  <2>8. ExistsBijection(R, C)
    BY <2>7 DEF ExistsBijection
  <2> QED BY <1>3, <2>8, FS_Bijection
<1>5. Cardinality(D) <= Cardinality(C) /\ Cardinality(D) \in Nat
  <2> HIDE DEF C, D
  <2> QED BY <1>3, FS_Subset, FS_CardinalityType
<1> QED BY <1>4, <1>5 DEF Count, Raised, N

\* LevelInv: the nesting counter is balanced, the FIFO is empty between packets, and the
\* stack is bounded.
LEMMA LevelOfIInv ==
  ASSUME IInv
  PROVE  LevelInv
<1>1. stack \in Seq(FrameType) /\ TypeOK /\ level \in Nat /\ level <= OVS_RECURSION_LIMIT
  BY ConstantsAssumption DEF IInv, TypeOK
<1>2. level = Count(Counted)
  BY <1>1, CountRaised DEF IInv, Nesting
<1>3. Count({"execute", "deferred"}) <= OVS_RECURSION_LIMIT
  BY <1>1, <1>2, CountRaised, ConstantsAssumption
<1>4. stack = <<>> => fifo.head = 0 /\ fifo.tail = 0
  <2>1. stack = <<>> => N = 0
    BY DEF N
  <2> QED BY <2>1 DEF IInv, Nesting
<1>5. Counted = {"execute", "deferred", "clone_level"}
  BY DEF Counted
<1> QED BY <1>1, <1>2, <1>3, <1>4, <1>5 DEF LevelInv, LevelBalanced, StackBounded

\* An owner, whichever way it is counted.
LEMMA OwnsHas ==
  ASSUME stack \in Seq(FrameType)
  PROVE  /\ N \in Nat
         /\ \A i \in 1 .. Len(stack) : /\ N + 1 - i \in 1 .. N /\ At(N + 1 - i) = stack[i]
                                       /\ Owns(i) <=> Has(N + 1 - i)
         /\ \A q \in 1 .. N : /\ N + 1 - q \in 1 .. Len(stack) /\ stack[N + 1 - q] = At(q)
                              /\ Owns(N + 1 - q) <=> Has(q)
<1>1. N \in Nat
  BY DEF N
<1>2. \A i \in 1 .. Len(stack) : N + 1 - i \in 1 .. N /\ At(N + 1 - i) = stack[i]
  <2> TAKE i \in 1 .. Len(stack)
  <2>1. N + 1 - i \in 1 .. N /\ N + 1 - (N + 1 - i) = i
    BY <1>1 DEF N
  <2> QED BY <2>1 DEF At
<1>3. \A q \in 1 .. N : N + 1 - q \in 1 .. Len(stack) /\ stack[N + 1 - q] = At(q)
  <2> TAKE q \in 1 .. N
  <2>1. N + 1 - q \in 1 .. Len(stack)
    BY <1>1 DEF N
  <2> QED BY <2>1 DEF At
<1> QED BY <1>1, <1>2, <1>3 DEF Owns, Has

\* SkbsOwned: each skb has one owner at most, and one as long as it is live.
LEMMA OwnedOfIInv ==
  ASSUME IInv
  PROVE  SkbsOwned
<1>0. stack \in Seq(FrameType)
  BY DEF IInv, TypeOK
<1>1. /\ N \in Nat
      /\ \A i \in 1 .. Len(stack) : /\ N + 1 - i \in 1 .. N /\ At(N + 1 - i) = stack[i]
                                    /\ Owns(i) <=> Has(N + 1 - i)
      /\ \A q \in 1 .. N : /\ N + 1 - q \in 1 .. Len(stack) /\ stack[N + 1 - q] = At(q)
                           /\ Owns(N + 1 - q) <=> Has(q)
  BY <1>0, OwnsHas
<1>2. ASSUME NEW s \in Skbs
      PROVE  Cardinality(Owners(s)) <= 1 /\ (Owners(s) # {} => skb[s].live)
  <2> DEFINE Fs == {i \in 1 .. Len(stack) : Owns(i) /\ stack[i].skb = s}
             Es == {i \in Entries : fifo.entry[i].skb = s}
  <2>1. Owners(s) = {<<"function", i>> : i \in Fs} \cup {<<"entry", i>> : i \in Es}
    BY DEF Owners, Entries
  <2>2. \A i \in Fs, j \in Fs : i = j
    <3> SUFFICES ASSUME NEW i \in Fs, NEW j \in Fs, i # j PROVE FALSE
      OBVIOUS
    <3> DEFINE q == N + 1 - i
               r == N + 1 - j
    <3>1. /\ q \in 1 .. N /\ At(q) = stack[i] /\ Has(q)
          /\ r \in 1 .. N /\ At(r) = stack[j] /\ Has(r)
      BY <1>1
    <3>2. q # r
      BY <1>1
    <3> HIDE DEF q, r
    <3> QED BY <3>1, <3>2 DEF IInv, OneHand
  <2>3. \A i \in Fs : i \in 1 .. Len(stack) /\ N + 1 - i \in 1 .. N /\ Has(N + 1 - i) /\ At(N + 1 - i).skb = s
    BY <1>1
  <2>4. \A i \in Fs, j \in Es : FALSE
    BY <2>3 DEF IInv, OneHand
  <2>5. \A i \in Es, j \in Es : i = j
    BY DEF IInv, OneHand
  <2>6. \A i \in Fs : skb[s].live
    BY <2>3 DEF IInv, OneHand
  <2>7. \A i \in Es : skb[s].live
    BY DEF IInv, OneHand
  <2> HIDE DEF Fs, Es
  <2>8. Owners(s) = {} \/ \E x : Owners(s) = {x}
    <3>1. \A x \in Owners(s), y \in Owners(s) : x = y
      BY <2>1, <2>2, <2>4, <2>5
    <3> QED BY <3>1
  <2>9. Owners(s) # {} => skb[s].live
    BY <2>1, <2>6, <2>7
  <2>10. Cardinality(Owners(s)) <= 1
    <3>1. CASE Owners(s) = {}
      BY <3>1, FS_EmptySet
    <3>2. CASE \E x : Owners(s) = {x}
      BY <3>2, FS_Singleton
    <3> QED BY <2>8, <3>1, <3>2
  <2> QED BY <2>9, <2>10
<1>3. ASSUME NEW s \in Skbs, skb[s].live, s \notin leaked
      PROVE  Owners(s) # {}
  <2>1. CASE \E q \in 1 .. N : Has(q) /\ At(q).skb = s
    <3>1. PICK q \in 1 .. N : Has(q) /\ At(q).skb = s
      BY <2>1
    <3>2. <<"function", N + 1 - q>> \in Owners(s)
      BY <1>1, <3>1 DEF Owners
    <3> QED BY <3>2
  <2>2. CASE \E i \in Entries : fifo.entry[i].skb = s
    BY <2>2 DEF Owners, Entries
  <2> QED BY <1>3, <2>1, <2>2 DEF IInv, OneHand
<1> QED BY <1>2, <1>3 DEF SkbsOwned, OneOwner, NoSkbLeak

\* KeyDescribesPacket: every key in use that is valid describes its packet.
LEMMA DescribesOfIInv ==
  ASSUME IInv
  PROVE  KeyDescribesPacket
<1>0. stack \in Seq(FrameType)
  BY DEF IInv, TypeOK
<1>1. ASSUME NEW i \in 1 .. Len(stack), Owns(i), key[stack[i].key].valid
      PROVE  key[stack[i].key].hdr = skb[stack[i].skb].hdr
  <2> DEFINE q == N + 1 - i
  <2>1. q \in 1 .. N /\ At(q) = stack[i] /\ Has(q)
    BY <1>0, <1>1, OwnsHas
  <2> HIDE DEF q
  <2>2. key[At(q).key].valid => key[At(q).key].hdr = skb[At(q).skb].hdr
    BY <2>1 DEF IInv, Described
  <2> QED BY <1>1, <2>1, <2>2
<1>2. ASSUME NEW i \in Entries, key[<<"fifo", i>>].valid
      PROVE  key[<<"fifo", i>>].hdr = skb[fifo.entry[i].skb].hdr
  BY <1>2 DEF IInv, Described
<1> QED BY <1>1, <1>2 DEF KeyDescribesPacket, Uses, Entries

\* The nesting, the places of keys and the ownership of skbs hold at every step
\* (do_execute_actions, clone_execute).
THEOREM NestingInductive == Spec => []IInv
<1>1. Init => IInv
  BY InitIInv
<1>2. IInv /\ [Next]_vars => IInv'
  BY NextIInv
<1> QED BY <1>1, <1>2, PTL DEF Spec

\* exec_actions_level is balanced and bounded, and the FIFO is empty between packets
\* (ovs_execute_actions).
THEOREM LevelHolds == Spec => []LevelInv
<1>1. IInv => LevelInv
  BY LevelOfIInv
<1> QED BY <1>1, NestingInductive, PTL

\* Every skb is freed or sent once (do_execute_actions).
THEOREM SkbsHolds == Spec => []SkbsOwned
<1>1. IInv => SkbsOwned
  BY OwnedOfIInv
<1> QED BY <1>1, NestingInductive, PTL

\* The places of keys are not shared or reused too early (clone_key, action_fifo_put).
THEOREM KeysHold == Spec => []KeyDescribesPacket
<1>1. IInv => KeyDescribesPacket
  BY DescribesOfIInv
<1> QED BY <1>1, NestingInductive, PTL
================================================================================
