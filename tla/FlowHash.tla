-------------------------------- MODULE FlowHash --------------------------------
(***************************************************************************)
(* The hash table inside the flow table (flow_table.c, struct              *)
(* table_instance): chains of flows that packets walk under RCU while the  *)
(* holder of ovs_mutex inserts, removes and flushes flows and moves them   *)
(* all to an instance of another size or hash_seed.                        *)
(*                                                                         *)
(* A flow has two list nodes, and an instance uses one of them (node_ver), *)
(* so that a flow can be in the chains of the old instance and of the new  *)
(* one at the same time.  Module FlowTable takes an instance for the set   *)
(* of the flows that a walk of its chains finds; this module says when     *)
(* that is right.                                                          *)
(***************************************************************************)
EXTENDS Integers, Sequences, FiniteSets

CONSTANTS
  FlowObj, TiObj,     \* pools of kernel objects
  Keys,               \* masked keys
  KeyOf,              \* the key each flow object is used for
  Seeds,              \* values of hash_seed: the hash each of them gives a key
  Cpus,               \* CPUs processing packets
  TBL_MIN_BUCKETS,
  MAX_BUCKETS,        \* bound: no instance has more buckets
  MAX_COPIES,         \* bound: copies of the table during one lookup
  NULL

ASSUME ConstantsAssumption ==
  /\ KeyOf \in [FlowObj -> Keys]
  /\ Seeds \subseteq [Keys -> Nat]
  /\ TBL_MIN_BUCKETS \in Nat \ {0}
  /\ MAX_BUCKETS \in Nat \ {0}
  /\ MAX_COPIES \in Nat
  /\ IsFiniteSet(FlowObj)
  /\ NULL \notin FlowObj \cup TiObj

VARIABLES
  node,     \* flow_table.node[v].next of each flow
  ti,       \* struct table_instance: node_ver, n_buckets, the bucket its seed
            \* gives each key, and the first flow of each bucket
  table,    \* table->ti
  linked,   \* flows in the table; table->count is their number
  wr,       \* progress of the holder of ovs_mutex
  rd,       \* progress of each reader; history: the flows with its key that have
            \* been linked ever since its lookup began (cand), and the copies of
            \* the table that went on since
  wait      \* readers that the grace period of an object waits for

vars == <<node, ti, table, linked, wr, rd, wait>>

IdleWr == [pc |-> "idle", ti |-> NULL, todo |-> <<>>]
IdleRd == [pc |-> "idle", key |-> NULL, ti |-> NULL, at |-> NULL, cand |-> {}, copies |-> 0]

\* table_instance_alloc(): an instance of n empty buckets.
Empty(n, h) == [ver |-> 0, n |-> n, seed |-> h, first |-> [b \in 0 .. n - 1 |-> NULL]]
NoTi   == [ver |-> 0, n |-> 0, seed |-> NULL, first |-> [b \in {} |-> NULL]]
NoNode == [v \in {0, 1} |-> NULL]

\* The bucket of key k in instance t.
Bucket(t, k) == t.seed[k] % t.n

\* The flow after n steps from the head of bucket b; NULL beyond the end.
At(t, b) ==
  LET walk[n \in 0 .. Cardinality(FlowObj)] ==
        IF n = 0 THEN t.first[b]
        ELSE IF walk[n - 1] = NULL THEN NULL ELSE node[walk[n - 1]][t.ver]
  IN  walk

\* The flows of a bucket in the order of its chain, those of all buckets.
Chain(t, b) ==
  SelectSeq([i \in 1 .. Cardinality(FlowObj) |-> At(t, b)[i - 1]], LAMBDA f : f # NULL)
Chains(t) ==
  LET upto[b \in 0 .. t.n] == IF b = 0 THEN <<>> ELSE upto[b - 1] \o Chain(t, b - 1)
  IN  upto[t.n]

-----------------------------------------------------------------------------
(* RCU.  A retired object is freed, and can be allocated again, once its grace *)
(* period is over.                                                             *)

InUse == linked \cup {table, wr.ti} \cup {wr.todo[i] : i \in DOMAIN wr.todo}

FlowsNow   == {o \in (FlowObj \cup TiObj) \ InUse :                \* mutant
                 o \in TiObj => wait[o] = {}}
GraceEnded == {o \in (FlowObj \cup TiObj) \ InUse : wait[o] = {}}

Freed(o) == IF o \in FlowObj THEN node[o] = NoNode ELSE ti[o] = NoTi

Active == {r \in Cpus : rd[r].pc # "idle"}
Retire(S) == wait' = [o \in FlowObj \cup TiObj |-> IF o \in S THEN Active ELSE wait[o]]

-----------------------------------------------------------------------------
Init ==
  /\ \E t \in TiObj, h \in Seeds :
       /\ table = t
       /\ ti = [o \in TiObj |-> IF o = t THEN Empty(TBL_MIN_BUCKETS, h) ELSE NoTi]
  /\ node = [f \in FlowObj |-> NoNode]
  /\ linked = {}
  /\ wr = IdleWr
  /\ rd = [r \in Cpus |-> IdleRd]
  /\ wait = [o \in FlowObj \cup TiObj |-> {}]

-----------------------------------------------------------------------------
(* The holder of ovs_mutex. *)

\* hlist_add_head_rcu() of flow f to its bucket of instance o.
table_instance_insert(o, f) ==
  LET b == Bucket(ti[o], KeyOf[f])
  IN  /\ node' = [node EXCEPT ![f][ti[o].ver] = ti[o].first[b]]
      /\ ti' = [ti EXCEPT ![o].first[b] = f]

\* flow_key_insert(): ovs_flow_cmd_new() refuses a second flow with the same key.
\* The table may be copied next: when it has more flows than buckets, or when
\* REHASH_INTERVAL has passed.
flow_key_insert(f) ==
  /\ wr.pc = "idle"
  /\ f \in FlowObj \cap GraceEnded /\ Freed(f)
  /\ \A g \in linked : KeyOf[g] # KeyOf[f]
  /\ table_instance_insert(table, f)
  /\ linked' = linked \cup {f}
  /\ \E pc \in {"idle", "copy"} : wr' = [IdleWr EXCEPT !.pc = pc]
  /\ UNCHANGED <<table, rd, wait>>

NewBuckets == IF Cardinality(linked) > ti[table].n THEN 2 * ti[table].n ELSE ti[table].n

SameVer(o)  == ti[o].ver                                           \* mutant
OtherVer(o) == 1 - ti[o].ver

\* table_instance_rehash(): allocates the instance to copy to, or gives up.
table_instance_rehash ==
  /\ wr.pc = "copy" /\ wr.ti = NULL
  /\ \/ /\ NewBuckets <= MAX_BUCKETS
        /\ \A r \in Active : rd[r].copies < MAX_COPIES
        /\ \E new \in {o \in TiObj \cap GraceEnded : Freed(o)}, h \in Seeds :
             /\ ti' = [ti EXCEPT ![new] = [Empty(NewBuckets, h) EXCEPT !.ver = OtherVer(table)]]
             /\ wr' = [pc |-> "copy", ti |-> new, todo |-> Chains(ti[table])]
        /\ rd' = [r \in Cpus |-> IF r \in Active THEN [rd[r] EXCEPT !.copies = @ + 1] ELSE rd[r]]
     \/ /\ wr' = IdleWr
        /\ UNCHANGED <<ti, rd>>
  /\ UNCHANGED <<node, table, linked, wait>>

\* flow_table_copy_flows(): the next flow.
flow_table_copy_flows ==
  /\ wr.pc = "copy" /\ wr.todo # <<>>
  /\ table_instance_insert(wr.ti, Head(wr.todo))
  /\ wr' = [wr EXCEPT !.todo = Tail(@)]
  /\ UNCHANGED <<table, linked, rd, wait>>

\* All are copied: the new instance is published, the old one retired.
rcu_assign_ti ==
  /\ wr.pc = "copy" /\ wr.ti # NULL /\ wr.todo = <<>>
  /\ table' = wr.ti
  /\ Retire({table})
  /\ wr' = IdleWr
  /\ UNCHANGED <<node, ti, linked, rd>>

\* hlist_del_rcu(): the flow's successor follows its predecessor, or is the first.
\* The flow itself keeps its next pointer for the readers that are at it.
DelNodeZero(o, f) ==                                               \* mutant
  LET b == Bucket(ti[o], KeyOf[f])
  IN  /\ node' = [g \in FlowObj |-> IF node[g][0] = f
                    THEN [node[g] EXCEPT ![0] = node[f][0]] ELSE node[g]]
      /\ ti' = [ti EXCEPT ![o].first[b] = IF @ = f THEN node[f][0] ELSE @]
hlist_del_rcu(o, f) ==
  LET v == ti[o].ver
      b == Bucket(ti[o], KeyOf[f])
      chain == {Chain(ti[o], b)[i] : i \in DOMAIN Chain(ti[o], b)}
  IN  /\ node' = [g \in FlowObj |-> IF g \in chain /\ node[g][v] = f
                    THEN [node[g] EXCEPT ![v] = node[f][v]] ELSE node[g]]
      /\ ti' = [ti EXCEPT ![o].first[b] = IF @ = f THEN node[f][v] ELSE @]

EndsLookups(S) == rd' = [r \in Cpus |-> [rd[r] EXCEPT !.cand = @ \ S]]

\* ovs_flow_tbl_remove(), and the flow is retired.
ovs_flow_tbl_remove(f) ==
  /\ wr.pc = "idle"
  /\ f \in linked
  /\ hlist_del_rcu(table, f)
  /\ linked' = linked \ {f}
  /\ Retire({f})
  /\ EndsLookups({f})
  /\ UNCHANGED <<table, wr>>

\* ovs_flow_tbl_flush(): an empty instance is published.
ovs_flow_tbl_flush ==
  /\ wr.pc = "idle"
  /\ \E new \in {o \in TiObj \cap GraceEnded : Freed(o)}, h \in Seeds :
       /\ ti' = [ti EXCEPT ![new] = Empty(TBL_MIN_BUCKETS, h)]
       /\ table' = new
  /\ linked' = {}
  /\ wr' = [pc |-> "flush", ti |-> table, todo |-> Chains(ti[table])]
  /\ EndsLookups(linked)
  /\ UNCHANGED <<node, wait>>

\* table_instance_destroy(): unlinks and retires the flows of the old instance in
\* their order, then the instance.
table_instance_destroy ==
  /\ wr.pc = "flush"
  /\ \/ /\ wr.todo # <<>>
        /\ hlist_del_rcu(wr.ti, Head(wr.todo))
        /\ Retire({Head(wr.todo)})
        /\ wr' = [wr EXCEPT !.todo = Tail(@)]
     \/ /\ wr.todo = <<>>
        /\ Retire({wr.ti})
        /\ wr' = IdleWr
        /\ UNCHANGED <<node, ti>>
  /\ UNCHANGED <<table, linked, rd>>

-----------------------------------------------------------------------------
(* Packets: masked_flow_lookup() with the instance that is current.  Each load *)
(* of a pointer is a step.                                                     *)

Read(r, S) == rd' = [rd EXCEPT ![r] = S]

lookup(r, k) ==
  /\ rd[r].pc = "idle"
  /\ Read(r, [pc |-> "head", key |-> k, ti |-> table, at |-> NULL,
              cand |-> {f \in linked : KeyOf[f] = k},
              copies |-> IF wr.pc = "copy" /\ wr.ti # NULL THEN 1 ELSE 0])
  /\ UNCHANGED <<node, ti, table, linked, wr, wait>>

find_bucket(r) ==
  LET t == ti[rd[r].ti]
  IN
  /\ rd[r].pc = "head"
  /\ Read(r, [rd[r] EXCEPT !.pc = "walk", !.at = t.first[Bucket(t, rd[r].key)]])
  /\ UNCHANGED <<node, ti, table, linked, wr, wait>>

masked_flow_lookup(r) ==
  /\ rd[r].pc = "walk"
  /\ \/ /\ rd[r].at = NULL
        /\ Read(r, [rd[r] EXCEPT !.pc = "miss"])
     \/ /\ rd[r].at # NULL /\ KeyOf[rd[r].at] = rd[r].key
        /\ Read(r, [rd[r] EXCEPT !.pc = "hit"])
     \/ /\ rd[r].at # NULL /\ KeyOf[rd[r].at] # rd[r].key
        /\ Read(r, [rd[r] EXCEPT !.at = node[rd[r].at][ti[rd[r].ti].ver]])
  /\ UNCHANGED <<node, ti, table, linked, wr, wait>>

\* The packet has been handled: rcu_read_unlock().
rcu_read_unlock(r) ==
  /\ rd[r].pc \in {"miss", "hit"}
  /\ Read(r, IdleRd)
  /\ wait' = [o \in FlowObj \cup TiObj |-> wait[o] \ {r}]
  /\ UNCHANGED <<node, ti, table, linked, wr>>

\* The callbacks whose grace period has ended free what they were given.
rcu_callbacks ==
  /\ \E o \in GraceEnded : ~Freed(o)
  /\ node' = [f \in FlowObj |-> IF f \in GraceEnded THEN NoNode ELSE node[f]]
  /\ ti' = [o \in TiObj |-> IF o \in GraceEnded THEN NoTi ELSE ti[o]]
  /\ UNCHANGED <<table, linked, wr, rd, wait>>

-----------------------------------------------------------------------------
Writer ==
  \/ \E f \in FlowObj : flow_key_insert(f) \/ ovs_flow_tbl_remove(f)
  \/ ovs_flow_tbl_flush
  \/ table_instance_rehash \/ flow_table_copy_flows \/ rcu_assign_ti
  \/ table_instance_destroy

Reader(r) == find_bucket(r) \/ masked_flow_lookup(r) \/ rcu_read_unlock(r)

Next ==
  \/ Writer
  \/ rcu_callbacks
  \/ \E r \in Cpus : (\E k \in Keys : lookup(r, k)) \/ Reader(r)

Spec == Init /\ [][Next]_vars

\* A packet that has begun its lookup goes on; commands and packets need not come.
FairSpec == Spec /\ \A r \in Cpus : WF_vars(Reader(r))

-----------------------------------------------------------------------------
(* Properties. *)

TypeOK ==
  /\ node \in [FlowObj -> [{0, 1} -> FlowObj \cup {NULL}]]
  /\ \A o \in TiObj :
       /\ ti[o].ver \in {0, 1} /\ ti[o].n \in 0 .. MAX_BUCKETS
       /\ ti[o].seed \in Seeds \cup {NULL}
       /\ ti[o].first \in [0 .. ti[o].n - 1 -> FlowObj \cup {NULL}]
  /\ ti[table].n >= TBL_MIN_BUCKETS
  /\ table \in TiObj
  /\ linked \subseteq FlowObj
  /\ wr \in [pc : {"idle", "copy", "flush"}, ti : TiObj \cup {NULL}, todo : Seq(FlowObj)]
  /\ rd \in [Cpus -> [pc : {"idle", "head", "walk", "miss", "hit"}, key : Keys \cup {NULL},
                      ti : TiObj \cup {NULL}, at : FlowObj \cup {NULL},
                      cand : SUBSET FlowObj, copies : 0 .. MAX_COPIES + 1]]
  /\ wait \in [FlowObj \cup TiObj -> SUBSET Cpus]

\* The chains of the published instance hold exactly the flows of the table, each
\* once and in the bucket where find_bucket() looks for its key, whatever was
\* copied, unlinked and reused before.
ChainsExact ==
  /\ Len(Chains(ti[table])) = Cardinality(linked)
  /\ \A f \in linked :
       \E i \in DOMAIN Chain(ti[table], Bucket(ti[table], KeyOf[f])) :
         Chain(ti[table], Bucket(ti[table], KeyOf[f]))[i] = f

\* The types and the chains, which table_instance_insert() and the copies keep.
ChainsInv == TypeOK /\ ChainsExact

\* A lookup that finds nothing has looked at every flow of its key that was there
\* all the time ("flow_lookup does full lookup on flow table"): the two nodes of
\* a flow keep the chains of the old instance whole while the new one is filled.
FullLookup == \A r \in Cpus : rd[r].pc = "miss" => rd[r].cand = {}

\* Writers cannot keep a lookup going for ever: a flow is not linked again while a
\* reader may still be at it (kfree after the grace period).
LookupEnds == \A r \in Cpus : rd[r].pc = "walk" ~> rd[r].pc # "walk"
================================================================================
