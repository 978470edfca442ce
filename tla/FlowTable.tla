------------------------------ MODULE FlowTable ------------------------------
(***************************************************************************)
(* The flow table of one datapath (flow_table.c) together with the Generic *)
(* Netlink handlers that change it (datapath.c, ovs_flow_cmd_new ...) and *)
(* the RCU readers that use it without a lock (packets and flow dumps).    *)
(*                                                                         *)
(* Writers hold ovs_mutex.  Readers only enter an RCU read-side critical   *)
(* section, so a writer's section is cut into one action per write that a  *)
(* reader can observe.  Objects live in pools; an object handed to         *)
(* call_rcu() is freed once every reader that was in its critical section  *)
(* at that moment has left it, and may then be allocated again.  An empty  *)
(* pool is one of the ways an allocation fails with -ENOMEM.               *)
(*                                                                         *)
(* The bucket chains of a table instance are abstracted to the set of      *)
(* flows linked in it; module FlowHash models the chains.                  *)
(***************************************************************************)
EXTENDS Integers, Sequences, FiniteSets

CONSTANTS
  Fields,               \* fields of struct sw_flow_key
  Vals,                 \* values of a field; 0 is the value of a wildcarded one
  Keys,                 \* the packet headers that occur
  MaskVals,             \* mask contents: sets of fields that are matched
  Ids,                  \* flow identifiers in use: UFIDs, and NULL for the flows
                        \* that are identified by their unmasked key
  FlowObj, MaskObj, ArrObj, TiObj, ActObj,  \* pools of kernel objects
  Cpus,                 \* CPUs processing packets
  Dumpers,              \* flow dumps
  Threads,              \* threads executing flow commands
  Commands,             \* the commands userspace sends
  StartIndexes,         \* indexes a mask cache entry may hold (1 is the first)
  MASK_ARRAY_SIZE_MIN,
  TBL_MIN_BUCKETS,
  MAX_REF,              \* bound: no flush once a mask's ref_count exceeds this
  NULL

KeyType == [Fields -> Vals]
Obj   == FlowObj \cup MaskObj \cup ArrObj \cup TiObj \cup ActObj
Readers == Cpus \cup Dumpers
Procs == Readers \cup Threads

ASSUME ConstantsAssumption ==
  /\ 0 \in Vals
  /\ Commands \subseteq {"new", "set", "del", "flush"}
  /\ Keys \subseteq KeyType
  /\ MaskVals \subseteq SUBSET Fields
  /\ StartIndexes \subseteq Nat \ {0}
  /\ MASK_ARRAY_SIZE_MIN \in Nat \ {0}
  /\ TBL_MIN_BUCKETS \in Nat \ {0}
  /\ MAX_REF \in Nat
  /\ IsFiniteSet(FlowObj)

ASSUME PoolsAssumption ==
  /\ FlowObj \cap MaskObj = {} /\ FlowObj \cap ArrObj = {}
  /\ FlowObj \cap TiObj = {}   /\ FlowObj \cap ActObj = {}
  /\ MaskObj \cap ArrObj = {}  /\ MaskObj \cap TiObj = {}
  /\ MaskObj \cap ActObj = {}  /\ ArrObj \cap TiObj = {}
  /\ ArrObj \cap ActObj = {}   /\ TiObj \cap ActObj = {}
  /\ Cpus \cap Dumpers = {} /\ Readers \cap Threads = {}
  /\ NULL \notin Obj \cup Procs

VARIABLES
  alloc,      \* objects that are allocated
  pend,       \* objects passed to call_rcu() whose callback has not run
  wait,       \* for each of them, the readers its grace period waits for
  rcu,        \* processes inside an RCU read-side critical section
  flow,       \* contents of struct sw_flow
  mask,       \* contents of struct sw_flow_mask: what it matches, ref_count
  arr,        \* contents of struct mask_array
  ti,         \* contents of struct table_instance: linked flows, n_buckets
  tbl,        \* struct flow_table
  ovs_mutex,  \* holder of ovs_mutex, or NULL
  cmd,        \* progress and locals of each command thread; sameid is history:
              \* the flow being updated has the identifier the request gave
  rd,         \* progress and locals of each reader
  cand,       \* history: flows that match a reader's key and have been linked
              \* ever since its lookup began
  seen        \* history: flows that were linked at some time of its lookup

heap == <<alloc, pend, wait>>
vars == <<alloc, pend, wait, rcu, flow, mask, arr, ti, tbl, ovs_mutex, cmd, rd,
          cand, seen>>

-----------------------------------------------------------------------------
(* Keys, masks and the contents of fresh objects. *)

\* A masked key keeps the fields the mask matches and clears the others.
ovs_flow_mask_key(k, m) == [f \in Fields |-> IF f \in m THEN k[f] ELSE 0]

ZeroKey   == [f \in Fields |-> 0]
NoFlow    == [mask |-> NULL, key |-> ZeroKey, ufid |-> NULL, ukey |-> ZeroKey,
              acts |-> NULL]
NoMask    == [m |-> {}, ref |-> 0]
NoTi      == [flows |-> {}, n_buckets |-> 0]
IdleCmd   == [pc |-> "idle", flow |-> NULL, acts |-> NULL, ti |-> NULL,
              m |-> {}, sameid |-> TRUE]
IdleRd    == [pc |-> "idle", key |-> ZeroKey, start |-> 1, i |-> 0, ma |-> NULL,
              ti |-> NULL, mask |-> NULL, flow |-> NULL, acts |-> NULL]

Imax(a, b) == IF a >= b THEN a ELSE b

EmptyArr(n) == [max |-> n, count |-> 0, masks |-> [i \in 1..n |-> NULL]]
NoArr == EmptyArr(0)

\* The slots of a mask_array that hold a mask.
Used(a) == {i \in 1..a.max : a.masks[i] # NULL}

\* The enumeration of a finite set of slots in increasing order (a singleton).
InOrder(S) ==
  {b \in [1..Cardinality(S) -> S] :
     /\ \A i, j \in 1..Cardinality(S) : i < j => b[i] < b[j]
     /\ \A s \in S : \E i \in 1..Cardinality(S) : b[i] = s}

\* A zeroed array of at least MASK_ARRAY_SIZE_MIN slots; the masks of 'old',
\* which b enumerates, are moved to its first slots.
tbl_mask_array_alloc(size, old, b) ==
  LET n == Cardinality(Used(old))
      max == Imax(MASK_ARRAY_SIZE_MIN, size)
  IN  [max |-> max, count |-> n,
       masks |-> [i \in 1..max |-> IF i <= n THEN old.masks[b[i]] ELSE NULL]]

-----------------------------------------------------------------------------
(* RCU *)

Free(S) == S \ alloc            \* what an allocation may return

call_rcu(S) ==
  /\ pend' = pend \cup S
  /\ wait' = [o \in Obj |-> IF o \in S THEN rcu ELSE wait[o]]

UnlockForgotten(p) == UNCHANGED <<rcu, wait>>                      \* mutant
rcu_read_unlock(p) ==
  /\ rcu'  = rcu \ {p}
  /\ wait' = [o \in Obj |-> wait[o] \ {p}]

-----------------------------------------------------------------------------
(* Lookups.  T is the set of flows linked in a table instance.             *)

Linked == ti[tbl.ti].flows
Masks  == arr[tbl.ma].masks

MaskOnly(T, k, mo) == {f \in T : flow[f].mask = mo}                \* mutant
masked_flow_lookup(T, k, mo) ==
  {f \in T : flow[f].mask = mo /\ flow[f].key = ovs_flow_mask_key(k, mask[mo].m)}

\* flow_lookup() from index 0: the flows the first mask that hits leads to.
ovs_flow_tbl_lookup(k) ==
  {f \in Linked : \E i \in 1..arr[tbl.ma].max :
     /\ Masks[i] # NULL
     /\ f \in masked_flow_lookup(Linked, k, Masks[i])
     /\ \A j \in 1..(i - 1) :
          Masks[j] # NULL => masked_flow_lookup(Linked, k, Masks[j]) = {}}

\* Flows identified by their unmasked key that were installed with key k.
ExactHits(k, mo) ==
  {f \in masked_flow_lookup(Linked, k, mo) : flow[f].ufid = NULL /\ flow[f].ukey = k}

ovs_flow_tbl_lookup_exact(k) ==
  {f \in Linked : \E i \in 1..arr[tbl.ma].max :
     /\ Masks[i] # NULL
     /\ f \in ExactHits(k, Masks[i])
     /\ \A j \in 1..(i - 1) : Masks[j] # NULL => ExactHits(k, Masks[j]) = {}}

UfidNeverFound(u) == {}                                            \* mutant
ovs_flow_tbl_lookup_ufid(u) == {f \in tbl.ufid : flow[f].ufid = u}

\* How set and del name a flow: by UFID when there is one, else by full key.
Selected(u, k) == IF u # NULL THEN ovs_flow_tbl_lookup_ufid(u)
                              ELSE ovs_flow_tbl_lookup_exact(k)

\* 'matchkey' is the masked key for a request with a UFID, the unmasked key
\* otherwise.
ovs_flow_cmp(f, matchkey) ==
  IF flow[f].ufid # NULL THEN flow[f].key = matchkey ELSE flow[f].ukey = matchkey

-----------------------------------------------------------------------------
(* Initial state: ovs_flow_tbl_init(). *)

Init ==
  /\ \E a \in ArrObj, t \in TiObj :
       /\ alloc = {a, t}
       /\ arr = [o \in ArrObj |->
                   IF o = a THEN EmptyArr(MASK_ARRAY_SIZE_MIN) ELSE NoArr]
       /\ ti  = [o \in TiObj |-> IF o = t
                   THEN [flows |-> {}, n_buckets |-> TBL_MIN_BUCKETS] ELSE NoTi]
       /\ tbl = [ti |-> t, ma |-> a, ufid |-> {}, count |-> 0, ufid_count |-> 0]
  /\ pend = {}
  /\ wait = [o \in Obj |-> {}]
  /\ rcu  = {}
  /\ flow = [f \in FlowObj |-> NoFlow]
  /\ mask = [mo \in MaskObj |-> NoMask]
  /\ ovs_mutex = NULL
  /\ cmd  = [t \in Threads |-> IdleCmd]
  /\ rd   = [r \in Readers |-> IdleRd]
  /\ cand = [r \in Readers |-> {}]
  /\ seen = [r \in Readers |-> {}]

-----------------------------------------------------------------------------
(* Writers: the flow commands, under ovs_mutex. *)

\* Unlinking f ends its time as a candidate of every lookup under way.
Unlinks(S)  == cand' = [r \in Readers |-> cand[r] \ S]
Links(f)    == seen' = [r \in Readers |->
                          IF rd[r].pc = "idle" THEN {} ELSE seen[r] \cup {f}]

Matches(f, k) == flow[f].key = ovs_flow_mask_key(k, mask[flow[f].mask].m)

readState == <<rcu, rd>>
history   == <<cand, seen>>

\* rcu_assign_pointer(flow->sf_acts, acts)
KeepActs(g, a) == flow                                             \* mutant
AssignActs(g, a) == [flow EXCEPT ![g].acts = a]

\* Thread t gives flow g the actions a and keeps the old ones, to free them.
ReplaceActs(t, g, a, sameid) ==
  /\ alloc' = alloc \cup {a}
  /\ flow' = AssignActs(g, a)
  /\ cmd' = [cmd EXCEPT ![t] = [IdleCmd EXCEPT !.pc = "free_old",
                                    !.acts = flow[g].acts, !.sameid = sameid]]

\* ovs_flow_cmd_new() up to the first write a reader can see.  The flow and the
\* actions are allocated and filled in before the lock is taken; only the
\* branches that keep them, or publish them, are steps.
ovs_flow_cmd_new(t, f, a, k, m, u, excl) ==
  LET masked   == ovs_flow_mask_key(k, m)
      matchkey == IF u # NULL THEN masked ELSE k
      byUfid   == IF u # NULL THEN ovs_flow_tbl_lookup_ufid(u) ELSE {}
      dup      == IF byUfid # {} THEN byUfid ELSE ovs_flow_tbl_lookup(masked)
  IN
  /\ cmd[t].pc = "idle"
  /\ ovs_mutex = NULL
  /\ f \in Free(FlowObj) /\ a \in Free(ActObj)
  /\ \/ /\ dup = {}
        /\ alloc' = alloc \cup {f, a}
        /\ flow' = [flow EXCEPT ![f] = [mask |-> NULL, key |-> masked,
                       ufid |-> u, ukey |-> IF u # NULL THEN ZeroKey ELSE k,
                       acts |-> a]]
        /\ ovs_mutex' = t
        /\ cmd' = [cmd EXCEPT ![t] = [IdleCmd EXCEPT !.pc = "mask_insert",
                                          !.flow = f, !.m = m]]
     \/ /\ ~excl
        /\ \E d \in dup :
           \E g \in IF ovs_flow_cmp(d, matchkey) THEN {d}
                    ELSE IF flow[d].ufid = NULL
                         THEN ovs_flow_tbl_lookup_exact(matchkey) ELSE {} :
             ReplaceActs(t, g, a, flow[g].ufid = u)
        /\ UNCHANGED ovs_mutex
  /\ UNCHANGED <<pend, wait, mask, arr, ti, tbl, readState, history>>

\* ovs_flow_cmd_set(): replaces the actions of the flow that is named.
ovs_flow_cmd_set(t, a, k, u) ==
  /\ cmd[t].pc = "idle"
  /\ ovs_mutex = NULL
  /\ a \in Free(ActObj)
  /\ \E g \in Selected(u, k) : ReplaceActs(t, g, a, TRUE)
  /\ UNCHANGED <<pend, wait, mask, arr, ti, tbl, ovs_mutex, readState, history>>

\* The replaced actions go to call_rcu() after ovs_mutex is released.
ovs_nla_free_flow_actions_rcu(t) ==
  /\ cmd[t].pc = "free_old"
  /\ call_rcu({cmd[t].acts})
  /\ cmd' = [cmd EXCEPT ![t] = IdleCmd]
  /\ UNCHANGED <<alloc, flow, mask, arr, ti, tbl, ovs_mutex, readState, history>>

\* flow_mask_find(): the mask of the array with the same contents.
flow_mask_find(m) ==
  {mo \in MaskObj : \E i \in Used(arr[tbl.ma]) : Masks[i] = mo /\ mask[mo].m = m}

\* The lowest slot that is NULL; none when the array is full.
EmptySlot(a) ==
  {i \in 1..a.max : a.masks[i] = NULL /\ \A j \in 1..(i - 1) : a.masks[j] # NULL}

\* mask goes to the lowest empty slot, if there is one.
AddMask(a, mo) ==
  [max   |-> a.max,
   count |-> IF EmptySlot(a) = {} THEN a.count ELSE a.count + 1,
   masks |-> [i \in 1..a.max |-> IF i \in EmptySlot(a) THEN mo ELSE a.masks[i]]]

\* One more flow uses a mask of the array.
ShareMask(mo) == [mask EXCEPT ![mo].ref = @ + 1]

ArrayFullLate(a) == a.count > a.max                                \* mutant
ArrayFull(a) == a.count >= a.max

\* The error exit of ovs_flow_cmd_new().
ErrNoUnlock    == UNCHANGED ovs_mutex                              \* mutant
err_unlock_ovs == ovs_mutex' = NULL

\* flow_mask_insert(): shares the mask of the array that is equal to the flow's,
\* or adds a new one, after growing the array when it is full.  The grown array
\* is published before the mask is stored in it; a reader that loads it between
\* the two is one that loads it after.  On -ENOMEM the caller frees the flow.
flow_mask_insert(t) ==
  LET f == cmd[t].flow
      m == cmd[t].m
      a == arr[tbl.ma]
      Use(mo) == /\ flow' = [flow EXCEPT ![f].mask = mo]
                     /\ cmd' = [cmd EXCEPT ![t].pc = "key_insert"]
  IN
  /\ cmd[t].pc = "mask_insert"
  /\ \/ \E mo \in flow_mask_find(m) :
          /\ mask' = ShareMask(mo)
          /\ Use(mo)
          /\ UNCHANGED <<heap, arr, tbl, ovs_mutex>>
     \/ /\ flow_mask_find(m) = {}
        /\ ~ArrayFull(a)
        /\ \E mo \in Free(MaskObj) :
             /\ alloc' = alloc \cup {mo}
             /\ mask' = [mask EXCEPT ![mo] = [m |-> m, ref |-> 1]]
             /\ arr' = [arr EXCEPT ![tbl.ma] = AddMask(a, mo)]
             /\ Use(mo)
        /\ UNCHANGED <<pend, wait, tbl, ovs_mutex>>
     \/ /\ flow_mask_find(m) = {}
        /\ ArrayFull(a)
        /\ \E mo \in Free(MaskObj), na \in Free(ArrObj), b \in InOrder(Used(a)) :
             /\ alloc' = alloc \cup {mo, na}
             /\ mask' = [mask EXCEPT ![mo] = [m |-> m, ref |-> 1]]
             /\ arr' = [arr EXCEPT ![na] =
                  AddMask(tbl_mask_array_alloc(a.max + MASK_ARRAY_SIZE_MIN, a, b), mo)]
             /\ tbl' = [tbl EXCEPT !.ma = na]
             /\ call_rcu({tbl.ma})
             /\ Use(mo)
        /\ UNCHANGED ovs_mutex
     \/ /\ flow_mask_find(m) = {}
        /\ alloc' = alloc \ {f, flow[f].acts}
        /\ flow' = [flow EXCEPT ![f] = NoFlow]
        /\ cmd' = [cmd EXCEPT ![t] = IdleCmd]
        /\ err_unlock_ovs
        /\ UNCHANGED <<pend, wait, mask, arr, tbl>>
  /\ UNCHANGED <<ti, readState, history>>

\* Size of the instance that replaces one of n buckets: doubled when the table
\* outgrew it, the same for a periodic rehash.
NewBuckets(count, n) == IF count > n THEN 2 * n ELSE n

\* flow_key_insert() and flow_ufid_insert(), then ovs_unlock().  A new instance
\* is published when the table outgrew the old one or REHASH_INTERVAL has
\* passed, unless it cannot be allocated.
flow_key_insert(t) ==
  LET f     == cmd[t].flow
      flows == Linked \cup {f}
      n     == ti[tbl.ti].n_buckets
      count == tbl.count + 1
      Table(inst) ==
        [ti |-> inst, ma |-> tbl.ma, count |-> count,
         ufid |-> IF flow[f].ufid # NULL THEN tbl.ufid \cup {f} ELSE tbl.ufid,
         ufid_count |-> IF flow[f].ufid # NULL THEN tbl.ufid_count + 1
                                               ELSE tbl.ufid_count]
  IN
  /\ cmd[t].pc = "key_insert"
  /\ \/ /\ ti' = [ti EXCEPT ![tbl.ti].flows = flows]
        /\ tbl' = Table(tbl.ti)
        /\ UNCHANGED heap
     \/ \E new \in Free(TiObj) :
          /\ alloc' = alloc \cup {new}
          /\ ti' = [ti EXCEPT ![tbl.ti].flows = flows,
                      ![new] = [flows |-> flows, n_buckets |-> NewBuckets(count, n)]]
          /\ tbl' = Table(new)
          /\ call_rcu({tbl.ti})
  /\ Links(f)
  /\ ovs_mutex' = NULL
  /\ cmd' = [cmd EXCEPT ![t] = IdleCmd]
  /\ UNCHANGED <<flow, mask, arr, readState, cand>>

\* ovs_flow_cmd_del() with a key or a UFID, up to the unlinking of the flow.
ovs_flow_cmd_del(t, k, u) ==
  /\ cmd[t].pc = "idle"
  /\ ovs_mutex = NULL
  /\ \E g \in Selected(u, k) :
       /\ ti' = [ti EXCEPT ![tbl.ti].flows = @ \ {g}]
       /\ tbl' = [tbl EXCEPT !.count = @ - 1,
                    !.ufid = @ \ {g},
                    !.ufid_count = IF flow[g].ufid # NULL THEN @ - 1 ELSE @]
       /\ cmd' = [cmd EXCEPT ![t] = [IdleCmd EXCEPT !.pc = "mask_remove", !.flow = g]]
       /\ Unlinks({g})
  /\ ovs_mutex' = t
  /\ UNCHANGED <<heap, flow, mask, arr, readState, seen>>

DeleteNoSlot(a, mo) == [a EXCEPT !.count = @ - 1]                    \* mutant
tbl_mask_array_delete_mask(a, mo) ==
  [max   |-> a.max,
   count |-> a.count - 1,
   masks |-> [i \in 1..a.max |-> IF a.masks[i] = mo THEN NULL ELSE a.masks[i]]]

ShrinkMasks(a) == a.max >= 2 * MASK_ARRAY_SIZE_MIN /\ a.count <= a.max \div 3

\* flow_mask_remove(), then ovs_unlock().  The last reference takes the mask out
\* of the array and may shrink the array; a failed allocation leaves it as is.
flow_mask_remove(t) ==
  LET mo == flow[cmd[t].flow].mask
      a  == tbl_mask_array_delete_mask(arr[tbl.ma], mo)
  IN
  /\ cmd[t].pc = "mask_remove"
  /\ mask' = [mask EXCEPT ![mo].ref = @ - 1]
  /\ \/ /\ mask[mo].ref > 1
        /\ UNCHANGED <<heap, arr, tbl>>
     \/ /\ mask[mo].ref = 1
        /\ arr' = [arr EXCEPT ![tbl.ma] = a]
        /\ call_rcu({mo})
        /\ UNCHANGED <<alloc, tbl>>
     \/ /\ mask[mo].ref = 1
        /\ ShrinkMasks(a)
        /\ \E na \in Free(ArrObj), b \in InOrder(Used(a)) :
             /\ alloc' = alloc \cup {na}
             /\ arr' = [arr EXCEPT ![tbl.ma] = a,
                          ![na] = tbl_mask_array_alloc(a.max \div 2, a, b)]
             /\ tbl' = [tbl EXCEPT !.ma = na]
             /\ call_rcu({mo, tbl.ma})
  /\ ovs_mutex' = NULL
  /\ cmd' = [cmd EXCEPT ![t].pc = "del_reply"]
  /\ UNCHANGED <<flow, ti, readState, history>>

\* The rest of ovs_flow_cmd_del() runs without ovs_mutex.  If a listener wants a
\* notification, it is filled in from the flow inside rcu_read_lock().
del_fill_info(t) ==
  /\ cmd[t].pc = "del_reply"
  /\ rcu' = rcu \cup {t}
  /\ cmd' = [cmd EXCEPT ![t].pc = "del_fill"]
  /\ UNCHANGED <<heap, flow, mask, arr, ti, tbl, ovs_mutex, rd, history>>

del_fill_done(t) ==
  /\ cmd[t].pc = "del_fill"
  /\ rcu_read_unlock(t)
  /\ cmd' = [cmd EXCEPT ![t].pc = "del_free"]
  /\ UNCHANGED <<alloc, pend, flow, mask, arr, ti, tbl, ovs_mutex, rd, history>>

\* ovs_flow_free(flow, true) at the end of ovs_flow_cmd_del().
ovs_flow_free(t) ==
  /\ cmd[t].pc \in {"del_reply", "del_free"}
  /\ call_rcu({cmd[t].flow})
  /\ cmd' = [cmd EXCEPT ![t] = IdleCmd]
  /\ UNCHANGED <<alloc, flow, mask, arr, ti, tbl, ovs_mutex, readState, history>>

\* The table after a flush: both instances are new, both counts are reset.
FlushedKeepCount(new) == [tbl EXCEPT !.ti = new, !.ufid = {}, !.count = 0]     \* mutant
Flushed(new) == [ti |-> new, ma |-> tbl.ma, ufid |-> {}, count |-> 0,
                 ufid_count |-> 0]

\* ovs_flow_tbl_flush(): publishes an empty instance.
ovs_flow_tbl_flush(t) ==
  /\ cmd[t].pc = "idle"
  /\ ovs_mutex = NULL
  /\ \A mo \in MaskObj : mask[mo].ref <= MAX_REF
  /\ \E new \in Free(TiObj) :
       /\ alloc' = alloc \cup {new}
       /\ ti' = [ti EXCEPT ![new] = [flows |-> {}, n_buckets |-> TBL_MIN_BUCKETS]]
       /\ tbl' = Flushed(new)
  /\ ovs_mutex' = t
  /\ cmd' = [cmd EXCEPT ![t] = [IdleCmd EXCEPT !.pc = "flush", !.ti = tbl.ti]]
  /\ Unlinks(Linked)
  /\ UNCHANGED <<pend, wait, flow, mask, arr, readState, seen>>

\* table_instance_destroy(old, true): unlinks the flows one by one, then drops
\* the instance and the lock.
table_instance_destroy(t) ==
  LET old == cmd[t].ti
  IN
  /\ cmd[t].pc = "flush"
  /\ \/ /\ \E f \in ti[old].flows :
             /\ ti' = [ti EXCEPT ![old].flows = @ \ {f}]
             /\ call_rcu({f})
        /\ UNCHANGED <<ovs_mutex, cmd>>
     \/ /\ ti[old].flows = {}
        /\ call_rcu({old})
        /\ ovs_mutex' = NULL
        /\ cmd' = [cmd EXCEPT ![t] = IdleCmd]
        /\ UNCHANGED ti
  /\ UNCHANGED <<alloc, flow, mask, arr, tbl, readState, history>>

-----------------------------------------------------------------------------
(* RCU callbacks.  Those whose grace period has ended run as one batch; none  *)
(* of the objects they free is reachable by then, so their order is nobody's  *)
(* to observe.                                                               *)

KfreeNow   == pend                                                 \* mutant
GraceEnded == {o \in pend : wait[o] = {}}

\* What the callbacks of the objects S release: flow_free() also releases the
\* actions the flow holds; mask_array_rcu_cb(), flow_tbl_destroy_rcu_cb() and
\* kfree_rcu() release the object alone.
FlowsOnly(S) == S                                                  \* mutant
Released(S) == S \cup {flow[f].acts : f \in S \cap FlowObj}

rcu_callbacks ==
  LET S == GraceEnded
  IN
  /\ S # {}
  /\ alloc' = alloc \ Released(S)
  /\ pend' = pend \ S
  /\ flow' = [f \in FlowObj |-> IF f \in S THEN NoFlow ELSE flow[f]]
  /\ mask' = [mo \in MaskObj |-> IF mo \in S THEN NoMask ELSE mask[mo]]
  /\ arr' = [a \in ArrObj |-> IF a \in S THEN NoArr ELSE arr[a]]
  /\ ti' = [o \in TiObj |-> IF o \in S THEN NoTi ELSE ti[o]]
  /\ UNCHANGED <<wait, tbl, ovs_mutex, cmd, readState, history>>

-----------------------------------------------------------------------------
(* Readers.  writerState is what no reader changes. *)

writerState == <<flow, mask, arr, ti, tbl, ovs_mutex, cmd>>

\* ovs_flow_tbl_lookup_stats(): enters the table with the mask_array published
\* now.  'start' is the index the CPU's mask cache proposes; the cache is not
\* kept coherent with the array, so it may be any.
ovs_flow_tbl_lookup_stats(r, k, start) ==
  /\ rd[r].pc = "idle"
  /\ rcu' = rcu \cup {r}
  /\ rd' = [rd EXCEPT ![r] = [IdleRd EXCEPT !.pc = "ti", !.key = k,
                                 !.start = start, !.ma = tbl.ma]]
  /\ cand' = [cand EXCEPT ![r] = {f \in Linked : Matches(f, k)}]
  /\ seen' = [seen EXCEPT ![r] = Linked]
  /\ UNCHANGED <<heap, writerState>>

\* ... and with the instance published a little later.
lookup_read_ti(r) ==
  /\ rd[r].pc = "ti"
  /\ rd' = [rd EXCEPT ![r].pc = "mask", ![r].ti = tbl.ti]
  /\ UNCHANGED <<heap, rcu, writerState, history>>

\* The slot turn i of flow_lookup() looks at: 'start' first (turn 0), then every
\* other slot; the turn leads to a lookup when the slot exists and has a mask.
Slot(i, start) == IF i = 0 THEN start ELSE i
SearchesShort(a, i, start) ==                                      \* mutant
  /\ Slot(i, start) < a.max
  /\ i # start
  /\ a.masks[Slot(i, start)] # NULL
Searches(a, i, start) ==
  /\ Slot(i, start) <= a.max
  /\ i # start
  /\ a.masks[Slot(i, start)] # NULL

flow_lookup(r) ==
  LET a == arr[rd[r].ma]
      i == rd[r].i
  IN
  /\ rd[r].pc = "mask"
  /\ \/ /\ i > a.max
        /\ rd' = [rd EXCEPT ![r] = [IdleRd EXCEPT !.pc = "miss", !.key = rd[r].key]]
     \/ /\ i <= a.max /\ ~Searches(a, i, rd[r].start)
        /\ rd' = [rd EXCEPT ![r].i = i + 1]
     \/ /\ i <= a.max /\ Searches(a, i, rd[r].start)
        /\ rd' = [rd EXCEPT ![r].pc = "walk",
                            ![r].mask = a.masks[Slot(i, rd[r].start)]]
  /\ UNCHANGED <<heap, rcu, writerState, history>>

\* masked_flow_lookup() in the reader's instance with the mask it has loaded.
lookup_walk(r) ==
  LET hits == masked_flow_lookup(ti[rd[r].ti].flows, rd[r].key, rd[r].mask)
  IN
  /\ rd[r].pc = "walk"
  /\ \/ \E f \in hits :
          rd' = [rd EXCEPT ![r] = [IdleRd EXCEPT !.pc = "hit", !.key = rd[r].key,
                                                 !.flow = f]]
     \/ hits = {} /\ rd' = [rd EXCEPT ![r].pc = "mask", ![r].i = @ + 1, ![r].mask = NULL]
  /\ UNCHANGED <<heap, rcu, writerState, history>>

\* ovs_dp_process_packet() on a hit: loads the actions it is about to execute.
ovs_dp_process_packet(r) ==
  /\ rd[r].pc = "hit"
  /\ rd' = [rd EXCEPT ![r].pc = "exec", ![r].acts = flow[rd[r].flow].acts]
  /\ UNCHANGED <<heap, rcu, writerState, history>>

\* ovs_flow_cmd_dump(): an RCU reader that walks the instance.
ovs_flow_cmd_dump(r) ==
  /\ rd[r].pc = "idle"
  /\ rcu' = rcu \cup {r}
  /\ rd' = [rd EXCEPT ![r] = [IdleRd EXCEPT !.pc = "dump", !.ti = tbl.ti]]
  /\ UNCHANGED <<heap, writerState, history>>

\* ovs_flow_tbl_dump_next() and ovs_flow_cmd_fill_info(): the next flow, its mask
\* and its actions.
ovs_flow_tbl_dump_next(r) ==
  /\ rd[r].pc = "dump"
  /\ \E f \in ti[rd[r].ti].flows :
       rd' = [rd EXCEPT ![r].flow = f, ![r].mask = flow[f].mask,
                        ![r].acts = flow[f].acts]
  /\ UNCHANGED <<heap, rcu, writerState, history>>

\* The packet has been handled, or the dump's buffer is full: rcu_read_unlock().
reader_done(r) ==
  /\ rd[r].pc \in {"miss", "exec", "dump"}
  /\ rcu_read_unlock(r)
  /\ rd' = [rd EXCEPT ![r] = IdleRd]
  /\ cand' = [cand EXCEPT ![r] = {}]
  /\ seen' = [seen EXCEPT ![r] = {}]
  /\ UNCHANGED <<alloc, pend, writerState>>

-----------------------------------------------------------------------------
(* The specification. *)

NewCommand(t) ==
  /\ "new" \in Commands
  /\ \E f \in FlowObj, a \in ActObj, k \in Keys, m \in MaskVals,
        u \in Ids, excl \in BOOLEAN :
       ovs_flow_cmd_new(t, f, a, k, m, u, excl)

SetCommand(t) ==
  /\ "set" \in Commands
  /\ \E a \in ActObj, k \in Keys, u \in Ids : ovs_flow_cmd_set(t, a, k, u)

DelCommand(t) ==
  /\ "del" \in Commands
  /\ \E k \in Keys, u \in Ids : ovs_flow_cmd_del(t, k, u)

FlushCommand(t) == "flush" \in Commands /\ ovs_flow_tbl_flush(t)

\* What a command does once it has begun.
Proceed(t) ==
  \/ flow_mask_insert(t)
  \/ flow_key_insert(t)
  \/ ovs_nla_free_flow_actions_rcu(t)
  \/ flow_mask_remove(t)
  \/ del_fill_info(t)
  \/ del_fill_done(t)
  \/ ovs_flow_free(t)
  \/ table_instance_destroy(t)

Lookup(r) == \E k \in Keys, s \in StartIndexes : ovs_flow_tbl_lookup_stats(r, k, s)

\* What a reader does once it has begun, except for taking another flow.
Read(r) ==
  \/ lookup_read_ti(r)
  \/ flow_lookup(r)
  \/ lookup_walk(r)
  \/ ovs_dp_process_packet(r)
  \/ reader_done(r)

Next ==
  \/ \E t \in Threads : \/ NewCommand(t) \/ SetCommand(t) \/ DelCommand(t)
                        \/ FlushCommand(t)
                        \/ Proceed(t)
  \/ \E r \in Cpus    : Lookup(r)
  \/ \E r \in Dumpers : ovs_flow_cmd_dump(r) \/ ovs_flow_tbl_dump_next(r)
  \/ \E r \in Readers : Read(r)
  \/ rcu_callbacks

Spec == Init /\ [][Next]_vars

\* A command that has begun and a packet being processed run to their end, a
\* dump fills its buffer, and RCU callbacks run once their grace period is over.
\* No command, packet or dump need ever arrive.
Fairness ==
  /\ \A t \in Threads : WF_vars(Proceed(t))
  /\ \A r \in Readers : WF_vars(Read(r))
  /\ WF_vars(rcu_callbacks)

FairSpec == Spec /\ Fairness

-----------------------------------------------------------------------------
(* Properties. *)

IsMaskArray(a) ==
  /\ a = [max |-> a.max, count |-> a.count, masks |-> a.masks]
  /\ a.max \in Nat /\ a.count \in Int
  /\ a.masks \in [1..a.max -> MaskObj \cup {NULL}]

FlowType == [mask : MaskObj \cup {NULL}, key : KeyType, ufid : Ids \cup {NULL},
             ukey : KeyType, acts : ActObj \cup {NULL}]
TblType  == [ti : TiObj, ma : ArrObj, ufid : SUBSET FlowObj, count : Int,
             ufid_count : Int]
CmdType  == [pc : {"idle", "mask_insert", "key_insert", "free_old", "mask_remove",
                   "del_reply", "del_fill", "del_free", "flush"},
             flow : FlowObj \cup {NULL}, acts : ActObj \cup {NULL},
             ti : TiObj \cup {NULL}, m : SUBSET Fields, sameid : BOOLEAN]
RdRecord == [pc : {"idle", "ti", "mask", "walk", "hit", "exec", "miss", "dump"},
             key : KeyType, start : Nat \ {0}, i : Nat, ma : ArrObj \cup {NULL},
             ti : TiObj \cup {NULL}, mask : MaskObj \cup {NULL},
             flow : FlowObj \cup {NULL}, acts : ActObj \cup {NULL}]
RdType   == {x \in RdRecord : /\ x.pc \in {"ti", "mask", "walk"} => x.ma \in ArrObj
                              /\ x.pc \in {"mask", "walk", "dump"} => x.ti \in TiObj
                              /\ x.pc \in {"hit", "exec"} => x.flow \in FlowObj}

TypeOK ==
  /\ alloc \subseteq Obj
  /\ pend \subseteq Obj
  /\ wait \in [Obj -> SUBSET Procs]
  /\ rcu \subseteq Procs
  /\ flow \in [FlowObj -> FlowType]
  /\ mask \in [MaskObj -> [m : SUBSET Fields, ref : Nat]]
  /\ arr = [o \in ArrObj |-> arr[o]]
  /\ \A o \in ArrObj : IsMaskArray(arr[o])
  /\ ti \in [TiObj -> [flows : SUBSET FlowObj, n_buckets : Nat]]
  /\ tbl \in TblType
  /\ ovs_mutex \in Threads \cup {NULL}
  /\ cmd \in [Threads -> CmdType]
  /\ rd \in [Readers -> RdType]
  /\ cand \in [Readers -> SUBSET FlowObj]
  /\ seen \in [Readers -> SUBSET FlowObj]

\* Objects a reader may dereference: what it has loaded, and the mask of its flow.
Refs(r) == {rd[r].ma, rd[r].ti, rd[r].mask, rd[r].flow, rd[r].acts}
             \cup {flow[f].mask : f \in {rd[r].flow} \ {NULL}}

\* Grace-period safety: no reader ever holds a reference to freed memory, whatever
\* the commands replace, remove or flush while it runs (every call_rcu() of
\* flow_table.c and of the flow commands comes after the unlinking it protects).
ReadersSafe == \A r \in Readers : Refs(r) \ {NULL} \subseteq alloc

\* A flow being deleted, and the actions in it, stay allocated until the handler
\* itself frees the flow, although it works without ovs_mutex by then
\* (datapath.c, ovs_flow_cmd_del).
DelSafe ==
  \A t \in Threads : cmd[t].pc \in {"mask_remove", "del_reply", "del_fill", "del_free"} =>
    {cmd[t].flow, flow[cmd[t].flow].acts} \subseteq alloc \ pend

\* No BUG_ON() or BUG() of ovs_flow_tbl_remove(), flow_mask_remove(),
\* tbl_mask_array_delete_mask() and flow_mask_insert() can fire: the count is
\* positive while a flow is linked, a mask in use has references, and the mask
\* whose last reference goes is in the array, in one slot.
NoBugOn ==
  /\ ovs_mutex = NULL => (Linked # {} => tbl.count > 0)
  /\ \A t \in Threads : cmd[t].pc = "mask_remove" =>
       LET mo == flow[cmd[t].flow].mask
       IN  mask[mo].ref > 0 /\ Cardinality({i \in Used(arr[tbl.ma]) : Masks[i] = mo}) = 1
  /\ \A i \in Used(arr[tbl.ma]) : mask[Masks[i]].ref > 0

\* A linked flow can be found: its mask is in the mask array packets search, and
\* the references the mask counts cover every linked flow that uses it.
FlowsReachable ==
  \A mo \in {flow[f].mask : f \in Linked} :
    /\ \E i \in Used(arr[tbl.ma]) : Masks[i] = mo
    /\ mask[mo].ref >= Cardinality({f \in Linked : flow[f].mask = mo})

\* The mask array counts its masks exactly and holds no two equal masks, however
\* it was grown, punched with holes and shrunk.
MaskArrayExact ==
  /\ arr[tbl.ma].count = Cardinality(Used(arr[tbl.ma]))
  /\ \A i, j \in Used(arr[tbl.ma]) : mask[Masks[i]].m = mask[Masks[j]].m => i = j

\* What flow_mask_insert() and flow_mask_remove() keep together: the array is exact
\* and leads to every linked flow.
MaskArrayInv == MaskArrayExact /\ FlowsReachable

\* Neither the search of the mask array nor its growing, shrinking and compaction goes
\* wrong: no BUG() fires and every linked flow stays reachable.
MasksSafe == NoBugOn /\ MaskArrayInv

\* Between commands count and ufid_count are the sizes of the two tables, and
\* the UFID table holds exactly the linked flows that have a UFID.
CountsExact ==
  ovs_mutex = NULL =>
    /\ tbl.count = Cardinality(Linked)
    /\ tbl.ufid = {f \in Linked : flow[f].ufid # NULL}
    /\ tbl.ufid_count = Cardinality(tbl.ufid)

\* No two linked flows have the same mask and masked key, or the same UFID: the
\* duplicate checks of ovs_flow_cmd_new() and the insertion are one section.
FlowsUnique ==
  \A f, g \in Linked : f # g =>
    /\ <<flow[f].mask, flow[f].key>> # <<flow[g].mask, flow[g].key>>
    /\ flow[f].ufid = flow[g].ufid => flow[f].ufid = NULL

\* The two tables agree with each other and with their counters, and a flow is in them
\* once, whatever commands fail, race and flush (ovs_flow_cmd_new, ovs_flow_tbl_flush).
TableExact == CountsExact /\ FlowsUnique

\* A packet that misses really had no flow: no flow matching its key was linked
\* from the beginning of its lookup to the end (ovs_flow_tbl_lookup_stats loads
\* the mask array and the instance at two different times).
NoFalseMiss == \A r \in Readers : rd[r].pc = "miss" => cand[r] = {}

\* A packet only executes a flow that matches it and that was linked at some
\* time during its lookup.
HitFresh == \A r \in Readers : rd[r].pc \in {"hit", "exec"} =>
              rd[r].flow \in seen[r] /\ Matches(rd[r].flow, rd[r].key)

\* What ovs_flow_tbl_lookup_stats() owes a packet, whatever commands do meanwhile: it
\* reads no freed object, misses nothing and finds nothing wrong.
LookupRight == ReadersSafe /\ NoFalseMiss /\ HitFresh

\* Nothing leaks: every allocated object is published, in the hands of a command,
\* or waiting for its grace period, on every error path and every race.
NoLeak ==
  LET held == UNION {{cmd[t].flow, cmd[t].acts, cmd[t].ti} : t \in Threads}
      flows == UNION {ti[o].flows : o \in {tbl.ti} \cup ({cmd[t].ti : t \in Threads} \ {NULL})}
      owned == pend \cup held \cup flows
  IN  /\ alloc \cap FlowObj \subseteq owned
      /\ alloc \cap ActObj \subseteq owned \cup {flow[f].acts : f \in alloc \cap FlowObj}
      /\ alloc \cap TiObj \subseteq owned \cup {tbl.ti}
      /\ alloc \cap ArrObj \subseteq owned \cup {tbl.ma}
      /\ alloc \cap MaskObj \subseteq owned \cup {Masks[i] : i \in Used(arr[tbl.ma])}

\* Nothing is freed too early, under a reader, or never (call_rcu() and the error paths of
\* the flow commands).
MemorySafe == ReadersSafe /\ NoLeak

\* Everything given to call_rcu() is freed in the end: readers cannot hold up a
\* grace period for ever, since later readers are not waited for.
GraceEnds == \A o \in Obj : o \in pend ~> o \notin pend

\* Whatever fails on the way, a command gives ovs_mutex back.
MutexReleased == ovs_mutex # NULL ~> ovs_mutex = NULL

\* The table userspace sees: the flows linked in the published instance.
AsInstalled(f) == [m |-> mask[flow[f].mask].m, key |-> flow[f].key, ufid |-> flow[f].ufid,
                   ukey |-> flow[f].ukey, acts |-> flow[f].acts]
Installed == {AsInstalled(f) : f \in Linked}

Abs == INSTANCE FlowTableAbs WITH
  Flow <- [m : SUBSET Fields, key : KeyType, ufid : Ids \cup {NULL}, ukey : KeyType,
           acts : ActObj],
  NoUfid <- NULL,
  installed <- Installed

\* The flow commands, with everything that happens inside them, implement the
\* abstract table: each of their steps installs, updates, removes or flushes, or
\* changes nothing userspace can see.
ImplementsAbs == Abs!Spec

-----------------------------------------------------------------------------
(* The ownership invariant: every object has one owner, so that nothing is     *)
(* freed twice or freed while another owner still uses it.                     *)

LockedPcs == {"mask_insert", "key_insert", "mask_remove", "flush"}
FlowPcs   == {"mask_insert", "key_insert", "mask_remove", "del_reply", "del_fill",
              "del_free"}
Live      == alloc \ pend

\* ovs_mutex is held exactly in the sections between ovs_lock() and ovs_unlock().
LockInv == \A t \in Threads : cmd[t].pc \in LockedPcs <=> ovs_mutex = t

HeldInv == \A t \in Threads :
  /\ cmd[t].pc \in FlowPcs =>
       /\ cmd[t].flow \in FlowObj
       /\ cmd[t].flow \in Live
       /\ cmd[t].flow \notin Linked
       /\ \A u \in Threads : cmd[u].pc \in FlowPcs /\ cmd[u].flow = cmd[t].flow => u = t
  /\ cmd[t].pc \in FlowPcs \ {"mask_insert"} => flow[cmd[t].flow].mask \in MaskObj
  /\ cmd[t].pc = "free_old" =>
       /\ cmd[t].acts \in ActObj
       /\ cmd[t].acts \in Live
       /\ \A f \in FlowObj : f \in alloc => flow[f].acts # cmd[t].acts
       /\ \A u \in Threads : cmd[u].pc = "free_old" /\ cmd[u].acts = cmd[t].acts => u = t

FlushInv == \A t \in Threads : cmd[t].pc = "flush" =>
  /\ cmd[t].ti \in TiObj
  /\ cmd[t].ti \in Live
  /\ cmd[t].ti # tbl.ti
  /\ Linked = {}
  /\ \A f \in ti[cmd[t].ti].flows :
       /\ f \in Live
       /\ flow[f].mask \in MaskObj
       /\ \A u \in Threads : cmd[u].pc \in FlowPcs => cmd[u].flow # f

TableInv ==
  /\ tbl.ma \in Live
  /\ tbl.ti \in Live
  /\ tbl.ufid \subseteq Linked
  /\ \A f \in Linked : f \in Live /\ flow[f].mask \in MaskObj

ActsInv ==
  /\ \A f \in FlowObj : f \in alloc => flow[f].acts \in ActObj /\ flow[f].acts \in Live
  /\ \A f, g \in FlowObj :
       f \in alloc /\ g \in alloc /\ flow[f].acts = flow[g].acts => f = g

PendInv == \A o \in pend : o \notin MaskObj => o \in alloc

\* Every flow, action list, table instance and mask array in use has exactly one
\* owner: the table, one command, or its pending RCU callback.
OwnInv == TypeOK /\ LockInv /\ HeldInv /\ FlushInv /\ TableInv /\ ActsInv /\ PendInv

-----------------------------------------------------------------------------
(* What comments of the code say and the code does not do. *)

\* flow_mask_remove(): "Remove 'mask' from the mask list, if it is not needed any
\* more." Between commands every mask of the list would have a flow.
MaskNeeded ==
  (ovs_mutex = NULL) =>
    \A i \in Used(arr[tbl.ma]) : \E f \in Linked : flow[f].mask = Masks[i]

\* ovs_nla_put_mask() is "Called with ovs_mutex or RCU read lock.", which is to
\* keep flow->mask allocated while ovs_flow_cmd_del() fills in its notification.
DelMaskSafe ==
  \A t \in Threads : cmd[t].pc = "del_fill" => flow[cmd[t].flow].mask \in alloc

\* ovs_flow_cmd_new(): "The flow identifier has to be the same for flow updates."
UpdateSameId == \A t \in Threads : cmd[t].pc = "free_old" => cmd[t].sameid
=============================================================================
