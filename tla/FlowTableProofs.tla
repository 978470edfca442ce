--------------------------- MODULE FlowTableProofs ---------------------------
(***************************************************************************)
(* Proofs about FlowTable for every size of its pools and every number of  *)
(* readers and command threads, in three parts.  Masks: the mutex          *)
(* excludes, no BUG() fires, masks are counted exactly, and every linked   *)
(* flow can be reached through its mask.  Memory: no object is freed under *)
(* a reader or lost.  Tables: the two tables agree and hold no flow twice, *)
(* FlowTable implements FlowTableAbs, and a lookup misses no flow and      *)
(* finds no wrong one.                                                     *)
(***************************************************************************)
EXTENDS FlowTable, FiniteSetTheorems, WellFoundedInduction, TLAPS

-----------------------------------------------------------------------------
(* Facts about the operators. *)

\* A masked key is a key: ovs_flow_mask_key() only clears fields.
LEMMA MaskKeyType ==
  ASSUME NEW k \in KeyType, NEW m \in SUBSET Fields
  PROVE  ovs_flow_mask_key(k, m) \in KeyType
BY ConstantsAssumption DEF ovs_flow_mask_key, KeyType

\* The key of a fresh flow is a key.
LEMMA ZeroKeyType == ZeroKey \in KeyType
BY ConstantsAssumption DEF ZeroKey, KeyType

\* set and del only ever name a flow that is linked.
LEMMA SelectedLinked ==
  ASSUME TableInv, NEW u, NEW k
  PROVE  Selected(u, k) \subseteq Linked
BY DEF Selected, ovs_flow_tbl_lookup_ufid, ovs_flow_tbl_lookup_exact, TableInv

\* The array tbl_mask_array_realloc() builds is a well-formed mask array.
LEMMA ReallocType ==
  ASSUME NEW a, IsMaskArray(a), NEW size \in Int, NEW b \in InOrder(Used(a))
  PROVE  IsMaskArray(tbl_mask_array_alloc(size, a, b))
<1> DEFINE n   == Cardinality(Used(a))
           max == Imax(MASK_ARRAY_SIZE_MIN, size)
<1>1. max \in Nat
  BY ConstantsAssumption DEF Imax
<1>2. IsFiniteSet(Used(a))
  <2>1. IsFiniteSet(1..a.max)
    BY FS_Interval DEF IsMaskArray
  <2> QED
    BY <2>1, FS_Subset DEF Used
<1>3. n \in Nat
  BY <1>2, FS_CardinalityType
<1>4. \A i \in 1..max : i <= n => a.masks[b[i]] \in MaskObj \cup {NULL}
  BY <1>1, <1>3 DEF InOrder, Used, IsMaskArray
<1> HIDE DEF n, max
<1>5. [i \in 1..max |-> IF i <= n THEN a.masks[b[i]] ELSE NULL]
         \in [1..max -> MaskObj \cup {NULL}]
  BY <1>4
<1> QED
  BY <1>1, <1>3, <1>5 DEF tbl_mask_array_alloc, IsMaskArray, n, max

\* Storing a mask in an array keeps it well formed.
LEMMA AddMaskType ==
  ASSUME NEW a, IsMaskArray(a), NEW mo \in MaskObj
  PROVE  IsMaskArray(AddMask(a, mo))
BY DEF AddMask, IsMaskArray

\* So does deleting one.
LEMMA DeleteMaskType ==
  ASSUME NEW a, IsMaskArray(a), NEW mo
  PROVE  IsMaskArray(tbl_mask_array_delete_mask(a, mo))
BY DEF tbl_mask_array_delete_mask, IsMaskArray

\* An empty array is well formed.
LEMMA EmptyArrType == ASSUME NEW n \in Nat PROVE IsMaskArray(EmptyArr(n))
BY DEF EmptyArr, IsMaskArray

-----------------------------------------------------------------------------
(* The ownership invariant. *)

\* ovs_flow_tbl_init() establishes it.
LEMMA InitOwn == Init => OwnInv
<1> SUFFICES ASSUME Init PROVE OwnInv
  OBVIOUS
<1>1. TypeOK
  <2>1. flow \in [FlowObj -> FlowType]
    BY ZeroKeyType DEF Init, NoFlow, FlowType
  <2>2. rd \in [Readers -> RdType]
    BY ZeroKeyType DEF Init, IdleRd, RdType, RdRecord
  <2>3. arr = [o \in ArrObj |-> arr[o]] /\ \A o \in ArrObj : IsMaskArray(arr[o])
    BY EmptyArrType, ConstantsAssumption DEF Init, NoArr
  <2> QED
    BY <2>1, <2>2, <2>3, ConstantsAssumption DEF Init, TypeOK, NoMask, NoTi, IdleCmd, CmdType, TblType, Obj
<1>2. LockInv
  BY PoolsAssumption DEF Init, LockInv, IdleCmd, LockedPcs, Procs
<1>3. HeldInv /\ FlushInv
  BY DEF Init, HeldInv, FlushInv, IdleCmd, FlowPcs
<1>4. TableInv
  BY DEF Init, TableInv, Linked, Live
<1>5. ActsInv /\ PendInv
  BY PoolsAssumption DEF Init, ActsInv, PendInv
<1> QED
  BY <1>1, <1>2, <1>3, <1>4, <1>5 DEF OwnInv

\* Replacing the actions of a linked flow keeps it: the new ones belong to the
\* flow, the old ones to the command.
LEMMA ReplaceOwn ==
  ASSUME OwnInv, NEW t \in Threads, NEW g \in Linked, NEW a \in ActObj,
         NEW s \in BOOLEAN, a \notin alloc, cmd[t].pc = "idle",
         ReplaceActs(t, g, a, s),
         UNCHANGED <<pend, wait, mask, arr, ti, tbl, ovs_mutex, readState, history>>
  PROVE  OwnInv'
<1> USE DEF OwnInv
<1>1. g \in FlowObj /\ g \in alloc /\ flow[g].acts \in ActObj /\ flow[g].acts \in Live
  BY DEF TableInv, Linked, TypeOK, TblType, ActsInv, Live
<1>2. \A h \in FlowObj : h # a
  BY PoolsAssumption
<1>3. /\ alloc' = alloc \cup {a} /\ flow' = [flow EXCEPT ![g].acts = a]
      /\ cmd' = [cmd EXCEPT ![t] = [IdleCmd EXCEPT !.pc = "free_old",
                                        !.acts = flow[g].acts, !.sameid = s]]
      /\ UNCHANGED <<pend, wait, rcu, mask, arr, ti, tbl, ovs_mutex, rd, cand, seen>>
  BY DEF ReplaceActs, AssignActs, readState, history
<1>4. /\ flow'[g] = [flow[g] EXCEPT !.acts = a]
      /\ \A h \in FlowObj : h # g => flow'[h] = flow[h]
      /\ \A h \in FlowObj : flow'[h].mask = flow[h].mask
  BY <1>1, <1>3 DEF TypeOK
<1>5. flow'[g].acts = a
  BY <1>1, <1>4 DEF TypeOK
<1>6. /\ cmd'[t].pc = "free_old" /\ cmd'[t].acts = flow[g].acts
      /\ \A x \in Threads : x # t => cmd'[x] = cmd[x]
  BY <1>3 DEF TypeOK, IdleCmd
<1>7. Linked' = Linked
  BY <1>3 DEF Linked
<1>8. a \in Live' /\ Live \subseteq Live'
  BY <1>3, PoolsAssumption DEF Live, PendInv
<1>9. TypeOK'
  <2>1. [flow[g] EXCEPT !.acts = a] \in FlowType
    BY <1>1 DEF TypeOK, FlowType
  <2>2. flow' = [flow EXCEPT ![g] = [flow[g] EXCEPT !.acts = a]]
    BY <1>1, <1>3 DEF TypeOK
  <2>3. flow' \in [FlowObj -> FlowType]
    BY <2>1, <2>2 DEF TypeOK
  <2>4. [IdleCmd EXCEPT !.pc = "free_old", !.acts = flow[g].acts, !.sameid = s] \in CmdType
    BY <1>1 DEF IdleCmd, CmdType
  <2> QED
    BY <2>3, <2>4, <1>3 DEF TypeOK, Obj
<1>10. LockInv'
  BY <1>3, <1>6 DEF LockInv, LockedPcs
<1>11. HeldInv'
  BY <1>1, <1>2, <1>3, <1>4, <1>5, <1>6, <1>7, <1>8 DEF HeldInv, FlowPcs, Live, ActsInv
<1>12. FlushInv'
  BY <1>3, <1>4, <1>6, <1>7, <1>8 DEF FlushInv, FlowPcs, TypeOK
<1>13. TableInv'
  BY <1>3, <1>4, <1>7, <1>8 DEF TableInv, Linked, TypeOK, TblType
<1>14. ActsInv'
  BY <1>1, <1>2, <1>3, <1>4, <1>5, <1>8 DEF ActsInv, Live
<1>15. PendInv'
  BY <1>3 DEF PendInv
<1> QED
  BY <1>9, <1>10, <1>11, <1>12, <1>13, <1>14, <1>15

\* ovs_flow_cmd_new() keeps it: the new flow belongs to the command, or the
\* replaced actions do.
LEMMA NewOwn ==
  ASSUME OwnInv, NEW t \in Threads, NEW f \in FlowObj, NEW a \in ActObj,
         NEW k \in Keys, NEW m \in MaskVals, NEW u \in Ids, NEW excl \in BOOLEAN,
         ovs_flow_cmd_new(t, f, a, k, m, u, excl)
  PROVE  OwnInv'
<1> USE DEF OwnInv
<1> DEFINE masked == ovs_flow_mask_key(k, m)
           matchkey == IF u # NULL THEN masked ELSE k
           fresh == [mask |-> NULL, key |-> masked, ufid |-> u,
                     ukey |-> IF u # NULL THEN ZeroKey ELSE k, acts |-> a]
<1>1. /\ cmd[t].pc = "idle" /\ ovs_mutex = NULL
      /\ f \notin alloc /\ a \notin alloc
      /\ UNCHANGED <<pend, wait, rcu, mask, arr, ti, tbl, rd, cand, seen>>
  BY DEF ovs_flow_cmd_new, Free, readState, history
<1>2. masked \in KeyType /\ ZeroKey \in KeyType /\ k \in KeyType /\ m \in SUBSET Fields
  BY MaskKeyType, ZeroKeyType, ConstantsAssumption
<1>3. \A x \in Threads : x # NULL
  BY PoolsAssumption DEF Procs
<1>4. \A g \in FlowObj : g # a
  BY PoolsAssumption
<1>5. CASE /\ alloc' = alloc \cup {f, a}
           /\ flow' = [flow EXCEPT ![f] = fresh]
           /\ ovs_mutex' = t
           /\ cmd' = [cmd EXCEPT ![t] = [IdleCmd EXCEPT !.pc = "mask_insert",
                                          !.flow = f, !.m = m]]
  <2>1. fresh \in FlowType
    BY <1>2 DEF FlowType
  <2> HIDE DEF fresh, masked
  <2>2. TypeOK'
    BY <1>1, <1>2, <1>5, <2>1 DEF TypeOK, IdleCmd, CmdType, Obj
  <2>3. LockInv'
    BY <1>1, <1>3, <1>5 DEF LockInv, LockedPcs, IdleCmd, TypeOK
  <2>4. \A x \in Threads : x # t => cmd'[x] = cmd[x]
    BY <1>5 DEF TypeOK
  <2>5. cmd'[t].pc = "mask_insert" /\ cmd'[t].flow = f
    BY <1>5 DEF TypeOK, IdleCmd
  <2>6. \A g \in FlowObj : g # f => flow'[g] = flow[g]
    BY <1>5 DEF TypeOK
  <2>7. flow'[f].acts = a
    BY <1>5 DEF TypeOK, fresh
  <2>8. Linked' = Linked
    BY <1>1 DEF Linked
  <2>9. \A o \in alloc : o # f /\ o # a
    BY <1>1
  <2>10. f \in Live' /\ a \in Live' /\ Live \subseteq Live'
    BY <1>1, <1>5, PoolsAssumption DEF Live, PendInv
  <2>11. HeldInv'
    BY <2>4, <2>5, <2>6, <2>7, <2>8, <2>9, <2>10, <1>4, <1>5 DEF HeldInv, FlowPcs, Live, TableInv
  <2>12. FlushInv'
    BY <2>4, <2>5, <2>6, <2>8, <2>9, <2>10, <1>1, <1>5 DEF FlushInv, FlowPcs, Live, TypeOK
  <2>13. TableInv'
    BY <2>6, <2>8, <2>9, <2>10, <1>1 DEF TableInv, Live, Linked, TypeOK, TblType
  <2>14. ActsInv'
    BY <2>6, <2>7, <2>9, <2>10, <1>4, <1>5 DEF ActsInv, Live
  <2>15. PendInv'
    BY <1>1, <1>5 DEF PendInv
  <2> QED
    BY <2>2, <2>3, <2>11, <2>12, <2>13, <2>14, <2>15
<1>6. CASE \E g \in Linked : /\ ReplaceActs(t, g, a, flow[g].ufid = u)
                             /\ UNCHANGED ovs_mutex
  BY <1>1, <1>6, ReplaceOwn DEF readState, history
<1>7. ASSUME NEW d \in IF u # NULL /\ ovs_flow_tbl_lookup_ufid(u) # {}
                      THEN ovs_flow_tbl_lookup_ufid(u) ELSE ovs_flow_tbl_lookup(masked)
      PROVE  d \in Linked
  BY <1>7 DEF ovs_flow_tbl_lookup, ovs_flow_tbl_lookup_ufid, TableInv
<1>8. ovs_flow_tbl_lookup_exact(matchkey) \subseteq Linked
  BY DEF ovs_flow_tbl_lookup_exact
<1> QED
  <2> HIDE DEF fresh, masked, matchkey
  <2> QED
    BY <1>5, <1>6, <1>7, <1>8 DEF ovs_flow_cmd_new, fresh, masked, matchkey

\* ovs_flow_cmd_set() keeps it.
LEMMA SetOwn ==
  ASSUME OwnInv, NEW t \in Threads, NEW a \in ActObj, NEW k, NEW u,
         ovs_flow_cmd_set(t, a, k, u)
  PROVE  OwnInv'
BY SelectedLinked, ReplaceOwn DEF OwnInv, ovs_flow_cmd_set, Free

\* The actions a command replaced pass from it to their RCU callback.
LEMMA FreeOldOwn ==
  ASSUME OwnInv, NEW t \in Threads, ovs_nla_free_flow_actions_rcu(t)
  PROVE  OwnInv'
<1> USE DEF OwnInv
<1> DEFINE old == cmd[t].acts
<1>1. /\ cmd[t].pc = "free_old" /\ old \in ActObj /\ old \in Live
      /\ \A f \in FlowObj : f \in alloc => flow[f].acts # old
      /\ \A u \in Threads : cmd[u].pc = "free_old" /\ cmd[u].acts = old => u = t
  BY DEF ovs_nla_free_flow_actions_rcu, HeldInv
<1>2. /\ pend' = pend \cup {old} /\ cmd' = [cmd EXCEPT ![t] = IdleCmd]
      /\ wait' = [o \in Obj |-> IF o \in {old} THEN rcu ELSE wait[o]]
      /\ UNCHANGED <<alloc, rcu, flow, mask, arr, ti, tbl, ovs_mutex, rd, cand, seen>>
  BY DEF ovs_nla_free_flow_actions_rcu, call_rcu, readState, history
<1>3. cmd'[t].pc = "idle" /\ \A x \in Threads : x # t => cmd'[x] = cmd[x]
  BY <1>2 DEF TypeOK, IdleCmd
<1>4. \A o \in FlowObj \cup MaskObj \cup ArrObj \cup TiObj : o # old
  BY <1>1, PoolsAssumption
<1>5. Linked' = Linked /\ \A o \in Live : o # old => o \in Live'
  BY <1>2 DEF Linked, Live
<1> HIDE DEF old
<1>6. TypeOK'
  BY <1>1, <1>2 DEF TypeOK, IdleCmd, CmdType, Obj
<1>7. LockInv'
  BY <1>1, <1>2, <1>3 DEF LockInv, LockedPcs
<1>8. HeldInv'
  BY <1>1, <1>2, <1>3, <1>4, <1>5 DEF HeldInv, FlowPcs
<1>9. FlushInv'
  BY <1>2, <1>3, <1>4, <1>5 DEF FlushInv, FlowPcs, TypeOK
<1>10. TableInv'
  BY <1>2, <1>4, <1>5 DEF TableInv, Linked, TypeOK, TblType
<1>11. ActsInv'
  BY <1>1, <1>2, <1>5 DEF ActsInv
<1>12. PendInv'
  BY <1>1, <1>2 DEF PendInv, Live
<1> QED
  BY <1>6, <1>7, <1>8, <1>9, <1>10, <1>11, <1>12

\* A step that only lets thread t hold its flow with a mask, and that allocates
\* masks and mask arrays or passes them to call_rcu(), keeps the ownership of
\* everything else.
LEMMA UseMaskOwn ==
  ASSUME OwnInv, TypeOK', NEW t \in Threads, NEW mo \in MaskObj,
         cmd[t].pc = "mask_insert",
         flow' = [flow EXCEPT ![cmd[t].flow].mask = mo],
         cmd' = [cmd EXCEPT ![t].pc = "key_insert"],
         Live \ (MaskObj \cup ArrObj) \subseteq Live', alloc \subseteq alloc',
         alloc' \ alloc \subseteq MaskObj \cup ArrObj,
         tbl' = [tbl EXCEPT !.ma = tbl'.ma], tbl'.ma \in Live',
         pend' \subseteq pend \cup (Live \cap ArrObj),
         UNCHANGED <<ti, ovs_mutex>>
  PROVE  OwnInv'
<1> USE DEF OwnInv
<1> DEFINE f == cmd[t].flow
<1>1. /\ f \in FlowObj /\ f \in Live /\ f \notin Linked /\ ovs_mutex = t
      /\ \A u \in Threads : cmd[u].pc \in FlowPcs /\ cmd[u].flow = f => u = t
  BY DEF HeldInv, LockInv, LockedPcs, FlowPcs
<1>2. /\ cmd'[t].pc = "key_insert" /\ cmd'[t].flow = f
      /\ \A x \in Threads : x # t => cmd'[x] = cmd[x]
  BY DEF TypeOK, CmdType
<1>3. /\ flow'[f].mask = mo
      /\ \A g \in FlowObj : g # f => flow'[g] = flow[g]
      /\ \A g \in FlowObj : flow'[g].acts = flow[g].acts
  BY <1>1 DEF TypeOK, FlowType
<1> HIDE DEF f
<1>4. Linked' = Linked /\ tbl'.ti = tbl.ti /\ tbl'.ufid = tbl.ufid
  BY DEF Linked, TypeOK, TblType
<1>5. /\ \A o \in FlowObj \cup TiObj \cup ActObj : o \in Live => o \in Live'
      /\ \A o \in FlowObj \cup TiObj \cup ActObj : o \in alloc' => o \in alloc
  BY PoolsAssumption
<1>6. LockInv'
  BY <1>1, <1>2 DEF LockInv, LockedPcs
<1>7. HeldInv'
  BY <1>1, <1>2, <1>3, <1>4, <1>5 DEF HeldInv, FlowPcs
<1>8. FlushInv'
  <2>1. \A x \in Threads : cmd'[x].pc # "flush"
    BY <1>1, <1>2 DEF LockInv, LockedPcs
  <2> QED
    BY <2>1 DEF FlushInv
<1>9. TableInv'
  BY <1>1, <1>3, <1>4, <1>5 DEF TableInv, Linked, TypeOK, TblType
<1>10. ActsInv'
  BY <1>3, <1>5 DEF ActsInv
<1>11. PendInv'
  BY DEF PendInv, Live
<1> QED
  BY <1>6, <1>7, <1>8, <1>9, <1>10, <1>11

\* flow_mask_insert() keeps it, whether the mask is shared, added, added to a
\* larger array, or not to be had, in which case the flow is freed.
LEMMA MaskInsertOwn ==
  ASSUME OwnInv, NEW t \in Threads, flow_mask_insert(t)
  PROVE  OwnInv'
<1> USE DEF OwnInv
<1> DEFINE f == cmd[t].flow
           m == cmd[t].m
           a == arr[tbl.ma]
<1>1. /\ cmd[t].pc = "mask_insert"
      /\ UNCHANGED <<rcu, ti, rd, cand, seen>>
  BY DEF flow_mask_insert, readState, history
<1>2. /\ f \in FlowObj /\ f \in Live /\ f \notin Linked /\ ovs_mutex = t
      /\ \A u \in Threads : cmd[u].pc \in FlowPcs /\ cmd[u].flow = f => u = t
      /\ flow[f].acts \in ActObj /\ flow[f].acts \in Live
  BY <1>1 DEF HeldInv, LockInv, LockedPcs, FlowPcs, ActsInv, Live
<1>3. /\ tbl.ma \in ArrObj /\ tbl.ma \in Live /\ IsMaskArray(a) /\ m \in SUBSET Fields
      /\ [cmd[t] EXCEPT !.pc = "key_insert"] \in CmdType
  <2>1. cmd[t] \in CmdType /\ tbl \in TblType
    BY DEF TypeOK
  <2>2. m \in SUBSET Fields /\ [cmd[t] EXCEPT !.pc = "key_insert"] \in CmdType
    BY <2>1 DEF CmdType
  <2>3. tbl.ma \in ArrObj /\ tbl.ma \in Live
    BY <2>1 DEF TblType, TableInv
  <2> QED
    BY <2>2, <2>3 DEF TypeOK
<1>4. /\ \A mo \in MaskObj : [flow[f] EXCEPT !.mask = mo] \in FlowType
      /\ \A mo \in MaskObj : [flow EXCEPT ![f].mask = mo]
                              = [flow EXCEPT ![f] = [flow[f] EXCEPT !.mask = mo]]
      /\ [cmd EXCEPT ![t].pc = "key_insert"]
           = [cmd EXCEPT ![t] = [cmd[t] EXCEPT !.pc = "key_insert"]]
  <2>1. \A mo \in MaskObj : [flow[f] EXCEPT !.mask = mo] \in FlowType
    <3>1. flow[f] \in FlowType
      BY <1>2 DEF TypeOK
    <3> QED
      BY <3>1 DEF FlowType
  <2>2. \A mo \in MaskObj : [flow EXCEPT ![f].mask = mo]
                            = [flow EXCEPT ![f] = [flow[f] EXCEPT !.mask = mo]]
    BY Zenon
  <2>3. [cmd EXCEPT ![t].pc = "key_insert"] = [cmd EXCEPT ![t] = [cmd[t] EXCEPT !.pc = "key_insert"]]
    BY Zenon
  <2> QED
    BY <2>1, <2>2, <2>3
<1>5. NULL \notin Obj
  BY PoolsAssumption
<1>6. CASE \E mo \in flow_mask_find(m) :
             /\ mask' = ShareMask(mo)
             /\ flow' = [flow EXCEPT ![f].mask = mo]
             /\ cmd' = [cmd EXCEPT ![t].pc = "key_insert"]
             /\ UNCHANGED <<heap, arr, tbl, ovs_mutex>>
  <2>1. PICK mo \in flow_mask_find(m) :
             /\ mask' = ShareMask(mo)
             /\ flow' = [flow EXCEPT ![f].mask = mo]
             /\ cmd' = [cmd EXCEPT ![t].pc = "key_insert"]
             /\ UNCHANGED <<heap, arr, tbl, ovs_mutex>>
    BY <1>6
  <2>2. mo \in MaskObj
    BY DEF flow_mask_find
  <2>3. mask' \in [MaskObj -> [m : SUBSET Fields, ref : Nat]]
    BY <2>1, <2>2 DEF ShareMask, TypeOK
  <2> HIDE DEF f, m
  <2>4. TypeOK'
    BY <1>1, <1>3, <1>4, <2>1, <2>2, <2>3 DEF TypeOK, heap
  <2>5. /\ UNCHANGED <<alloc, pend, tbl>> /\ tbl' = [tbl EXCEPT !.ma = tbl'.ma]
        /\ tbl'.ma \in Live' /\ Live' = Live
    BY <2>1, <1>3 DEF heap, Live, TypeOK, TblType
  <2> QED
    BY <1>1, <2>1, <2>2, <2>4, <2>5, UseMaskOwn DEF f
<1>7. CASE \E mo \in Free(MaskObj) :
             /\ alloc' = alloc \cup {mo}
             /\ mask' = [mask EXCEPT ![mo] = [m |-> m, ref |-> 1]]
             /\ arr' = [arr EXCEPT ![tbl.ma] = AddMask(a, mo)]
             /\ flow' = [flow EXCEPT ![f].mask = mo]
             /\ cmd' = [cmd EXCEPT ![t].pc = "key_insert"]
             /\ UNCHANGED <<pend, wait, tbl, ovs_mutex>>
  <2>1. PICK mo \in MaskObj :
             /\ alloc' = alloc \cup {mo}
             /\ mask' = [mask EXCEPT ![mo] = [m |-> m, ref |-> 1]]
             /\ arr' = [arr EXCEPT ![tbl.ma] = AddMask(a, mo)]
             /\ flow' = [flow EXCEPT ![f].mask = mo]
             /\ cmd' = [cmd EXCEPT ![t].pc = "key_insert"]
             /\ UNCHANGED <<pend, wait, tbl, ovs_mutex>>
    BY <1>7 DEF Free
  <2>2. IsMaskArray(AddMask(a, mo))
    BY <1>3, AddMaskType
  <2> HIDE DEF a, f, m
  <2>3. arr' = [o \in ArrObj |-> arr'[o]] /\ \A o \in ArrObj : IsMaskArray(arr'[o])
    BY <2>1, <2>2 DEF TypeOK
  <2>4. TypeOK'
    BY <1>1, <1>3, <1>4, <2>1, <2>3 DEF TypeOK, Obj
  <2>5. /\ Live \subseteq Live' /\ alloc \subseteq alloc'
        /\ alloc' \ alloc \subseteq MaskObj \cup ArrObj
        /\ tbl' = [tbl EXCEPT !.ma = tbl'.ma] /\ tbl'.ma \in Live'
        /\ UNCHANGED <<pend, ti, ovs_mutex>>
    BY <1>1, <1>3, <2>1 DEF Live, TypeOK, TblType
  <2> QED
    BY <1>1, <2>1, <2>4, <2>5, UseMaskOwn DEF f
<1>8. CASE \E mo \in Free(MaskObj), na \in Free(ArrObj), b \in InOrder(Used(a)) :
             /\ alloc' = alloc \cup {mo, na}
             /\ mask' = [mask EXCEPT ![mo] = [m |-> m, ref |-> 1]]
             /\ arr' = [arr EXCEPT ![na] =
                  AddMask(tbl_mask_array_alloc(a.max + MASK_ARRAY_SIZE_MIN, a, b), mo)]
             /\ tbl' = [tbl EXCEPT !.ma = na]
             /\ call_rcu({tbl.ma})
             /\ flow' = [flow EXCEPT ![f].mask = mo]
             /\ cmd' = [cmd EXCEPT ![t].pc = "key_insert"]
             /\ UNCHANGED ovs_mutex
  <2>1. PICK mo \in Free(MaskObj), na \in Free(ArrObj), b \in InOrder(Used(a)) :
             /\ alloc' = alloc \cup {mo, na}
             /\ mask' = [mask EXCEPT ![mo] = [m |-> m, ref |-> 1]]
             /\ arr' = [arr EXCEPT ![na] =
                  AddMask(tbl_mask_array_alloc(a.max + MASK_ARRAY_SIZE_MIN, a, b), mo)]
             /\ tbl' = [tbl EXCEPT !.ma = na]
             /\ call_rcu({tbl.ma})
             /\ flow' = [flow EXCEPT ![f].mask = mo]
             /\ cmd' = [cmd EXCEPT ![t].pc = "key_insert"]
             /\ UNCHANGED ovs_mutex
    BY <1>8
  <2> DEFINE grown == tbl_mask_array_alloc(a.max + MASK_ARRAY_SIZE_MIN, a, b)
  <2>2. IsMaskArray(AddMask(grown, mo))
    <3>1. a.max + MASK_ARRAY_SIZE_MIN \in Int
      BY <1>3, ConstantsAssumption DEF IsMaskArray
    <3>2. IsMaskArray(grown)
      BY <1>3, <3>1, ReallocType
    <3> QED
      BY <3>2, AddMaskType DEF Free
  <2> HIDE DEF a, f, m, grown
  <2>3. arr' = [o \in ArrObj |-> arr'[o]] /\ \A o \in ArrObj : IsMaskArray(arr'[o])
    BY <2>1, <2>2 DEF TypeOK, grown, Free
  <2>4. mo \in MaskObj /\ na \in ArrObj /\ na \notin alloc /\ mo \notin alloc
    BY DEF Free
  <2>5. pend' = pend \cup {tbl.ma} /\ wait' \in [Obj -> SUBSET Procs]
    BY <2>1 DEF call_rcu, TypeOK
  <2>6. TypeOK'
    BY <1>1, <1>3, <1>4, <2>1, <2>3, <2>4, <2>5 DEF TypeOK, Obj, TblType
  <2>7. tbl' = [tbl EXCEPT !.ma = tbl'.ma] /\ tbl'.ma = na
    BY <2>1 DEF TypeOK, TblType
  <2>8. /\ Live \ (MaskObj \cup ArrObj) \subseteq Live' /\ alloc \subseteq alloc'
        /\ alloc' \ alloc \subseteq MaskObj \cup ArrObj
        /\ tbl'.ma \in Live'
        /\ pend' \subseteq pend \cup (Live \cap ArrObj)
    BY <1>3, <2>1, <2>4, <2>5, <2>7, PoolsAssumption DEF Live, PendInv
  <2> QED
    BY <1>1, <2>1, <2>4, <2>6, <2>7, <2>8, UseMaskOwn DEF f
<1>9. CASE /\ alloc' = alloc \ {f, flow[f].acts}
           /\ flow' = [flow EXCEPT ![f] = NoFlow]
           /\ cmd' = [cmd EXCEPT ![t] = IdleCmd]
           /\ ovs_mutex' = NULL
           /\ UNCHANGED <<pend, wait, mask, arr, tbl>>
  <2> HIDE DEF f, m, a
  <2>1. NoFlow \in FlowType
    BY ZeroKeyType DEF NoFlow, FlowType
  <2>2. TypeOK'
    BY <1>1, <1>9, <2>1 DEF TypeOK, IdleCmd, CmdType
  <2>3. cmd'[t].pc = "idle" /\ \A x \in Threads : x # t => cmd'[x] = cmd[x]
    BY <1>9 DEF TypeOK, IdleCmd
  <2>4. \A g \in FlowObj : g # f => flow'[g] = flow[g]
    BY <1>9 DEF TypeOK
  <2>5. /\ \A g \in FlowObj : g \in Live /\ g # f => g \in Live'
        /\ \A o \in MaskObj \cup ArrObj \cup TiObj : o \in Live => o \in Live'
        /\ \A o \in ActObj : o \in Live /\ o # flow[f].acts => o \in Live'
        /\ \A g \in FlowObj : g \in alloc' => g \in alloc /\ g # f
    BY <1>2, <1>9, PoolsAssumption DEF Live
  <2>6. Linked' = Linked
    BY <1>1, <1>9 DEF Linked
  <2>7. LockInv'
    BY <1>1, <1>2, <1>9, <2>3, PoolsAssumption DEF LockInv, LockedPcs, Procs
  <2>8. HeldInv'
    <3>1. \A x \in Threads : x # t => (cmd[x].pc \in FlowPcs => cmd[x].flow # f)
      BY <1>2
    <3>2. \A x \in Threads : cmd[x].pc = "free_old" => cmd[x].acts # flow[f].acts
      BY <1>2 DEF HeldInv, Live
    <3> QED
      BY <1>9, <2>3, <2>4, <2>5, <2>6, <3>1, <3>2 DEF HeldInv, FlowPcs
  <2>9. FlushInv'
    <3>1. \A x \in Threads : cmd'[x].pc # "flush"
      BY <1>1, <1>2, <2>3 DEF LockInv, LockedPcs
    <3> QED
      BY <3>1 DEF FlushInv
  <2>10. TableInv'
    BY <1>2, <1>9, <2>4, <2>5, <2>6 DEF TableInv, Linked, TypeOK, TblType
  <2>11. ActsInv'
    BY <1>2, <2>4, <2>5 DEF ActsInv, Live
  <2>12. PendInv'
    BY <1>2, <1>9 DEF PendInv, Live
  <2> QED
    BY <2>2, <2>7, <2>8, <2>9, <2>10, <2>11, <2>12
<1> QED
  <2> HIDE DEF f, m, a
  <2> QED
    BY <1>6, <1>7, <1>8, <1>9 DEF flow_mask_insert, err_unlock_ovs, f, m, a

\* flow_key_insert() keeps it: the flow passes from the command to the table, in
\* the instance published or in a larger one.
LEMMA KeyInsertOwn ==
  ASSUME OwnInv, NEW t \in Threads, flow_key_insert(t)
  PROVE  OwnInv'
<1> USE DEF OwnInv
<1> DEFINE f == cmd[t].flow
           flows == Linked \cup {f}
<1>1. /\ cmd[t].pc = "key_insert" /\ ovs_mutex' = NULL
      /\ cmd' = [cmd EXCEPT ![t] = IdleCmd]
      /\ UNCHANGED <<flow, mask, arr, rcu, rd, cand>>
      /\ Links(f)
  BY DEF flow_key_insert, readState
<1>2. /\ f \in FlowObj /\ f \in Live /\ f \notin Linked /\ ovs_mutex = t
      /\ flow[f].mask \in MaskObj
      /\ \A u \in Threads : cmd[u].pc \in FlowPcs /\ cmd[u].flow = f => u = t
  BY <1>1 DEF HeldInv, LockInv, LockedPcs, FlowPcs
<1>3. /\ tbl.ti \in TiObj /\ tbl.ti \in Live /\ tbl.ma \in ArrObj /\ tbl.ma \in Live
      /\ tbl.count \in Int /\ tbl.ufid_count \in Int /\ tbl.ufid \subseteq Linked
      /\ Linked \subseteq FlowObj /\ flows \subseteq FlowObj
  BY <1>2 DEF TypeOK, TableInv, TblType, Linked
<1>4. cmd'[t].pc = "idle" /\ \A x \in Threads : x # t => cmd'[x] = cmd[x]
  BY <1>1 DEF TypeOK, IdleCmd
<1>5. /\ tbl'.ti \in TiObj /\ tbl'.ma = tbl.ma /\ tbl' \in TblType
      /\ tbl'.ufid \subseteq tbl.ufid \cup {f}
      /\ ti'[tbl'.ti].flows = flows /\ ti' \in [TiObj -> [flows : SUBSET FlowObj, n_buckets : Nat]]
      /\ alloc \subseteq alloc' /\ alloc' \ alloc \subseteq TiObj
      /\ pend' \subseteq pend \cup {tbl.ti} /\ pend' \subseteq Obj
      /\ wait' \in [Obj -> SUBSET Procs]
      /\ tbl'.ti \in Live'
  <2> HIDE DEF f, flows
  <2> DEFINE Table(inst) ==
          [ti |-> inst, ma |-> tbl.ma, count |-> tbl.count + 1,
           ufid |-> IF flow[f].ufid # NULL THEN tbl.ufid \cup {f} ELSE tbl.ufid,
           ufid_count |-> IF flow[f].ufid # NULL THEN tbl.ufid_count + 1
                                                 ELSE tbl.ufid_count]
  <2>1. ASSUME NEW inst \in TiObj
        PROVE  /\ Table(inst) \in TblType /\ Table(inst).ti = inst
               /\ Table(inst).ma = tbl.ma /\ Table(inst).ufid \subseteq tbl.ufid \cup {f}
    <3>1. tbl.ufid \cup {f} \subseteq FlowObj
      BY <1>2, <1>3
    <3> QED
      BY <1>3, <3>1 DEF TblType
  <2> HIDE DEF Table
  <2>2. CASE /\ ti' = [ti EXCEPT ![tbl.ti].flows = flows]
             /\ tbl' = Table(tbl.ti)
             /\ UNCHANGED heap
    BY <1>3, <2>1, <2>2 DEF TypeOK, heap, Live
  <2>3. CASE \E new \in Free(TiObj) :
          /\ alloc' = alloc \cup {new}
          /\ ti' = [ti EXCEPT ![tbl.ti].flows = flows,
                      ![new] = [flows |-> flows, n_buckets |-> NewBuckets(tbl.count + 1, ti[tbl.ti].n_buckets)]]
          /\ tbl' = Table(new)
          /\ call_rcu({tbl.ti})
    <3>1. PICK new \in TiObj \ alloc :
          /\ alloc' = alloc \cup {new}
          /\ ti' = [ti EXCEPT ![tbl.ti].flows = flows,
                      ![new] = [flows |-> flows, n_buckets |-> NewBuckets(tbl.count + 1, ti[tbl.ti].n_buckets)]]
          /\ tbl' = Table(new)
          /\ call_rcu({tbl.ti})
      BY <2>3 DEF Free
    <3>2. NewBuckets(tbl.count + 1, ti[tbl.ti].n_buckets) \in Nat
      BY <1>3 DEF NewBuckets, TypeOK
    <3>3. /\ ti'[new].flows = flows
          /\ ti' \in [TiObj -> [flows : SUBSET FlowObj, n_buckets : Nat]]
      BY <1>3, <3>1, <3>2 DEF TypeOK
    <3>4. /\ pend' = pend \cup {tbl.ti} /\ wait' \in [Obj -> SUBSET Procs]
          /\ pend' \subseteq Obj
      BY <1>3, <3>1 DEF call_rcu, TypeOK, Obj
    <3>5. new \in Live'
      BY <1>3, <3>1, <3>4, PoolsAssumption DEF Live, PendInv
    <3> QED
      BY <2>1, <3>1, <3>3, <3>4, <3>5
  <2> QED
    BY <2>2, <2>3 DEF flow_key_insert, Table, f, flows
<1>6. Linked' = flows
  BY <1>5 DEF Linked
<1>7. seen' \in [Readers -> SUBSET FlowObj]
  BY <1>1, <1>2 DEF Links, TypeOK
<1> HIDE DEF f, flows
<1>8. TypeOK'
  BY <1>1, <1>5, <1>7, PoolsAssumption DEF TypeOK, IdleCmd, CmdType, Obj
<1>9. LockInv'
  BY <1>1, <1>2, <1>4, PoolsAssumption DEF LockInv, LockedPcs, Procs
<1>10. \A o \in FlowObj \cup ActObj \cup ArrObj :
         (o \in Live => o \in Live') /\ (o \in alloc' => o \in alloc)
  BY <1>3, <1>5, PoolsAssumption DEF Live
<1>11. HeldInv'
  BY <1>1, <1>2, <1>4, <1>6, <1>10 DEF HeldInv, FlowPcs, flows
<1>12. FlushInv'
  <2>1. \A x \in Threads : cmd'[x].pc # "flush"
    BY <1>1, <1>2, <1>4 DEF LockInv, LockedPcs
  <2> QED
    BY <2>1 DEF FlushInv
<1>13. TableInv'
  BY <1>1, <1>2, <1>3, <1>5, <1>6, <1>10 DEF TableInv, flows
<1>14. ActsInv'
  BY <1>1, <1>10 DEF ActsInv
<1>15. PendInv'
  BY <1>3, <1>5 DEF PendInv, Live
<1> QED
  BY <1>8, <1>9, <1>11, <1>12, <1>13, <1>14, <1>15

\* ovs_flow_cmd_del() keeps it: the flow passes from the table to the command.
LEMMA DelOwn ==
  ASSUME OwnInv, NEW t \in Threads, NEW k, NEW u, ovs_flow_cmd_del(t, k, u)
  PROVE  OwnInv'
<1> USE DEF OwnInv
<1>1. PICK g \in Linked :
       /\ ti' = [ti EXCEPT ![tbl.ti].flows = @ \ {g}]
       /\ tbl' = [tbl EXCEPT !.count = @ - 1,
                    !.ufid = @ \ {g},
                    !.ufid_count = IF flow[g].ufid # NULL THEN @ - 1 ELSE @]
       /\ cmd' = [cmd EXCEPT ![t] = [IdleCmd EXCEPT !.pc = "mask_remove", !.flow = g]]
       /\ Unlinks({g})
  BY SelectedLinked DEF ovs_flow_cmd_del
<1>2. /\ cmd[t].pc = "idle" /\ ovs_mutex = NULL /\ ovs_mutex' = t
      /\ UNCHANGED <<alloc, pend, wait, flow, mask, arr, rcu, rd, seen>>
  BY DEF ovs_flow_cmd_del, heap, readState
<1>3. /\ tbl.ti \in TiObj /\ tbl.ti \in Live /\ tbl.ma \in ArrObj /\ tbl.ma \in Live
      /\ tbl.count \in Int /\ tbl.ufid_count \in Int /\ tbl.ufid \subseteq Linked
      /\ Linked \subseteq FlowObj /\ g \in FlowObj
      /\ g \in Live /\ flow[g].mask \in MaskObj
  BY DEF TypeOK, TableInv, TblType, Linked
<1>4. /\ cmd'[t].pc = "mask_remove" /\ cmd'[t].flow = g
      /\ \A x \in Threads : x # t => cmd'[x] = cmd[x]
  BY <1>1 DEF TypeOK, IdleCmd
<1>5. /\ tbl' \in TblType /\ tbl'.ti = tbl.ti /\ tbl'.ma = tbl.ma
      /\ tbl'.ufid = tbl.ufid \ {g}
  <2>1. tbl \in TblType
    BY DEF TypeOK
  <2>2. /\ tbl.count - 1 \in Int /\ tbl.ufid \ {g} \subseteq FlowObj
        /\ (IF flow[g].ufid # NULL THEN tbl.ufid_count - 1 ELSE tbl.ufid_count) \in Int
    BY <1>3
  <2>3. tbl' = [ti |-> tbl.ti, ma |-> tbl.ma, count |-> tbl.count - 1,
                ufid |-> tbl.ufid \ {g},
                ufid_count |-> IF flow[g].ufid # NULL THEN tbl.ufid_count - 1
                                                      ELSE tbl.ufid_count]
    BY <1>1, <2>1 DEF TblType
  <2> QED
    BY <1>3, <2>2, <2>3 DEF TblType
<1>6. /\ Linked' = Linked \ {g}
      /\ ti' \in [TiObj -> [flows : SUBSET FlowObj, n_buckets : Nat]]
  BY <1>1, <1>3, <1>5 DEF Linked, TypeOK
<1>7. cand' \in [Readers -> SUBSET FlowObj]
  BY <1>1 DEF Unlinks, TypeOK
<1>8. TypeOK'
  BY <1>1, <1>2, <1>3, <1>5, <1>6, <1>7 DEF TypeOK, IdleCmd, CmdType, Obj
<1>9. LockInv'
  BY <1>2, <1>4, PoolsAssumption DEF LockInv, LockedPcs, Procs
<1>10. Live' = Live
  BY <1>2 DEF Live
<1>11. \A x \in Threads : cmd[x].pc \in FlowPcs => cmd[x].flow # g
  BY DEF HeldInv
<1>12. HeldInv'
  BY <1>2, <1>3, <1>4, <1>6, <1>10, <1>11 DEF HeldInv, FlowPcs
<1>13. FlushInv'
  <2>1. \A x \in Threads : cmd'[x].pc # "flush"
    BY <1>2, <1>4, PoolsAssumption DEF LockInv, LockedPcs, Procs
  <2> QED
    BY <2>1 DEF FlushInv
<1>14. TableInv'
  BY <1>2, <1>3, <1>5, <1>6, <1>10 DEF TableInv
<1>15. ActsInv' /\ PendInv'
  BY <1>2, <1>10 DEF ActsInv, PendInv
<1> QED
  BY <1>8, <1>9, <1>12, <1>13, <1>14, <1>15

\* flow_mask_remove() keeps it: the mask, and a mask array that is replaced, pass
\* from the table to their RCU callbacks.
LEMMA MaskRemoveOwn ==
  ASSUME OwnInv, NEW t \in Threads, flow_mask_remove(t)
  PROVE  OwnInv'
<1> USE DEF OwnInv
<1> DEFINE mo == flow[cmd[t].flow].mask
           a  == tbl_mask_array_delete_mask(arr[tbl.ma], mo)
<1>1. /\ cmd[t].pc = "mask_remove" /\ ovs_mutex' = NULL
      /\ cmd' = [cmd EXCEPT ![t].pc = "del_reply"]
      /\ UNCHANGED <<flow, ti, rcu, rd, cand, seen>>
  BY DEF flow_mask_remove, readState, history
<1>2. /\ ovs_mutex = t /\ mo \in MaskObj
  BY <1>1 DEF HeldInv, LockInv, LockedPcs, FlowPcs
<1>3. /\ tbl.ti \in TiObj /\ tbl.ma \in ArrObj /\ tbl.ma \in Live /\ IsMaskArray(a)
      /\ cmd[t] \in CmdType
  BY DeleteMaskType DEF TypeOK, TableInv, TblType
<1>4. /\ cmd'[t].pc = "del_reply" /\ cmd'[t].flow = cmd[t].flow
      /\ cmd' \in [Threads -> CmdType]
      /\ \A x \in Threads : x # t => cmd'[x] = cmd[x]
  <2>1. [cmd[t] EXCEPT !.pc = "del_reply"] \in CmdType
    BY <1>3 DEF CmdType
  <2>2. cmd' = [cmd EXCEPT ![t] = [cmd[t] EXCEPT !.pc = "del_reply"]]
    BY <1>1 DEF TypeOK
  <2> QED
    BY <1>3, <2>1, <2>2 DEF TypeOK, CmdType
<1> HIDE DEF mo, a
<1>5. /\ tbl' \in TblType /\ tbl'.ti = tbl.ti /\ tbl'.ufid = tbl.ufid
      /\ arr' = [o \in ArrObj |-> arr'[o]] /\ \A o \in ArrObj : IsMaskArray(arr'[o])
      /\ alloc \subseteq alloc' /\ alloc' \ alloc \subseteq ArrObj
      /\ pend' \subseteq pend \cup {mo, tbl.ma}
      /\ wait' \in [Obj -> SUBSET Procs]
      /\ tbl'.ma \in Live'
  <2>1. CASE /\ UNCHANGED <<heap, arr, tbl>>
    BY <1>3, <2>1 DEF heap, TypeOK, Live
  <2>2. CASE /\ arr' = [arr EXCEPT ![tbl.ma] = a]
             /\ call_rcu({mo})
             /\ UNCHANGED <<alloc, tbl>>
    BY <1>2, <1>3, <2>2, PoolsAssumption DEF call_rcu, TypeOK, Live
  <2>3. CASE \E na \in Free(ArrObj), b \in InOrder(Used(a)) :
             /\ alloc' = alloc \cup {na}
             /\ arr' = [arr EXCEPT ![tbl.ma] = a,
                          ![na] = tbl_mask_array_alloc(a.max \div 2, a, b)]
             /\ tbl' = [tbl EXCEPT !.ma = na]
             /\ call_rcu({mo, tbl.ma})
    <3>1. PICK na \in ArrObj \ alloc, b \in InOrder(Used(a)) :
             /\ alloc' = alloc \cup {na}
             /\ arr' = [arr EXCEPT ![tbl.ma] = a,
                          ![na] = tbl_mask_array_alloc(a.max \div 2, a, b)]
             /\ tbl' = [tbl EXCEPT !.ma = na]
             /\ call_rcu({mo, tbl.ma})
      BY <2>3 DEF Free
    <3>2. IsMaskArray(tbl_mask_array_alloc(a.max \div 2, a, b))
      <4>1. a.max \div 2 \in Int
        BY <1>3 DEF IsMaskArray
      <4> QED
        BY <1>3, <4>1, ReallocType
    <3>3. arr' = [o \in ArrObj |-> arr'[o]] /\ \A o \in ArrObj : IsMaskArray(arr'[o])
      BY <1>3, <3>1, <3>2 DEF TypeOK
    <3>4. /\ tbl' \in TblType /\ tbl'.ti = tbl.ti /\ tbl'.ufid = tbl.ufid /\ tbl'.ma = na
      BY <3>1 DEF TypeOK, TblType
    <3>5. pend' = pend \cup {mo, tbl.ma} /\ wait' \in [Obj -> SUBSET Procs]
      BY <3>1 DEF call_rcu, TypeOK
    <3>6. na \in Live'
      BY <1>2, <1>3, <3>1, <3>5, PoolsAssumption DEF Live, PendInv
    <3> QED
      BY <3>1, <3>3, <3>4, <3>5, <3>6
  <2> QED
    BY <2>1, <2>2, <2>3 DEF flow_mask_remove, a, mo
<1>6. Linked' = Linked
  BY <1>1, <1>5 DEF Linked
<1>7. \A o \in FlowObj \cup ActObj \cup TiObj :
        (o \in Live => o \in Live') /\ (o \in alloc' => o \in alloc)
  BY <1>2, <1>3, <1>5, PoolsAssumption DEF Live
<1>8. TypeOK'
  <2>1. mask[mo].ref \in Nat /\ mask[mo].ref >= 1
    <3>1. mask \in [MaskObj -> [m : SUBSET Fields, ref : Nat]]
      BY DEF TypeOK
    <3>2. mask[mo].ref > 1 \/ mask[mo].ref = 1
      BY Zenon DEF flow_mask_remove, mo
    <3> QED
      BY <1>2, <3>1, <3>2
  <2>2. mask' = [mask EXCEPT ![mo].ref = @ - 1]
    BY DEF flow_mask_remove, mo
  <2>3. mask' \in [MaskObj -> [m : SUBSET Fields, ref : Nat]]
    BY <1>2, <2>1, <2>2 DEF TypeOK
  <2> QED
    BY <1>1, <1>2, <1>3, <1>4, <1>5, <2>3 DEF TypeOK, Obj
<1>9. LockInv'
  BY <1>1, <1>2, <1>4, PoolsAssumption DEF LockInv, LockedPcs, Procs
<1>10. HeldInv'
  BY <1>1, <1>2, <1>4, <1>6, <1>7 DEF HeldInv, FlowPcs
<1>11. FlushInv'
  <2>1. \A x \in Threads : cmd'[x].pc # "flush"
    BY <1>1, <1>2, <1>4 DEF LockInv, LockedPcs
  <2> QED
    BY <2>1 DEF FlushInv
<1>12. TableInv'
  <2>1. tbl.ti \in Live'
    BY <1>3, <1>7 DEF TableInv
  <2>2. \A f \in Linked : f \in Live' /\ flow'[f].mask \in MaskObj
    BY <1>1, <1>3, <1>7 DEF TableInv, Linked, TypeOK
  <2> QED
    BY <1>5, <1>6, <2>1, <2>2 DEF TableInv
<1>13. ActsInv'
  BY <1>1, <1>7 DEF ActsInv
<1>14. PendInv'
  BY <1>2, <1>3, <1>5 DEF PendInv, Live
<1> QED
  BY <1>8, <1>9, <1>10, <1>11, <1>12, <1>13, <1>14

\* The unlocked steps of ovs_flow_cmd_del() up to the free keep it.
LEMMA DelFillOwn ==
  ASSUME OwnInv, NEW t \in Threads, del_fill_info(t) \/ del_fill_done(t)
  PROVE  OwnInv'
<1> USE DEF OwnInv
<1>1. /\ cmd[t].pc \in {"del_reply", "del_fill"}
      /\ rcu' \subseteq Procs /\ wait' \in [Obj -> SUBSET Procs]
      /\ UNCHANGED <<alloc, pend, flow, mask, arr, ti, tbl, ovs_mutex, rd, cand, seen>>
  BY DEF del_fill_info, del_fill_done, rcu_read_unlock, heap, history, TypeOK, Procs
<1>2. PICK pc \in {"del_fill", "del_free"} : cmd' = [cmd EXCEPT ![t].pc = pc]
  BY DEF del_fill_info, del_fill_done
<1>3. [cmd[t] EXCEPT !.pc = pc] \in CmdType
  BY ZenonT(60) DEF TypeOK, CmdType
<1>4. cmd' = [cmd EXCEPT ![t] = [cmd[t] EXCEPT !.pc = pc]]
  BY <1>2 DEF TypeOK
<1>5. /\ cmd'[t].pc = pc /\ cmd'[t].flow = cmd[t].flow
      /\ \A x \in Threads : x # t => cmd'[x] = cmd[x]
  BY <1>4 DEF TypeOK, CmdType
<1>6. TypeOK'
  BY <1>1, <1>3, <1>4 DEF TypeOK
<1>7. Linked' = Linked /\ Live' = Live
  BY <1>1 DEF Linked, Live
<1>8. LockInv'
  BY <1>1, <1>5 DEF LockInv, LockedPcs
<1>9. HeldInv'
  BY <1>1, <1>5, <1>7 DEF HeldInv, FlowPcs
<1>10. FlushInv'
  BY <1>1, <1>5, <1>7 DEF FlushInv, FlowPcs
<1>11. TableInv' /\ ActsInv' /\ PendInv'
  BY <1>1, <1>7 DEF TableInv, ActsInv, PendInv
<1> QED
  BY <1>6, <1>8, <1>9, <1>10, <1>11

\* ovs_flow_free() keeps it: the flow passes from the command to its callback.
LEMMA FlowFreeOwn ==
  ASSUME OwnInv, NEW t \in Threads, ovs_flow_free(t)
  PROVE  OwnInv'
<1> USE DEF OwnInv
<1> DEFINE f == cmd[t].flow
<1>1. /\ cmd[t].pc \in {"del_reply", "del_free"}
      /\ pend' = pend \cup {f} /\ cmd' = [cmd EXCEPT ![t] = IdleCmd]
      /\ wait' \in [Obj -> SUBSET Procs]
      /\ UNCHANGED <<alloc, rcu, flow, mask, arr, ti, tbl, ovs_mutex, rd, cand, seen>>
  BY DEF ovs_flow_free, call_rcu, readState, history, TypeOK
<1>2. /\ f \in FlowObj /\ f \in Live /\ f \notin Linked
      /\ \A u \in Threads : cmd[u].pc \in FlowPcs /\ cmd[u].flow = f => u = t
  BY <1>1 DEF HeldInv, FlowPcs
<1>3. cmd'[t].pc = "idle" /\ \A x \in Threads : x # t => cmd'[x] = cmd[x]
  BY <1>1 DEF TypeOK, IdleCmd
<1>4. Linked' = Linked /\ \A o \in Live : o # f => o \in Live'
  BY <1>1 DEF Linked, Live
<1>5. \A o \in ActObj \cup MaskObj \cup ArrObj \cup TiObj : o # f
  BY <1>2, PoolsAssumption
<1>6. \A x \in Threads : cmd[x].pc = "flush" => f \notin ti[cmd[x].ti].flows
  BY <1>1 DEF FlushInv, FlowPcs
<1> HIDE DEF f
<1>7. TypeOK'
  BY <1>1, <1>2 DEF TypeOK, IdleCmd, CmdType, Obj
<1>8. LockInv'
  BY <1>1, <1>3 DEF LockInv, LockedPcs
<1>9. HeldInv'
  BY <1>1, <1>2, <1>3, <1>4, <1>5 DEF HeldInv, FlowPcs
<1>10. FlushInv'
  BY <1>1, <1>3, <1>4, <1>5, <1>6 DEF FlushInv, FlowPcs, TypeOK
<1>11. TableInv'
  BY <1>1, <1>2, <1>4, <1>5 DEF TableInv, Linked, TypeOK, TblType
<1>12. ActsInv'
  BY <1>1, <1>4, <1>5 DEF ActsInv
<1>13. PendInv'
  BY <1>1, <1>2 DEF PendInv, Live
<1> QED
  BY <1>7, <1>8, <1>9, <1>10, <1>11, <1>12, <1>13

\* ovs_flow_tbl_flush() keeps it: the instance and its flows pass to the command.
LEMMA FlushOwn ==
  ASSUME OwnInv, NEW t \in Threads, ovs_flow_tbl_flush(t)
  PROVE  OwnInv'
<1> USE DEF OwnInv
<1>1. /\ cmd[t].pc = "idle" /\ ovs_mutex = NULL /\ ovs_mutex' = t
      /\ cmd' = [cmd EXCEPT ![t] = [IdleCmd EXCEPT !.pc = "flush", !.ti = tbl.ti]]
      /\ Unlinks(Linked)
      /\ UNCHANGED <<pend, wait, flow, mask, arr, rcu, rd, seen>>
  BY DEF ovs_flow_tbl_flush, readState
<1>2. PICK new \in TiObj \ alloc :
       /\ alloc' = alloc \cup {new}
       /\ ti' = [ti EXCEPT ![new] = [flows |-> {}, n_buckets |-> TBL_MIN_BUCKETS]]
       /\ tbl' = Flushed(new)
  BY DEF ovs_flow_tbl_flush, Free
<1>3. tbl.ti \in TiObj /\ tbl.ti \in Live /\ tbl.ma \in ArrObj /\ tbl.ma \in Live
  BY DEF TypeOK, TableInv, TblType
<1>4. tbl.ti # new /\ new \in Live' /\ Live \subseteq Live'
  BY <1>1, <1>2, <1>3, PoolsAssumption DEF Live, PendInv
<1>5. /\ cmd'[t].pc = "flush" /\ cmd'[t].ti = tbl.ti
      /\ \A x \in Threads : x # t => cmd'[x] = cmd[x]
  BY <1>1 DEF TypeOK, IdleCmd
<1>6. /\ tbl' \in TblType /\ tbl'.ti = new /\ tbl'.ma = tbl.ma /\ tbl'.ufid = {}
  BY <1>2, <1>3 DEF Flushed, TblType
<1>7. /\ Linked' = {} /\ ti'[tbl.ti].flows = Linked
      /\ ti' \in [TiObj -> [flows : SUBSET FlowObj, n_buckets : Nat]]
  BY <1>2, <1>3, <1>4, <1>6, ConstantsAssumption DEF Linked, TypeOK
<1>8. cand' \in [Readers -> SUBSET FlowObj]
  BY <1>1 DEF Unlinks, TypeOK
<1>9. [IdleCmd EXCEPT !.pc = "flush", !.ti = tbl.ti] \in CmdType
  BY <1>3 DEF IdleCmd, CmdType
<1>10. TypeOK'
  BY <1>1, <1>2, <1>6, <1>7, <1>8, <1>9 DEF TypeOK, Obj
<1>11. LockInv'
  BY <1>1, <1>5, PoolsAssumption DEF LockInv, LockedPcs, Procs
<1>12. \A o \in FlowObj : o \in alloc' => o \in alloc
  BY <1>2, PoolsAssumption
<1>13. HeldInv'
  BY <1>1, <1>4, <1>5, <1>7, <1>12 DEF HeldInv, FlowPcs
<1>14. FlushInv'
  <2>1. \A x \in Threads : x # t => cmd'[x].pc # "flush"
    BY <1>1, <1>5, PoolsAssumption DEF LockInv, LockedPcs, Procs
  <2>2. \A f \in Linked : /\ f \in Live' /\ flow'[f].mask \in MaskObj
                          /\ \A u \in Threads : cmd'[u].pc \in FlowPcs => cmd'[u].flow # f
    BY <1>1, <1>4, <1>5 DEF TableInv, HeldInv, FlowPcs
  <2> QED
    BY <1>3, <1>4, <1>5, <1>6, <1>7, <2>1, <2>2 DEF FlushInv
<1>15. TableInv'
  BY <1>3, <1>4, <1>6, <1>7 DEF TableInv
<1>16. ActsInv'
  BY <1>1, <1>4, <1>12 DEF ActsInv
<1>17. PendInv'
  BY <1>1, <1>2 DEF PendInv
<1> QED
  BY <1>10, <1>11, <1>13, <1>14, <1>15, <1>16, <1>17

\* table_instance_destroy() keeps it: each flow passes from the instance to its
\* callback, and in the end the instance to its own.
LEMMA DestroyOwn ==
  ASSUME OwnInv, NEW t \in Threads, table_instance_destroy(t)
  PROVE  OwnInv'
<1> USE DEF OwnInv
<1> DEFINE old == cmd[t].ti
<1>1. /\ cmd[t].pc = "flush"
      /\ UNCHANGED <<alloc, rcu, flow, mask, arr, tbl, rd, cand, seen>>
  BY DEF table_instance_destroy, readState, history
<1>2. /\ old \in TiObj /\ old \in Live /\ old # tbl.ti /\ Linked = {} /\ ovs_mutex = t
      /\ \A f \in ti[old].flows :
           /\ f \in Live
           /\ flow[f].mask \in MaskObj
           /\ \A u \in Threads : cmd[u].pc \in FlowPcs => cmd[u].flow # f
      /\ ti[old].flows \subseteq FlowObj
      /\ \A x \in Threads : x # t => cmd[x].pc # "flush"
  BY <1>1 DEF FlushInv, LockInv, LockedPcs, TypeOK
<1> HIDE DEF old
<1>3. CASE \E f \in ti[old].flows : /\ ti' = [ti EXCEPT ![old].flows = @ \ {f}]
                                   /\ call_rcu({f})
                                   /\ UNCHANGED <<ovs_mutex, cmd>>
  <2>1. PICK f \in ti[old].flows : /\ ti' = [ti EXCEPT ![old].flows = @ \ {f}]
                                  /\ call_rcu({f})
                                  /\ UNCHANGED <<ovs_mutex, cmd>>
    BY <1>3
  <2>2. f \in FlowObj /\ f \in Live /\ pend' = pend \cup {f}
        /\ wait' \in [Obj -> SUBSET Procs]
    BY <1>2, <2>1 DEF call_rcu, TypeOK
  <2>3. /\ ti'[old].flows = ti[old].flows \ {f}
        /\ ti' \in [TiObj -> [flows : SUBSET FlowObj, n_buckets : Nat]]
        /\ Linked' = {}
    <3>1. tbl.ti \in TiObj
      BY DEF TypeOK, TblType
    <3> QED
      BY <1>1, <1>2, <2>1, <3>1 DEF TypeOK, Linked
  <2>4. /\ \A o \in Live : o # f => o \in Live'
        /\ \A o \in TiObj \cup MaskObj \cup ArrObj \cup ActObj : o # f
    BY <1>1, <2>2, PoolsAssumption DEF Live
  <2>5. TypeOK'
    BY <1>1, <2>1, <2>2, <2>3 DEF TypeOK, Obj
  <2>6. LockInv'
    BY <2>1 DEF LockInv, LockedPcs
  <2>7. HeldInv'
    BY <1>1, <1>2, <2>1, <2>2, <2>3, <2>4 DEF HeldInv
  <2>8. FlushInv'
    BY <1>1, <1>2, <2>1, <2>2, <2>3, <2>4 DEF FlushInv, old
  <2>9. TableInv'
    BY <1>1, <1>2, <2>3, <2>4 DEF TableInv, TypeOK, TblType
  <2>10. ActsInv'
    BY <1>1, <2>4 DEF ActsInv
  <2>11. PendInv'
    BY <1>1, <2>2 DEF PendInv, Live
  <2> QED
    BY <2>5, <2>6, <2>7, <2>8, <2>9, <2>10, <2>11
<1>4. CASE /\ call_rcu({old})
           /\ ovs_mutex' = NULL
           /\ cmd' = [cmd EXCEPT ![t] = IdleCmd]
           /\ UNCHANGED ti
  <2>1. pend' = pend \cup {old} /\ wait' \in [Obj -> SUBSET Procs]
    BY <1>4 DEF call_rcu, TypeOK
  <2>2. cmd'[t].pc = "idle" /\ \A x \in Threads : x # t => cmd'[x] = cmd[x]
    BY <1>4 DEF TypeOK, IdleCmd
  <2>3. /\ \A o \in Live : o # old => o \in Live'
        /\ \A o \in FlowObj \cup MaskObj \cup ArrObj \cup ActObj : o # old
        /\ Linked' = Linked
    BY <1>1, <1>2, <1>4, <2>1, PoolsAssumption DEF Live, Linked
  <2>4. TypeOK'
    BY <1>1, <1>2, <1>4, <2>1 DEF TypeOK, IdleCmd, CmdType, Obj
  <2>5. LockInv'
    BY <1>2, <1>4, <2>2, PoolsAssumption DEF LockInv, LockedPcs, Procs
  <2>6. HeldInv'
    BY <1>1, <2>2, <2>3 DEF HeldInv, FlowPcs
  <2>7. FlushInv'
    BY <1>2, <2>2 DEF FlushInv
  <2>8. TableInv'
    BY <1>1, <1>2, <2>3 DEF TableInv, TypeOK, TblType
  <2>9. ActsInv'
    BY <1>1, <2>3 DEF ActsInv
  <2>10. PendInv'
    BY <1>1, <1>2, <2>1 DEF PendInv, Live
  <2> QED
    BY <2>4, <2>5, <2>6, <2>7, <2>8, <2>9, <2>10
<1> QED
  BY <1>3, <1>4 DEF table_instance_destroy, old

\* RCU callbacks keep it: they only free what was handed to call_rcu(), and the
\* actions of a flow have no other owner.
LEMMA CallbacksOwn ==
  ASSUME OwnInv, rcu_callbacks
  PROVE  OwnInv'
<1> USE DEF OwnInv
<1> DEFINE S == GraceEnded
<1>1. /\ S \subseteq pend
      /\ alloc' = alloc \ (S \cup {flow[f].acts : f \in S \cap FlowObj})
      /\ pend' = pend \ S
      /\ flow' = [f \in FlowObj |-> IF f \in S THEN NoFlow ELSE flow[f]]
      /\ mask' = [mo \in MaskObj |-> IF mo \in S THEN NoMask ELSE mask[mo]]
      /\ arr' = [a \in ArrObj |-> IF a \in S THEN NoArr ELSE arr[a]]
      /\ ti' = [o \in TiObj |-> IF o \in S THEN NoTi ELSE ti[o]]
      /\ UNCHANGED <<wait, tbl, ovs_mutex, cmd, rcu, rd, cand, seen>>
  BY DEF rcu_callbacks, Released, GraceEnded, readState, history
<1> HIDE DEF S
<1>2. \A f \in S \cap FlowObj : f \in alloc /\ flow[f].acts \in ActObj /\ flow[f].acts \in Live
  BY <1>1, PoolsAssumption DEF ActsInv, PendInv, TypeOK, Live, Obj
<1>3. \A o \in Live : /\ o \notin S
                      /\ (\A f \in S \cap FlowObj : flow[f].acts # o) => o \in Live'
  BY <1>1 DEF Live
<1>4. \A o \in FlowObj \cup MaskObj \cup ArrObj \cup TiObj : o \in Live => o \in Live'
  BY <1>2, <1>3, PoolsAssumption
<1>5. \A f \in FlowObj : f \in alloc' => f \in alloc /\ f \notin S /\ flow'[f] = flow[f]
  BY <1>1
<1>6. /\ tbl.ti \in TiObj /\ tbl.ti \in Live /\ tbl.ma \in ArrObj /\ tbl.ma \in Live
      /\ Linked \subseteq FlowObj
  BY DEF TypeOK, TableInv, TblType, Linked
<1>7. Linked' = Linked
  BY <1>1, <1>3, <1>6 DEF Linked
<1>8. \A f \in FlowObj : f \in Live => flow'[f] = flow[f]
  BY <1>1, <1>3
<1>9. TypeOK'
  <2>1. NoFlow \in FlowType /\ NoMask \in [m : SUBSET Fields, ref : Nat]
        /\ IsMaskArray(NoArr) /\ NoTi \in [flows : SUBSET FlowObj, n_buckets : Nat]
    BY ZeroKeyType, EmptyArrType DEF NoFlow, FlowType, NoMask, NoArr, NoTi
  <2>2. flow' \in [FlowObj -> FlowType] /\ mask' \in [MaskObj -> [m : SUBSET Fields, ref : Nat]]
        /\ ti' \in [TiObj -> [flows : SUBSET FlowObj, n_buckets : Nat]]
        /\ arr' = [o \in ArrObj |-> arr'[o]]
        /\ \A o \in ArrObj : IsMaskArray(arr'[o])
    BY <1>1, <2>1 DEF TypeOK
  <2> QED
    BY <1>1, <2>2 DEF TypeOK
<1>10. LockInv'
  BY <1>1 DEF LockInv
<1>11. HeldInv'
  <2>1. ASSUME NEW t \in Threads, cmd[t].pc = "free_old"
        PROVE  cmd[t].acts \in Live'
    BY <1>2, <1>3, <2>1 DEF HeldInv
  <2> QED
    BY <1>1, <1>4, <1>5, <1>7, <1>8, <2>1 DEF HeldInv, FlowPcs
<1>12. FlushInv'
  <2>1. \A t \in Threads : cmd[t].pc = "flush" => ti'[cmd[t].ti] = ti[cmd[t].ti]
    BY <1>1, <1>3 DEF FlushInv
  <2>2. \A t \in Threads : cmd[t].pc = "flush" => ti[cmd[t].ti].flows \subseteq FlowObj
    BY DEF FlushInv, TypeOK
  <2> QED
    BY <1>1, <1>4, <1>7, <1>8, <2>1, <2>2 DEF FlushInv
<1>13. TableInv'
  BY <1>1, <1>4, <1>6, <1>7, <1>8 DEF TableInv
<1>14. ActsInv'
  BY <1>2, <1>3, <1>5 DEF ActsInv
<1>15. PendInv'
  <2>1. \A f \in S \cap FlowObj : flow[f].acts \notin pend
    BY <1>2 DEF Live
  <2> QED
    BY <1>1, <2>1 DEF PendInv
<1> QED
  BY <1>9, <1>10, <1>11, <1>12, <1>13, <1>14, <1>15

\* A reader owns nothing: its steps keep the invariant.
LEMMA ReaderOwn ==
  ASSUME OwnInv, NEW r \in Readers,
         \/ \E k \in Keys, s \in StartIndexes : ovs_flow_tbl_lookup_stats(r, k, s)
         \/ ovs_flow_cmd_dump(r)
         \/ ovs_flow_tbl_dump_next(r)
         \/ Read(r)
  PROVE  OwnInv'
<1> USE DEF OwnInv
<1> DEFINE Frame == /\ UNCHANGED <<alloc, pend, flow, mask, arr, ti, tbl, ovs_mutex, cmd>>
                    /\ rcu' \subseteq Procs /\ wait' \in [Obj -> SUBSET Procs]
                    /\ cand' \in [Readers -> SUBSET FlowObj]
                    /\ seen' \in [Readers -> SUBSET FlowObj]
<1>1. Frame
  <2> USE DEF heap, writerState, history
  <2>1. /\ rcu \subseteq Procs /\ wait \in [Obj -> SUBSET Procs] /\ r \in Procs
        /\ cand \in [Readers -> SUBSET FlowObj] /\ seen \in [Readers -> SUBSET FlowObj]
        /\ Linked \subseteq FlowObj
    BY DEF TypeOK, Procs, Linked, TblType
  <2>2. ASSUME NEW k, NEW s, ovs_flow_tbl_lookup_stats(r, k, s) PROVE Frame
    BY <2>1, <2>2 DEF ovs_flow_tbl_lookup_stats
  <2>3. CASE ovs_flow_cmd_dump(r)
    BY <2>1, <2>3 DEF ovs_flow_cmd_dump
  <2>4. CASE ovs_flow_tbl_dump_next(r)
    BY <2>1, <2>4 DEF ovs_flow_tbl_dump_next
  <2>5. CASE lookup_read_ti(r) \/ flow_lookup(r)
    BY <2>1, <2>5 DEF lookup_read_ti, flow_lookup
  <2>6. CASE lookup_walk(r) \/ ovs_dp_process_packet(r)
    BY <2>1, <2>6 DEF lookup_walk, ovs_dp_process_packet
  <2>7. CASE reader_done(r)
    BY <2>1, <2>7 DEF reader_done, rcu_read_unlock
  <2> HIDE DEF Frame
  <2> QED
    BY <2>2, <2>3, <2>4, <2>5, <2>6, <2>7 DEF Read
<1>2. /\ rd \in [Readers -> RdType] /\ rd[r] \in RdType
      /\ tbl.ti \in TiObj /\ tbl.ma \in ArrObj
      /\ IdleRd \in RdRecord /\ Linked \subseteq FlowObj
      /\ \A f \in FlowObj : flow[f] \in FlowType
  BY ZeroKeyType DEF TypeOK, TblType, IdleRd, RdRecord, Linked
<1>3. rd' \in [Readers -> RdType]
  <2>1. SUFFICES ASSUME NEW x, rd' = [rd EXCEPT ![r] = x] PROVE x \in RdType
    <3>1. \E x : rd' = [rd EXCEPT ![r] = x]
      BY <1>2 DEF ovs_flow_tbl_lookup_stats, ovs_flow_cmd_dump, ovs_flow_tbl_dump_next, Read,
         lookup_read_ti, flow_lookup, lookup_walk, ovs_dp_process_packet, reader_done
    <3> QED
      BY <1>2, <3>1
  <2>2. rd'[r] = x
    BY <1>2, <2>1
  <2> USE DEF RdType, RdRecord
  <2>3. ASSUME NEW k \in Keys, NEW s \in StartIndexes, ovs_flow_tbl_lookup_stats(r, k, s)
        PROVE  x \in RdType
    <3>1. x = [IdleRd EXCEPT !.pc = "ti", !.key = k, !.start = s, !.ma = tbl.ma]
      BY <1>2, <2>2, <2>3 DEF ovs_flow_tbl_lookup_stats
    <3>2. k \in KeyType /\ s \in Nat \ {0}
      BY ConstantsAssumption
    <3> QED
      BY ZenonT(60), <1>2, <3>1, <3>2 DEF IdleRd
  <2>4. CASE ovs_flow_cmd_dump(r)
    BY ZenonT(60), <1>2, <2>2, <2>4 DEF ovs_flow_cmd_dump, IdleRd
  <2>5. CASE ovs_flow_tbl_dump_next(r)
    <3>1. PICK f \in ti[rd[r].ti].flows :
            x = [rd[r] EXCEPT !.flow = f, !.mask = flow[f].mask, !.acts = flow[f].acts]
      BY <1>2, <2>2, <2>5 DEF ovs_flow_tbl_dump_next
    <3>2. f \in FlowObj
      BY <1>2, <2>5 DEF ovs_flow_tbl_dump_next, TypeOK
    <3>3. flow[f].mask \in MaskObj \cup {NULL} /\ flow[f].acts \in ActObj \cup {NULL}
      BY <1>2, <3>2 DEF FlowType
    <3>4. rd[r].pc = "dump" /\ rd[r].ti \in TiObj
      BY <1>2, <2>5 DEF ovs_flow_tbl_dump_next
    <3> QED
      BY <1>2, <3>1, <3>2, <3>3, <3>4
  <2>6. CASE lookup_read_ti(r)
    BY <1>2, <2>2, <2>6 DEF lookup_read_ti
  <2>7. CASE flow_lookup(r)
    <3> DEFINE a == arr[rd[r].ma]
               sl == Slot(rd[r].i, rd[r].start)
    <3>1. rd[r].pc = "mask" /\ IsMaskArray(a)
      BY <1>2, <2>7 DEF flow_lookup, TypeOK
    <3>2. CASE x = [IdleRd EXCEPT !.pc = "miss", !.key = rd[r].key]
      BY <1>2, <3>2 DEF IdleRd
    <3>3. CASE x = [rd[r] EXCEPT !.i = rd[r].i + 1]
      BY <1>2, <3>3
    <3>4. CASE Searches(a, rd[r].i, rd[r].start) /\ x = [rd[r] EXCEPT !.pc = "walk", !.mask = a.masks[sl]]
      <4>1. sl \in 1..a.max
        BY <1>2, <3>1, <3>4 DEF Searches, Slot, IsMaskArray
      <4>2. a.masks[sl] \in MaskObj \cup {NULL}
        BY <3>1, <4>1 DEF IsMaskArray
      <4> HIDE DEF a, sl
      <4> QED
        BY <1>2, <3>1, <3>4, <4>2
    <3> QED
      BY <1>2, <2>2, <2>7, <3>2, <3>3, <3>4 DEF flow_lookup
  <2>8. CASE lookup_walk(r)
    <3> DEFINE hits == masked_flow_lookup(ti[rd[r].ti].flows, rd[r].key, rd[r].mask)
    <3>1. rd[r].pc = "walk" /\ rd[r].ti \in TiObj
      BY <1>2, <2>8 DEF lookup_walk
    <3>2. hits \subseteq FlowObj
      BY <3>1 DEF masked_flow_lookup, TypeOK
    <3>3. CASE \E f \in hits : x = [IdleRd EXCEPT !.pc = "hit", !.key = rd[r].key, !.flow = f]
      <4> HIDE DEF hits
      <4>1. PICK f \in hits : x = [IdleRd EXCEPT !.pc = "hit", !.key = rd[r].key, !.flow = f]
        BY <3>3
      <4>2. f \in FlowObj /\ rd[r].key \in KeyType
        BY <1>2, <3>2
      <4> QED
        BY <1>2, <4>1, <4>2 DEF IdleRd
    <3>4. CASE x = [rd[r] EXCEPT !.pc = "mask", !.i = rd[r].i + 1, !.mask = NULL]
      <4> HIDE DEF hits
      <4>1. rd[r] \in RdRecord /\ rd[r].ma \in ArrObj /\ rd[r].ti \in TiObj
        BY <1>2, <3>1
      <4>2. x = [pc |-> "mask", key |-> rd[r].key, start |-> rd[r].start,
                 i |-> rd[r].i + 1, ma |-> rd[r].ma, ti |-> rd[r].ti, mask |-> NULL,
                 flow |-> rd[r].flow, acts |-> rd[r].acts]
        BY <4>1, <3>4
      <4>3. rd[r].i + 1 \in Nat
        BY <4>1
      <4> QED
        BY <4>1, <4>2, <4>3
    <3>5. \/ \E f \in hits : rd' = [rd EXCEPT ![r] = [IdleRd EXCEPT !.pc = "hit",
                                                    !.key = rd[r].key, !.flow = f]]
          \/ rd' = [rd EXCEPT ![r].pc = "mask", ![r].i = @ + 1, ![r].mask = NULL]
      BY <2>8 DEF lookup_walk
    <3> HIDE DEF hits, RdType, RdRecord
    <3> QED
      BY <1>2, <2>2, <3>3, <3>4, <3>5
  <2>9. CASE ovs_dp_process_packet(r)
    BY ZenonT(60), <1>2, <2>2, <2>9 DEF ovs_dp_process_packet, FlowType
  <2>10. CASE reader_done(r)
    BY <1>2, <2>2, <2>10 DEF reader_done, IdleRd
  <2> QED
    BY <2>3, <2>4, <2>5, <2>6, <2>7, <2>8, <2>9, <2>10 DEF Read
<1>5. TypeOK'
  BY <1>1, <1>3 DEF TypeOK
<1>6. Linked' = Linked /\ Live' = Live
  BY <1>1 DEF Linked, Live
<1> QED
  BY <1>1, <1>5, <1>6 DEF LockInv, HeldInv, FlushInv, TableInv, ActsInv, PendInv

\* A step that changes nothing keeps it.
LEMMA StutterOwn == ASSUME OwnInv, UNCHANGED vars PROVE OwnInv'
<1>1. Linked' = Linked /\ Live' = Live
  BY DEF vars, Linked, Live
<1>2. TypeOK'
  BY DEF OwnInv, TypeOK, vars
<1> QED
  BY <1>1, <1>2 DEF OwnInv, vars, LockInv, HeldInv, FlushInv, TableInv, ActsInv, PendInv

\* Every step of every process keeps it.
LEMMA NextOwn == OwnInv /\ [Next]_vars => OwnInv'
<1> SUFFICES ASSUME OwnInv, [Next]_vars PROVE OwnInv'
  OBVIOUS
<1>1. ASSUME NEW t \in Threads, NewCommand(t) PROVE OwnInv'
  BY <1>1, NewOwn DEF NewCommand
<1>2. ASSUME NEW t \in Threads, SetCommand(t) PROVE OwnInv'
  BY <1>2, SetOwn DEF SetCommand
<1>3. ASSUME NEW t \in Threads, DelCommand(t) PROVE OwnInv'
  BY <1>3, DelOwn DEF DelCommand
<1>4. ASSUME NEW t \in Threads, FlushCommand(t) PROVE OwnInv'
  BY <1>4, FlushOwn DEF FlushCommand
<1>5. ASSUME NEW t \in Threads, Proceed(t) PROVE OwnInv'
  BY <1>5, MaskInsertOwn, KeyInsertOwn, FreeOldOwn, MaskRemoveOwn, DelFillOwn, FlowFreeOwn,
     DestroyOwn DEF Proceed
<1>6. CASE \E r \in Cpus : Lookup(r)
  BY <1>6, ReaderOwn DEF Lookup, Readers
<1>7. CASE \E r \in Dumpers : ovs_flow_cmd_dump(r) \/ ovs_flow_tbl_dump_next(r)
  BY <1>7, ReaderOwn DEF Readers
<1>8. CASE \E r \in Readers : Read(r)
  BY <1>8, ReaderOwn
<1>9. CASE rcu_callbacks
  BY <1>9, CallbacksOwn
<1>10. CASE UNCHANGED vars
  BY <1>10, StutterOwn
<1> QED
  BY <1>1, <1>2, <1>3, <1>4, <1>5, <1>6, <1>7, <1>8, <1>9, <1>10 DEF Next

\* Every object of the flow table has exactly one owner at all times, whatever the
\* numbers of flows, masks, commands and readers: nothing a command, the table or a
\* pending callback owns is freed, or handed to call_rcu(), by anyone else.
THEOREM Ownership == Spec => []OwnInv
BY InitOwn, NextOwn, PTL DEF Spec

\* The types of all objects, locals and counters.
THEOREM TypeCorrect == Spec => []TypeOK
<1>1. OwnInv => TypeOK
  BY DEF OwnInv
<1> QED
  BY <1>1, Ownership, PTL

\* The flow ovs_flow_cmd_del() works on without ovs_mutex, and its actions, stay
\* allocated until the handler itself frees the flow.
THEOREM DeleteSafe == Spec => []DelSafe
<1>1. OwnInv => DelSafe
  BY DEF OwnInv, DelSafe, HeldInv, FlowPcs, ActsInv, Live
<1> QED
  BY <1>1, Ownership, PTL

-----------------------------------------------------------------------------
(* Mask arrays as sets of masks. *)

\* The masks of an array, and whether it counts them and holds each once.
Holds(a) == {a.masks[i] : i \in Used(a)}
ExactArray(a) ==
  /\ a.count = Cardinality(Used(a))
  /\ \A i, j \in Used(a) : a.masks[i] = a.masks[j] => i = j

\* The slots in use are finitely many.
LEMMA UsedFinite ==
  ASSUME NEW a, IsMaskArray(a)
  PROVE  IsFiniteSet(Used(a)) /\ Cardinality(Used(a)) \in Nat
<1>1. 1 \in Int /\ a.max \in Int
  BY DEF IsMaskArray
<1>2. IsFiniteSet(1..a.max)
  BY <1>1, FS_Interval
<1> QED
  BY <1>2, FS_Subset, FS_CardinalityType DEF Used

\* A count of slots.
LEMMA SlotCount ==
  ASSUME NEW n \in Nat
  PROVE  IsFiniteSet(1..n) /\ Cardinality(1..n) = n
<1>1. 1 \in Int /\ n \in Int
  OBVIOUS
<1>2. IsFiniteSet(1..n) /\ Cardinality(1..n) = IF 1 > n THEN 0 ELSE n - 1 + 1
  BY <1>1, FS_Interval
<1> QED
  BY <1>2

\* Of the slots that are free there is a lowest one.
LEMMA LowestSlot ==
  ASSUME NEW S, S \subseteq Nat, S # {}
  PROVE  \E i \in S : \A j \in S : ~(j < i)
<1> DEFINE R == {p \in Nat \X Nat : p[1] < p[2]}
<1>1. R = OpToRel(<, Nat)
  BY DEF OpToRel
<1>2. IsWellFoundedOn(R, Nat)
  BY <1>1, NatLessThanWellFounded
<1> HIDE DEF R
<1>3. PICK i \in S : \A j \in S : <<j, i>> \notin R
  BY <1>2, WFMin
<1> QED
  BY <1>3 DEF R

\* The mask goes to one slot that was free, if the array counts less than it has.
LEMMA EmptySlotExists ==
  ASSUME NEW a, IsMaskArray(a), Cardinality(Used(a)) < a.max
  PROVE  \E s \in 1..a.max : s \notin Used(a) /\ EmptySlot(a) = {s}
<1> DEFINE S == {i \in 1..a.max : a.masks[i] = NULL}
<1>1. a.max \in Nat
  BY DEF IsMaskArray
<1>2. S # {}
  <2> SUFFICES ASSUME S = {} PROVE FALSE
    OBVIOUS
  <2>1. Used(a) = 1..a.max
    BY DEF Used
  <2>2. Cardinality(1..a.max) = a.max
    BY <1>1, FS_Interval
  <2> QED
    BY <1>1, <2>1, <2>2
<1>3. S \subseteq Nat
  OBVIOUS
<1> HIDE DEF S
<1>4. PICK s \in S : \A j \in S : ~(j < s)
  BY <1>2, <1>3, LowestSlot
<1> QED
  BY <1>1, <1>4 DEF S, EmptySlot, Used

\* tbl_mask_array_add_mask() adds the mask, and only it.
LEMMA AddMaskHolds ==
  ASSUME NEW a, IsMaskArray(a), ExactArray(a), Cardinality(Used(a)) < a.max,
         NEW mo \in MaskObj, mo \notin Holds(a)
  PROVE  ExactArray(AddMask(a, mo)) /\ Holds(AddMask(a, mo)) = Holds(a) \cup {mo}
<1> DEFINE b == AddMask(a, mo)
<1>1. PICK s \in 1..a.max : s \notin Used(a) /\ EmptySlot(a) = {s}
  BY EmptySlotExists
<1>2. mo # NULL
  BY PoolsAssumption DEF Obj
<1>3. /\ b.max = a.max /\ b.count = a.count + 1
      /\ b.masks = [i \in 1..a.max |-> IF i = s THEN mo ELSE a.masks[i]]
  BY <1>1 DEF AddMask
<1> HIDE DEF b
<1>4. Used(b) = Used(a) \cup {s}
  BY <1>1, <1>2, <1>3 DEF Used
<1>5. /\ b.masks[s] = mo
      /\ \A i \in Used(a) : b.masks[i] = a.masks[i] /\ b.masks[i] # mo
  BY <1>1, <1>3 DEF Used, Holds
<1>6. b.count = Cardinality(Used(b))
  BY ZenonT(60), <1>1, <1>3, <1>4, UsedFinite, FS_AddElement DEF ExactArray
<1>7. ExactArray(b)
  BY <1>4, <1>5, <1>6 DEF ExactArray
<1>8. Holds(b) = Holds(a) \cup {mo}
  BY <1>4, <1>5 DEF Holds
<1> QED
  BY <1>7, <1>8 DEF b

\* tbl_mask_array_delete_mask() deletes the mask, and only it.
LEMMA DeleteMaskHolds ==
  ASSUME NEW a, IsMaskArray(a), ExactArray(a), NEW mo \in Holds(a)
  PROVE  /\ ExactArray(tbl_mask_array_delete_mask(a, mo))
         /\ Holds(tbl_mask_array_delete_mask(a, mo)) = Holds(a) \ {mo}
<1> DEFINE b == tbl_mask_array_delete_mask(a, mo)
<1>1. PICK k \in Used(a) : a.masks[k] = mo
  BY DEF Holds
<1>2. /\ b.max = a.max /\ b.count = a.count - 1
      /\ b.masks = [i \in 1..a.max |-> IF a.masks[i] = mo THEN NULL ELSE a.masks[i]]
  BY DEF tbl_mask_array_delete_mask
<1> HIDE DEF b
<1>3. \A i \in Used(a) : a.masks[i] = mo => i = k
  BY <1>1 DEF ExactArray
<1>4. Used(b) = Used(a) \ {k}
  BY <1>1, <1>2, <1>3 DEF Used
<1>5. \A i \in Used(b) : b.masks[i] = a.masks[i] /\ a.masks[i] # mo
  BY <1>1, <1>2, <1>3, <1>4 DEF Used
<1>6. b.count = Cardinality(Used(b))
  BY <1>1, <1>2, <1>4, UsedFinite, FS_RemoveElement DEF ExactArray
<1>7. ExactArray(b)
  BY <1>4, <1>5, <1>6 DEF ExactArray
<1>8. Holds(b) = Holds(a) \ {mo}
  BY <1>1, <1>3, <1>4, <1>5 DEF Holds
<1> QED
  BY <1>7, <1>8 DEF b

\* tbl_mask_array_realloc() moves all masks, if the new array has room for them.
LEMMA ReallocHolds ==
  ASSUME NEW a, IsMaskArray(a), ExactArray(a), NEW size \in Int, NEW p \in InOrder(Used(a)),
         Cardinality(Used(a)) <= Imax(MASK_ARRAY_SIZE_MIN, size)
  PROVE  /\ ExactArray(tbl_mask_array_alloc(size, a, p))
         /\ Holds(tbl_mask_array_alloc(size, a, p)) = Holds(a)
         /\ Used(tbl_mask_array_alloc(size, a, p)) = 1..Cardinality(Used(a))
         /\ tbl_mask_array_alloc(size, a, p).max = Imax(MASK_ARRAY_SIZE_MIN, size)
<1> DEFINE n == Cardinality(Used(a))
           max == Imax(MASK_ARRAY_SIZE_MIN, size)
           b == tbl_mask_array_alloc(size, a, p)
<1>1. n \in Nat /\ max \in Nat /\ n <= max
  BY UsedFinite, ConstantsAssumption DEF Imax
<1>2. /\ p \in [1..n -> Used(a)]
      /\ \A i, j \in 1..n : i < j => p[i] < p[j]
      /\ \A s \in Used(a) : \E i \in 1..n : p[i] = s
  BY DEF InOrder
<1>3. /\ b.max = max /\ b.count = n
      /\ b.masks = [i \in 1..max |-> IF i <= n THEN a.masks[p[i]] ELSE NULL]
  BY DEF tbl_mask_array_alloc
<1> HIDE DEF b, n, max
<1>4. /\ \A i \in 1..n : i \in 1..max /\ b.masks[i] = a.masks[p[i]] /\ p[i] \in Used(a)
      /\ \A i \in 1..max : i \notin 1..n => b.masks[i] = NULL
  BY <1>1, <1>2, <1>3
<1>5. Used(b) = 1..n
  <2>1. \A i \in 1..n : b.masks[i] # NULL
    BY <1>4 DEF Used
  <2> QED
    BY <1>1, <1>3, <1>4, <2>1 DEF Used
<1>6. \A i, j \in 1..n : p[i] = p[j] => i = j
  <2>1. \A i, j \in 1..n : i < j \/ j < i \/ i = j
    BY <1>1
  <2>2. \A i \in 1..n : p[i] \in Nat
    BY <1>2 DEF Used
  <2> QED
    BY <1>2, <2>1, <2>2
<1>7. Cardinality(1..n) = n
  BY <1>1, FS_Interval
<1>8. ExactArray(b)
  BY SMTT(60), <1>3, <1>4, <1>5, <1>6, <1>7 DEF ExactArray
<1>9. Holds(b) = Holds(a)
  BY <1>2, <1>4, <1>5 DEF Holds
<1> QED
  BY <1>3, <1>5, <1>8, <1>9 DEF b, n, max

-----------------------------------------------------------------------------
(* The invariant of the mask array. *)

\* The masks packets search, and the flows that keep them there: those that are linked,
\* and those a command is about to link or has just unlinked.
Published == Holds(arr[tbl.ma])
Held      == {cmd[t].flow : t \in {u \in Threads : cmd[u].pc \in {"key_insert", "mask_remove"}}}
Using     == Linked \cup Held
Users(mo) == {f \in Using : flow[f].mask = mo}

\* What is published is live, in one slot, and no two of it are equal; the mask of every
\* user is published and counts a reference for each of them; a mask that is not published
\* waits for its callback.
MaskInv ==
  /\ ExactArray(arr[tbl.ma])
  /\ \A x, y \in Published : mask[x].m = mask[y].m => x = y
  /\ \A x \in Published : x \in Live /\ mask[x].ref > 0
  /\ \A f \in Using : flow[f].mask \in Published
  /\ \A mo \in MaskObj : Cardinality(Users(mo)) <= mask[mo].ref
  /\ pend \cap MaskObj \subseteq alloc
  /\ alloc \cap MaskObj \subseteq pend \cup Published
  /\ tbl.count = Cardinality(Linked)

\* The flows in use are live flows, and finitely many.
LEMMA UsingLive ==
  ASSUME OwnInv
  PROVE  /\ Using \subseteq FlowObj \cap Live
         /\ IsFiniteSet(Linked) /\ Cardinality(Linked) \in Nat
         /\ \A mo : IsFiniteSet(Users(mo)) /\ Cardinality(Users(mo)) \in Nat
<1>1. Linked \subseteq FlowObj /\ Linked \subseteq Live
  BY DEF OwnInv, TypeOK, TblType, TableInv, Linked
<1>2. Held \subseteq FlowObj \cap Live
  BY DEF OwnInv, HeldInv, FlowPcs, Held
<1>3. \A mo : Users(mo) \subseteq FlowObj
  BY <1>1, <1>2 DEF Users, Using
<1> QED
  BY <1>1, <1>2, <1>3, ConstantsAssumption, FS_Subset, FS_CardinalityType DEF Using

\* What is published are masks.
LEMMA PublishedMasks ==
  ASSUME OwnInv
  PROVE  Published \subseteq MaskObj /\ IsMaskArray(arr[tbl.ma]) /\ tbl.ma \in ArrObj
<1>1. tbl.ma \in ArrObj /\ IsMaskArray(arr[tbl.ma])
  BY DEF OwnInv, TypeOK, TblType
<1> QED
  BY <1>1 DEF Published, Holds, Used, IsMaskArray

\* No thread uses a flow in a section when none holds the mutex, and t alone when it does.
LEMMA HeldOne ==
  ASSUME OwnInv, NEW t \in Threads, ovs_mutex = t \/ ovs_mutex = NULL
  PROVE  /\ cmd[t].pc \in {"key_insert", "mask_remove"} => Held = {cmd[t].flow}
         /\ cmd[t].pc \notin {"key_insert", "mask_remove"} => Held = {}
<1>1. \A u \in Threads : cmd[u].pc \in {"key_insert", "mask_remove"} => u = t
  BY PoolsAssumption DEF OwnInv, LockInv, LockedPcs, Procs
<1> QED
  BY <1>1 DEF Held

\* A step that leaves the published masks alone and lets nothing new use them keeps it.
LEMMA MaskFrame ==
  ASSUME OwnInv, OwnInv', MaskInv,
         arr'[tbl'.ma] = arr[tbl.ma],
         \A x \in Published : mask'[x] = mask[x] /\ x \in Live',
         Using' \subseteq Using, \A f \in Using' : flow'[f].mask = flow[f].mask,
         \A mo \in MaskObj : mo \in pend' => mo \in alloc',
         \A mo \in MaskObj : mo \in alloc' => mo \in alloc /\ (mo \in pend => mo \in pend'),
         tbl'.count = Cardinality(Linked')
  PROVE  MaskInv'
<1>1. Published' = Published
  BY DEF Published
<1>2. Published \subseteq MaskObj
  BY PublishedMasks
<1>3. ExactArray(arr[tbl.ma])'
  BY DEF MaskInv, ExactArray, Used
<1>4. \A x, y \in Published' : mask'[x].m = mask'[y].m => x = y
  BY <1>1 DEF MaskInv
<1>5. \A x \in Published' : x \in Live' /\ mask'[x].ref > 0
  BY <1>1 DEF MaskInv
<1>6. \A f \in Using' : flow'[f].mask \in Published'
  BY <1>1 DEF MaskInv
<1>7. ASSUME NEW mo \in MaskObj
      PROVE  Cardinality(Users(mo)') <= mask'[mo].ref
  <2>1. Users(mo)' \subseteq Users(mo)
    BY DEF Users
  <2>2. IsFiniteSet(Users(mo)) /\ Cardinality(Users(mo)) \in Nat
    BY UsingLive
  <2>3. Cardinality(Users(mo)') <= Cardinality(Users(mo)) /\ Cardinality(Users(mo)') \in Nat
    BY <2>1, <2>2, FS_Subset, FS_CardinalityType
  <2>4. mask[mo].ref \in Nat /\ mask'[mo].ref \in Nat
    BY DEF OwnInv, TypeOK
  <2>5. CASE mo \in Published
    BY <2>2, <2>3, <2>4, <2>5 DEF MaskInv
  <2>6. CASE mo \notin Published
    <3>1. Users(mo)' = {}
      BY <1>1, <1>6, <2>6 DEF Users
    <3> QED
      BY <2>4, <3>1, FS_EmptySet
  <2> QED
    BY <2>5, <2>6
<1>8. (pend \cap MaskObj \subseteq alloc)' /\ (alloc \cap MaskObj \subseteq pend \cup Published)'
  BY <1>1 DEF MaskInv
<1>9. (\A mo \in MaskObj : Cardinality(Users(mo)) <= mask[mo].ref)'
  BY <1>7
<1> QED
  BY <1>3, <1>4, <1>5, <1>6, <1>8, <1>9 DEF MaskInv

\* So does one that touches no mask and no mask array.
LEMMA MaskQuiet ==
  ASSUME OwnInv, OwnInv', MaskInv, UNCHANGED <<mask, arr>>, tbl'.ma = tbl.ma,
         \A o \in MaskObj : (o \in alloc' <=> o \in alloc) /\ (o \in pend' <=> o \in pend),
         Using' \subseteq Using, \A f \in Using' : flow'[f].mask = flow[f].mask,
         tbl'.count = Cardinality(Linked')
  PROVE  MaskInv'
<1>1. Published \subseteq MaskObj
  BY PublishedMasks
<1>2. \A x \in Published : x \in Live'
  BY <1>1 DEF MaskInv, Live
<1>3. \A mo \in MaskObj : mo \in pend' => mo \in alloc'
  BY DEF MaskInv
<1> QED
  BY <1>2, <1>3, MaskFrame

\* ovs_flow_tbl_init() establishes it.
LEMMA InitMask == Init => MaskInv
<1> SUFFICES ASSUME Init PROVE MaskInv
  OBVIOUS
<1>1. PICK a \in ArrObj, t \in TiObj :
        /\ alloc = {a, t}
        /\ arr = [o \in ArrObj |-> IF o = a THEN EmptyArr(MASK_ARRAY_SIZE_MIN) ELSE NoArr]
        /\ ti  = [o \in TiObj |-> IF o = t
                     THEN [flows |-> {}, n_buckets |-> TBL_MIN_BUCKETS] ELSE NoTi]
        /\ tbl = [ti |-> t, ma |-> a, ufid |-> {}, count |-> 0, ufid_count |-> 0]
  BY DEF Init
<1>2. /\ arr[tbl.ma] = EmptyArr(MASK_ARRAY_SIZE_MIN) /\ Linked = {} /\ tbl.count = 0
      /\ pend = {} /\ mask = [mo \in MaskObj |-> NoMask] /\ Held = {}
  BY <1>1 DEF Init, Linked, Held, IdleCmd
<1>3. Used(arr[tbl.ma]) = {} /\ arr[tbl.ma].count = 0
  BY <1>2 DEF EmptyArr, Used
<1>4. Published = {} /\ \A mo : Users(mo) = {}
  BY <1>2, <1>3 DEF Published, Holds, Users, Using
<1>5. Cardinality({}) = 0
  BY FS_EmptySet
<1>6. ExactArray(arr[tbl.ma])
  BY <1>3, <1>5 DEF ExactArray
<1>7. \A mo \in MaskObj : Cardinality(Users(mo)) <= mask[mo].ref
  <2> SUFFICES ASSUME NEW mo \in MaskObj PROVE Cardinality(Users(mo)) <= mask[mo].ref
    OBVIOUS
  <2>1. Users(mo) = {} /\ mask[mo].ref = 0
    BY <1>2, <1>4 DEF NoMask
  <2> QED
    BY <1>5, <2>1
<1>8. Using = {} /\ tbl.count = Cardinality(Linked) /\ alloc \cap MaskObj = {}
  BY <1>1, <1>2, <1>5, PoolsAssumption DEF Using
<1> QED
  BY <1>2, <1>4, <1>6, <1>7, <1>8 DEF MaskInv

\* Replacing actions concerns no mask.
LEMMA ReplaceMask ==
  ASSUME OwnInv, OwnInv', MaskInv, NEW t \in Threads, NEW g \in Linked, NEW a \in ActObj,
         NEW s \in BOOLEAN, cmd[t].pc = "idle", ReplaceActs(t, g, a, s),
         UNCHANGED <<pend, wait, mask, arr, ti, tbl, ovs_mutex, readState, history>>
  PROVE  MaskInv'
<1>1. /\ alloc' = alloc \cup {a} /\ flow' = [flow EXCEPT ![g].acts = a]
      /\ cmd' = [cmd EXCEPT ![t] = [IdleCmd EXCEPT !.pc = "free_old",
                                        !.acts = flow[g].acts, !.sameid = s]]
  BY DEF ReplaceActs, AssignActs
<1>2. cmd'[t].pc = "free_old" /\ \A x \in Threads : x # t => cmd'[x] = cmd[x]
  BY <1>1 DEF OwnInv, TypeOK, IdleCmd
<1>3. Linked' = Linked /\ Held' = Held
  BY <1>2 DEF Linked, Held
<1>4. \A f \in FlowObj : flow'[f].mask = flow[f].mask
  BY <1>1 DEF OwnInv, TypeOK
<1>5. Using' = Using /\ \A f \in Using' : flow'[f].mask = flow[f].mask
  BY <1>3, <1>4, UsingLive DEF Using
<1>6. \A o \in MaskObj : (o \in alloc' <=> o \in alloc) /\ (o \in pend' <=> o \in pend)
  BY <1>1, PoolsAssumption
<1>7. tbl'.ma = tbl.ma /\ tbl'.count = Cardinality(Linked')
  BY <1>3 DEF MaskInv
<1> QED
  BY <1>5, <1>6, <1>7, MaskQuiet

\* A new flow uses its mask only later.
LEMMA NewMask ==
  ASSUME OwnInv, OwnInv', MaskInv, NEW t \in Threads, NEW f \in FlowObj, NEW a \in ActObj,
         NEW k \in Keys, NEW m \in MaskVals, NEW u \in Ids, NEW excl \in BOOLEAN,
         ovs_flow_cmd_new(t, f, a, k, m, u, excl)
  PROVE  MaskInv'
<1> DEFINE masked == ovs_flow_mask_key(k, m)
           matchkey == IF u # NULL THEN masked ELSE k
           fresh == [mask |-> NULL, key |-> masked, ufid |-> u,
                     ukey |-> IF u # NULL THEN ZeroKey ELSE k, acts |-> a]
<1>1. /\ cmd[t].pc = "idle" /\ f \notin alloc
      /\ UNCHANGED <<pend, wait, rcu, mask, arr, ti, tbl, rd, cand, seen>>
  BY DEF ovs_flow_cmd_new, Free, readState, history
<1>2. CASE /\ alloc' = alloc \cup {f, a}
           /\ flow' = [flow EXCEPT ![f] = fresh]
           /\ cmd' = [cmd EXCEPT ![t] = [IdleCmd EXCEPT !.pc = "mask_insert",
                                          !.flow = f, !.m = m]]
  <2> HIDE DEF fresh, masked
  <2>1. cmd'[t].pc = "mask_insert" /\ \A x \in Threads : x # t => cmd'[x] = cmd[x]
    BY <1>2 DEF OwnInv, TypeOK, IdleCmd
  <2>2. Linked' = Linked /\ Held' = Held
    BY <1>1, <2>1 DEF Linked, Held
  <2>3. \A g \in FlowObj : g # f => flow'[g] = flow[g]
    BY <1>2 DEF OwnInv, TypeOK
  <2>4. Using' = Using /\ \A g \in Using' : flow'[g].mask = flow[g].mask
    BY <1>1, <2>2, <2>3, UsingLive DEF Using, Live
  <2>5. \A o \in MaskObj : (o \in alloc' <=> o \in alloc) /\ (o \in pend' <=> o \in pend)
    BY <1>1, <1>2, PoolsAssumption
  <2>6. tbl'.ma = tbl.ma /\ tbl'.count = Cardinality(Linked')
    BY <1>1, <2>2 DEF MaskInv
  <2> QED
    BY <1>1, <2>4, <2>5, <2>6, MaskQuiet
<1>3. CASE \E g \in Linked : ReplaceActs(t, g, a, flow[g].ufid = u) /\ UNCHANGED ovs_mutex
  BY <1>1, <1>3, ReplaceMask DEF readState, history
<1>4. ASSUME NEW d \in IF u # NULL /\ ovs_flow_tbl_lookup_ufid(u) # {}
                      THEN ovs_flow_tbl_lookup_ufid(u) ELSE ovs_flow_tbl_lookup(masked)
      PROVE  d \in Linked
  BY <1>4 DEF ovs_flow_tbl_lookup, ovs_flow_tbl_lookup_ufid, OwnInv, TableInv
<1>5. ovs_flow_tbl_lookup_exact(matchkey) \subseteq Linked
  BY DEF ovs_flow_tbl_lookup_exact
<1> QED
  <2> HIDE DEF fresh, masked, matchkey
  <2> QED
    BY <1>2, <1>3, <1>4, <1>5 DEF ovs_flow_cmd_new, fresh, masked, matchkey

\* Nor does a request to set actions concern one.
LEMMA SetMask ==
  ASSUME OwnInv, OwnInv', MaskInv, NEW t \in Threads, NEW a \in ActObj, NEW k, NEW u,
         ovs_flow_cmd_set(t, a, k, u)
  PROVE  MaskInv'
BY SelectedLinked, ReplaceMask DEF OwnInv, ovs_flow_cmd_set

\* Neither do what the commands do once they have unlocked, and the readers.
LEMMA UnlockedMask ==
  ASSUME OwnInv, OwnInv', MaskInv,
         UNCHANGED <<alloc, flow, mask, arr, ti, tbl>>,
         \A o \in MaskObj : o \in pend' <=> o \in pend,
         Held' \subseteq Held
  PROVE  MaskInv'
<1>1. Using' \subseteq Using /\ Linked' = Linked
  BY DEF Using, Linked
<1>2. tbl'.count = Cardinality(Linked')
  BY <1>1 DEF MaskInv
<1> QED
  BY <1>1, <1>2, MaskQuiet

\* An unlocked command step that replaces cmd[t] by x holds nothing new.
LEMMA LessHeld ==
  ASSUME TypeOK, NEW t \in Threads, NEW x, cmd' = [cmd EXCEPT ![t] = x],
         x.pc \notin {"key_insert", "mask_remove"}
  PROVE  Held' \subseteq Held
<1>1. cmd'[t] = x /\ \A u \in Threads : u # t => cmd'[u] = cmd[u]
  BY DEF TypeOK
<1> QED
  BY <1>1 DEF Held

\* Freeing replaced actions, filling in a notification and freeing the deleted flow.
LEMMA AfterUnlockMask ==
  ASSUME OwnInv, OwnInv', MaskInv, NEW t \in Threads,
         \/ ovs_nla_free_flow_actions_rcu(t) \/ del_fill_info(t) \/ del_fill_done(t)
         \/ ovs_flow_free(t)
  PROVE  MaskInv'
<1>1. CASE ovs_nla_free_flow_actions_rcu(t)
  <2>1. /\ cmd[t].pc = "free_old" /\ pend' = pend \cup {cmd[t].acts}
        /\ cmd' = [cmd EXCEPT ![t] = IdleCmd]
        /\ UNCHANGED <<alloc, flow, mask, arr, ti, tbl>>
    BY <1>1 DEF ovs_nla_free_flow_actions_rcu, call_rcu
  <2>2. cmd[t].acts \notin MaskObj
    BY <2>1, PoolsAssumption DEF OwnInv, HeldInv
  <2>3. Held' \subseteq Held
    BY <2>1, LessHeld DEF OwnInv, IdleCmd
  <2> QED
    BY <2>1, <2>2, <2>3, UnlockedMask
<1>2. CASE ovs_flow_free(t)
  <2>1. /\ cmd[t].pc \in FlowPcs /\ pend' = pend \cup {cmd[t].flow}
        /\ cmd' = [cmd EXCEPT ![t] = IdleCmd]
        /\ UNCHANGED <<alloc, flow, mask, arr, ti, tbl>>
    BY <1>2 DEF ovs_flow_free, call_rcu, FlowPcs
  <2>2. cmd[t].flow \notin MaskObj
    BY <2>1, PoolsAssumption DEF OwnInv, HeldInv
  <2>3. Held' \subseteq Held
    BY <2>1, LessHeld DEF OwnInv, IdleCmd
  <2> QED
    BY <2>1, <2>2, <2>3, UnlockedMask
<1>3. CASE del_fill_info(t) \/ del_fill_done(t)
  <2>1. /\ UNCHANGED <<alloc, pend, flow, mask, arr, ti, tbl>>
        /\ \E pc \in {"del_fill", "del_free"} : cmd' = [cmd EXCEPT ![t].pc = pc]
    BY <1>3 DEF del_fill_info, del_fill_done, heap
  <2>2. cmd'[t].pc \in {"del_fill", "del_free"} /\ \A u \in Threads : u # t => cmd'[u] = cmd[u]
    BY <2>1 DEF OwnInv, TypeOK, CmdType
  <2>3. Held' \subseteq Held
    BY <2>2 DEF Held
  <2> QED
    BY <2>1, <2>3, UnlockedMask
<1> QED
  BY <1>1, <1>2, <1>3

\* Readers, and steps that change nothing.
LEMMA ReaderMask ==
  ASSUME OwnInv, OwnInv', MaskInv, NEW r \in Readers,
         \/ \E k \in Keys, s \in StartIndexes : ovs_flow_tbl_lookup_stats(r, k, s)
         \/ ovs_flow_cmd_dump(r)
         \/ ovs_flow_tbl_dump_next(r)
         \/ Read(r)
         \/ UNCHANGED vars
  PROVE  MaskInv'
<1>1. UNCHANGED <<alloc, pend, flow, mask, arr, ti, tbl, cmd>>
  <2>1. CASE \E k \in Keys, s \in StartIndexes : ovs_flow_tbl_lookup_stats(r, k, s)
    BY <2>1 DEF ovs_flow_tbl_lookup_stats, heap, writerState
  <2>2. CASE ovs_flow_cmd_dump(r) \/ ovs_flow_tbl_dump_next(r)
    BY <2>2 DEF ovs_flow_cmd_dump, ovs_flow_tbl_dump_next, heap, writerState
  <2>3. CASE Read(r)
    BY <2>3 DEF Read, lookup_read_ti, flow_lookup, lookup_walk, ovs_dp_process_packet,
                reader_done, heap, writerState
  <2> QED
    BY <2>1, <2>2, <2>3 DEF vars
<1>2. Held' = Held
  BY <1>1 DEF Held
<1> QED
  BY <1>1, <1>2, UnlockedMask

\* Linking a flow: it used its mask already.
LEMMA KeyInsertMask ==
  ASSUME OwnInv, OwnInv', MaskInv, NEW t \in Threads, flow_key_insert(t)
  PROVE  MaskInv'
<1> DEFINE f == cmd[t].flow
           flows == Linked \cup {f}
<1>1. /\ cmd[t].pc = "key_insert" /\ ovs_mutex' = NULL
      /\ cmd' = [cmd EXCEPT ![t] = IdleCmd]
      /\ UNCHANGED <<flow, mask, arr>>
  BY DEF flow_key_insert, readState
<1>2. /\ f \in FlowObj /\ f \notin Linked /\ ovs_mutex = t
  BY <1>1 DEF OwnInv, HeldInv, LockInv, LockedPcs, FlowPcs
<1>3. /\ tbl.ti \in TiObj /\ tbl.count \in Int
  BY DEF OwnInv, TypeOK, TblType
<1>4. /\ tbl'.ma = tbl.ma /\ tbl'.count = tbl.count + 1
      /\ ti'[tbl'.ti].flows = flows
      /\ alloc \subseteq alloc' /\ alloc' \ alloc \subseteq TiObj
      /\ pend \subseteq pend' /\ pend' \subseteq pend \cup {tbl.ti}
  <2> HIDE DEF f, flows
  <2> DEFINE Table(inst) ==
          [ti |-> inst, ma |-> tbl.ma, count |-> tbl.count + 1,
           ufid |-> IF flow[f].ufid # NULL THEN tbl.ufid \cup {f} ELSE tbl.ufid,
           ufid_count |-> IF flow[f].ufid # NULL THEN tbl.ufid_count + 1
                                                 ELSE tbl.ufid_count]
  <2>1. ASSUME NEW inst
        PROVE  Table(inst).ti = inst /\ Table(inst).ma = tbl.ma
               /\ Table(inst).count = tbl.count + 1
    OBVIOUS
  <2> HIDE DEF Table
  <2>2. CASE /\ ti' = [ti EXCEPT ![tbl.ti].flows = flows]
             /\ tbl' = Table(tbl.ti)
             /\ UNCHANGED heap
    BY <1>3, <2>1, <2>2 DEF OwnInv, TypeOK, heap
  <2>3. CASE \E new \in Free(TiObj) :
          /\ alloc' = alloc \cup {new}
          /\ ti' = [ti EXCEPT ![tbl.ti].flows = flows,
                      ![new] = [flows |-> flows, n_buckets |-> NewBuckets(tbl.count + 1, ti[tbl.ti].n_buckets)]]
          /\ tbl' = Table(new)
          /\ call_rcu({tbl.ti})
    BY <1>3, <2>1, <2>3 DEF OwnInv, TypeOK, call_rcu, Free
  <2> QED
    BY <2>2, <2>3 DEF flow_key_insert, Table, f, flows
<1>5. Linked' = flows /\ Held = {f}
  BY <1>1, <1>2, <1>4, HeldOne DEF Linked
<1>6. Held' \subseteq Held
  BY <1>1, LessHeld DEF OwnInv, IdleCmd
<1>7. Cardinality(flows) = Cardinality(Linked) + 1
  BY <1>2, UsingLive, FS_AddElement
<1>8. tbl'.count = Cardinality(Linked')
  BY <1>4, <1>5, <1>7 DEF MaskInv
<1>9. Using' \subseteq Using
  BY <1>5, <1>6 DEF Using
<1>10. \A o \in MaskObj : (o \in alloc' <=> o \in alloc) /\ (o \in pend' <=> o \in pend)
  BY <1>3, <1>4, PoolsAssumption
<1> QED
  BY <1>1, <1>4, <1>8, <1>9, <1>10, MaskQuiet

\* Unlinking one: it keeps its mask for a while.
LEMMA DelMask ==
  ASSUME OwnInv, OwnInv', MaskInv, NEW t \in Threads, NEW k, NEW u, ovs_flow_cmd_del(t, k, u)
  PROVE  MaskInv'
<1>1. PICK g \in Linked :
       /\ ti' = [ti EXCEPT ![tbl.ti].flows = @ \ {g}]
       /\ tbl' = [tbl EXCEPT !.count = @ - 1,
                    !.ufid = @ \ {g},
                    !.ufid_count = IF flow[g].ufid # NULL THEN @ - 1 ELSE @]
       /\ cmd' = [cmd EXCEPT ![t] = [IdleCmd EXCEPT !.pc = "mask_remove", !.flow = g]]
  BY SelectedLinked DEF OwnInv, ovs_flow_cmd_del
<1>2. /\ cmd[t].pc = "idle" /\ ovs_mutex = NULL
      /\ UNCHANGED <<alloc, pend, flow, mask, arr>>
  BY DEF ovs_flow_cmd_del, heap
<1>3. tbl.ti \in TiObj /\ tbl.count \in Int
  BY DEF OwnInv, TypeOK, TblType
<1>4. tbl'.ti = tbl.ti /\ tbl'.ma = tbl.ma /\ tbl'.count = tbl.count - 1
  BY <1>1 DEF OwnInv, TypeOK, TblType
<1>5. /\ cmd'[t].pc = "mask_remove" /\ cmd'[t].flow = g
      /\ \A x \in Threads : x # t => cmd'[x] = cmd[x]
  BY <1>1 DEF OwnInv, TypeOK, IdleCmd
<1>6. Linked' = Linked \ {g}
  BY <1>1, <1>3, <1>4 DEF Linked, OwnInv, TypeOK
<1>7. Held' \subseteq Held \cup {g}
  BY <1>5 DEF Held
<1>8. Using' \subseteq Using
  BY <1>6, <1>7 DEF Using
<1>9. Cardinality(Linked \ {g}) = Cardinality(Linked) - 1
  BY UsingLive, FS_RemoveElement
<1>10. tbl'.count = Cardinality(Linked')
  BY <1>4, <1>6, <1>9 DEF MaskInv
<1> QED
  BY <1>2, <1>4, <1>8, <1>10, MaskQuiet

\* A flush: the masks stay, without a flow.
LEMMA FlushMask ==
  ASSUME OwnInv, OwnInv', MaskInv, NEW t \in Threads, ovs_flow_tbl_flush(t)
  PROVE  MaskInv'
<1>1. /\ cmd[t].pc = "idle" /\ ovs_mutex = NULL
      /\ cmd' = [cmd EXCEPT ![t] = [IdleCmd EXCEPT !.pc = "flush", !.ti = tbl.ti]]
      /\ UNCHANGED <<pend, flow, mask, arr>>
  BY DEF ovs_flow_tbl_flush
<1>2. PICK new \in TiObj :
       /\ alloc' = alloc \cup {new}
       /\ ti' = [ti EXCEPT ![new] = [flows |-> {}, n_buckets |-> TBL_MIN_BUCKETS]]
       /\ tbl' = Flushed(new)
  BY DEF ovs_flow_tbl_flush, Free
<1>3. tbl'.ma = tbl.ma /\ tbl'.count = 0 /\ tbl'.ti = new
  BY <1>2 DEF Flushed
<1>4. Linked' = {}
  BY <1>2, <1>3 DEF Linked, OwnInv, TypeOK
<1>5. Held' \subseteq Held
  BY <1>1, LessHeld DEF OwnInv, IdleCmd
<1>6. \A o \in MaskObj : (o \in alloc' <=> o \in alloc) /\ (o \in pend' <=> o \in pend)
  BY <1>1, <1>2, PoolsAssumption
<1>7. Using' \subseteq Using
  BY <1>4, <1>5 DEF Using
<1>8. tbl'.count = Cardinality(Linked')
  BY <1>3, <1>4, FS_EmptySet
<1> QED
  BY <1>1, <1>3, <1>6, <1>7, <1>8, MaskQuiet

\* Destroying the old instance: its flows are not in use any more.
LEMMA DestroyMask ==
  ASSUME OwnInv, OwnInv', MaskInv, NEW t \in Threads, table_instance_destroy(t)
  PROVE  MaskInv'
<1> DEFINE old == cmd[t].ti
<1>1. /\ cmd[t].pc = "flush" /\ UNCHANGED <<alloc, flow, mask, arr, tbl>>
  BY DEF table_instance_destroy
<1>2. /\ old \in TiObj /\ old # tbl.ti /\ ti[old].flows \subseteq FlowObj /\ tbl.ti \in TiObj
  BY <1>1 DEF OwnInv, FlushInv, TypeOK, TblType
<1> HIDE DEF old
<1>3. CASE \E f \in ti[old].flows : /\ ti' = [ti EXCEPT ![old].flows = @ \ {f}]
                                   /\ call_rcu({f})
                                   /\ UNCHANGED <<ovs_mutex, cmd>>
  <2>1. PICK f \in ti[old].flows : /\ ti' = [ti EXCEPT ![old].flows = @ \ {f}]
                                  /\ pend' = pend \cup {f}
                                  /\ UNCHANGED cmd
    BY <1>3 DEF call_rcu
  <2>2. f \notin MaskObj
    BY <1>2, PoolsAssumption
  <2>3. Linked' = Linked /\ Held' = Held
    BY <1>1, <1>2, <2>1 DEF Linked, Held, OwnInv, TypeOK
  <2>4. Using' = Using /\ tbl'.count = Cardinality(Linked')
    BY <1>1, <2>3 DEF Using, MaskInv
  <2> QED
    BY <1>1, <2>1, <2>2, <2>4, MaskQuiet
<1>4. CASE /\ call_rcu({old})
           /\ cmd' = [cmd EXCEPT ![t] = IdleCmd]
           /\ UNCHANGED ti
  <2>1. pend' = pend \cup {old} /\ old \notin MaskObj
    BY <1>2, <1>4, PoolsAssumption DEF call_rcu
  <2>2. Held' \subseteq Held
    BY <1>4, LessHeld DEF OwnInv, IdleCmd
  <2> QED
    BY <1>1, <1>4, <2>1, <2>2, UnlockedMask
<1> QED
  BY <1>3, <1>4 DEF table_instance_destroy, old

\* Callbacks only free masks that are not published.
LEMMA CallbacksMask ==
  ASSUME OwnInv, OwnInv', MaskInv, rcu_callbacks
  PROVE  MaskInv'
<1> DEFINE S == GraceEnded
<1>1. /\ S \subseteq pend
      /\ alloc' = alloc \ (S \cup {flow[f].acts : f \in S \cap FlowObj})
      /\ pend' = pend \ S
      /\ flow' = [f \in FlowObj |-> IF f \in S THEN NoFlow ELSE flow[f]]
      /\ mask' = [mo \in MaskObj |-> IF mo \in S THEN NoMask ELSE mask[mo]]
      /\ arr' = [a \in ArrObj |-> IF a \in S THEN NoArr ELSE arr[a]]
      /\ ti' = [o \in TiObj |-> IF o \in S THEN NoTi ELSE ti[o]]
      /\ UNCHANGED <<tbl, cmd>>
  BY DEF rcu_callbacks, Released, GraceEnded
<1> HIDE DEF S
<1>2. /\ tbl.ti \in TiObj /\ tbl.ti \in Live /\ tbl.ma \in ArrObj /\ tbl.ma \in Live
  BY DEF OwnInv, TypeOK, TableInv, TblType
<1>3. \A f \in S \cap FlowObj : flow[f].acts \in ActObj
  BY <1>1, PoolsAssumption DEF OwnInv, ActsInv, PendInv
<1>4. \A o \in MaskObj : /\ o \in alloc' <=> o \in alloc /\ o \notin S
                         /\ o \in pend' <=> o \in pend /\ o \notin S
  BY <1>1, <1>3, PoolsAssumption
<1>5. \A o \in Live : o \notin S
  BY <1>1 DEF Live
<1>6. arr'[tbl'.ma] = arr[tbl.ma] /\ Linked' = Linked /\ Held' = Held
  BY <1>1, <1>2, <1>5 DEF Linked, Held
<1>7. Published \subseteq MaskObj /\ \A x \in Published : x \in Live
  BY PublishedMasks DEF MaskInv
<1>8. \A x \in Published : mask'[x] = mask[x] /\ x \in Live'
  BY <1>1, <1>4, <1>5, <1>7 DEF Live
<1>9. Using' = Using /\ \A f \in Using' : flow'[f].mask = flow[f].mask
  <2>1. Using \subseteq FlowObj /\ \A f \in Using : f \in Live
    BY UsingLive
  <2>2. Using' = Using
    BY <1>6 DEF Using
  <2> QED
    BY <1>1, <1>5, <2>1, <2>2
<1>10. \A mo \in MaskObj : mo \in pend' => mo \in alloc'
  BY <1>4 DEF MaskInv
<1>12. \A mo \in MaskObj : mo \in alloc' => mo \in alloc /\ (mo \in pend => mo \in pend')
  BY <1>4
<1>11. tbl'.count = Cardinality(Linked')
  BY <1>1, <1>6 DEF MaskInv
<1> QED
  BY <1>6, <1>8, <1>9, <1>10, <1>11, <1>12, MaskFrame

\* A flow that begins to use a mask becomes its only new user.
LEMMA NewUser ==
  ASSUME OwnInv, NEW t \in Threads, NEW mo \in MaskObj, cmd[t].pc = "mask_insert",
         flow' = [flow EXCEPT ![cmd[t].flow].mask = mo],
         cmd' = [cmd EXCEPT ![t].pc = "key_insert"],
         ti' = ti, tbl'.ti = tbl.ti
  PROVE  /\ Linked' = Linked
         /\ cmd[t].flow \in FlowObj /\ cmd[t].flow \notin Using
         /\ Using' = Using \cup {cmd[t].flow}
         /\ flow'[cmd[t].flow].mask = mo
         /\ \A f \in Using : flow'[f].mask = flow[f].mask
         /\ Users(mo)' = Users(mo) \cup {cmd[t].flow}
         /\ \A x : x # mo => Users(x)' = Users(x)
<1> DEFINE g == cmd[t].flow
<1>1. /\ g \in FlowObj /\ g \notin Linked /\ ovs_mutex = t
  BY DEF OwnInv, HeldInv, LockInv, LockedPcs, FlowPcs
<1>2. Held = {}
  BY <1>1, HeldOne
<1>3. /\ cmd'[t].pc = "key_insert" /\ cmd'[t].flow = g
      /\ \A x \in Threads : x # t => cmd'[x] = cmd[x]
  BY DEF OwnInv, TypeOK, CmdType
<1>4. /\ flow'[g].mask = mo
      /\ \A f \in FlowObj : f # g => flow'[f] = flow[f]
  BY <1>1 DEF OwnInv, TypeOK, FlowType
<1> HIDE DEF g
<1>5. Linked' = Linked
  BY DEF Linked
<1>6. Held' = {g}
  <2>1. \A x \in Threads : cmd'[x].pc \in {"key_insert", "mask_remove"} => x = t
    BY <1>2, <1>3 DEF Held
  <2> QED
    BY <1>3, <2>1 DEF Held
<1>7. g \notin Using /\ Using' = Using \cup {g}
  BY <1>1, <1>2, <1>5, <1>6 DEF Using
<1>8. \A f \in Using : f \in FlowObj /\ f # g /\ flow'[f].mask = flow[f].mask
  BY <1>4, <1>7, UsingLive
<1>9. Users(mo)' = Users(mo) \cup {g} /\ \A x : x # mo => Users(x)' = Users(x)
  BY <1>4, <1>7, <1>8 DEF Users
<1> QED
  BY <1>1, <1>4, <1>5, <1>7, <1>8, <1>9 DEF g

\* A new mask, in an array that holds it and the masks held before, keeps the invariant.
LEMMA NewMaskFrame ==
  ASSUME OwnInv, OwnInv', MaskInv, NEW t \in Threads, NEW mo \in MaskObj, mo \notin alloc,
         cmd[t].pc = "mask_insert", flow_mask_find(cmd[t].m) = {},
         mask' = [mask EXCEPT ![mo] = [m |-> cmd[t].m, ref |-> 1]],
         flow' = [flow EXCEPT ![cmd[t].flow].mask = mo],
         cmd' = [cmd EXCEPT ![t].pc = "key_insert"],
         ti' = ti, tbl'.ti = tbl.ti, tbl'.count = tbl.count,
         \A o \in MaskObj : (o \in alloc' <=> o \in alloc \cup {mo}) /\ (o \in pend' <=> o \in pend),
         ExactArray(arr'[tbl'.ma]), Holds(arr'[tbl'.ma]) = Published \cup {mo}
  PROVE  MaskInv'
<1> DEFINE g == cmd[t].flow
           m == cmd[t].m
<1>1. /\ Linked' = Linked /\ g \in FlowObj /\ g \notin Using /\ Using' = Using \cup {g}
      /\ flow'[g].mask = mo /\ \A f \in Using : flow'[f].mask = flow[f].mask
      /\ Users(mo)' = Users(mo) \cup {g} /\ \A x : x # mo => Users(x)' = Users(x)
  BY NewUser
<1>2. Published' = Published \cup {mo} /\ Published \subseteq MaskObj
  BY PublishedMasks DEF Published
<1>3. mo \notin Published /\ mo \notin pend
  BY DEF MaskInv, Live
<1>4. /\ mask'[mo] = [m |-> m, ref |-> 1]
      /\ \A x \in MaskObj : x # mo => mask'[x] = mask[x]
  BY DEF OwnInv, TypeOK
<1>5. \A x \in Published : mask[x].m # m
  BY <1>2 DEF flow_mask_find, Published, Holds, Masks
<1> HIDE DEF g, m
<1>6. ExactArray(arr[tbl.ma])'
  BY DEF ExactArray, Used
<1>7. \A x, y \in Published' : mask'[x].m = mask'[y].m => x = y
  BY <1>2, <1>3, <1>4, <1>5 DEF MaskInv
<1>8. \A x \in Published' : x \in Live' /\ mask'[x].ref > 0
  BY <1>2, <1>3, <1>4 DEF MaskInv, Live
<1>9. \A f \in Using' : flow'[f].mask \in Published'
  BY <1>1, <1>2 DEF MaskInv
<1>10. ASSUME NEW x \in MaskObj PROVE Cardinality(Users(x)') <= mask'[x].ref
  <2>1. CASE x = mo
    <3>1. Users(mo) = {}
      BY <1>3 DEF Users, MaskInv
    <3>2. Cardinality({g}) = 1
      BY FS_Singleton
    <3>3. Users(x)' = {g}
      BY <1>1, <2>1, <3>1
    <3>4. mask'[x].ref = 1
      BY <1>4, <2>1
    <3> QED
      BY <3>2, <3>3, <3>4
  <2>2. CASE x # mo
    BY <1>1, <1>4, <2>2 DEF MaskInv
  <2> QED
    BY <2>1, <2>2
<1>11. (pend \cap MaskObj \subseteq alloc)' /\ (alloc \cap MaskObj \subseteq pend \cup Published)'
  BY <1>2 DEF MaskInv
<1>12. tbl'.count = Cardinality(Linked')
  BY <1>1 DEF MaskInv
<1>13. (\A x \in MaskObj : Cardinality(Users(x)) <= mask[x].ref)'
  BY <1>10
<1> QED
  BY <1>6, <1>7, <1>8, <1>9, <1>11, <1>12, <1>13 DEF MaskInv

\* flow_mask_insert(): the mask of the flow is shared, added, added to a larger array, or
\* not to be had.
LEMMA MaskInsertMask ==
  ASSUME OwnInv, OwnInv', MaskInv, NEW t \in Threads, flow_mask_insert(t)
  PROVE  MaskInv'
<1> DEFINE f == cmd[t].flow
           m == cmd[t].m
           a == arr[tbl.ma]
<1>1. cmd[t].pc = "mask_insert" /\ ti' = ti
  BY DEF flow_mask_insert
<1>2. /\ f \in FlowObj /\ f \in Live /\ ovs_mutex = t /\ flow[f].acts \in ActObj
  BY <1>1 DEF OwnInv, HeldInv, LockInv, LockedPcs, FlowPcs, ActsInv, Live
<1>3. tbl.ma \in ArrObj /\ IsMaskArray(a) /\ tbl \in TblType /\ tbl.ma \in alloc
  BY DEF OwnInv, TypeOK, TblType, TableInv, Live
<1>4. ExactArray(a) /\ Cardinality(Used(a)) \in Nat /\ a.max \in Nat
  BY <1>3, UsedFinite DEF MaskInv, IsMaskArray
<1>5. \A mo : mo \notin alloc => mo \notin Holds(a)
  BY DEF MaskInv, Published, Live
<1>6. CASE \E mo \in flow_mask_find(m) :
             /\ mask' = ShareMask(mo)
             /\ flow' = [flow EXCEPT ![f].mask = mo]
             /\ cmd' = [cmd EXCEPT ![t].pc = "key_insert"]
             /\ UNCHANGED <<heap, arr, tbl, ovs_mutex>>
  <2>1. PICK mo \in flow_mask_find(m) :
             /\ mask' = [mask EXCEPT ![mo].ref = @ + 1]
             /\ flow' = [flow EXCEPT ![f].mask = mo]
             /\ cmd' = [cmd EXCEPT ![t].pc = "key_insert"]
             /\ UNCHANGED <<alloc, pend, arr, tbl>>
    BY <1>6 DEF ShareMask, heap
  <2>2. mo \in MaskObj /\ mo \in Published
    BY DEF flow_mask_find, Published, Holds, Masks
  <2>3. /\ Linked' = Linked /\ f \in FlowObj /\ f \notin Using /\ Using' = Using \cup {f}
        /\ flow'[f].mask = mo /\ \A g \in Using : flow'[g].mask = flow[g].mask
        /\ Users(mo)' = Users(mo) \cup {f} /\ \A x : x # mo => Users(x)' = Users(x)
    BY <1>1, <2>1, <2>2, NewUser
  <2>4. /\ mask[mo].ref \in Nat /\ mask'[mo].ref = mask[mo].ref + 1 /\ mask'[mo].m = mask[mo].m
        /\ \A x \in MaskObj : x # mo => mask'[x] = mask[x]
    BY <2>1, <2>2 DEF OwnInv, TypeOK
  <2>5. Published' = Published /\ Published \subseteq MaskObj
    BY <2>1, PublishedMasks DEF Published
  <2> HIDE DEF f, m
  <2>6. ExactArray(arr[tbl.ma])'
    BY <2>1 DEF MaskInv, ExactArray, Used
  <2>7. \A x, y \in Published' : mask'[x].m = mask'[y].m => x = y
    BY <2>2, <2>4, <2>5 DEF MaskInv
  <2>8. \A x \in Published' : x \in Live' /\ mask'[x].ref > 0
    BY <2>1, <2>2, <2>4, <2>5 DEF MaskInv, Live
  <2>9. \A g \in Using' : flow'[g].mask \in Published'
    BY <2>2, <2>3, <2>5 DEF MaskInv
  <2>10. ASSUME NEW x \in MaskObj PROVE Cardinality(Users(x)') <= mask'[x].ref
    <3>1. CASE x = mo
      <4>1. IsFiniteSet(Users(mo)) /\ Cardinality(Users(mo)) \in Nat /\ f \notin Users(mo)
        BY <2>3, UsingLive DEF Users
      <4>2. Cardinality(Users(mo) \cup {f}) = Cardinality(Users(mo)) + 1
        BY <4>1, FS_AddElement
      <4> QED
        <5>1. Users(x)' = Users(mo) \cup {f} /\ mask'[x].ref = mask[mo].ref + 1
          BY <2>3, <2>4, <3>1
        <5>2. Cardinality(Users(mo)) <= mask[mo].ref
          BY <2>2 DEF MaskInv
        <5> QED
          BY <2>4, <4>1, <4>2, <5>1, <5>2
    <3>2. CASE x # mo
      BY <2>3, <2>4, <3>2 DEF MaskInv
    <3> QED
      BY <3>1, <3>2
  <2>11. /\ (pend \cap MaskObj \subseteq alloc)' /\ tbl'.count = Cardinality(Linked')
         /\ (alloc \cap MaskObj \subseteq pend \cup Published)'
    BY <2>1, <2>3, <2>5 DEF MaskInv
  <2>12. (\A x \in MaskObj : Cardinality(Users(x)) <= mask[x].ref)'
    BY <2>10
  <2> QED
    BY <2>6, <2>7, <2>8, <2>9, <2>11, <2>12 DEF MaskInv
<1>7. CASE /\ flow_mask_find(m) = {}
           /\ ~ArrayFull(a)
           /\ \E mo \in Free(MaskObj) :
                /\ alloc' = alloc \cup {mo}
                /\ mask' = [mask EXCEPT ![mo] = [m |-> m, ref |-> 1]]
                /\ arr' = [arr EXCEPT ![tbl.ma] = AddMask(a, mo)]
                /\ flow' = [flow EXCEPT ![f].mask = mo]
                /\ cmd' = [cmd EXCEPT ![t].pc = "key_insert"]
           /\ UNCHANGED <<pend, tbl>>
  <2>1. PICK mo \in MaskObj \ alloc :
             /\ alloc' = alloc \cup {mo}
             /\ mask' = [mask EXCEPT ![mo] = [m |-> m, ref |-> 1]]
             /\ arr' = [arr EXCEPT ![tbl.ma] = AddMask(a, mo)]
             /\ flow' = [flow EXCEPT ![f].mask = mo]
             /\ cmd' = [cmd EXCEPT ![t].pc = "key_insert"]
    BY <1>7 DEF Free
  <2>2. Cardinality(Used(a)) < a.max
    BY <1>4, <1>7 DEF ArrayFull, ExactArray
  <2>3. ExactArray(AddMask(a, mo)) /\ Holds(AddMask(a, mo)) = Holds(a) \cup {mo}
    BY <1>3, <1>4, <1>5, <2>1, <2>2, AddMaskHolds
  <2>4. arr'[tbl'.ma] = AddMask(a, mo)
    BY <1>3, <1>7, <2>1 DEF OwnInv, TypeOK
  <2>5. ExactArray(arr'[tbl'.ma]) /\ Holds(arr'[tbl'.ma]) = Published \cup {mo}
    BY <2>3, <2>4 DEF Published
  <2>6. \A o \in MaskObj : (o \in alloc' <=> o \in alloc \cup {mo}) /\ (o \in pend' <=> o \in pend)
    BY <1>7, <2>1
  <2> HIDE DEF a
  <2> QED
    BY <1>1, <1>7, <2>1, <2>5, <2>6, NewMaskFrame
<1>8. CASE /\ flow_mask_find(m) = {}
           /\ ArrayFull(a)
           /\ \E mo \in Free(MaskObj), na \in Free(ArrObj), b \in InOrder(Used(a)) :
                /\ alloc' = alloc \cup {mo, na}
                /\ mask' = [mask EXCEPT ![mo] = [m |-> m, ref |-> 1]]
                /\ arr' = [arr EXCEPT ![na] =
                     AddMask(tbl_mask_array_alloc(a.max + MASK_ARRAY_SIZE_MIN, a, b), mo)]
                /\ tbl' = [tbl EXCEPT !.ma = na]
                /\ call_rcu({tbl.ma})
                /\ flow' = [flow EXCEPT ![f].mask = mo]
                /\ cmd' = [cmd EXCEPT ![t].pc = "key_insert"]
  <2>1. PICK mo \in MaskObj \ alloc, na \in ArrObj \ alloc, b \in InOrder(Used(a)) :
                /\ alloc' = alloc \cup {mo, na}
                /\ mask' = [mask EXCEPT ![mo] = [m |-> m, ref |-> 1]]
                /\ arr' = [arr EXCEPT ![na] =
                     AddMask(tbl_mask_array_alloc(a.max + MASK_ARRAY_SIZE_MIN, a, b), mo)]
                /\ tbl' = [tbl EXCEPT !.ma = na]
                /\ pend' = pend \cup {tbl.ma}
                /\ flow' = [flow EXCEPT ![f].mask = mo]
                /\ cmd' = [cmd EXCEPT ![t].pc = "key_insert"]
    BY <1>8 DEF Free, call_rcu
  <2> DEFINE size == a.max + MASK_ARRAY_SIZE_MIN
             grown == tbl_mask_array_alloc(size, a, b)
             n == Cardinality(Used(a))
  <2>2. size \in Int /\ n <= Imax(MASK_ARRAY_SIZE_MIN, size) /\ n < Imax(MASK_ARRAY_SIZE_MIN, size)
    <3>1. n <= a.max
      <4>1. IsFiniteSet(1..a.max) /\ Cardinality(1..a.max) = a.max
        BY <1>4, SlotCount
      <4>2. Used(a) \subseteq 1..a.max
        BY DEF Used
      <4> QED
        BY <4>1, <4>2, FS_Subset
    <3> QED
      BY <1>4, <3>1, ConstantsAssumption DEF Imax
  <2>3. IsMaskArray(grown)
    BY <1>3, <2>2, ReallocType
  <2>4. /\ ExactArray(grown) /\ Holds(grown) = Holds(a) /\ Used(grown) = 1..n
        /\ grown.max = Imax(MASK_ARRAY_SIZE_MIN, size)
    BY <1>3, <1>4, <2>2, ReallocHolds
  <2>5. Cardinality(Used(grown)) < grown.max
    <3>1. Cardinality(1..n) = n
      BY <1>4, SlotCount
    <3> QED
      BY <2>2, <2>4, <3>1
  <2>6. ExactArray(AddMask(grown, mo)) /\ Holds(AddMask(grown, mo)) = Holds(grown) \cup {mo}
    BY <1>5, <2>1, <2>3, <2>4, <2>5, AddMaskHolds
  <2>7. arr'[tbl'.ma] = AddMask(grown, mo) /\ tbl'.ti = tbl.ti /\ tbl'.count = tbl.count
    BY <1>3, <2>1 DEF OwnInv, TypeOK, TblType
  <2>8. ExactArray(arr'[tbl'.ma]) /\ Holds(arr'[tbl'.ma]) = Published \cup {mo}
    BY <2>4, <2>6, <2>7 DEF Published
  <2>9. \A o \in MaskObj : (o \in alloc' <=> o \in alloc \cup {mo}) /\ (o \in pend' <=> o \in pend)
    BY <1>3, <2>1, PoolsAssumption
  <2> HIDE DEF a, grown, n, size
  <2> QED
    BY <1>1, <1>8, <2>1, <2>7, <2>8, <2>9, NewMaskFrame
<1>9. CASE /\ alloc' = alloc \ {f, flow[f].acts}
           /\ flow' = [flow EXCEPT ![f] = NoFlow]
           /\ cmd' = [cmd EXCEPT ![t] = IdleCmd]
           /\ UNCHANGED <<pend, mask, arr, tbl>>
  <2>1. \A g \in FlowObj : g # f => flow'[g] = flow[g]
    BY <1>9 DEF OwnInv, TypeOK
  <2>2. Held' \subseteq Held
    BY <1>9, LessHeld DEF OwnInv, IdleCmd
  <2>3. Linked' = Linked
    BY <1>1, <1>9 DEF Linked
  <2>4. Using' \subseteq Using
    BY <2>2, <2>3 DEF Using
  <2>5. f \notin Using
    <3>1. f \notin Linked /\ Held = {}
      BY <1>1, <1>2, HeldOne DEF OwnInv, HeldInv, FlowPcs
    <3> QED
      BY <3>1 DEF Using
  <2>6. \A g \in Using' : flow'[g].mask = flow[g].mask
    BY <2>1, <2>4, <2>5, UsingLive
  <2>7. \A o \in MaskObj : (o \in alloc' <=> o \in alloc) /\ (o \in pend' <=> o \in pend)
    BY <1>2, <1>9, PoolsAssumption
  <2>8. tbl'.count = Cardinality(Linked')
    BY <1>9, <2>3 DEF MaskInv
  <2> QED
    BY <1>9, <2>4, <2>6, <2>7, <2>8, MaskQuiet
<1> QED
  <2> HIDE DEF f, m, a
  <2> QED
    BY <1>6, <1>7, <1>8, <1>9 DEF flow_mask_insert, f, m, a

\* A flow whose mask has been released is the only user the mask loses.
LEMMA LostUser ==
  ASSUME OwnInv, NEW t \in Threads, cmd[t].pc = "mask_remove",
         cmd' = [cmd EXCEPT ![t].pc = "del_reply"],
         UNCHANGED <<flow, ti>>, tbl'.ti = tbl.ti
  PROVE  /\ Linked' = Linked
         /\ cmd[t].flow \in Using
         /\ Using' = Using \ {cmd[t].flow}
         /\ \A x : Users(x)' = Users(x) \ {cmd[t].flow}
<1> DEFINE g == cmd[t].flow
<1>1. g \notin Linked /\ ovs_mutex = t
  BY DEF OwnInv, HeldInv, LockInv, LockedPcs, FlowPcs
<1>2. Held = {g}
  BY <1>1, HeldOne
<1>3. cmd'[t].pc = "del_reply" /\ \A x \in Threads : x # t => cmd'[x] = cmd[x]
  BY DEF OwnInv, TypeOK, CmdType
<1>4. Linked' = Linked
  BY DEF Linked
<1>5. Held' = {}
  <2>1. \A x \in Threads : cmd[x].pc \in {"key_insert", "mask_remove"} => x = t
    BY <1>1 DEF OwnInv, LockInv, LockedPcs
  <2> QED
    BY <1>3, <2>1 DEF Held
<1> HIDE DEF g
<1>6. Using' = Using \ {g} /\ g \in Using
  BY <1>1, <1>2, <1>4, <1>5 DEF Using
<1> QED
  BY <1>4, <1>6 DEF Users, g

\* flow_mask_remove(): the mask of the flow loses a reference; the last one takes it out
\* of the array, which may shrink.
LEMMA MaskRemoveMask ==
  ASSUME OwnInv, OwnInv', MaskInv, NEW t \in Threads, flow_mask_remove(t)
  PROVE  MaskInv'
<1>0. PICK f, mo : f = cmd[t].flow /\ mo = flow[cmd[t].flow].mask
  OBVIOUS
<1> DEFINE a  == tbl_mask_array_delete_mask(arr[tbl.ma], mo)
<1>1. /\ cmd[t].pc = "mask_remove" /\ UNCHANGED <<flow, ti>>
      /\ cmd' = [cmd EXCEPT ![t].pc = "del_reply"]
      /\ mask' = [mask EXCEPT ![mo].ref = @ - 1]
  BY <1>0 DEF flow_mask_remove
<1>2. mo \in MaskObj /\ ovs_mutex = t
  BY <1>0, <1>1 DEF OwnInv, HeldInv, LockInv, LockedPcs, FlowPcs
<1>3. /\ tbl.ma \in ArrObj /\ IsMaskArray(arr[tbl.ma]) /\ tbl \in TblType
      /\ ExactArray(arr[tbl.ma]) /\ Published \subseteq MaskObj
  BY PublishedMasks DEF OwnInv, TypeOK, MaskInv
<1>4. /\ mask[mo].ref \in Nat /\ mask'[mo].ref = mask[mo].ref - 1 /\ mask'[mo].m = mask[mo].m
      /\ \A x \in MaskObj : x # mo => mask'[x] = mask[x]
  BY <1>1, <1>2 DEF OwnInv, TypeOK
<1>5. /\ IsFiniteSet(Users(mo)) /\ Cardinality(Users(mo)) \in Nat
      /\ Cardinality(Users(mo)) <= mask[mo].ref
  BY <1>2, UsingLive DEF MaskInv
<1>6. IsMaskArray(a)
  BY <1>3, DeleteMaskType
<1>7. /\ tbl'.ti = tbl.ti /\ tbl'.count = tbl.count
      /\ \/ /\ mask[mo].ref > 1
            /\ UNCHANGED <<alloc, pend, arr, tbl>>
         \/ /\ mask[mo].ref = 1
            /\ arr' = [arr EXCEPT ![tbl.ma] = a]
            /\ pend' = pend \cup {mo}
            /\ UNCHANGED <<alloc, tbl>>
         \/ /\ mask[mo].ref = 1
            /\ ShrinkMasks(a)
            /\ \E na \in Free(ArrObj), b \in InOrder(Used(a)) :
                 /\ alloc' = alloc \cup {na}
                 /\ arr' = [arr EXCEPT ![tbl.ma] = a,
                              ![na] = tbl_mask_array_alloc(a.max \div 2, a, b)]
                 /\ tbl' = [tbl EXCEPT !.ma = na]
                 /\ pend' = pend \cup {mo, tbl.ma}
  <2> HIDE DEF a
  <2>1. \A na : tbl' = [tbl EXCEPT !.ma = na] => tbl'.ti = tbl.ti /\ tbl'.count = tbl.count
    BY <1>3 DEF TblType
  <2> QED
    BY <1>0, <2>1 DEF flow_mask_remove, a, heap, call_rcu
<1>8. /\ Linked' = Linked /\ f \in Using /\ Using' = Using \ {f}
      /\ \A x : Users(x)' = Users(x) \ {f}
  BY <1>0, <1>1, <1>7, LostUser
<1>9. mo \in Published /\ f \in Users(mo)
  BY <1>0, <1>8 DEF MaskInv, Users
<1>10. tbl'.count = Cardinality(Linked')
  BY <1>7, <1>8 DEF MaskInv
<1>11. Cardinality(Users(mo)') = Cardinality(Users(mo)) - 1
  BY <1>5, <1>8, <1>9, FS_RemoveElement
<1>12. (\A x \in MaskObj : Cardinality(Users(x)) <= mask[x].ref)'
  <2> SUFFICES ASSUME NEW x \in MaskObj PROVE Cardinality(Users(x)') <= mask'[x].ref
    OBVIOUS
  <2>1. CASE x = mo
    BY <1>4, <1>5, <1>11, <2>1
  <2>2. CASE x # mo
    <3>1. f \notin Users(x)
      BY <1>0, <2>2 DEF Users
    <3> QED
      BY <1>4, <1>8, <2>2, <3>1 DEF MaskInv
  <2> QED
    BY <2>1, <2>2
<1>13. CASE mask[mo].ref > 1 /\ UNCHANGED <<alloc, pend, arr, tbl>>
  <2> HIDE DEF a
  <2>1. Published' = Published /\ ExactArray(arr[tbl.ma])'
    BY <1>3, <1>13 DEF Published, ExactArray, Used
  <2>2. \A x, y \in Published' : mask'[x].m = mask'[y].m => x = y
    BY <1>3, <1>4, <2>1 DEF MaskInv
  <2>3. \A x \in Published' : x \in Live' /\ mask'[x].ref > 0
    BY <1>3, <1>4, <1>13, <2>1 DEF MaskInv, Live
  <2>4. \A g \in Using' : flow'[g].mask \in Published'
    BY <1>1, <1>8, <2>1 DEF MaskInv
  <2>5. (pend \cap MaskObj \subseteq alloc)' /\ (alloc \cap MaskObj \subseteq pend \cup Published)'
    BY <1>13, <2>1 DEF MaskInv
  <2> QED
    BY <1>10, <1>12, <2>1, <2>2, <2>3, <2>4, <2>5 DEF MaskInv
<1>14. ASSUME mask[mo].ref = 1, ExactArray(arr'[tbl'.ma]), Holds(arr'[tbl'.ma]) = Published \ {mo},
              \A o \in MaskObj : /\ o \in alloc' <=> o \in alloc
                                 /\ o \in pend' <=> o \in pend \cup {mo}
       PROVE  MaskInv'
  <2> HIDE DEF a
  <2>1. Published' = Published \ {mo} /\ ExactArray(arr[tbl.ma])'
    BY <1>14 DEF Published, ExactArray, Used
  <2>2. \A x, y \in Published' : mask'[x].m = mask'[y].m => x = y
    BY <1>3, <1>4, <2>1 DEF MaskInv
  <2>3. \A x \in Published' : x \in Live' /\ mask'[x].ref > 0
    BY <1>3, <1>4, <1>14, <2>1 DEF MaskInv, Live
  <2>4. Users(mo)' = {}
    <3>1. Users(mo)' \subseteq Users(mo)
      BY <1>8
    <3>2. IsFiniteSet(Users(mo)') /\ Cardinality(Users(mo)') = 0
      BY <1>5, <1>9, <1>11, <1>14, <3>1, FS_Subset, FS_CardinalityType, FS_EmptySet
    <3> QED
      BY <3>2, FS_EmptySet
  <2>5. \A g \in Using' : flow'[g].mask \in Published'
    <3>1. \A g \in Using' : flow'[g].mask \in Published /\ g \notin Users(mo)'
      BY <1>1, <1>8, <2>4 DEF MaskInv
    <3> QED
      BY <2>1, <3>1 DEF Users
  <2>6. (pend \cap MaskObj \subseteq alloc)' /\ (alloc \cap MaskObj \subseteq pend \cup Published)'
    BY <1>2, <1>3, <1>9, <1>14, <2>1 DEF MaskInv, Live
  <2> QED
    BY <1>10, <1>12, <2>1, <2>2, <2>3, <2>5, <2>6 DEF MaskInv
<1>15. ExactArray(a) /\ Holds(a) = Published \ {mo}
  BY <1>3, <1>9, DeleteMaskHolds DEF Published
<1>16. CASE /\ mask[mo].ref = 1
            /\ arr' = [arr EXCEPT ![tbl.ma] = a]
            /\ pend' = pend \cup {mo}
            /\ UNCHANGED <<alloc, tbl>>
  <2> HIDE DEF a
  <2>1. arr'[tbl'.ma] = a
    BY <1>3, <1>16 DEF OwnInv, TypeOK
  <2> QED
    BY <1>14, <1>15, <1>16, <2>1
<1>17. CASE /\ mask[mo].ref = 1
            /\ ShrinkMasks(a)
            /\ \E na \in Free(ArrObj), b \in InOrder(Used(a)) :
                 /\ alloc' = alloc \cup {na}
                 /\ arr' = [arr EXCEPT ![tbl.ma] = a,
                              ![na] = tbl_mask_array_alloc(a.max \div 2, a, b)]
                 /\ tbl' = [tbl EXCEPT !.ma = na]
                 /\ pend' = pend \cup {mo, tbl.ma}
  <2> HIDE DEF a
  <2>1. PICK na \in ArrObj \ alloc, b \in InOrder(Used(a)) :
                 /\ alloc' = alloc \cup {na}
                 /\ arr' = [arr EXCEPT ![tbl.ma] = a,
                              ![na] = tbl_mask_array_alloc(a.max \div 2, a, b)]
                 /\ tbl' = [tbl EXCEPT !.ma = na]
                 /\ pend' = pend \cup {mo, tbl.ma}
    BY <1>17 DEF Free
  <2> DEFINE size == a.max \div 2
             small == tbl_mask_array_alloc(size, a, b)
  <2>2. size \in Int /\ Cardinality(Used(a)) <= Imax(MASK_ARRAY_SIZE_MIN, size)
    <3>1. a.max \in Nat /\ a.count = Cardinality(Used(a)) /\ a.count <= a.max \div 3
      BY <1>6, <1>15, <1>17 DEF IsMaskArray, ExactArray, ShrinkMasks
    <3>2. size \in Int /\ a.max \div 3 <= size
      BY <3>1
    <3>3. a.count \in Nat
      BY <1>6, <3>1, UsedFinite
    <3> HIDE DEF size
    <3> QED
      BY <3>1, <3>2, <3>3, ConstantsAssumption DEF Imax
  <2>3. ExactArray(small) /\ Holds(small) = Holds(a)
    BY <1>6, <1>15, <2>2, ReallocHolds
  <2> HIDE DEF small, size
  <2>4. arr'[tbl'.ma] = small
    BY <1>3, <2>1 DEF OwnInv, TypeOK, TblType, small, size
  <2>5. \A o \in MaskObj : /\ o \in alloc' <=> o \in alloc
                           /\ o \in pend' <=> o \in pend \cup {mo}
    BY <1>3, <2>1, PoolsAssumption
  <2> QED
    BY <1>14, <1>15, <1>17, <2>3, <2>4, <2>5
<1> QED
  <2> HIDE DEF a
  <2> QED
    BY <1>7, <1>13, <1>16, <1>17

\* Every step of every process keeps it.
LEMMA NextMask == OwnInv /\ MaskInv /\ [Next]_vars => MaskInv'
<1> SUFFICES ASSUME OwnInv, MaskInv, [Next]_vars PROVE MaskInv'
  OBVIOUS
<1>0. OwnInv'
  BY NextOwn
<1>1. ASSUME NEW t \in Threads, NewCommand(t) PROVE MaskInv'
  BY <1>0, <1>1, NewMask DEF NewCommand
<1>2. ASSUME NEW t \in Threads, SetCommand(t) PROVE MaskInv'
  BY <1>0, <1>2, SetMask DEF SetCommand
<1>3. ASSUME NEW t \in Threads, DelCommand(t) PROVE MaskInv'
  BY <1>0, <1>3, DelMask DEF DelCommand
<1>4. ASSUME NEW t \in Threads, FlushCommand(t) PROVE MaskInv'
  BY <1>0, <1>4, FlushMask DEF FlushCommand
<1>5. ASSUME NEW t \in Threads, Proceed(t) PROVE MaskInv'
  BY <1>0, <1>5, MaskInsertMask, KeyInsertMask, MaskRemoveMask, DestroyMask, AfterUnlockMask
     DEF Proceed
<1>6. CASE \E r \in Cpus : Lookup(r)
  BY <1>0, <1>6, ReaderMask DEF Lookup, Readers
<1>7. CASE \E r \in Dumpers : ovs_flow_cmd_dump(r) \/ ovs_flow_tbl_dump_next(r)
  BY <1>0, <1>7, ReaderMask DEF Readers
<1>8. CASE \E r \in Readers : Read(r)
  BY <1>0, <1>8, ReaderMask
<1>9. CASE rcu_callbacks
  BY <1>0, <1>9, CallbacksMask
<1>10. CASE UNCHANGED vars
  <2>1. UNCHANGED <<alloc, pend, flow, mask, arr, ti, tbl, cmd>>
    BY <1>10 DEF vars
  <2>2. Held' = Held
    BY <2>1 DEF Held
  <2> QED
    BY <1>0, <2>1, <2>2, UnlockedMask
<1> QED
  BY <1>1, <1>2, <1>3, <1>4, <1>5, <1>6, <1>7, <1>8, <1>9, <1>10 DEF Next

\* In every state of the flow table the mask array holds each mask in use once, counts it,
\* and the mask counts its flows.
THEOREM MasksKept == Spec => [](OwnInv /\ MaskInv)
<1>1. Init => OwnInv /\ MaskInv
  BY InitOwn, InitMask
<1>2. OwnInv /\ MaskInv /\ [Next]_vars => (OwnInv /\ MaskInv)'
  BY NextOwn, NextMask
<1> QED
  BY <1>1, <1>2, PTL DEF Spec

\* What the invariant says of one step of a command and of one linked flow.
LEMMA MaskInvSafe == OwnInv /\ MaskInv => MasksSafe
<1> SUFFICES ASSUME OwnInv, MaskInv PROVE MasksSafe
  OBVIOUS
<1>1. IsMaskArray(arr[tbl.ma]) /\ Published \subseteq MaskObj
  BY PublishedMasks
<1>2. \A i \in Used(arr[tbl.ma]) : Masks[i] \in Published
  BY DEF Published, Holds, Masks
<1>3. \A mo \in Published : \E i \in Used(arr[tbl.ma]) : Masks[i] = mo
  BY DEF Published, Holds, Masks
<1>4. \A i, j \in Used(arr[tbl.ma]) : Masks[i] = Masks[j] => i = j
  BY DEF MaskInv, ExactArray, Masks
<1>5. NoBugOn
  <2>1. Linked # {} => tbl.count > 0
    <3>1. Linked # {} => Cardinality(Linked) # 0
      BY UsingLive, FS_EmptySet
    <3> QED
      BY <3>1, UsingLive DEF MaskInv
  <2>2. ASSUME NEW t \in Threads, cmd[t].pc = "mask_remove"
        PROVE  LET mo == flow[cmd[t].flow].mask
               IN  mask[mo].ref > 0 /\ Cardinality({i \in Used(arr[tbl.ma]) : Masks[i] = mo}) = 1
    <3> DEFINE mo == flow[cmd[t].flow].mask
    <3>1. cmd[t].flow \in Using
      BY <2>2 DEF Using, Held
    <3>2. mo \in Published
      BY <3>1 DEF MaskInv
    <3> HIDE DEF mo
    <3>3. PICK i \in Used(arr[tbl.ma]) : Masks[i] = mo
      BY <1>3, <3>2
    <3>4. {j \in Used(arr[tbl.ma]) : Masks[j] = mo} = {i}
      BY <1>4, <3>3
    <3>5. Cardinality({i}) = 1
      BY FS_Singleton
    <3>6. mask[mo].ref > 0
      BY <3>2 DEF MaskInv
    <3> QED
      BY <3>4, <3>5, <3>6 DEF mo
  <2>3. \A i \in Used(arr[tbl.ma]) : mask[Masks[i]].ref > 0
    BY <1>2 DEF MaskInv
  <2> QED
    BY <2>1, <2>2, <2>3 DEF NoBugOn
<1>6. MaskArrayExact
  BY <1>2, <1>4 DEF MaskArrayExact, MaskInv, ExactArray
<1>7. FlowsReachable
  <2> SUFFICES ASSUME NEW mo \in {flow[f].mask : f \in Linked}
               PROVE  /\ \E i \in Used(arr[tbl.ma]) : Masks[i] = mo
                      /\ mask[mo].ref >= Cardinality({f \in Linked : flow[f].mask = mo})
    BY DEF FlowsReachable
  <2>1. mo \in Published
    BY DEF MaskInv, Using
  <2>2. {f \in Linked : flow[f].mask = mo} \subseteq Users(mo)
    BY DEF Users, Using
  <2>3. /\ Cardinality({f \in Linked : flow[f].mask = mo}) <= Cardinality(Users(mo))
        /\ Cardinality({f \in Linked : flow[f].mask = mo}) \in Nat
    BY <2>2, UsingLive, FS_Subset, FS_CardinalityType
  <2>4. mo \in MaskObj /\ mask[mo].ref \in Nat
    BY <1>1, <2>1 DEF OwnInv, TypeOK
  <2>5. Cardinality(Users(mo)) \in Nat /\ Cardinality(Users(mo)) <= mask[mo].ref
    BY <2>4, UsingLive DEF MaskInv
  <2> QED
    BY <1>3, <2>1, <2>3, <2>4, <2>5
<1> QED
  BY <1>5, <1>6, <1>7 DEF MasksSafe, MaskArrayInv

\* No BUG_ON() of the flow table fires, the mask array is exact and leads to every linked
\* flow, for every number of flows and masks and every history of commands.
THEOREM MasksRight == Spec => []MasksSafe
BY MasksKept, MaskInvSafe, PTL

-----------------------------------------------------------------------------
(***************************************************************************)
(* Memory: what readers hold, and who frees what.                          *)
(***************************************************************************)

(* What a reader may dereference. *)

\* Objects that stay allocated as long as reader r is in its critical section.
Protected(r) == {o \in alloc : o \in pend => r \in wait[o]}

\* The objects a reader has loaded, and the flows it can reach from them.
Loads(r)   == {rd[r].ma, rd[r].ti, rd[r].mask, rd[r].acts} \ {NULL}
FlowsOf(r) == ({rd[r].flow} \ {NULL})
                \cup {f \in FlowObj : rd[r].ti # NULL /\ f \in ti[rd[r].ti].flows}

\* The commands that hold a flow no reader can reach yet.
Inserting == {t \in Threads : cmd[t].pc \in {"mask_insert", "key_insert"}}

\* Everything a reader has loaded, or can load from there, stays allocated until it is
\* done; so do the flow whose actions it executes, and with them the actions.
ReaderInv(r) ==
  /\ rd[r].pc = "idle" => rd[r] = IdleRd
  /\ rd[r].pc # "idle" => r \in rcu
  /\ Loads(r) \subseteq Protected(r)
  /\ rd[r].ma # NULL => Holds(arr[rd[r].ma]) \subseteq Protected(r)
  /\ \A f \in FlowsOf(r) : /\ f \in Protected(r)
                           /\ flow[f].mask \in MaskObj /\ flow[f].mask \in Protected(r)
  /\ \A f \in FlowObj : f \in alloc /\ flow[f].acts = rd[r].acts => f \in Protected(r)
  /\ \A t \in Inserting : /\ cmd[t].flow \notin FlowsOf(r)
                          /\ flow[cmd[t].flow].acts # rd[r].acts

\* A reader that is idle reaches nothing.
LEMMA IdleReader ==
  ASSUME OwnInv, NEW r \in Readers, rd[r] = IdleRd
  PROVE  ReaderInv(r)
<1>1. Loads(r) = {} /\ FlowsOf(r) = {} /\ rd[r].ma = NULL /\ rd[r].acts = NULL /\ rd[r].pc = "idle"
  BY DEF Loads, FlowsOf, IdleRd
<1>2. \A f \in FlowObj : f \in alloc => flow[f].acts # NULL
  BY PoolsAssumption DEF OwnInv, ActsInv, Obj
<1>3. \A t \in Inserting : cmd[t].flow \in FlowObj /\ cmd[t].flow \in alloc
  BY DEF OwnInv, HeldInv, FlowPcs, Inserting, Live
<1> QED
  BY <1>1, <1>2, <1>3 DEF ReaderInv

\* The same of the next state.
LEMMA IdleReaderNext ==
  ASSUME OwnInv', NEW r \in Readers, rd'[r] = IdleRd
  PROVE  ReaderInv(r)'
<1>1. Loads(r)' = {} /\ FlowsOf(r)' = {} /\ rd'[r].ma = NULL /\ rd'[r].acts = NULL /\ rd'[r].pc = "idle"
  BY DEF Loads, FlowsOf, IdleRd
<1>2. \A f \in FlowObj : f \in alloc' => flow'[f].acts # NULL
  BY PoolsAssumption DEF OwnInv, ActsInv, Obj
<1>3. \A t \in Inserting' : cmd'[t].flow \in FlowObj /\ cmd'[t].flow \in alloc'
  BY DEF OwnInv, HeldInv, FlowPcs, Inserting, Live
<1> QED
  BY <1>1, <1>2, <1>3 DEF ReaderInv

\* A step that only defers more frees keeps what is protected.
LEMMA ProtectedKept ==
  ASSUME OwnInv, NEW r \in Readers, alloc \subseteq alloc',
         \A o \in Obj : o \in pend' => \/ o \in pend /\ (r \in wait[o] => r \in wait'[o])
                                      \/ r \in wait'[o]
  PROVE  Protected(r) \subseteq Protected(r)'
BY DEF Protected, OwnInv, TypeOK

\* What is live is protected.
LEMMA LiveProtected == ASSUME NEW r PROVE Live \subseteq Protected(r)
BY DEF Live, Protected

\* A step that leaves reader r alone, frees nothing and publishes only live objects keeps
\* what r can reach protected.
LEMMA ReaderStep ==
  ASSUME OwnInv, OwnInv', NEW r \in Readers, ReaderInv(r),
         rd'[r] = rd[r], r \in rcu => r \in rcu', alloc \subseteq alloc',
         r \in rcu => \A o \in Obj : o \in pend' =>
                        \/ o \in pend /\ (r \in wait[o] => r \in wait'[o])
                        \/ r \in wait'[o],
         \A x \in ArrObj : x \in alloc => Holds(arr'[x]) \subseteq Holds(arr[x]) \cup Live',
         \A x \in TiObj : x \in alloc => \A f \in ti'[x].flows :
            f \in ti[x].flows \/ (f \in Live' /\ flow'[f].mask \in MaskObj /\ flow'[f].mask \in Live'),
         \A f \in FlowObj : f \in alloc => \/ flow'[f].mask = flow[f].mask
                                           \/ \E t \in Inserting : cmd[t].flow = f,
         \A f \in FlowObj : f \in alloc' => \/ f \in alloc /\ flow'[f].acts = flow[f].acts
                                           \/ flow'[f].acts \notin alloc,
         \A t \in Inserting' : /\ ti' = ti
                               /\ \/ /\ t \in Inserting /\ cmd'[t].flow = cmd[t].flow
                                     /\ flow'[cmd'[t].flow].acts = flow[cmd[t].flow].acts
                                  \/ /\ cmd'[t].flow \notin alloc
                                     /\ flow'[cmd'[t].flow].acts \notin alloc
  PROVE  ReaderInv(r)'
<1>1. CASE rd[r].pc = "idle"
  <2>1. rd'[r] = IdleRd
    BY <1>1 DEF ReaderInv
  <2> QED
    BY <2>1, IdleReaderNext
<1>2. CASE rd[r].pc # "idle"
  <2>1. r \in rcu /\ r \in rcu' /\ rd[r] \in RdType
    BY <1>2 DEF ReaderInv, OwnInv, TypeOK
  <2>2. Protected(r) \subseteq Protected(r)'
    BY <2>1, ProtectedKept
  <2>3. Live' \subseteq Protected(r)'
    BY DEF Live, Protected
  <2>4. Loads(r)' = Loads(r) /\ Loads(r) \subseteq Protected(r)'
    BY <2>2 DEF ReaderInv, Loads
  <2>5. rd[r].ma # NULL => Holds(arr'[rd[r].ma]) \subseteq Protected(r)'
    <3>1. rd[r].ma # NULL => rd[r].ma \in ArrObj /\ rd[r].ma \in alloc
      BY <2>1 DEF ReaderInv, Loads, Protected, RdType, RdRecord
    <3> QED
      BY <2>2, <2>3, <3>1 DEF ReaderInv
  <2>6. \A f \in FlowsOf(r)' :
          f \in FlowsOf(r) \/ (f \in Live' /\ flow'[f].mask \in MaskObj /\ flow'[f].mask \in Live')
    <3>1. rd[r].ti # NULL => rd[r].ti \in TiObj /\ rd[r].ti \in alloc
      BY <2>1 DEF ReaderInv, Loads, Protected, RdType, RdRecord
    <3> QED
      BY <3>1 DEF FlowsOf
  <2>7. \A f \in FlowsOf(r) : /\ f \in Protected(r)'
                              /\ flow'[f].mask \in MaskObj /\ flow'[f].mask \in Protected(r)'
    <3>1. \A f \in FlowsOf(r) : f \in FlowObj /\ f \in alloc
      BY <2>1 DEF ReaderInv, FlowsOf, Protected, RdType, RdRecord
    <3>2. \A f \in FlowsOf(r) : flow'[f].mask = flow[f].mask
      BY <3>1 DEF ReaderInv
    <3> QED
      BY <2>2, <3>2 DEF ReaderInv
  <2>8. \A f \in FlowsOf(r)' : /\ f \in Protected(r)'
                               /\ flow'[f].mask \in MaskObj /\ flow'[f].mask \in Protected(r)'
    BY <2>3, <2>6, <2>7
  <2>9. rd[r].acts \in alloc \/ rd[r].acts = NULL
    BY DEF ReaderInv, Loads, Protected
  <2>10. \A f \in FlowObj : f \in alloc' => flow'[f].acts # NULL
    BY PoolsAssumption DEF OwnInv, ActsInv, Obj
  <2>11. \A f \in FlowObj : f \in alloc' /\ flow'[f].acts = rd[r].acts => f \in Protected(r)'
    BY <2>2, <2>9, <2>10 DEF ReaderInv
  <2>12. \A t \in Inserting' : /\ cmd'[t].flow \notin FlowsOf(r)'
                               /\ flow'[cmd'[t].flow].acts # rd[r].acts
    <3> SUFFICES ASSUME NEW t \in Inserting'
                 PROVE  cmd'[t].flow \notin FlowsOf(r)' /\ flow'[cmd'[t].flow].acts # rd[r].acts
      OBVIOUS
    <3>1. cmd'[t].flow \in FlowObj /\ cmd'[t].flow \in alloc'
      BY DEF OwnInv, HeldInv, FlowPcs, Inserting, Live
    <3>2. FlowsOf(r)' = FlowsOf(r)
      BY DEF FlowsOf
    <3>3. \A f \in FlowsOf(r) : f \in alloc
      BY DEF ReaderInv, Protected
    <3> QED
      BY <2>9, <2>10, <3>1, <3>2, <3>3 DEF ReaderInv
  <2> QED
    BY <1>2, <2>1, <2>4, <2>5, <2>8, <2>11, <2>12 DEF ReaderInv
<1> QED
  BY <1>1, <1>2

-----------------------------------------------------------------------------
(* Who will free an object. *)

\* A command only holds what its step needs.
Shape(c) ==
  /\ c.pc = "idle" => c = IdleCmd
  /\ c.pc \in FlowPcs => c.acts = NULL /\ c.ti = NULL
  /\ c.pc = "free_old" => c.flow = NULL /\ c.ti = NULL
  /\ c.pc = "flush" => c.flow = NULL /\ c.acts = NULL

\* A command that has not begun holds nothing.
LEMMA IdleShape == Shape(IdleCmd)
BY DEF Shape, FlowPcs, IdleCmd

\* Every allocated object has someone who frees it.
FlowOwned(f) ==
  \/ f \in pend
  \/ f \in Linked
  \/ \E t \in Threads : cmd[t].flow = f
  \/ \E t \in Threads : cmd[t].ti # NULL /\ f \in ti[cmd[t].ti].flows
ActsOwned(a) ==
  \/ a \in pend
  \/ \E t \in Threads : cmd[t].acts = a
  \/ \E f \in FlowObj : f \in alloc /\ flow[f].acts = a
TiOwned(x) == x \in pend \/ x = tbl.ti \/ \E t \in Threads : cmd[t].ti = x

OwnerInv ==
  /\ \A t \in Threads : Shape(cmd[t])
  /\ \A f \in FlowObj : f \in alloc => FlowOwned(f)
  /\ \A a \in ActObj : a \in alloc => ActsOwned(a)
  /\ \A x \in TiObj : x \in alloc => TiOwned(x)
  /\ \A x \in ArrObj : x \in alloc => x \in pend \/ x = tbl.ma

ReadersInv == \A r \in Readers : ReaderInv(r)

\* The flows the other commands are inserting keep their actions.
LEMMA InsertingKept ==
  ASSUME OwnInv, NEW t \in Threads, \A u \in Threads : u # t => cmd'[u] = cmd[u],
         cmd'[t].pc \notin {"mask_insert", "key_insert"},
         \A f \in FlowObj : f \in Live /\ f \notin Linked => flow'[f].acts = flow[f].acts
  PROVE  \A u \in Inserting' : /\ u \in Inserting /\ cmd'[u].flow = cmd[u].flow
                               /\ flow'[cmd'[u].flow].acts = flow[cmd[u].flow].acts
<1> SUFFICES ASSUME NEW u \in Inserting'
             PROVE  /\ u \in Inserting /\ cmd'[u].flow = cmd[u].flow
                    /\ flow'[cmd'[u].flow].acts = flow[cmd[u].flow].acts
  OBVIOUS
<1>1. u \in Threads /\ u # t /\ cmd'[u] = cmd[u]
  BY DEF Inserting
<1>2. u \in Inserting
  BY <1>1 DEF Inserting
<1>3. cmd[u].flow \in FlowObj /\ cmd[u].flow \in Live /\ cmd[u].flow \notin Linked
  BY <1>2 DEF OwnInv, HeldInv, FlowPcs, Inserting
<1> QED
  BY <1>1, <1>2, <1>3

\* Replaced actions pass from the flow to the command, and stay protected from it.
LEMMA ReplaceMem ==
  ASSUME OwnInv, OwnInv', OwnerInv, ReadersInv, NEW t \in Threads, NEW g \in Linked,
         NEW a \in ActObj, a \notin alloc, NEW s \in BOOLEAN, cmd[t].pc = "idle",
         ReplaceActs(t, g, a, s),
         UNCHANGED <<pend, wait, mask, arr, ti, tbl, ovs_mutex, readState, history>>
  PROVE  OwnerInv' /\ ReadersInv'
<1>1. /\ alloc' = alloc \cup {a} /\ flow' = [flow EXCEPT ![g].acts = a]
      /\ cmd' = [cmd EXCEPT ![t] = [IdleCmd EXCEPT !.pc = "free_old",
                                        !.acts = flow[g].acts, !.sameid = s]]
      /\ UNCHANGED <<rcu, rd>>
  BY DEF ReplaceActs, AssignActs, readState
<1>2. /\ cmd'[t].pc = "free_old" /\ cmd'[t].acts = flow[g].acts
      /\ cmd'[t].flow = NULL /\ cmd'[t].ti = NULL
      /\ \A u \in Threads : u # t => cmd'[u] = cmd[u]
  BY <1>1 DEF OwnInv, TypeOK, IdleCmd
<1>3. g \in FlowObj /\ g \in alloc /\ \A u \in Inserting : cmd[u].flow # g
  BY DEF OwnInv, TableInv, Linked, TypeOK, TblType, Live, HeldInv, FlowPcs, Inserting
<1>4. /\ flow'[g].acts = a /\ \A f \in FlowObj : flow'[f].mask = flow[f].mask
      /\ \A f \in FlowObj : f # g => flow'[f] = flow[f]
  BY <1>1, <1>3 DEF OwnInv, TypeOK, FlowType
<1>5. Linked' = Linked /\ cmd[t] = IdleCmd /\ Inserting' = Inserting
  BY <1>2 DEF Linked, OwnerInv, Shape, Inserting
<1>6. cmd[t].flow = NULL /\ cmd[t].acts = NULL /\ cmd[t].ti = NULL
  BY <1>5 DEF IdleCmd
<1>7. \A f \in FlowObj \cup TiObj \cup ArrObj : f # a /\ f # NULL
  BY PoolsAssumption DEF Obj
<1>8. OwnerInv'
  <2>1. \A u \in Threads : Shape(cmd'[u])
    BY <1>2 DEF OwnerInv, Shape, FlowPcs
  <2>2. ASSUME NEW f \in FlowObj, f \in alloc' PROVE FlowOwned(f)'
    BY <1>1, <1>2, <1>5, <1>6, <1>7, <2>2 DEF OwnerInv, FlowOwned
  <2>3. ASSUME NEW x \in ActObj, x \in alloc' PROVE ActsOwned(x)'
    <3>1. CASE x = a
      BY <1>1, <1>3, <1>4, <3>1 DEF ActsOwned
    <3>2. CASE x = flow[g].acts
      BY <1>2, <3>2 DEF ActsOwned
    <3>3. CASE x # a /\ x # flow[g].acts
      <4>1. ActsOwned(x) /\ x # NULL
        BY <1>1, <2>3, <3>3, PoolsAssumption DEF OwnerInv, Obj
      <4> QED
        BY <1>1, <1>2, <1>4, <1>6, <3>3, <4>1 DEF ActsOwned
    <3> QED
      BY <3>1, <3>2, <3>3
  <2>4. ASSUME NEW x \in TiObj, x \in alloc' PROVE TiOwned(x)'
    BY <1>1, <1>2, <1>6, <1>7, <2>4 DEF OwnerInv, TiOwned
  <2>5. ASSUME NEW x \in ArrObj, x \in alloc' PROVE (x \in pend \/ x = tbl.ma)'
    BY <1>1, <1>7, <2>5 DEF OwnerInv
  <2> QED
    BY <2>1, <2>2, <2>3, <2>4, <2>5 DEF OwnerInv
<1>9. ReadersInv'
  <2> SUFFICES ASSUME NEW r \in Readers PROVE ReaderInv(r)'
    BY DEF ReadersInv
  <2>1. \A f \in FlowObj : f \in alloc' => \/ f \in alloc /\ flow'[f].acts = flow[f].acts
                                           \/ flow'[f].acts \notin alloc
    BY <1>1, <1>4, <1>7
  <2>2. \A u \in Inserting' : /\ u \in Inserting /\ cmd'[u].flow = cmd[u].flow
                              /\ flow'[cmd'[u].flow].acts = flow[cmd[u].flow].acts
    BY <1>2, <1>4, InsertingKept
  <2>3. \A x \in ArrObj : Holds(arr'[x]) = Holds(arr[x])
    OBVIOUS
  <2>4. ReaderInv(r)
    BY DEF ReadersInv
  <2> QED
    BY <1>1, <1>4, <2>1, <2>2, <2>3, <2>4, ReaderStep
<1> QED
  BY <1>8, <1>9

\* A new flow and its actions belong to the command; no reader can reach them.
LEMMA NewMem ==
  ASSUME OwnInv, OwnInv', OwnerInv, ReadersInv, NEW t \in Threads, NEW f \in FlowObj,
         NEW a \in ActObj, NEW k \in Keys, NEW m \in MaskVals, NEW u \in Ids,
         NEW excl \in BOOLEAN, ovs_flow_cmd_new(t, f, a, k, m, u, excl)
  PROVE  OwnerInv' /\ ReadersInv'
<1> DEFINE masked == ovs_flow_mask_key(k, m)
           matchkey == IF u # NULL THEN masked ELSE k
           fresh == [mask |-> NULL, key |-> masked, ufid |-> u,
                     ukey |-> IF u # NULL THEN ZeroKey ELSE k, acts |-> a]
<1>1. /\ cmd[t].pc = "idle" /\ f \notin alloc /\ a \notin alloc
      /\ UNCHANGED <<pend, wait, rcu, mask, arr, ti, tbl, rd, cand, seen>>
  BY DEF ovs_flow_cmd_new, Free, readState, history
<1>2. CASE /\ alloc' = alloc \cup {f, a}
           /\ flow' = [flow EXCEPT ![f] = fresh]
           /\ cmd' = [cmd EXCEPT ![t] = [IdleCmd EXCEPT !.pc = "mask_insert",
                                          !.flow = f, !.m = m]]
  <2>1. fresh.acts = a
    OBVIOUS
  <2> HIDE DEF fresh, masked
  <2>2. /\ cmd'[t].pc = "mask_insert" /\ cmd'[t].flow = f
        /\ cmd'[t].acts = NULL /\ cmd'[t].ti = NULL
        /\ \A x \in Threads : x # t => cmd'[x] = cmd[x]
    BY <1>2 DEF OwnInv, TypeOK, IdleCmd
  <2>3. flow'[f].acts = a /\ \A g \in FlowObj : g # f => flow'[g] = flow[g]
    BY <1>2, <2>1 DEF OwnInv, TypeOK
  <2>4. Linked' = Linked /\ cmd[t] = IdleCmd
    BY <1>1 DEF Linked, OwnerInv, Shape
  <2>5. cmd[t].flow = NULL /\ cmd[t].acts = NULL /\ cmd[t].ti = NULL
    BY <2>4 DEF IdleCmd
  <2>6. /\ \A o \in FlowObj \cup TiObj \cup ArrObj : o # a /\ o # NULL
        /\ \A o \in ActObj \cup TiObj \cup ArrObj : o # f /\ o # NULL
    BY PoolsAssumption DEF Obj
  <2>7. OwnerInv'
    <3>1. \A x \in Threads : Shape(cmd'[x])
      BY <2>2 DEF OwnerInv, Shape, FlowPcs
    <3>2. ASSUME NEW g \in FlowObj, g \in alloc' PROVE FlowOwned(g)'
      <4>1. CASE g = f
        BY <2>2, <4>1 DEF FlowOwned
      <4>2. CASE g # f
        <5>1. FlowOwned(g)
          BY <1>2, <2>6, <3>2, <4>2 DEF OwnerInv
        <5> QED
          BY <1>1, <2>2, <2>4, <2>5, <2>6, <5>1 DEF FlowOwned
      <4> QED
        BY <4>1, <4>2
    <3>3. ASSUME NEW x \in ActObj, x \in alloc' PROVE ActsOwned(x)'
      <4>1. CASE x = a
        BY <1>2, <2>3, <4>1 DEF ActsOwned
      <4>2. CASE x # a
        <5>1. ActsOwned(x)
          BY <1>2, <2>6, <3>3, <4>2 DEF OwnerInv
        <5>2. \A g \in FlowObj : g \in alloc => g \in alloc' /\ flow'[g] = flow[g]
          BY <1>1, <1>2, <2>3
        <5> QED
          BY <1>1, <2>2, <2>5, <2>6, <5>1, <5>2 DEF ActsOwned
      <4> QED
        BY <4>1, <4>2
    <3>4. ASSUME NEW x \in TiObj, x \in alloc' PROVE TiOwned(x)'
      <4>1. TiOwned(x)
        BY <1>2, <2>6, <3>4 DEF OwnerInv
      <4> QED
        BY <1>1, <2>2, <2>5, <2>6, <4>1 DEF TiOwned
    <3>5. ASSUME NEW x \in ArrObj, x \in alloc' PROVE (x \in pend \/ x = tbl.ma)'
      BY <1>1, <1>2, <2>6, <3>5 DEF OwnerInv
    <3> QED
      BY <3>1, <3>2, <3>3, <3>4, <3>5 DEF OwnerInv
  <2>8. ReadersInv'
    <3> SUFFICES ASSUME NEW r \in Readers PROVE ReaderInv(r)'
      BY DEF ReadersInv
    <3>1. \A g \in FlowObj : g \in alloc' => \/ g \in alloc /\ flow'[g].acts = flow[g].acts
                                             \/ flow'[g].acts \notin alloc
      BY <1>1, <1>2, <2>3, <2>6
    <3>2. \A x \in Inserting' : \/ /\ x \in Inserting /\ cmd'[x].flow = cmd[x].flow
                                   /\ flow'[cmd'[x].flow].acts = flow[cmd[x].flow].acts
                                \/ /\ cmd'[x].flow \notin alloc
                                   /\ flow'[cmd'[x].flow].acts \notin alloc
      <4> SUFFICES ASSUME NEW x \in Inserting'
                   PROVE  \/ /\ x \in Inserting /\ cmd'[x].flow = cmd[x].flow
                             /\ flow'[cmd'[x].flow].acts = flow[cmd[x].flow].acts
                          \/ /\ cmd'[x].flow \notin alloc
                             /\ flow'[cmd'[x].flow].acts \notin alloc
        OBVIOUS
      <4>1. CASE x = t
        BY <1>1, <2>2, <2>3, <4>1
      <4>2. CASE x # t
        <5>1. x \in Inserting /\ cmd'[x] = cmd[x]
          BY <2>2, <4>2 DEF Inserting
        <5>2. cmd[x].flow \in FlowObj /\ cmd[x].flow \in alloc
          BY <5>1 DEF OwnInv, HeldInv, FlowPcs, Inserting, Live
        <5> QED
          BY <1>1, <2>3, <5>1, <5>2
      <4> QED
        BY <4>1, <4>2
    <3>3. \A x \in ArrObj : Holds(arr'[x]) = Holds(arr[x])
      BY <1>1
    <3>4. ReaderInv(r)
      BY DEF ReadersInv
    <3>5. \A g \in FlowObj : g \in alloc => flow'[g].mask = flow[g].mask
      BY <1>1, <2>3
    <3>6. alloc \subseteq alloc'
      BY <1>2
    <3> QED
      BY <1>1, <3>1, <3>2, <3>3, <3>4, <3>5, <3>6, ReaderStep
  <2> QED
    BY <2>7, <2>8
<1>3. CASE \E g \in Linked : ReplaceActs(t, g, a, flow[g].ufid = u) /\ UNCHANGED ovs_mutex
  BY <1>1, <1>3, ReplaceMem DEF readState, history
<1>4. ASSUME NEW d \in IF u # NULL /\ ovs_flow_tbl_lookup_ufid(u) # {}
                      THEN ovs_flow_tbl_lookup_ufid(u) ELSE ovs_flow_tbl_lookup(masked)
      PROVE  d \in Linked
  BY <1>4 DEF ovs_flow_tbl_lookup, ovs_flow_tbl_lookup_ufid, OwnInv, TableInv
<1>5. ovs_flow_tbl_lookup_exact(matchkey) \subseteq Linked
  BY DEF ovs_flow_tbl_lookup_exact
<1> QED
  <2> HIDE DEF fresh, masked, matchkey
  <2> QED
    BY <1>2, <1>3, <1>4, <1>5 DEF ovs_flow_cmd_new, fresh, masked, matchkey

\* ovs_flow_cmd_set() replaces actions.
LEMMA SetMem ==
  ASSUME OwnInv, OwnInv', OwnerInv, ReadersInv, NEW t \in Threads, NEW a \in ActObj, NEW k,
         NEW u, ovs_flow_cmd_set(t, a, k, u)
  PROVE  OwnerInv' /\ ReadersInv'
BY SelectedLinked, ReplaceMem DEF OwnInv, ovs_flow_cmd_set, Free

\* What a command gives to call_rcu() is owned by its callback from then on.
LEMMA GiveUpMem ==
  ASSUME OwnInv, OwnInv', OwnerInv, ReadersInv, NEW t \in Threads, NEW o \in Obj,
         \/ cmd[t].pc = "free_old" /\ o = cmd[t].acts
         \/ cmd[t].pc \in {"del_reply", "del_free"} /\ o = cmd[t].flow,
         call_rcu({o}), cmd' = [cmd EXCEPT ![t] = IdleCmd],
         UNCHANGED <<alloc, flow, mask, arr, ti, tbl, readState>>
  PROVE  OwnerInv' /\ ReadersInv'
<1>1. /\ pend' = pend \cup {o} /\ wait' = [x \in Obj |-> IF x = o THEN rcu ELSE wait[x]]
      /\ UNCHANGED <<rcu, rd>>
  BY DEF call_rcu, readState
<1>2. cmd'[t] = IdleCmd /\ \A u \in Threads : u # t => cmd'[u] = cmd[u]
  BY DEF OwnInv, TypeOK
<1>3. Shape(cmd[t])
  BY DEF OwnerInv
<1>4. /\ cmd[t].flow \in {o, NULL} /\ cmd[t].acts \in {o, NULL} /\ cmd[t].ti = NULL
  BY <1>3 DEF Shape, FlowPcs
<1>5. Linked' = Linked /\ \A x \in Obj : x # NULL
  BY PoolsAssumption DEF Linked
<1>6. OwnerInv'
  <2>1. \A u \in Threads : Shape(cmd'[u])
    BY <1>2, IdleShape DEF OwnerInv
  <2>2. ASSUME NEW f \in FlowObj, f \in alloc' PROVE FlowOwned(f)'
    <3>1. FlowOwned(f) /\ f # NULL
      BY <1>5, <2>2 DEF OwnerInv, Obj
    <3> QED
      BY <1>1, <1>2, <1>4, <1>5, <3>1 DEF FlowOwned
  <2>3. ASSUME NEW x \in ActObj, x \in alloc' PROVE ActsOwned(x)'
    <3>1. ActsOwned(x) /\ x # NULL
      BY <1>5, <2>3 DEF OwnerInv, Obj
    <3> QED
      BY <1>1, <1>2, <1>4, <3>1 DEF ActsOwned
  <2>4. ASSUME NEW x \in TiObj, x \in alloc' PROVE TiOwned(x)'
    <3>1. TiOwned(x) /\ x # NULL
      BY <1>5, <2>4 DEF OwnerInv, Obj
    <3> QED
      BY <1>1, <1>2, <1>4, <3>1 DEF TiOwned
  <2>5. \A x \in ArrObj : x \in alloc' => (x \in pend \/ x = tbl.ma)'
    BY <1>1 DEF OwnerInv
  <2> QED
    BY <2>1, <2>2, <2>3, <2>4, <2>5 DEF OwnerInv
<1>7. ReadersInv'
  <2> SUFFICES ASSUME NEW r \in Readers PROVE ReaderInv(r)'
    BY DEF ReadersInv
  <2>1. r \in rcu => \A x \in Obj : x \in pend' => \/ x \in pend /\ (r \in wait[x] => r \in wait'[x])
                                                  \/ r \in wait'[x]
    BY <1>1
  <2>2. cmd'[t].pc \notin {"mask_insert", "key_insert"}
    BY <1>2 DEF IdleCmd
  <2>3. \A u \in Inserting' : /\ u \in Inserting /\ cmd'[u].flow = cmd[u].flow
                              /\ flow'[cmd'[u].flow].acts = flow[cmd[u].flow].acts
    BY <1>2, <2>2, InsertingKept
  <2>4. \A x \in ArrObj : Holds(arr'[x]) = Holds(arr[x])
    OBVIOUS
  <2>5. ReaderInv(r)
    BY DEF ReadersInv
  <2> QED
    BY <1>1, <2>1, <2>3, <2>4, <2>5, ReaderStep
<1> QED
  BY <1>6, <1>7

\* Replaced actions and deleted flows are given up.
LEMMA FreeMem ==
  ASSUME OwnInv, OwnInv', OwnerInv, ReadersInv, NEW t \in Threads,
         ovs_nla_free_flow_actions_rcu(t) \/ ovs_flow_free(t)
  PROVE  OwnerInv' /\ ReadersInv'
<1>1. CASE ovs_nla_free_flow_actions_rcu(t)
  <2>1. cmd[t].pc = "free_old" /\ cmd[t].acts \in Obj
    BY <1>1 DEF ovs_nla_free_flow_actions_rcu, OwnInv, HeldInv, Obj
  <2> QED
    BY <1>1, <2>1, GiveUpMem DEF ovs_nla_free_flow_actions_rcu
<1>2. CASE ovs_flow_free(t)
  <2>1. cmd[t].pc \in {"del_reply", "del_free"} /\ cmd[t].flow \in Obj
    BY <1>2 DEF ovs_flow_free, OwnInv, HeldInv, FlowPcs, Obj
  <2> QED
    BY <1>2, <2>1, GiveUpMem DEF ovs_flow_free
<1> QED
  BY <1>1, <1>2

\* A command that reads the flow it deletes is itself a reader, and no other's.
LEMMA DelFillMem ==
  ASSUME OwnInv, OwnInv', OwnerInv, ReadersInv, NEW t \in Threads,
         del_fill_info(t) \/ del_fill_done(t)
  PROVE  OwnerInv' /\ ReadersInv'
<1>1. /\ cmd[t].pc \in {"del_reply", "del_fill"}
      /\ UNCHANGED <<alloc, pend, flow, mask, arr, ti, tbl, rd>>
  BY DEF del_fill_info, del_fill_done, heap
<1>2. /\ cmd'[t].pc \in {"del_fill", "del_free"} /\ cmd'[t].flow = cmd[t].flow
      /\ cmd'[t].acts = cmd[t].acts /\ cmd'[t].ti = cmd[t].ti
      /\ \A u \in Threads : u # t => cmd'[u] = cmd[u]
  BY DEF OwnInv, TypeOK, CmdType, del_fill_info, del_fill_done
<1>3. Linked' = Linked /\ \A u \in Threads : /\ cmd'[u].flow = cmd[u].flow
                                            /\ cmd'[u].acts = cmd[u].acts
                                            /\ cmd'[u].ti = cmd[u].ti
  BY <1>1, <1>2 DEF Linked
<1>4. OwnerInv'
  <2>1. Shape(cmd'[t])
    BY <1>1, <1>2 DEF OwnerInv, Shape, FlowPcs
  <2>2. \A u \in Threads : Shape(cmd'[u])
    BY <1>2, <2>1 DEF OwnerInv
  <2>3. \A f \in FlowObj : f \in alloc' => FlowOwned(f)'
    BY <1>1, <1>3 DEF OwnerInv, FlowOwned
  <2>4. \A a \in ActObj : a \in alloc' => ActsOwned(a)'
    BY <1>1, <1>3 DEF OwnerInv, ActsOwned
  <2>5. \A x \in TiObj : x \in alloc' => TiOwned(x)'
    BY <1>1, <1>3 DEF OwnerInv, TiOwned
  <2>6. \A x \in ArrObj : x \in alloc' => (x \in pend \/ x = tbl.ma)'
    BY <1>1 DEF OwnerInv
  <2> QED
    BY <2>2, <2>3, <2>4, <2>5, <2>6 DEF OwnerInv
<1>5. ReadersInv'
  <2> SUFFICES ASSUME NEW r \in Readers PROVE ReaderInv(r)'
    BY DEF ReadersInv
  <2>1. r # t
    BY PoolsAssumption
  <2>2. r \in rcu => r \in rcu'
    BY <2>1 DEF del_fill_info, del_fill_done, rcu_read_unlock
  <2>3. \A o \in Obj : r \in wait[o] => r \in wait'[o]
    BY <2>1 DEF del_fill_info, del_fill_done, rcu_read_unlock, heap
  <2>4. \A u \in Inserting' : /\ u \in Inserting /\ cmd'[u].flow = cmd[u].flow
                              /\ flow'[cmd'[u].flow].acts = flow[cmd[u].flow].acts
    BY <1>1, <1>2, InsertingKept
  <2>5. \A x \in ArrObj : Holds(arr'[x]) = Holds(arr[x])
    BY <1>1
  <2>6. ReaderInv(r)
    BY DEF ReadersInv
  <2> QED
    BY <1>1, <2>2, <2>3, <2>4, <2>5, <2>6, ReaderStep
<1> QED
  BY <1>4, <1>5

\* A step of reader q concerns no other reader, no command and no owner.
LEMMA OthersMem ==
  ASSUME OwnInv, OwnInv', OwnerInv, ReadersInv, NEW q \in Readers,
         UNCHANGED <<alloc, pend, flow, mask, arr, ti, tbl, cmd>>,
         rd' = [rd EXCEPT ![q] = rd'[q]],
         \A r \in Readers : r # q => /\ r \in rcu => r \in rcu'
                                     /\ \A o \in Obj : r \in wait[o] => r \in wait'[o],
         ReaderInv(q)'
  PROVE  OwnerInv' /\ ReadersInv'
<1>1. Linked' = Linked /\ Inserting' = Inserting
  BY DEF Linked, Inserting
<1>2. OwnerInv'
  BY <1>1 DEF OwnerInv, FlowOwned, ActsOwned, TiOwned
<1>3. ASSUME NEW r \in Readers, r # q PROVE ReaderInv(r)'
  <2>1. rd'[r] = rd[r]
    BY <1>3 DEF OwnInv, TypeOK
  <2>2. \A x \in ArrObj : Holds(arr'[x]) = Holds(arr[x])
    OBVIOUS
  <2>3. ReaderInv(r)
    BY DEF ReadersInv
  <2> QED
    BY <1>1, <1>3, <2>1, <2>2, <2>3, ReaderStep
<1> QED
  BY <1>2, <1>3 DEF ReadersInv

\* What a reader of the published instance can reach is live.
LEMMA LinkedReach ==
  ASSUME OwnInv, MaskInv
  PROVE  /\ tbl.ma \in Live /\ tbl.ti \in Live /\ tbl.ma \in ArrObj /\ tbl.ti \in TiObj
         /\ Holds(arr[tbl.ma]) \subseteq Live
         /\ \A f \in Linked : /\ f \in FlowObj /\ f \in Live
                              /\ flow[f].mask \in MaskObj /\ flow[f].mask \in Live
         /\ \A t \in Inserting : cmd[t].flow \notin Linked
<1>1. \A f \in Linked : flow[f].mask \in Published
  BY DEF MaskInv, Using
<1>2. tbl.ma \in Live /\ tbl.ti \in Live /\ tbl.ma \in ArrObj /\ tbl.ti \in TiObj
      /\ Linked \subseteq FlowObj
  BY DEF OwnInv, TableInv, TypeOK, TblType, Linked
<1>3. \A x \in Published : x \in Live
  BY DEF MaskInv
<1> QED
  BY <1>1, <1>2, <1>3 DEF OwnInv, TableInv, HeldInv, FlowPcs, Inserting, Published

\* A reader that moves on with what it can reach keeps its invariant.
LEMMA ReaderMove ==
  ASSUME OwnInv, NEW q \in Readers, ReaderInv(q),
         UNCHANGED <<alloc, pend, wait, flow, arr, ti, cmd>>, q \in rcu', rd'[q].pc # "idle",
         rd'[q].ma \in {NULL, rd[q].ma}, rd'[q].ti \in {NULL, rd[q].ti},
         rd'[q].mask \in {NULL, rd[q].mask} \/ rd'[q].mask \in Protected(q),
         rd'[q].flow = NULL \/ rd'[q].flow \in FlowsOf(q),
         rd'[q].acts \in {NULL, rd[q].acts} \/ \E f \in FlowsOf(q) : rd'[q].acts = flow[f].acts
  PROVE  ReaderInv(q)'
<1>1. Protected(q)' = Protected(q) /\ Inserting' = Inserting
  BY DEF Protected, Inserting
<1>2. FlowsOf(q)' \subseteq FlowsOf(q)
  BY DEF FlowsOf
<1>3. \A f \in FlowsOf(q) : f \in FlowObj /\ f \in alloc
  <2>1. rd[q].flow \in FlowObj \cup {NULL}
    BY DEF OwnInv, TypeOK, RdType, RdRecord
  <2> QED
    BY <2>1 DEF ReaderInv, FlowsOf, Protected
<1>4. \A f \in FlowObj : f \in alloc => flow[f].acts # NULL /\ flow[f].acts \in Protected(q)
  BY PoolsAssumption, LiveProtected DEF OwnInv, ActsInv, Obj
<1>5. Loads(q)' \subseteq Protected(q)
  BY <1>3, <1>4 DEF Loads, ReaderInv
<1>6. rd'[q].ma # NULL => Holds(arr[rd'[q].ma]) \subseteq Protected(q)
  BY DEF ReaderInv
<1>7. \A f \in FlowObj : f \in alloc /\ flow[f].acts = rd'[q].acts => f \in Protected(q)
  <2>1. \A f, g \in FlowObj : f \in alloc /\ g \in alloc /\ flow[f].acts = flow[g].acts => f = g
    BY DEF OwnInv, ActsInv
  <2> QED
    BY <1>3, <1>4, <2>1 DEF ReaderInv
<1>8. \A t \in Inserting : cmd[t].flow \in FlowObj /\ cmd[t].flow \in alloc
  BY DEF OwnInv, HeldInv, FlowPcs, Inserting, Live
<1>9. \A t \in Inserting : cmd[t].flow \notin FlowsOf(q) /\ flow[cmd[t].flow].acts # rd'[q].acts
  <2>1. \A f, g \in FlowObj : f \in alloc /\ g \in alloc /\ flow[f].acts = flow[g].acts => f = g
    BY DEF OwnInv, ActsInv
  <2> QED
    BY <1>3, <1>4, <1>8, <2>1 DEF ReaderInv
<1>10. \A f \in FlowsOf(q)' : /\ f \in Protected(q)
                             /\ flow[f].mask \in MaskObj /\ flow[f].mask \in Protected(q)
  BY <1>2 DEF ReaderInv
<1>11. \A t \in Inserting : cmd[t].flow \notin FlowsOf(q)'
  BY <1>2, <1>9
<1> QED
  BY <1>1, <1>5, <1>6, <1>7, <1>9, <1>10, <1>11 DEF ReaderInv

\* So does one that loads what is published.
LEMMA ReaderLoad ==
  ASSUME OwnInv, MaskInv, NEW q \in Readers, ReaderInv(q),
         UNCHANGED <<alloc, pend, wait, flow, arr, ti, tbl, cmd>>, q \in rcu', rd'[q].pc # "idle",
         rd'[q].ma \in {NULL, rd[q].ma, tbl.ma}, rd'[q].ti \in {NULL, tbl.ti},
         rd'[q].mask \in {NULL, rd[q].mask}, rd'[q].flow \in {NULL, rd[q].flow},
         rd'[q].acts \in {NULL, rd[q].acts}
  PROVE  ReaderInv(q)'
<1>1. Protected(q)' = Protected(q) /\ Inserting' = Inserting /\ Live \subseteq Protected(q)
  BY LiveProtected DEF Protected, Inserting
<1>2. \A f \in FlowsOf(q)' : f \in FlowsOf(q) \/ f \in Linked
  BY DEF FlowsOf, Linked
<1>3. /\ tbl.ma \in Protected(q) /\ tbl.ti \in Protected(q)
      /\ Holds(arr[tbl.ma]) \subseteq Protected(q)
      /\ \A f \in Linked : /\ f \in FlowObj /\ f \in Protected(q)
                           /\ flow[f].mask \in MaskObj /\ flow[f].mask \in Protected(q)
      /\ \A t \in Inserting : cmd[t].flow \notin Linked
  BY <1>1, LinkedReach
<1>4. \A f \in FlowObj : f \in alloc => flow[f].acts # NULL
  BY PoolsAssumption DEF OwnInv, ActsInv, Obj
<1>5. \A t \in Inserting : cmd[t].flow \in FlowObj /\ cmd[t].flow \in alloc
  BY DEF OwnInv, HeldInv, FlowPcs, Inserting, Live
<1>6. Loads(q)' \subseteq Protected(q)
  BY <1>3 DEF Loads, ReaderInv
<1>7. rd'[q].ma # NULL => Holds(arr[rd'[q].ma]) \subseteq Protected(q)
  BY <1>3 DEF ReaderInv
<1>8. \A f \in FlowsOf(q)' : /\ f \in Protected(q)
                             /\ flow[f].mask \in MaskObj /\ flow[f].mask \in Protected(q)
  BY <1>2, <1>3 DEF ReaderInv
<1>9. \A f \in FlowObj : f \in alloc /\ flow[f].acts = rd'[q].acts => f \in Protected(q)
  BY <1>4 DEF ReaderInv
<1>10. \A t \in Inserting : cmd[t].flow \notin FlowsOf(q)' /\ flow[cmd[t].flow].acts # rd'[q].acts
  BY <1>2, <1>3, <1>4, <1>5 DEF ReaderInv
<1> QED
  BY <1>1, <1>6, <1>7, <1>8, <1>9, <1>10 DEF ReaderInv

\* Every step of a reader keeps the memory it uses allocated.
LEMMA ReaderMem ==
  ASSUME OwnInv, OwnInv', MaskInv, OwnerInv, ReadersInv, NEW q \in Readers,
         \/ \E k \in Keys, s \in StartIndexes : ovs_flow_tbl_lookup_stats(q, k, s)
         \/ ovs_flow_cmd_dump(q)
         \/ ovs_flow_tbl_dump_next(q)
         \/ Read(q)
  PROVE  OwnerInv' /\ ReadersInv'
<1>1. ReaderInv(q) /\ q \notin Threads
  BY PoolsAssumption DEF ReadersInv
<1>2. rd \in [Readers -> RdType] /\ rd[q] \in RdRecord
  BY DEF OwnInv, TypeOK, RdType
<1>3. CASE \E k \in Keys, s \in StartIndexes : ovs_flow_tbl_lookup_stats(q, k, s)
  <2>1. PICK k \in Keys, s \in StartIndexes : ovs_flow_tbl_lookup_stats(q, k, s)
    BY <1>3
  <2>2. /\ UNCHANGED <<alloc, pend, wait, flow, mask, arr, ti, tbl, cmd>>
        /\ rcu' = rcu \cup {q}
        /\ rd' = [rd EXCEPT ![q] = [IdleRd EXCEPT !.pc = "ti", !.key = k,
                                       !.start = s, !.ma = tbl.ma]]
    BY <2>1 DEF ovs_flow_tbl_lookup_stats, heap, writerState
  <2>3. /\ rd'[q].pc = "ti" /\ rd'[q].ma = tbl.ma /\ rd'[q].ti = NULL /\ rd'[q].mask = NULL
        /\ rd'[q].flow = NULL /\ rd'[q].acts = NULL
    BY <1>2, <2>2 DEF IdleRd
  <2>4. ReaderInv(q)'
    BY <1>1, <2>2, <2>3, ReaderLoad
  <2> QED
    BY <1>2, <2>2, <2>4, OthersMem
<1>4. CASE ovs_flow_cmd_dump(q)
  <2>1. /\ UNCHANGED <<alloc, pend, wait, flow, mask, arr, ti, tbl, cmd>>
        /\ rcu' = rcu \cup {q}
        /\ rd' = [rd EXCEPT ![q] = [IdleRd EXCEPT !.pc = "dump", !.ti = tbl.ti]]
    BY <1>4 DEF ovs_flow_cmd_dump, heap, writerState
  <2>2. /\ rd'[q].pc = "dump" /\ rd'[q].ma = NULL /\ rd'[q].ti = tbl.ti /\ rd'[q].mask = NULL
        /\ rd'[q].flow = NULL /\ rd'[q].acts = NULL
    BY <1>2, <2>1 DEF IdleRd
  <2>3. ReaderInv(q)'
    BY <1>1, <2>1, <2>2, ReaderLoad
  <2> QED
    BY <1>2, <2>1, <2>3, OthersMem
<1>5. CASE lookup_read_ti(q)
  <2>1. /\ UNCHANGED <<alloc, pend, wait, rcu, flow, mask, arr, ti, tbl, cmd>>
        /\ rd[q].pc = "ti"
        /\ rd' = [rd EXCEPT ![q].pc = "mask", ![q].ti = tbl.ti]
    BY <1>5 DEF lookup_read_ti, heap, writerState
  <2>2. /\ rd'[q].pc = "mask" /\ rd'[q].ma = rd[q].ma /\ rd'[q].ti = tbl.ti
        /\ rd'[q].mask = rd[q].mask /\ rd'[q].flow = rd[q].flow /\ rd'[q].acts = rd[q].acts
    BY <1>2, <2>1 DEF RdRecord
  <2>3. q \in rcu'
    BY <1>1, <2>1 DEF ReaderInv
  <2>4. ReaderInv(q)'
    BY <1>1, <2>1, <2>2, <2>3, ReaderLoad
  <2> QED
    BY <1>2, <2>1, <2>4, OthersMem
<1>6. ASSUME UNCHANGED <<alloc, pend, wait, rcu, flow, mask, arr, ti, tbl, cmd>>,
             rd[q].pc # "idle", rd' = [rd EXCEPT ![q] = rd'[q]], rd'[q].pc # "idle",
             rd'[q].ma \in {NULL, rd[q].ma}, rd'[q].ti \in {NULL, rd[q].ti},
             rd'[q].mask \in {NULL, rd[q].mask} \/ rd'[q].mask \in Protected(q),
             rd'[q].flow = NULL \/ rd'[q].flow \in FlowsOf(q),
             rd'[q].acts \in {NULL, rd[q].acts} \/ \E f \in FlowsOf(q) : rd'[q].acts = flow[f].acts
      PROVE  OwnerInv' /\ ReadersInv'
  <2>1. q \in rcu'
    BY <1>1, <1>6 DEF ReaderInv
  <2>2. ReaderInv(q)'
    BY <1>1, <1>6, <2>1, ReaderMove
  <2> QED
    BY <1>6, <2>2, OthersMem
<1>7. rd[q].flow = NULL \/ rd[q].flow \in FlowsOf(q)
  BY DEF FlowsOf
<1>8. CASE flow_lookup(q)
  <2> DEFINE a == arr[rd[q].ma]
             sl == Slot(rd[q].i, rd[q].start)
  <2>1. /\ UNCHANGED <<alloc, pend, wait, rcu, flow, mask, arr, ti, tbl, cmd>>
        /\ rd[q].pc = "mask"
        /\ \/ rd' = [rd EXCEPT ![q] = [IdleRd EXCEPT !.pc = "miss", !.key = rd[q].key]]
           \/ rd' = [rd EXCEPT ![q].i = rd[q].i + 1]
           \/ /\ Searches(a, rd[q].i, rd[q].start)
              /\ rd' = [rd EXCEPT ![q].pc = "walk", ![q].mask = a.masks[sl]]
    BY <1>8 DEF flow_lookup, heap, writerState
  <2>2. rd[q].ma \in ArrObj /\ IsMaskArray(a) /\ rd[q].ma # NULL
    BY <2>1, PoolsAssumption DEF OwnInv, TypeOK, RdType, Obj
  <2>3. CASE rd' = [rd EXCEPT ![q] = [IdleRd EXCEPT !.pc = "miss", !.key = rd[q].key]]
    <3>1. /\ rd'[q].pc = "miss" /\ rd'[q].ma = NULL /\ rd'[q].ti = NULL /\ rd'[q].mask = NULL
          /\ rd'[q].flow = NULL /\ rd'[q].acts = NULL
      BY <1>2, <2>3 DEF IdleRd
    <3> QED
      BY <1>2, <1>6, <2>1, <2>3, <3>1
  <2>4. CASE rd' = [rd EXCEPT ![q].i = rd[q].i + 1]
    <3>1. /\ rd'[q].pc = "mask" /\ rd'[q].ma = rd[q].ma /\ rd'[q].ti = rd[q].ti
          /\ rd'[q].mask = rd[q].mask /\ rd'[q].flow = rd[q].flow /\ rd'[q].acts = rd[q].acts
          /\ rd' = [rd EXCEPT ![q] = rd'[q]]
      BY <1>2, <2>1, <2>4 DEF RdRecord
    <3> QED
      BY <1>6, <1>7, <2>1, <3>1
  <2>5. CASE /\ Searches(a, rd[q].i, rd[q].start)
             /\ rd' = [rd EXCEPT ![q].pc = "walk", ![q].mask = a.masks[sl]]
    <3>1. sl \in Used(a)
      BY <1>2, <2>2, <2>5 DEF Searches, Slot, IsMaskArray, Used, RdRecord
    <3>2. a.masks[sl] \in Protected(q)
      BY <1>1, <2>2, <3>1 DEF ReaderInv, Holds
    <3> HIDE DEF a, sl
    <3>3. /\ rd'[q].pc = "walk" /\ rd'[q].ma = rd[q].ma /\ rd'[q].ti = rd[q].ti
          /\ rd'[q].mask = a.masks[sl] /\ rd'[q].flow = rd[q].flow /\ rd'[q].acts = rd[q].acts
          /\ rd' = [rd EXCEPT ![q] = rd'[q]]
      BY <1>2, <2>5 DEF RdRecord
    <3> QED
      BY <1>6, <1>7, <2>1, <3>2, <3>3
  <2> QED
    BY <2>1, <2>3, <2>4, <2>5
<1>9. CASE lookup_walk(q)
  <2> DEFINE hits == masked_flow_lookup(ti[rd[q].ti].flows, rd[q].key, rd[q].mask)
  <2>1. /\ UNCHANGED <<alloc, pend, wait, rcu, flow, mask, arr, ti, tbl, cmd>>
        /\ rd[q].pc = "walk"
        /\ \/ \E f \in hits : rd' = [rd EXCEPT ![q] = [IdleRd EXCEPT !.pc = "hit",
                                                   !.key = rd[q].key, !.flow = f]]
           \/ rd' = [rd EXCEPT ![q].pc = "mask", ![q].i = @ + 1, ![q].mask = NULL]
    BY <1>9 DEF lookup_walk, heap, writerState
  <2>2. rd[q].ti \in TiObj /\ rd[q].ti # NULL /\ ti[rd[q].ti].flows \subseteq FlowObj
    <3>1. rd[q].ti \in TiObj
      BY <1>2, <2>1 DEF RdType
    <3> QED
      BY <3>1, PoolsAssumption DEF OwnInv, TypeOK, Obj
  <2>3. hits \subseteq FlowsOf(q)
    BY <2>2 DEF masked_flow_lookup, FlowsOf
  <2> HIDE DEF hits
  <2>4. CASE \E f \in hits : rd' = [rd EXCEPT ![q] = [IdleRd EXCEPT !.pc = "hit",
                                                   !.key = rd[q].key, !.flow = f]]
    <3>1. PICK f \in hits : rd' = [rd EXCEPT ![q] = [IdleRd EXCEPT !.pc = "hit",
                                                   !.key = rd[q].key, !.flow = f]]
      BY <2>4
    <3>2. /\ rd'[q].pc = "hit" /\ rd'[q].ma = NULL /\ rd'[q].ti = NULL /\ rd'[q].mask = NULL
          /\ rd'[q].flow = f /\ rd'[q].acts = NULL /\ rd' = [rd EXCEPT ![q] = rd'[q]]
      BY <1>2, <3>1 DEF IdleRd
    <3> QED
      BY <1>6, <2>1, <2>3, <3>2
  <2>5. CASE rd' = [rd EXCEPT ![q].pc = "mask", ![q].i = @ + 1, ![q].mask = NULL]
    <3>1. /\ rd'[q].pc = "mask" /\ rd'[q].ma = rd[q].ma /\ rd'[q].ti = rd[q].ti
          /\ rd'[q].mask = NULL /\ rd'[q].flow = rd[q].flow /\ rd'[q].acts = rd[q].acts
          /\ rd' = [rd EXCEPT ![q] = rd'[q]]
      BY <1>2, <2>5 DEF RdRecord
    <3> QED
      BY <1>6, <1>7, <2>1, <3>1
  <2> QED
    BY <2>1, <2>4, <2>5
<1>10. CASE ovs_dp_process_packet(q)
  <2>1. /\ UNCHANGED <<alloc, pend, wait, rcu, flow, mask, arr, ti, tbl, cmd>>
        /\ rd[q].pc = "hit"
        /\ rd' = [rd EXCEPT ![q].pc = "exec", ![q].acts = flow[rd[q].flow].acts]
    BY <1>10 DEF ovs_dp_process_packet, heap, writerState
  <2>2. rd[q].flow \in FlowsOf(q)
    <3>1. rd[q].flow \in FlowObj
      BY <2>1 DEF OwnInv, TypeOK, RdType
    <3> QED
      BY <3>1, PoolsAssumption DEF FlowsOf, Obj
  <2>3. /\ rd'[q].pc = "exec" /\ rd'[q].ma = rd[q].ma /\ rd'[q].ti = rd[q].ti
        /\ rd'[q].mask = rd[q].mask /\ rd'[q].flow = rd[q].flow
        /\ rd'[q].acts = flow[rd[q].flow].acts /\ rd' = [rd EXCEPT ![q] = rd'[q]]
    BY <1>2, <2>1 DEF RdRecord
  <2> QED
    BY <1>6, <2>1, <2>2, <2>3
<1>11. CASE ovs_flow_tbl_dump_next(q)
  <2>1. PICK f \in ti[rd[q].ti].flows :
           /\ UNCHANGED <<alloc, pend, wait, rcu, flow, mask, arr, ti, tbl, cmd>>
           /\ rd[q].pc = "dump"
           /\ rd' = [rd EXCEPT ![q].flow = f, ![q].mask = flow[f].mask, ![q].acts = flow[f].acts]
    BY <1>11 DEF ovs_flow_tbl_dump_next, heap, writerState
  <2>2. f \in FlowsOf(q)
    <3>1. rd[q].ti \in TiObj /\ rd[q].ti # NULL /\ ti[rd[q].ti].flows \subseteq FlowObj
      BY <2>1, PoolsAssumption DEF OwnInv, TypeOK, RdType, Obj
    <3> QED
      BY <3>1 DEF FlowsOf
  <2>3. /\ rd'[q].pc = "dump" /\ rd'[q].ma = rd[q].ma /\ rd'[q].ti = rd[q].ti
        /\ rd'[q].mask = flow[f].mask /\ rd'[q].flow = f
        /\ rd'[q].acts = flow[f].acts /\ rd' = [rd EXCEPT ![q] = rd'[q]]
    BY <1>2, <2>1 DEF RdRecord
  <2>4. flow[f].mask \in Protected(q)
    BY <1>1, <2>2 DEF ReaderInv
  <2> QED
    BY <1>6, <2>1, <2>2, <2>3, <2>4
<1>12. CASE reader_done(q)
  <2>1. /\ UNCHANGED <<alloc, pend, flow, mask, arr, ti, tbl, cmd>>
        /\ rcu' = rcu \ {q}
        /\ wait' = [o \in Obj |-> wait[o] \ {q}]
        /\ rd' = [rd EXCEPT ![q] = IdleRd]
    BY <1>12 DEF reader_done, rcu_read_unlock, writerState
  <2>2. rd'[q] = IdleRd
    BY <1>2, <2>1
  <2>3. ReaderInv(q)'
    BY <2>2, IdleReaderNext
  <2> QED
    BY <2>1, <2>2, <2>3, OthersMem
<1> QED
  BY <1>3, <1>4, <1>5, <1>8, <1>9, <1>10, <1>11, <1>12 DEF Read

\* A step of command t that keeps flows and masks keeps what readers reach protected.
LEMMA CommandReaders ==
  ASSUME OwnInv, OwnInv', ReadersInv, NEW t \in Threads,
         UNCHANGED <<flow, rcu, rd>>, \A u \in Threads : u # t => cmd'[u] = cmd[u],
         cmd'[t].pc \notin {"mask_insert", "key_insert"}, alloc \subseteq alloc',
         \A o \in Obj : o \in pend' => (o \in pend /\ wait'[o] = wait[o]) \/ wait'[o] = rcu,
         \A f \in FlowObj : f \in alloc' => f \in alloc,
         \A x \in ArrObj : x \in alloc => Holds(arr'[x]) \subseteq Holds(arr[x]) \cup Live',
         \A x \in TiObj : x \in alloc => \A f \in ti'[x].flows :
            f \in ti[x].flows \/ (f \in Live' /\ flow'[f].mask \in MaskObj /\ flow'[f].mask \in Live'),
         Inserting' = {} \/ ti' = ti
  PROVE  ReadersInv'
<1> SUFFICES ASSUME NEW r \in Readers PROVE ReaderInv(r)'
  BY DEF ReadersInv
<1>1. r \in rcu => \A o \in Obj : o \in pend' => \/ o \in pend /\ (r \in wait[o] => r \in wait'[o])
                                                 \/ r \in wait'[o]
  OBVIOUS
<1>2. \A u \in Inserting' : /\ u \in Inserting /\ cmd'[u].flow = cmd[u].flow
                            /\ flow'[cmd'[u].flow].acts = flow[cmd[u].flow].acts
  BY InsertingKept
<1>3. ReaderInv(r)
  BY DEF ReadersInv
<1>4. \A u \in Inserting' : ti' = ti
  OBVIOUS
<1> QED
  BY <1>1, <1>2, <1>3, <1>4, ReaderStep

\* Nobody else is inserting while t holds the mutex, or while nobody does.
LEMMA NoneInserting ==
  ASSUME OwnInv, NEW t \in Threads, ovs_mutex = t \/ ovs_mutex = NULL,
         \A u \in Threads : u # t => cmd'[u] = cmd[u],
         cmd'[t].pc \notin {"mask_insert", "key_insert"}
  PROVE  Inserting' = {}
<1>1. \A u \in Threads : u # t => cmd[u].pc \notin {"mask_insert", "key_insert"}
  BY PoolsAssumption DEF OwnInv, LockInv, LockedPcs, Procs
<1> QED
  BY <1>1 DEF Inserting

\* A flow that is linked passes from the command to the table, and its readers may reach
\* it: it is live, and so is its mask.
LEMMA KeyInsertMem ==
  ASSUME OwnInv, OwnInv', MaskInv, OwnerInv, ReadersInv, NEW t \in Threads, flow_key_insert(t)
  PROVE  OwnerInv' /\ ReadersInv'
<1>0. PICK f : f = cmd[t].flow
  OBVIOUS
<1> DEFINE flows == Linked \cup {f}
<1>1. /\ cmd[t].pc = "key_insert"
      /\ cmd' = [cmd EXCEPT ![t] = IdleCmd]
      /\ UNCHANGED <<flow, mask, arr, rcu, rd>>
  BY DEF flow_key_insert, readState
<1>2. /\ f \in FlowObj /\ f \in Live /\ f \notin Linked /\ ovs_mutex = t
  BY <1>0, <1>1 DEF OwnInv, HeldInv, LockInv, LockedPcs, FlowPcs
<1>3. tbl.ti \in TiObj /\ tbl.ti \in Live
  BY DEF OwnInv, TypeOK, TblType, TableInv
<1>4. /\ tbl'.ma = tbl.ma
      /\ ti'[tbl'.ti].flows = flows /\ ti'[tbl.ti].flows = flows
      /\ \A x \in TiObj : x \in alloc /\ x # tbl.ti => ti'[x] = ti[x]
      /\ tbl'.ti = tbl.ti \/ tbl'.ti \notin alloc
      /\ alloc' = alloc \cup {tbl'.ti}
      /\ \A o \in Obj : o \in pend' => \/ o \in pend /\ wait'[o] = wait[o]
                                      \/ wait'[o] = rcu
      /\ pend \subseteq pend' /\ tbl.ti \in pend' \cup {tbl'.ti} /\ pend' \subseteq pend \cup {tbl.ti}
      /\ tbl'.ti \in TiObj
  <2> HIDE DEF flows
  <2> DEFINE Table(inst) ==
          [ti |-> inst, ma |-> tbl.ma, count |-> tbl.count + 1,
           ufid |-> IF flow[f].ufid # NULL THEN tbl.ufid \cup {f} ELSE tbl.ufid,
           ufid_count |-> IF flow[f].ufid # NULL THEN tbl.ufid_count + 1
                                                 ELSE tbl.ufid_count]
  <2>1. ASSUME NEW inst PROVE Table(inst).ti = inst /\ Table(inst).ma = tbl.ma
    OBVIOUS
  <2> HIDE DEF Table
  <2>2. CASE /\ ti' = [ti EXCEPT ![tbl.ti].flows = flows]
             /\ tbl' = Table(tbl.ti)
             /\ UNCHANGED heap
    BY <1>3, <2>1, <2>2 DEF OwnInv, TypeOK, heap, Live
  <2>3. CASE \E new \in Free(TiObj) :
          /\ alloc' = alloc \cup {new}
          /\ ti' = [ti EXCEPT ![tbl.ti].flows = flows,
                      ![new] = [flows |-> flows, n_buckets |-> NewBuckets(tbl.count + 1, ti[tbl.ti].n_buckets)]]
          /\ tbl' = Table(new)
          /\ call_rcu({tbl.ti})
    <3>1. PICK new \in TiObj \ alloc :
          /\ alloc' = alloc \cup {new}
          /\ ti' = [ti EXCEPT ![tbl.ti].flows = flows,
                      ![new] = [flows |-> flows, n_buckets |-> NewBuckets(tbl.count + 1, ti[tbl.ti].n_buckets)]]
          /\ tbl' = Table(new)
          /\ pend' = pend \cup {tbl.ti}
          /\ wait' = [o \in Obj |-> IF o \in {tbl.ti} THEN rcu ELSE wait[o]]
      BY <2>3 DEF Free, call_rcu
    <3>2. new # tbl.ti
      BY <1>3 DEF Live
    <3>3. /\ ti'[new].flows = flows /\ ti'[tbl.ti].flows = flows
          /\ \A x \in TiObj : x \in alloc /\ x # tbl.ti => ti'[x] = ti[x]
      BY <1>3, <3>1, <3>2 DEF OwnInv, TypeOK
    <3>4. tbl'.ti = new /\ tbl'.ma = tbl.ma
      BY <2>1, <3>1
    <3>5. \A o \in Obj : o \in pend' => (o \in pend /\ wait'[o] = wait[o]) \/ wait'[o] = rcu
      BY <3>1
    <3> QED
      BY <3>1, <3>3, <3>4, <3>5
  <2> QED
    BY <1>0, <2>2, <2>3 DEF flow_key_insert, Table, flows
<1>5. cmd'[t] = IdleCmd /\ \A u \in Threads : u # t => cmd'[u] = cmd[u]
  BY <1>1 DEF OwnInv, TypeOK
<1>6. Linked' = flows
  BY <1>4 DEF Linked
<1> HIDE DEF flows
<1>7. cmd[t].acts = NULL /\ cmd[t].ti = NULL
  BY <1>1 DEF OwnerInv, Shape, FlowPcs
<1>8. \A o \in FlowObj \cup ActObj \cup ArrObj : o # NULL /\ (o \in alloc' => o \in alloc)
  BY <1>4, PoolsAssumption DEF Obj
<1>9. OwnerInv'
  <2>1. \A u \in Threads : Shape(cmd'[u])
    BY <1>5, IdleShape DEF OwnerInv
  <2>2. ASSUME NEW g \in FlowObj, g \in alloc' PROVE FlowOwned(g)'
    <3>1. FlowOwned(g)
      BY <1>8, <2>2 DEF OwnerInv
    <3>2. \A u \in Threads : cmd[u].ti = NULL
      BY <1>1, <1>2, <1>7 DEF OwnerInv, Shape, FlowPcs, OwnInv, TypeOK, CmdType, LockInv, LockedPcs, IdleCmd
    <3> QED
      BY <1>0, <1>4, <1>5, <1>6, <1>8, <3>1, <3>2 DEF FlowOwned, flows
  <2>3. ASSUME NEW a \in ActObj, a \in alloc' PROVE ActsOwned(a)'
    <3>1. ActsOwned(a)
      BY <1>8, <2>3 DEF OwnerInv
    <3>2. alloc \subseteq alloc'
      BY <1>4
    <3> QED
      BY <1>1, <1>4, <1>5, <1>7, <1>8, <3>1, <3>2 DEF ActsOwned
  <2>4. ASSUME NEW x \in TiObj, x \in alloc' PROVE TiOwned(x)'
    <3>1. CASE x = tbl'.ti
      BY <3>1 DEF TiOwned
    <3>2. CASE x # tbl'.ti
      <4>1. TiOwned(x) /\ x # NULL
        BY <1>4, <2>4, <3>2, PoolsAssumption DEF OwnerInv, Obj
      <4> QED
        BY <1>4, <1>5, <1>7, <3>2, <4>1 DEF TiOwned
    <3> QED
      BY <3>1, <3>2
  <2>5. ASSUME NEW x \in ArrObj, x \in alloc' PROVE (x \in pend \/ x = tbl.ma)'
    BY <1>4, <1>8, <2>5 DEF OwnerInv
  <2> QED
    BY <2>1, <2>2, <2>3, <2>4, <2>5 DEF OwnerInv
<1>10. ReadersInv'
  <2>1. cmd'[t].pc \notin {"mask_insert", "key_insert"}
    BY <1>5 DEF IdleCmd
  <2>2. Inserting' = {}
    BY <1>2, <1>5, <2>1, NoneInserting
  <2>3. f \in Live' /\ flow'[f].mask \in MaskObj /\ flow'[f].mask \in Live'
    <3>1. f \in Using
      BY <1>0, <1>1 DEF Using, Held
    <3>2. flow[f].mask \in Published /\ flow[f].mask \in Live /\ flow[f].mask \in MaskObj
      BY <3>1, PublishedMasks DEF MaskInv
    <3>3. f # tbl.ti /\ flow[f].mask # tbl.ti
      BY <1>2, <1>3, <3>2, PoolsAssumption
    <3> QED
      BY <1>1, <1>2, <1>4, <3>2, <3>3 DEF Live
  <2>4. \A x \in TiObj : x \in alloc => \A g \in ti'[x].flows :
           g \in ti[x].flows \/ (g \in Live' /\ flow'[g].mask \in MaskObj /\ flow'[g].mask \in Live')
    BY <1>4, <2>3 DEF flows, Linked
  <2>5. \A x \in ArrObj : Holds(arr'[x]) = Holds(arr[x])
    BY <1>1
  <2>6. alloc \subseteq alloc'
    BY <1>4
  <2> QED
    BY <1>1, <1>4, <1>5, <1>8, <2>1, <2>2, <2>4, <2>5, <2>6, CommandReaders
<1> QED
  BY <1>9, <1>10

\* A deleted flow passes from the table to the command; readers still reach it.
LEMMA DelMem ==
  ASSUME OwnInv, OwnInv', OwnerInv, ReadersInv, NEW t \in Threads, NEW k, NEW u,
         ovs_flow_cmd_del(t, k, u)
  PROVE  OwnerInv' /\ ReadersInv'
<1>1. PICK g \in Linked :
       /\ ti' = [ti EXCEPT ![tbl.ti].flows = @ \ {g}]
       /\ tbl' = [tbl EXCEPT !.count = @ - 1,
                    !.ufid = @ \ {g},
                    !.ufid_count = IF flow[g].ufid # NULL THEN @ - 1 ELSE @]
       /\ cmd' = [cmd EXCEPT ![t] = [IdleCmd EXCEPT !.pc = "mask_remove", !.flow = g]]
  BY SelectedLinked DEF OwnInv, ovs_flow_cmd_del
<1>2. /\ cmd[t].pc = "idle" /\ ovs_mutex = NULL
      /\ UNCHANGED <<alloc, pend, wait, flow, mask, arr, rcu, rd>>
  BY DEF ovs_flow_cmd_del, heap, readState
<1>3. tbl.ti \in TiObj /\ tbl'.ti = tbl.ti /\ tbl'.ma = tbl.ma
  BY <1>1 DEF OwnInv, TypeOK, TblType
<1>4. /\ cmd'[t].pc = "mask_remove" /\ cmd'[t].flow = g
      /\ cmd'[t].acts = NULL /\ cmd'[t].ti = NULL
      /\ \A x \in Threads : x # t => cmd'[x] = cmd[x]
  BY <1>1 DEF OwnInv, TypeOK, IdleCmd
<1>5. /\ Linked' = Linked \ {g}
      /\ \A x \in TiObj : ti'[x].flows \subseteq ti[x].flows
      /\ \A x \in TiObj : x # tbl.ti => ti'[x] = ti[x]
  BY <1>1, <1>3 DEF Linked, OwnInv, TypeOK
<1>6. cmd[t].flow = NULL /\ cmd[t].acts = NULL /\ cmd[t].ti = NULL
  BY <1>2 DEF OwnerInv, Shape, IdleCmd
<1>7. \A o \in Obj : o # NULL
  BY PoolsAssumption
<1>8. \A x \in Threads : cmd[x].ti = NULL
  BY <1>2, PoolsAssumption DEF OwnerInv, Shape, FlowPcs, OwnInv, TypeOK, CmdType, LockInv, LockedPcs, IdleCmd, Procs
<1>9. OwnerInv'
  <2>1. \A x \in Threads : Shape(cmd'[x])
    BY <1>4 DEF OwnerInv, Shape, FlowPcs
  <2>2. ASSUME NEW f \in FlowObj, f \in alloc' PROVE FlowOwned(f)'
    <3>1. FlowOwned(f) /\ f # NULL
      BY <1>2, <1>7, <2>2 DEF OwnerInv, Obj
    <3> QED
      BY <1>2, <1>4, <1>5, <1>6, <1>8, <3>1 DEF FlowOwned
  <2>3. ASSUME NEW a \in ActObj, a \in alloc' PROVE ActsOwned(a)'
    <3>1. ActsOwned(a) /\ a # NULL
      BY <1>2, <1>7, <2>3 DEF OwnerInv, Obj
    <3> QED
      BY <1>2, <1>4, <1>6, <3>1 DEF ActsOwned
  <2>4. ASSUME NEW x \in TiObj, x \in alloc' PROVE TiOwned(x)'
    <3>1. TiOwned(x) /\ x # NULL
      BY <1>2, <1>7, <2>4 DEF OwnerInv, Obj
    <3> QED
      BY <1>2, <1>3, <1>4, <1>6, <3>1 DEF TiOwned
  <2>5. \A x \in ArrObj : x \in alloc' => (x \in pend \/ x = tbl.ma)'
    BY <1>2, <1>3 DEF OwnerInv
  <2> QED
    BY <2>1, <2>2, <2>3, <2>4, <2>5 DEF OwnerInv
<1>10. ReadersInv'
  <2>1. Inserting' = {}
    BY <1>2, <1>4, NoneInserting
  <2>2. \A x \in ArrObj : Holds(arr'[x]) = Holds(arr[x])
    BY <1>2
  <2>3. \A x \in TiObj : x \in alloc => \A f \in ti'[x].flows :
            f \in ti[x].flows \/ (f \in Live' /\ flow'[f].mask \in MaskObj /\ flow'[f].mask \in Live')
    BY <1>5
  <2> QED
    BY <1>2, <1>4, <2>1, <2>2, <2>3, CommandReaders
<1> QED
  BY <1>9, <1>10

\* A flushed instance passes from the table to the command, with its flows.
LEMMA FlushMem ==
  ASSUME OwnInv, OwnInv', OwnerInv, ReadersInv, NEW t \in Threads, ovs_flow_tbl_flush(t)
  PROVE  OwnerInv' /\ ReadersInv'
<1>1. /\ cmd[t].pc = "idle" /\ ovs_mutex = NULL
      /\ cmd' = [cmd EXCEPT ![t] = [IdleCmd EXCEPT !.pc = "flush", !.ti = tbl.ti]]
      /\ UNCHANGED <<pend, wait, flow, mask, arr, rcu, rd>>
  BY DEF ovs_flow_tbl_flush, readState
<1>2. PICK new \in TiObj \ alloc :
       /\ alloc' = alloc \cup {new}
       /\ ti' = [ti EXCEPT ![new] = [flows |-> {}, n_buckets |-> TBL_MIN_BUCKETS]]
       /\ tbl' = Flushed(new)
  BY DEF ovs_flow_tbl_flush, Free
<1>3. /\ tbl.ti \in TiObj /\ tbl.ti \in alloc /\ tbl.ti # new /\ tbl.ti # NULL
      /\ tbl'.ti = new /\ tbl'.ma = tbl.ma
  BY <1>2, PoolsAssumption DEF OwnInv, TypeOK, TblType, TableInv, Live, Flushed, Obj
<1>4. /\ cmd'[t].pc = "flush" /\ cmd'[t].ti = tbl.ti
      /\ cmd'[t].flow = NULL /\ cmd'[t].acts = NULL
      /\ \A x \in Threads : x # t => cmd'[x] = cmd[x]
  BY <1>1 DEF OwnInv, TypeOK, IdleCmd
<1>5. /\ \A x \in TiObj : x \in alloc => ti'[x] = ti[x]
      /\ ti'[tbl.ti].flows = Linked
  BY <1>2, <1>3 DEF Linked, OwnInv, TypeOK
<1>6. \A x \in Threads : cmd[x].ti = NULL
  BY <1>1, PoolsAssumption DEF OwnerInv, Shape, FlowPcs, OwnInv, TypeOK, CmdType, LockInv, LockedPcs, IdleCmd, Procs
<1>7. cmd[t].flow = NULL /\ cmd[t].acts = NULL
  BY <1>1 DEF OwnerInv, Shape, IdleCmd
<1>8. \A o \in FlowObj \cup ActObj \cup ArrObj : o # NULL /\ (o \in alloc' => o \in alloc)
  BY <1>2, PoolsAssumption DEF Obj
<1>9. OwnerInv'
  <2>1. \A x \in Threads : Shape(cmd'[x])
    BY <1>4 DEF OwnerInv, Shape, FlowPcs
  <2>2. ASSUME NEW f \in FlowObj, f \in alloc' PROVE FlowOwned(f)'
    <3>1. FlowOwned(f)
      BY <1>8, <2>2 DEF OwnerInv
    <3> QED
      BY <1>1, <1>3, <1>4, <1>5, <1>6, <1>7, <1>8, <3>1 DEF FlowOwned
  <2>3. ASSUME NEW a \in ActObj, a \in alloc' PROVE ActsOwned(a)'
    <3>1. ActsOwned(a)
      BY <1>8, <2>3 DEF OwnerInv
    <3>2. alloc \subseteq alloc'
      BY <1>2
    <3> QED
      BY <1>1, <1>4, <1>7, <1>8, <3>1, <3>2 DEF ActsOwned
  <2>4. ASSUME NEW x \in TiObj, x \in alloc' PROVE TiOwned(x)'
    <3>1. CASE x = new
      BY <1>3, <3>1 DEF TiOwned
    <3>2. CASE x # new
      <4>1. TiOwned(x) /\ x # NULL
        BY <1>2, <2>4, <3>2, PoolsAssumption DEF OwnerInv, Obj
      <4> QED
        BY <1>1, <1>4, <1>6, <4>1 DEF TiOwned
    <3> QED
      BY <3>1, <3>2
  <2>5. ASSUME NEW x \in ArrObj, x \in alloc' PROVE (x \in pend \/ x = tbl.ma)'
    BY <1>1, <1>3, <1>8, <2>5 DEF OwnerInv
  <2> QED
    BY <2>1, <2>2, <2>3, <2>4, <2>5 DEF OwnerInv
<1>10. ReadersInv'
  <2>1. Inserting' = {}
    BY <1>1, <1>4, NoneInserting
  <2>2. \A x \in ArrObj : Holds(arr'[x]) = Holds(arr[x])
    BY <1>1
  <2>3. \A x \in TiObj : x \in alloc => \A f \in ti'[x].flows :
            f \in ti[x].flows \/ (f \in Live' /\ flow'[f].mask \in MaskObj /\ flow'[f].mask \in Live')
    BY <1>5
  <2>4. alloc \subseteq alloc'
    BY <1>2
  <2> QED
    BY <1>1, <1>4, <1>8, <2>1, <2>2, <2>3, <2>4, CommandReaders
<1> QED
  BY <1>9, <1>10

\* Each flow of a flushed instance passes to its callback, and then the instance.
LEMMA DestroyMem ==
  ASSUME OwnInv, OwnInv', OwnerInv, ReadersInv, NEW t \in Threads, table_instance_destroy(t)
  PROVE  OwnerInv' /\ ReadersInv'
<1>0. PICK old : old = cmd[t].ti
  OBVIOUS
<1>1. /\ cmd[t].pc = "flush" /\ UNCHANGED <<alloc, flow, mask, arr, tbl, rcu, rd>>
  BY DEF table_instance_destroy, readState
<1>2. /\ old \in TiObj /\ old # tbl.ti /\ ti[old].flows \subseteq FlowObj /\ tbl.ti \in TiObj
      /\ ovs_mutex = t /\ old # NULL
  BY <1>0, <1>1, PoolsAssumption DEF OwnInv, FlushInv, TypeOK, TblType, LockInv, LockedPcs, Obj
<1>3. cmd[t].flow = NULL /\ cmd[t].acts = NULL
  BY <1>1 DEF OwnerInv, Shape
<1>4. \A x \in Threads : x # t => cmd[x].ti = NULL
  BY <1>2 DEF OwnerInv, Shape, FlowPcs, OwnInv, TypeOK, CmdType, LockInv, LockedPcs, IdleCmd
<1>5. \A o \in Obj : o # NULL
  BY PoolsAssumption
<1>6. CASE \E f \in ti[old].flows : /\ ti' = [ti EXCEPT ![old].flows = @ \ {f}]
                                   /\ call_rcu({f})
                                   /\ UNCHANGED cmd
  <2>1. PICK f \in ti[old].flows : /\ ti' = [ti EXCEPT ![old].flows = @ \ {f}]
                                  /\ pend' = pend \cup {f}
                                  /\ wait' = [o \in Obj |-> IF o \in {f} THEN rcu ELSE wait[o]]
                                  /\ UNCHANGED cmd
    BY <1>6 DEF call_rcu
  <2>2. /\ ti'[old].flows = ti[old].flows \ {f}
        /\ \A x \in TiObj : x # old => ti'[x] = ti[x]
    BY <1>2, <2>1 DEF OwnInv, TypeOK
  <2>3. Linked' = Linked
    BY <1>1, <1>2, <2>2 DEF Linked
  <2>4. OwnerInv'
    <3>1. \A x \in Threads : Shape(cmd'[x])
      BY <2>1 DEF OwnerInv
    <3>2. ASSUME NEW g \in FlowObj, g \in alloc' PROVE FlowOwned(g)'
      <4>1. FlowOwned(g)
        BY <1>1, <3>2 DEF OwnerInv
      <4> QED
        BY <1>0, <1>2, <1>4, <2>1, <2>2, <2>3, <4>1 DEF FlowOwned
    <3>3. ASSUME NEW a \in ActObj, a \in alloc' PROVE ActsOwned(a)'
      <4>1. ActsOwned(a)
        BY <1>1, <3>3 DEF OwnerInv
      <4> QED
        BY <1>1, <2>1, <4>1 DEF ActsOwned
    <3>4. ASSUME NEW x \in TiObj, x \in alloc' PROVE TiOwned(x)'
      <4>1. TiOwned(x)
        BY <1>1, <3>4 DEF OwnerInv
      <4> QED
        BY <1>1, <2>1, <4>1 DEF TiOwned
    <3>5. \A x \in ArrObj : x \in alloc' => (x \in pend \/ x = tbl.ma)'
      BY <1>1, <2>1 DEF OwnerInv
    <3> QED
      BY <3>1, <3>2, <3>3, <3>4, <3>5 DEF OwnerInv
  <2>5. ReadersInv'
    <3>1. cmd'[t].pc \notin {"mask_insert", "key_insert"} /\ \A x \in Threads : cmd'[x] = cmd[x]
      BY <1>1, <2>1
    <3>2. Inserting' = {}
      BY <1>2, <3>1, NoneInserting
    <3>3. \A x \in ArrObj : Holds(arr'[x]) = Holds(arr[x])
      BY <1>1
    <3>4. \A x \in TiObj : x \in alloc => \A g \in ti'[x].flows :
            g \in ti[x].flows \/ (g \in Live' /\ flow'[g].mask \in MaskObj /\ flow'[g].mask \in Live')
      BY <2>2
    <3>5. \A o \in Obj : o \in pend' => (o \in pend /\ wait'[o] = wait[o]) \/ wait'[o] = rcu
      BY <2>1
    <3> QED
      BY <1>1, <3>1, <3>2, <3>3, <3>4, <3>5, CommandReaders
  <2> QED
    BY <2>4, <2>5
<1>7. CASE /\ ti[old].flows = {}
           /\ call_rcu({old})
           /\ cmd' = [cmd EXCEPT ![t] = IdleCmd]
           /\ UNCHANGED ti
  <2>1. /\ pend' = pend \cup {old}
        /\ wait' = [o \in Obj |-> IF o \in {old} THEN rcu ELSE wait[o]]
    BY <1>7 DEF call_rcu
  <2>2. cmd'[t] = IdleCmd /\ \A x \in Threads : x # t => cmd'[x] = cmd[x]
    BY <1>7 DEF OwnInv, TypeOK
  <2>3. Linked' = Linked
    BY <1>1, <1>7 DEF Linked
  <2>4. OwnerInv'
    <3>1. \A x \in Threads : Shape(cmd'[x])
      BY <2>2, IdleShape DEF OwnerInv
    <3>2. ASSUME NEW g \in FlowObj, g \in alloc' PROVE FlowOwned(g)'
      <4>1. FlowOwned(g) /\ g # NULL
        BY <1>1, <1>5, <3>2 DEF OwnerInv, Obj
      <4> QED
        BY <1>0, <1>3, <1>4, <1>7, <2>1, <2>2, <2>3, <4>1 DEF FlowOwned
    <3>3. ASSUME NEW a \in ActObj, a \in alloc' PROVE ActsOwned(a)'
      <4>1. ActsOwned(a) /\ a # NULL
        BY <1>1, <1>5, <3>3 DEF OwnerInv, Obj
      <4> QED
        BY <1>1, <1>3, <2>1, <2>2, <4>1 DEF ActsOwned
    <3>4. ASSUME NEW x \in TiObj, x \in alloc' PROVE TiOwned(x)'
      <4>1. TiOwned(x) /\ x # NULL
        BY <1>1, <1>5, <3>4 DEF OwnerInv, Obj
      <4> QED
        BY <1>0, <1>1, <2>1, <2>2, <4>1 DEF TiOwned
    <3>5. \A x \in ArrObj : x \in alloc' => (x \in pend \/ x = tbl.ma)'
      BY <1>1, <2>1 DEF OwnerInv
    <3> QED
      BY <3>1, <3>2, <3>3, <3>4, <3>5 DEF OwnerInv
  <2>5. ReadersInv'
    <3>1. cmd'[t].pc \notin {"mask_insert", "key_insert"}
      BY <2>2 DEF IdleCmd
    <3>2. \A x \in ArrObj : Holds(arr'[x]) = Holds(arr[x])
      BY <1>1
    <3>3. \A o \in Obj : o \in pend' => (o \in pend /\ wait'[o] = wait[o]) \/ wait'[o] = rcu
      BY <2>1
    <3> QED
      BY <1>1, <1>7, <2>2, <3>1, <3>2, <3>3, CommandReaders
  <2> QED
    BY <2>4, <2>5
<1> QED
  BY <1>0, <1>6, <1>7 DEF table_instance_destroy

\* A mask whose last flow goes passes to its callback, and so does an array that shrinks.
LEMMA MaskRemoveMem ==
  ASSUME OwnInv, OwnInv', MaskInv, MaskInv', OwnerInv, ReadersInv, NEW t \in Threads,
         flow_mask_remove(t)
  PROVE  OwnerInv' /\ ReadersInv'
<1>0. PICK mo : mo = flow[cmd[t].flow].mask
  OBVIOUS
<1> DEFINE a  == tbl_mask_array_delete_mask(arr[tbl.ma], mo)
<1>1. /\ cmd[t].pc = "mask_remove" /\ UNCHANGED <<flow, ti, rcu, rd>>
      /\ cmd' = [cmd EXCEPT ![t].pc = "del_reply"]
  BY DEF flow_mask_remove, readState
<1>2. tbl.ma \in ArrObj /\ tbl.ma \in alloc /\ tbl \in TblType
  BY DEF OwnInv, TypeOK, TblType, TableInv, Live
<1>3. mo \in MaskObj
  BY <1>0, <1>1 DEF OwnInv, HeldInv, FlowPcs
<1>4. Holds(a) \subseteq Holds(arr[tbl.ma])
  BY DEF Holds, Used, tbl_mask_array_delete_mask
<1> HIDE DEF a
<1>5. /\ tbl'.ti = tbl.ti
      /\ alloc \subseteq alloc' /\ alloc' \subseteq alloc \cup {tbl'.ma} /\ tbl'.ma \in ArrObj
      /\ pend \subseteq pend' /\ pend' \subseteq pend \cup {mo, tbl.ma}
      /\ tbl.ma \in pend' \cup {tbl'.ma}
      /\ \A o \in Obj : o \in pend' => (o \in pend /\ wait'[o] = wait[o]) \/ wait'[o] = rcu
      /\ \A x \in ArrObj : x \in alloc => arr'[x] = arr[x] \/ (x = tbl.ma /\ arr'[x] = a)
  <2>1. CASE UNCHANGED <<heap, arr, tbl>>
    BY <1>2, <2>1 DEF heap
  <2>2. CASE /\ arr' = [arr EXCEPT ![tbl.ma] = a]
             /\ call_rcu({mo})
             /\ UNCHANGED <<alloc, tbl>>
    BY <1>2, <2>2 DEF call_rcu, OwnInv, TypeOK
  <2>3. CASE \E na \in Free(ArrObj), b \in InOrder(Used(a)) :
             /\ alloc' = alloc \cup {na}
             /\ arr' = [arr EXCEPT ![tbl.ma] = a,
                          ![na] = tbl_mask_array_alloc(a.max \div 2, a, b)]
             /\ tbl' = [tbl EXCEPT !.ma = na]
             /\ call_rcu({mo, tbl.ma})
    <3>1. PICK na \in ArrObj \ alloc, b \in InOrder(Used(a)) :
             /\ alloc' = alloc \cup {na}
             /\ arr' = [arr EXCEPT ![tbl.ma] = a,
                          ![na] = tbl_mask_array_alloc(a.max \div 2, a, b)]
             /\ tbl' = [tbl EXCEPT !.ma = na]
             /\ pend' = pend \cup {mo, tbl.ma}
             /\ wait' = [o \in Obj |-> IF o \in {mo, tbl.ma} THEN rcu ELSE wait[o]]
      BY <2>3 DEF Free, call_rcu
    <3>2. tbl'.ti = tbl.ti /\ tbl'.ma = na
      BY <1>2, <3>1 DEF TblType
    <3>3. \A x \in ArrObj : x \in alloc => arr'[x] = arr[x] \/ (x = tbl.ma /\ arr'[x] = a)
      BY <1>2, <3>1 DEF OwnInv, TypeOK
    <3>4. \A o \in Obj : o \in pend' => (o \in pend /\ wait'[o] = wait[o]) \/ wait'[o] = rcu
      BY <3>1
    <3> QED
      BY <3>1, <3>2, <3>3, <3>4
  <2> QED
    BY <1>0, <2>1, <2>2, <2>3 DEF flow_mask_remove, a
<1>6. /\ cmd'[t].pc = "del_reply" /\ cmd'[t].flow = cmd[t].flow
      /\ cmd'[t].acts = cmd[t].acts /\ cmd'[t].ti = cmd[t].ti
      /\ \A u \in Threads : u # t => cmd'[u] = cmd[u]
  BY <1>1 DEF OwnInv, TypeOK, CmdType
<1>7. Linked' = Linked /\ \A u \in Threads : /\ cmd'[u].flow = cmd[u].flow
                                            /\ cmd'[u].acts = cmd[u].acts
                                            /\ cmd'[u].ti = cmd[u].ti
  BY <1>1, <1>5, <1>6 DEF Linked
<1>8. \A o \in FlowObj \cup ActObj \cup TiObj : o \in alloc' => o \in alloc
  BY <1>5, PoolsAssumption
<1>9. OwnerInv'
  <2>1. Shape(cmd'[t])
    BY <1>1, <1>6 DEF OwnerInv, Shape, FlowPcs
  <2>2. \A u \in Threads : Shape(cmd'[u])
    BY <1>6, <2>1 DEF OwnerInv
  <2>3. \A f \in FlowObj : f \in alloc' => FlowOwned(f)'
    BY <1>1, <1>5, <1>7, <1>8 DEF OwnerInv, FlowOwned
  <2>4. ASSUME NEW x \in ActObj, x \in alloc' PROVE ActsOwned(x)'
    <3>1. ActsOwned(x)
      BY <1>8, <2>4 DEF OwnerInv
    <3> QED
      BY <1>1, <1>5, <1>7, <3>1 DEF ActsOwned
  <2>5. \A x \in TiObj : x \in alloc' => TiOwned(x)'
    BY <1>5, <1>7, <1>8 DEF OwnerInv, TiOwned
  <2>6. \A x \in ArrObj : x \in alloc' => (x \in pend \/ x = tbl.ma)'
    BY <1>5 DEF OwnerInv
  <2> QED
    BY <2>2, <2>3, <2>4, <2>5, <2>6 DEF OwnerInv
<1>10. ReadersInv'
  <2>1. \A x \in ArrObj : x \in alloc => Holds(arr'[x]) \subseteq Holds(arr[x])
    BY <1>4, <1>5
  <2>2. cmd'[t].pc \notin {"mask_insert", "key_insert"}
    BY <1>6
  <2> QED
    BY <1>1, <1>5, <1>6, <1>8, <2>1, <2>2, CommandReaders
<1> QED
  BY <1>9, <1>10

\* A flow that gets its mask stays with the command, out of the reach of readers.
LEMMA UseMaskMem ==
  ASSUME OwnInv, OwnInv', OwnerInv, ReadersInv, NEW t \in Threads, NEW mo \in MaskObj,
         cmd[t].pc = "mask_insert",
         flow' = [flow EXCEPT ![cmd[t].flow].mask = mo],
         cmd' = [cmd EXCEPT ![t].pc = "key_insert"],
         UNCHANGED <<ti, rcu, rd>>, tbl'.ti = tbl.ti, alloc \subseteq alloc', pend \subseteq pend',
         \A o \in FlowObj \cup ActObj \cup TiObj : o \in alloc' => o \in alloc,
         \A o \in Obj : o \in pend' => (o \in pend /\ wait'[o] = wait[o]) \/ wait'[o] = rcu,
         \A x \in ArrObj : x \in alloc' => (x \in pend' \/ x = tbl'.ma),
         \A x \in ArrObj : x \in alloc => Holds(arr'[x]) \subseteq Holds(arr[x]) \cup Live'
  PROVE  OwnerInv' /\ ReadersInv'
<1>1. PICK g : g = cmd[t].flow
  OBVIOUS
<1>2. g \in FlowObj /\ g \in alloc
  BY <1>1 DEF OwnInv, HeldInv, FlowPcs, Live
<1>3. /\ cmd'[t].pc = "key_insert" /\ cmd'[t].flow = cmd[t].flow
      /\ cmd'[t].acts = cmd[t].acts /\ cmd'[t].ti = cmd[t].ti
      /\ \A u \in Threads : u # t => cmd'[u] = cmd[u]
  BY DEF OwnInv, TypeOK, CmdType
<1>4. /\ Linked' = Linked /\ Inserting' = Inserting /\ t \in Inserting
      /\ \A u \in Threads : /\ cmd'[u].flow = cmd[u].flow
                            /\ cmd'[u].acts = cmd[u].acts
                            /\ cmd'[u].ti = cmd[u].ti
  BY <1>3 DEF Linked, Inserting
<1>5. /\ \A f \in FlowObj : flow'[f].acts = flow[f].acts
      /\ \A f \in FlowObj : f # g => flow'[f].mask = flow[f].mask
  BY <1>1, <1>2 DEF OwnInv, TypeOK, FlowType
<1>6. OwnerInv'
  <2>1. Shape(cmd'[t])
    BY <1>3 DEF OwnerInv, Shape, FlowPcs
  <2>2. \A u \in Threads : Shape(cmd'[u])
    BY <1>3, <2>1 DEF OwnerInv
  <2>3. \A f \in FlowObj : f \in alloc' => FlowOwned(f)'
    BY <1>4 DEF OwnerInv, FlowOwned
  <2>4. ASSUME NEW x \in ActObj, x \in alloc' PROVE ActsOwned(x)'
    <3>1. ActsOwned(x)
      BY <2>4 DEF OwnerInv
    <3> QED
      BY <1>4, <1>5, <3>1 DEF ActsOwned
  <2>5. \A x \in TiObj : x \in alloc' => TiOwned(x)'
    BY <1>4 DEF OwnerInv, TiOwned
  <2> QED
    BY <2>2, <2>3, <2>4, <2>5 DEF OwnerInv
<1>7. ReadersInv'
  <2> SUFFICES ASSUME NEW r \in Readers PROVE ReaderInv(r)'
    BY DEF ReadersInv
  <2>1. ReaderInv(r) /\ rd'[r] = rd[r] /\ (r \in rcu => r \in rcu')
    BY DEF ReadersInv
  <2>2. r \in rcu => \A o \in Obj : o \in pend' => \/ o \in pend /\ (r \in wait[o] => r \in wait'[o])
                                                   \/ r \in wait'[o]
    OBVIOUS
  <2>3. \A f \in FlowObj : f \in alloc => \/ flow'[f].mask = flow[f].mask
                                          \/ \E u \in Inserting : cmd[u].flow = f
    BY <1>1, <1>4, <1>5
  <2>4. \A f \in FlowObj : f \in alloc' => \/ f \in alloc /\ flow'[f].acts = flow[f].acts
                                           \/ flow'[f].acts \notin alloc
    BY <1>5
  <2>5. \A u \in Inserting : cmd[u].flow \in FlowObj
    BY DEF OwnInv, HeldInv, FlowPcs, Inserting
  <2>6. \A u \in Inserting' : /\ ti' = ti
                              /\ u \in Inserting /\ cmd'[u].flow = cmd[u].flow
                              /\ flow'[cmd'[u].flow].acts = flow[cmd[u].flow].acts
    BY <1>4, <1>5, <2>5 DEF Inserting
  <2>7. \A x \in TiObj : x \in alloc => \A f \in ti'[x].flows :
            f \in ti[x].flows \/ (f \in Live' /\ flow'[f].mask \in MaskObj /\ flow'[f].mask \in Live')
    OBVIOUS
  <2> QED
    BY <2>1, <2>2, <2>3, <2>4, <2>6, <2>7, ReaderStep
<1> QED
  BY <1>6, <1>7

\* The masks of an array to which a mask is added.
LEMMA AddMaskSubset ==
  ASSUME NEW a, NEW mo, mo # NULL
  PROVE  Holds(AddMask(a, mo)) \subseteq Holds(a) \cup {mo}
<1> DEFINE b == AddMask(a, mo)
<1>1. /\ b.max = a.max
      /\ b.masks = [i \in 1..a.max |-> IF i \in EmptySlot(a) THEN mo ELSE a.masks[i]]
  BY DEF AddMask
<1> HIDE DEF b
<1>2. ASSUME NEW i \in Used(b) PROVE b.masks[i] \in Holds(a) \cup {mo}
  <2>1. i \in 1..a.max /\ b.masks[i] # NULL
    BY <1>1 DEF Used
  <2> QED
    BY <1>1, <2>1 DEF Used, Holds
<1> QED
  BY <1>2 DEF Holds, b

\* A flow whose mask cannot be had is freed with its actions; no reader can reach either.
LEMMA DropFlowMem ==
  ASSUME OwnInv, OwnInv', OwnerInv, ReadersInv, NEW t \in Threads,
         cmd[t].pc = "mask_insert",
         alloc' = alloc \ {cmd[t].flow, flow[cmd[t].flow].acts},
         flow' = [flow EXCEPT ![cmd[t].flow] = NoFlow],
         cmd' = [cmd EXCEPT ![t] = IdleCmd],
         UNCHANGED <<pend, wait, arr, ti, tbl, rcu, rd>>
  PROVE  OwnerInv' /\ ReadersInv'
<1>1. PICK g : g = cmd[t].flow
  OBVIOUS
<1>2. PICK b : b = flow[g].acts
  OBVIOUS
<1>3. /\ g \in FlowObj /\ g \in Live /\ g \notin Linked /\ ovs_mutex = t
      /\ \A u \in Threads : cmd[u].pc \in FlowPcs /\ cmd[u].flow = g => u = t
  BY <1>1 DEF OwnInv, HeldInv, FlowPcs, LockInv, LockedPcs
<1>4. b \in ActObj /\ b \in Live /\ \A f \in FlowObj : f \in alloc /\ flow[f].acts = b => f = g
  BY <1>2, <1>3 DEF OwnInv, ActsInv, Live
<1>5. alloc' = alloc \ {g, b} /\ \A f \in FlowObj : f # g => flow'[f] = flow[f]
  BY <1>1, <1>2 DEF OwnInv, TypeOK
<1>6. cmd'[t] = IdleCmd /\ \A u \in Threads : u # t => cmd'[u] = cmd[u]
  BY DEF OwnInv, TypeOK
<1>7. cmd[t].acts = NULL /\ cmd[t].ti = NULL
  BY DEF OwnerInv, Shape, FlowPcs
<1>8. /\ \A o \in FlowObj : o # b
      /\ \A o \in ActObj : o # g
      /\ \A o \in MaskObj \cup ArrObj \cup TiObj : o # g /\ o # b
      /\ \A o \in Obj : o # NULL
  BY <1>3, <1>4, PoolsAssumption
<1>9. Linked' = Linked
  BY DEF Linked
<1>10. OwnerInv'
  <2>1. \A u \in Threads : Shape(cmd'[u])
    BY <1>6, IdleShape DEF OwnerInv
  <2>2. ASSUME NEW f \in FlowObj, f \in alloc' PROVE FlowOwned(f)'
    <3>1. FlowOwned(f) /\ f # g /\ f # NULL
      BY <1>5, <1>8, <2>2 DEF OwnerInv, Obj
    <3> QED
      BY <1>1, <1>6, <1>7, <1>9, <3>1 DEF FlowOwned
  <2>3. ASSUME NEW x \in ActObj, x \in alloc' PROVE ActsOwned(x)'
    <3>1. ActsOwned(x) /\ x # b /\ x # NULL
      BY <1>5, <1>8, <2>3 DEF OwnerInv, Obj
    <3>2. \A f \in FlowObj : f \in alloc /\ flow[f].acts = x => f \in alloc' /\ flow'[f].acts = x
      BY <1>2, <1>5, <1>8, <3>1
    <3> QED
      BY <1>6, <1>7, <3>1, <3>2 DEF ActsOwned
  <2>4. ASSUME NEW x \in TiObj, x \in alloc' PROVE TiOwned(x)'
    <3>1. TiOwned(x) /\ x # NULL
      BY <1>5, <1>8, <2>4 DEF OwnerInv, Obj
    <3> QED
      BY <1>6, <1>7, <3>1 DEF TiOwned
  <2>5. \A x \in ArrObj : x \in alloc' => (x \in pend' \/ x = tbl'.ma)
    BY <1>5 DEF OwnerInv
  <2> QED
    BY <2>1, <2>2, <2>3, <2>4, <2>5 DEF OwnerInv
<1>11. ASSUME NEW r \in Readers PROVE ReaderInv(r)'
  <2>1. ReaderInv(r) /\ t \in Inserting
    BY DEF ReadersInv, Inserting
  <2>2. CASE rd[r].pc = "idle"
    <3>1. rd'[r] = IdleRd
      BY <2>1, <2>2 DEF ReaderInv
    <3> QED
      BY <3>1, IdleReaderNext
  <2>3. CASE rd[r].pc # "idle"
    <3>1. g \notin FlowsOf(r) /\ b # rd[r].acts
      BY <1>1, <1>2, <2>1 DEF ReaderInv
    <3>2. rd[r] \in RdRecord
      BY DEF OwnInv, TypeOK, RdType
    <3>3. Inserting' = {}
      <4>1. cmd'[t].pc \notin {"mask_insert", "key_insert"}
        BY <1>6 DEF IdleCmd
      <4> QED
        BY <1>3, <1>6, <4>1, NoneInserting
    <3>4. Protected(r)' = Protected(r) \ {g, b}
      BY <1>5 DEF Protected
    <3>5. Loads(r)' = Loads(r) /\ FlowsOf(r)' = FlowsOf(r)
      BY DEF Loads, FlowsOf
    <3>6. Loads(r) \subseteq Protected(r)'
      <4>1. /\ rd[r].ma \in ArrObj \cup {NULL} /\ rd[r].ti \in TiObj \cup {NULL}
            /\ rd[r].mask \in MaskObj \cup {NULL} /\ rd[r].acts \in ActObj \cup {NULL}
        BY <3>2 DEF RdRecord
      <4>2. g \notin Loads(r) /\ b \notin Loads(r)
        BY <1>3, <1>4, <1>8, <3>1, <4>1 DEF Loads
      <4> QED
        BY <2>1, <3>4, <4>2 DEF ReaderInv
    <3>7. rd'[r].ma # NULL => Holds(arr'[rd'[r].ma]) \subseteq Protected(r)'
      <4>1. ASSUME rd[r].ma # NULL PROVE Holds(arr[rd[r].ma]) \subseteq MaskObj
        <5>1. IsMaskArray(arr[rd[r].ma])
          BY <3>2, <4>1 DEF OwnInv, TypeOK, RdRecord
        <5> QED
          BY <5>1 DEF IsMaskArray, Holds, Used
      <4> QED
        BY <1>8, <2>1, <3>4, <4>1 DEF ReaderInv
    <3>8. \A f \in FlowsOf(r) : f \in FlowObj /\ f # g /\ f # b
      <4>1. rd[r].flow \in FlowObj \cup {NULL}
        BY <3>2 DEF RdRecord
      <4> QED
        BY <1>8, <3>1, <4>1 DEF FlowsOf
    <3>9. \A f \in FlowsOf(r) : /\ f \in Protected(r)'
                                /\ flow'[f].mask \in MaskObj /\ flow'[f].mask \in Protected(r)'
      BY <1>5, <1>8, <2>1, <3>4, <3>8 DEF ReaderInv
    <3>10. \A f \in FlowObj : f \in alloc' /\ flow'[f].acts = rd'[r].acts => f \in Protected(r)'
      BY <1>5, <1>8, <2>1, <3>4 DEF ReaderInv
    <3> QED
      BY <2>1, <2>3, <3>3, <3>5, <3>6, <3>7, <3>9, <3>10 DEF ReaderInv
  <2> QED
    BY <2>2, <2>3
<1> QED
  BY <1>10, <1>11 DEF ReadersInv

\* flow_mask_insert(): readers of the arrays see live masks, the old array passes to its
\* callback, and the flow keeps an owner or goes.
LEMMA MaskInsertMem ==
  ASSUME OwnInv, OwnInv', MaskInv, OwnerInv, ReadersInv, NEW t \in Threads, flow_mask_insert(t)
  PROVE  OwnerInv' /\ ReadersInv'
<1>1. PICK f : f = cmd[t].flow
  OBVIOUS
<1>2. PICK a : a = arr[tbl.ma]
  OBVIOUS
<1>3. cmd[t].pc = "mask_insert" /\ UNCHANGED <<ti, rcu, rd>>
  BY DEF flow_mask_insert, readState
<1>4. /\ tbl.ma \in ArrObj /\ IsMaskArray(a) /\ tbl \in TblType /\ tbl.ma \in alloc
      /\ f \in FlowObj
  BY <1>1, <1>2, <1>3 DEF OwnInv, TypeOK, TblType, TableInv, Live, HeldInv, FlowPcs
<1>5. \A x \in ArrObj : x \in alloc => (x \in pend \/ x = tbl.ma)
  BY DEF OwnerInv
<1>6. ASSUME NEW mo \in MaskObj, mo \notin alloc PROVE mo \notin pend /\ mo # NULL
  BY <1>6, PoolsAssumption DEF MaskInv, Obj
<1>7. CASE \E mo \in flow_mask_find(cmd[t].m) :
             /\ flow' = [flow EXCEPT ![f].mask = mo]
             /\ cmd' = [cmd EXCEPT ![t].pc = "key_insert"]
             /\ UNCHANGED <<heap, arr, tbl, ovs_mutex>>
  <2>1. PICK mo \in MaskObj :
             /\ flow' = [flow EXCEPT ![f].mask = mo]
             /\ cmd' = [cmd EXCEPT ![t].pc = "key_insert"]
             /\ UNCHANGED <<alloc, pend, wait, arr, tbl>>
    BY <1>7 DEF flow_mask_find, heap
  <2>2. \A x \in ArrObj : x \in alloc' => (x \in pend' \/ x = tbl'.ma)
    BY <1>5, <2>1
  <2>3. \A x \in ArrObj : x \in alloc => Holds(arr'[x]) \subseteq Holds(arr[x]) \cup Live'
    BY <2>1
  <2> QED
    BY <1>1, <1>3, <2>1, <2>2, <2>3, UseMaskMem
<1>8. CASE /\ \E mo \in Free(MaskObj) :
                /\ alloc' = alloc \cup {mo}
                /\ arr' = [arr EXCEPT ![tbl.ma] = AddMask(a, mo)]
                /\ flow' = [flow EXCEPT ![f].mask = mo]
                /\ cmd' = [cmd EXCEPT ![t].pc = "key_insert"]
           /\ UNCHANGED <<pend, wait, tbl, ovs_mutex>>
  <2>1. PICK mo \in MaskObj \ alloc :
                /\ alloc' = alloc \cup {mo}
                /\ arr' = [arr EXCEPT ![tbl.ma] = AddMask(a, mo)]
                /\ flow' = [flow EXCEPT ![f].mask = mo]
                /\ cmd' = [cmd EXCEPT ![t].pc = "key_insert"]
    BY <1>8 DEF Free
  <2>2. mo \in Live' /\ mo # NULL
    BY <1>6, <1>8, <2>1 DEF Live
  <2>3. Holds(AddMask(a, mo)) \subseteq Holds(a) \cup {mo}
    BY <2>2, AddMaskSubset
  <2>4. \A x \in ArrObj : arr'[x] = arr[x] \/ (x = tbl.ma /\ arr'[x] = AddMask(a, mo))
    BY <1>4, <2>1 DEF OwnInv, TypeOK
  <2>5. \A x \in ArrObj : x \in alloc => Holds(arr'[x]) \subseteq Holds(arr[x]) \cup Live'
    BY <1>2, <2>2, <2>3, <2>4
  <2>6. \A o \in FlowObj \cup ActObj \cup TiObj \cup ArrObj : o \in alloc' => o \in alloc
    BY <2>1, PoolsAssumption
  <2>7. \A x \in ArrObj : x \in alloc' => (x \in pend' \/ x = tbl'.ma)
    BY <1>5, <1>8, <2>6
  <2>8. alloc \subseteq alloc' /\ tbl'.ti = tbl.ti /\ pend' = pend /\ wait' = wait
    BY <1>8, <2>1
  <2> QED
    BY <1>1, <1>3, <2>1, <2>5, <2>6, <2>7, <2>8, UseMaskMem
<1>9. CASE \E mo \in Free(MaskObj), na \in Free(ArrObj), b \in InOrder(Used(a)) :
             /\ alloc' = alloc \cup {mo, na}
             /\ arr' = [arr EXCEPT ![na] =
                  AddMask(tbl_mask_array_alloc(a.max + MASK_ARRAY_SIZE_MIN, a, b), mo)]
             /\ tbl' = [tbl EXCEPT !.ma = na]
             /\ call_rcu({tbl.ma})
             /\ flow' = [flow EXCEPT ![f].mask = mo]
             /\ cmd' = [cmd EXCEPT ![t].pc = "key_insert"]
  <2>1. PICK mo \in MaskObj \ alloc, na \in ArrObj \ alloc, b \in InOrder(Used(a)) :
             /\ alloc' = alloc \cup {mo, na}
             /\ arr' = [arr EXCEPT ![na] =
                  AddMask(tbl_mask_array_alloc(a.max + MASK_ARRAY_SIZE_MIN, a, b), mo)]
             /\ tbl' = [tbl EXCEPT !.ma = na]
             /\ pend' = pend \cup {tbl.ma}
             /\ wait' = [o \in Obj |-> IF o \in {tbl.ma} THEN rcu ELSE wait[o]]
             /\ flow' = [flow EXCEPT ![f].mask = mo]
             /\ cmd' = [cmd EXCEPT ![t].pc = "key_insert"]
    BY <1>9 DEF Free, call_rcu
  <2>2. tbl'.ti = tbl.ti /\ tbl'.ma = na
    BY <1>4, <2>1 DEF TblType
  <2>3. \A x \in ArrObj : x \in alloc => arr'[x] = arr[x]
    BY <2>1 DEF OwnInv, TypeOK
  <2>4. \A o \in FlowObj \cup ActObj \cup TiObj : o \in alloc' => o \in alloc
    BY <2>1, PoolsAssumption
  <2>5. \A x \in ArrObj : x \in alloc' => (x \in pend' \/ x = tbl'.ma)
    BY <1>5, <2>1, <2>2, PoolsAssumption
  <2>6. \A o \in Obj : o \in pend' => (o \in pend /\ wait'[o] = wait[o]) \/ wait'[o] = rcu
    BY <2>1
  <2>7. alloc \subseteq alloc' /\ pend \subseteq pend'
    BY <2>1
  <2>8. \A x \in ArrObj : x \in alloc => Holds(arr'[x]) \subseteq Holds(arr[x]) \cup Live'
    BY <2>3
  <2> QED
    BY <1>1, <1>3, <2>1, <2>2, <2>4, <2>5, <2>6, <2>7, <2>8, UseMaskMem
<1>10. CASE /\ alloc' = alloc \ {f, flow[f].acts}
            /\ flow' = [flow EXCEPT ![f] = NoFlow]
            /\ cmd' = [cmd EXCEPT ![t] = IdleCmd]
            /\ UNCHANGED <<pend, wait, mask, arr, tbl>>
  BY <1>1, <1>3, <1>10, DropFlowMem
<1> QED
  BY <1>1, <1>2, <1>7, <1>8, <1>9, <1>10 DEF flow_mask_insert

\* The callbacks free only what no reader can reach and what no one else owns.
LEMMA CallbacksMem ==
  ASSUME OwnInv, OwnInv', OwnerInv, ReadersInv, rcu_callbacks
  PROVE  OwnerInv' /\ ReadersInv'
<1> DEFINE S == GraceEnded
           A == {flow[f].acts : f \in S \cap FlowObj}
<1>1. /\ S \subseteq pend /\ \A o \in S : wait[o] = {}
      /\ alloc' = alloc \ (S \cup A)
      /\ pend' = pend \ S
      /\ \A f \in FlowObj : f \notin S => flow'[f] = flow[f]
      /\ \A x \in ArrObj : x \notin S => arr'[x] = arr[x]
      /\ \A x \in TiObj : x \notin S => ti'[x] = ti[x]
      /\ UNCHANGED <<wait, tbl, cmd, rcu, rd>>
  BY DEF rcu_callbacks, Released, GraceEnded, readState
<1>2. \A o \in S : o \notin Live
  BY <1>1 DEF Live
<1> HIDE DEF S
<1>3. S \cap FlowObj \subseteq alloc
  BY <1>1, PoolsAssumption DEF OwnInv, PendInv
<1>4. A \subseteq ActObj /\ A \subseteq Live
  BY <1>3 DEF OwnInv, ActsInv
<1>5. \A f \in FlowObj : f \in alloc /\ flow[f].acts \in A => f \in S
  BY <1>3 DEF OwnInv, ActsInv
<1> HIDE DEF A
<1>6. \A o \in FlowObj \cup MaskObj \cup ArrObj \cup TiObj : o \notin A /\ o # NULL
  BY <1>4, PoolsAssumption DEF Obj
<1>7. tbl.ti \in TiObj /\ tbl.ti \in Live /\ Linked' = Linked
  <2>1. tbl.ti \in TiObj /\ tbl.ti \in Live
    BY DEF OwnInv, TypeOK, TblType, TableInv
  <2> QED
    BY <1>1, <1>2, <2>1 DEF Linked
<1>8. \A t \in Threads : cmd[t].ti # NULL => cmd[t].ti \in TiObj /\ cmd[t].ti \notin S
  <2> SUFFICES ASSUME NEW t \in Threads, cmd[t].ti # NULL
               PROVE  cmd[t].ti \in TiObj /\ cmd[t].ti \notin S
    OBVIOUS
  <2>1. cmd[t].pc = "flush"
    BY DEF OwnerInv, Shape, FlowPcs, IdleCmd, OwnInv, TypeOK, CmdType
  <2> QED
    BY <1>2, <2>1 DEF OwnInv, FlushInv
<1>9. OwnerInv'
  <2>1. \A t \in Threads : Shape(cmd'[t])
    BY <1>1 DEF OwnerInv
  <2>2. ASSUME NEW f \in FlowObj, f \in alloc' PROVE FlowOwned(f)'
    <3>1. FlowOwned(f) /\ f \notin S
      BY <1>1, <2>2 DEF OwnerInv
    <3> QED
      BY <1>1, <1>7, <1>8, <3>1 DEF FlowOwned
  <2>3. ASSUME NEW x \in ActObj, x \in alloc' PROVE ActsOwned(x)'
    <3>1. ActsOwned(x) /\ x \notin S /\ x \notin A
      BY <1>1, <2>3 DEF OwnerInv
    <3>2. \A f \in FlowObj : f \in alloc /\ flow[f].acts = x => f \in alloc' /\ flow'[f].acts = x
      <4> SUFFICES ASSUME NEW f \in FlowObj, f \in alloc, flow[f].acts = x
                   PROVE  f \in alloc' /\ flow'[f].acts = x
        OBVIOUS
      <4>1. f \notin S
        BY <3>1 DEF A
      <4> QED
        BY <1>1, <1>6, <4>1
    <3> QED
      BY <1>1, <3>1, <3>2 DEF ActsOwned
  <2>4. ASSUME NEW x \in TiObj, x \in alloc' PROVE TiOwned(x)'
    BY <1>1, <2>4 DEF OwnerInv, TiOwned
  <2>5. \A x \in ArrObj : x \in alloc' => (x \in pend' \/ x = tbl'.ma)
    BY <1>1 DEF OwnerInv
  <2> QED
    BY <2>1, <2>2, <2>3, <2>4, <2>5 DEF OwnerInv
<1>10. ASSUME NEW r \in Readers PROVE ReaderInv(r)'
  <2>1. ReaderInv(r)
    BY DEF ReadersInv
  <2>2. \A o \in Protected(r) : o \notin S
    BY <1>1 DEF Protected
  <2>3. rd[r].acts \notin A
    <3> SUFFICES ASSUME NEW f \in S \cap FlowObj, flow[f].acts = rd[r].acts PROVE FALSE
      BY DEF A
    <3>1. f \in Protected(r)
      BY <1>3, <2>1 DEF ReaderInv
    <3> QED
      BY <2>2, <3>1
  <2>4. \A o \in Protected(r) : o \notin A => o \in Protected(r)'
    BY <1>1, <2>2 DEF Protected
  <2>5. rd[r] \in RdRecord
    BY DEF OwnInv, TypeOK, RdType
  <2>6. Loads(r)' = Loads(r) /\ Loads(r) \subseteq Protected(r)'
    <3>1. \A o \in Loads(r) : o \notin A
      BY <1>6, <2>3, <2>5 DEF Loads, RdRecord
    <3> QED
      BY <1>1, <2>1, <2>4, <3>1 DEF ReaderInv, Loads
  <2>7. FlowsOf(r)' = FlowsOf(r)
    <3>1. rd[r].ti # NULL => rd[r].ti \in TiObj /\ rd[r].ti \notin S
      BY <2>1, <2>2, <2>5 DEF ReaderInv, Loads, RdRecord
    <3> QED
      BY <1>1, <3>1 DEF FlowsOf
  <2>8. rd[r].ma # NULL => Holds(arr'[rd[r].ma]) \subseteq Protected(r)'
    <3> SUFFICES ASSUME rd[r].ma # NULL PROVE Holds(arr'[rd[r].ma]) \subseteq Protected(r)'
      OBVIOUS
    <3>1. rd[r].ma \in ArrObj /\ rd[r].ma \notin S
      BY <2>1, <2>2, <2>5 DEF ReaderInv, Loads, RdRecord
    <3>2. Holds(arr[rd[r].ma]) \subseteq MaskObj
      <4>1. IsMaskArray(arr[rd[r].ma])
        BY <3>1 DEF OwnInv, TypeOK
      <4> QED
        BY <4>1 DEF IsMaskArray, Holds, Used
    <3> QED
      BY <1>1, <1>6, <2>1, <2>4, <3>1, <3>2 DEF ReaderInv
  <2>9. \A f \in FlowsOf(r) : f \in FlowObj /\ f \notin S
    <3>1. rd[r].flow \in FlowObj \cup {NULL}
      BY <2>5 DEF RdRecord
    <3> QED
      BY <2>1, <2>2, <3>1 DEF ReaderInv, FlowsOf
  <2>10. \A f \in FlowsOf(r) : /\ f \in Protected(r)'
                               /\ flow'[f].mask \in MaskObj /\ flow'[f].mask \in Protected(r)'
    BY <1>1, <1>6, <2>1, <2>4, <2>9 DEF ReaderInv
  <2>11. \A f \in FlowObj : f \in alloc' /\ flow'[f].acts = rd'[r].acts => f \in Protected(r)'
    BY <1>1, <1>6, <2>1, <2>4 DEF ReaderInv
  <2>12. \A t \in Inserting' : /\ cmd'[t].flow \notin FlowsOf(r)'
                               /\ flow'[cmd'[t].flow].acts # rd'[r].acts
    <3>1. Inserting' = Inserting
      BY <1>1 DEF Inserting
    <3>2. \A t \in Inserting : cmd[t].flow \in FlowObj /\ cmd[t].flow \notin S
      BY <1>2 DEF OwnInv, HeldInv, FlowPcs, Inserting
    <3> QED
      BY <1>1, <2>1, <2>7, <3>1, <3>2 DEF ReaderInv
  <2> QED
    BY <1>1, <2>1, <2>6, <2>7, <2>8, <2>10, <2>11, <2>12 DEF ReaderInv
<1> QED
  BY <1>9, <1>10 DEF ReadersInv

-----------------------------------------------------------------------------
(* The invariant of the memory of a flow table, and what it says. *)

MemInv == OwnInv /\ MaskInv /\ OwnerInv /\ ReadersInv

\* ovs_flow_tbl_init() establishes it: the array and the instance belong to the table.
LEMMA InitMem == Init => MemInv
<1> SUFFICES ASSUME Init PROVE MemInv
  OBVIOUS
<1>1. OwnInv /\ MaskInv
  BY InitOwn, InitMask
<1>2. PICK x \in ArrObj, y \in TiObj : alloc = {x, y} /\ tbl.ti = y /\ tbl.ma = x
  BY DEF Init
<1>3. cmd = [t \in Threads |-> IdleCmd] /\ rd = [r \in Readers |-> IdleRd]
  BY DEF Init
<1>4. OwnerInv
  <2>1. \A u \in Threads : Shape(cmd[u])
    BY <1>3, IdleShape
  <2>2. \A o \in FlowObj \cup ActObj : o \notin alloc
    BY <1>2, PoolsAssumption
  <2>3. \A o \in TiObj : o \in alloc => TiOwned(o)
    BY <1>2, PoolsAssumption DEF TiOwned
  <2>4. \A o \in ArrObj : o \in alloc => o \in pend \/ o = tbl.ma
    BY <1>2, PoolsAssumption
  <2> QED
    BY <2>1, <2>2, <2>3, <2>4 DEF OwnerInv
<1>5. ReadersInv
  <2>1. \A r \in Readers : rd[r] = IdleRd
    BY <1>3
  <2> QED
    BY <1>1, <2>1, IdleReader DEF ReadersInv
<1> QED
  BY <1>1, <1>4, <1>5 DEF MemInv

\* Every step of every process keeps it.
LEMMA NextMem == MemInv /\ [Next]_vars => MemInv'
<1> SUFFICES ASSUME OwnInv, MaskInv, OwnerInv, ReadersInv, [Next]_vars
             PROVE  OwnInv' /\ MaskInv' /\ OwnerInv' /\ ReadersInv'
  BY DEF MemInv
<1>0. OwnInv' /\ MaskInv'
  BY NextOwn, NextMask
<1>1. ASSUME NEW t \in Threads, NewCommand(t) PROVE OwnerInv' /\ ReadersInv'
  BY <1>0, <1>1, NewMem DEF NewCommand
<1>2. ASSUME NEW t \in Threads, SetCommand(t) PROVE OwnerInv' /\ ReadersInv'
  BY <1>0, <1>2, SetMem DEF SetCommand
<1>3. ASSUME NEW t \in Threads, DelCommand(t) PROVE OwnerInv' /\ ReadersInv'
  BY <1>0, <1>3, DelMem DEF DelCommand
<1>4. ASSUME NEW t \in Threads, FlushCommand(t) PROVE OwnerInv' /\ ReadersInv'
  BY <1>0, <1>4, FlushMem DEF FlushCommand
<1>5. ASSUME NEW t \in Threads, Proceed(t) PROVE OwnerInv' /\ ReadersInv'
  BY <1>0, <1>5, MaskInsertMem, KeyInsertMem, MaskRemoveMem, FreeMem, DelFillMem, DestroyMem
     DEF Proceed
<1>6. CASE \E r \in Cpus : Lookup(r)
  BY <1>0, <1>6, ReaderMem DEF Lookup, Readers
<1>7. CASE \E r \in Dumpers : ovs_flow_cmd_dump(r) \/ ovs_flow_tbl_dump_next(r)
  BY <1>0, <1>7, ReaderMem DEF Readers
<1>8. CASE \E r \in Readers : Read(r)
  BY <1>0, <1>8, ReaderMem
<1>9. CASE rcu_callbacks
  BY <1>0, <1>9, CallbacksMem
<1>10. CASE UNCHANGED vars
  <2>1. UNCHANGED <<alloc, pend, wait, rcu, flow, arr, ti, tbl, cmd, rd>>
    BY <1>10 DEF vars
  <2>2. OwnerInv'
    BY <2>1 DEF OwnerInv, FlowOwned, ActsOwned, TiOwned, Linked
  <2>3. ASSUME NEW r \in Readers PROVE ReaderInv(r)'
    <3>1. ReaderInv(r)
      BY DEF ReadersInv
    <3>2. Loads(r)' = Loads(r) /\ FlowsOf(r)' = FlowsOf(r) /\ Protected(r)' = Protected(r)
          /\ Inserting' = Inserting
      BY <2>1 DEF Loads, FlowsOf, Protected, Inserting
    <3> QED
      BY <2>1, <3>1, <3>2 DEF ReaderInv
  <2> QED
    BY <1>0, <2>2, <2>3 DEF ReadersInv
<1>11. OwnerInv' /\ ReadersInv'
  BY <1>1, <1>2, <1>3, <1>4, <1>5, <1>6, <1>7, <1>8, <1>9, <1>10 DEF Next
<1> QED
  BY <1>0, <1>11

\* In every state of the flow table all that a reader can reach is protected by its
\* critical section, and all that is allocated has someone to free it.
THEOREM MemoryKept == Spec => []MemInv
<1>1. Init => MemInv
  BY InitMem
<1>2. MemInv /\ [Next]_vars => MemInv'
  BY NextMem
<1> QED
  BY <1>1, <1>2, PTL DEF Spec

\* What the invariant says of the objects a reader holds, and of those that are allocated.
LEMMA MemInvSafe == MemInv => MemorySafe
<1> SUFFICES ASSUME OwnInv, MaskInv, OwnerInv, ReadersInv PROVE ReadersSafe /\ NoLeak
  BY DEF MemInv, MemorySafe
<1>1. ASSUME NEW r \in Readers PROVE Refs(r) \ {NULL} \subseteq alloc
  <2>1. ReaderInv(r) /\ \A o \in Protected(r) : o \in alloc
    BY DEF ReadersInv, Protected
  <2>2. \A f \in {rd[r].flow} \ {NULL} : f \in alloc /\ flow[f].mask \in alloc
    BY <2>1 DEF ReaderInv, FlowsOf
  <2>3. \A o \in {rd[r].ma, rd[r].ti, rd[r].mask, rd[r].acts} : o # NULL => o \in alloc
    BY <2>1 DEF ReaderInv, Loads
  <2> QED
    BY <2>2, <2>3 DEF Refs
<1> DEFINE held  == UNION {{cmd[t].flow, cmd[t].acts, cmd[t].ti} : t \in Threads}
           flows == UNION {ti[o].flows : o \in {tbl.ti} \cup ({cmd[t].ti : t \in Threads} \ {NULL})}
           owned == pend \cup held \cup flows
<1>2. /\ \A t \in Threads : cmd[t].flow \in held /\ cmd[t].acts \in held /\ cmd[t].ti \in held
      /\ Linked \subseteq flows
      /\ \A t \in Threads : cmd[t].ti # NULL => ti[cmd[t].ti].flows \subseteq flows
  BY DEF Linked
<1> HIDE DEF held, flows
<1>3. alloc \cap FlowObj \subseteq owned
  BY <1>2 DEF OwnerInv, FlowOwned
<1>4. alloc \cap ActObj \subseteq owned \cup {flow[f].acts : f \in alloc \cap FlowObj}
  BY <1>2 DEF OwnerInv, ActsOwned
<1>5. alloc \cap TiObj \subseteq owned \cup {tbl.ti}
  BY <1>2 DEF OwnerInv, TiOwned
<1>6. alloc \cap ArrObj \subseteq owned \cup {tbl.ma}
  BY DEF OwnerInv
<1>7. alloc \cap MaskObj \subseteq owned \cup {Masks[i] : i \in Used(arr[tbl.ma])}
  BY DEF MaskInv, Published, Holds, Masks
<1>8. NoLeak
  BY <1>3, <1>4, <1>5, <1>6, <1>7 DEF NoLeak, held, flows
<1> QED
  BY <1>1, <1>8 DEF ReadersSafe

\* No reader ever reaches freed memory and no object is lost, for every number of packets,
\* dumps and commands at a time and every pool of objects.
THEOREM MemoryRight == Spec => []MemorySafe
BY MemoryKept, MemInvSafe, PTL

-----------------------------------------------------------------------------
(***************************************************************************)
(* Tables: both the same, as FlowTableAbs has them, and lookups in them.   *)
(***************************************************************************)

(* The invariant. *)

\* The UFID table holds the linked flows that have a UFID, and counts them.
UfidInv ==
  /\ tbl.ufid = {f \in Linked : flow[f].ufid # NULL}
  /\ tbl.ufid_count = Cardinality(tbl.ufid)

\* Two flows that may both be linked.
Differ(f, g) ==
  /\ <<flow[f].mask, flow[f].key>> # <<flow[g].mask, flow[g].key>>
  /\ flow[f].ufid = flow[g].ufid => flow[f].ufid = NULL

\* The flow a command is inserting differs from those that are linked already: what the
\* duplicate checks have found stays so until the flow is linked.
NewDiffers(t) ==
  LET f == cmd[t].flow
  IN  /\ cmd[t].pc = "mask_insert" => \A g \in Linked :
           /\ mask[flow[g].mask].m = cmd[t].m => flow[g].key # flow[f].key
           /\ flow[g].ufid = flow[f].ufid => flow[g].ufid = NULL
      /\ cmd[t].pc = "key_insert" => \A g \in Linked : Differ(g, f)

ExactInv == UfidInv /\ FlowsUnique /\ (\A t \in Threads : NewDiffers(t))

\* ovs_flow_tbl_init(): both tables are empty.
LEMMA InitExact == Init => ExactInv
<1> SUFFICES ASSUME Init PROVE ExactInv
  OBVIOUS
<1>1. Linked = {} /\ tbl.ufid = {} /\ tbl.ufid_count = 0 /\ cmd = [t \in Threads |-> IdleCmd]
  BY DEF Init, Linked
<1>2. Cardinality({}) = 0
  BY FS_EmptySet
<1> QED
  BY <1>1, <1>2 DEF ExactInv, UfidInv, FlowsUnique, NewDiffers, IdleCmd

-----------------------------------------------------------------------------
(* The lookups that look for duplicates. *)

\* Masking a key twice is masking it once.
LEMMA MaskTwice ==
  ASSUME NEW k, NEW m
  PROVE  ovs_flow_mask_key(ovs_flow_mask_key(k, m), m) = ovs_flow_mask_key(k, m)
BY DEF ovs_flow_mask_key

\* A lookup that finds nothing has tried every mask of the array.
LEMMA NothingFound ==
  ASSUME OwnInv, NEW k, ovs_flow_tbl_lookup(k) = {}
  PROVE  \A mo \in Published : masked_flow_lookup(Linked, k, mo) = {}
<1> DEFINE hit(i) == masked_flow_lookup(Linked, k, Masks[i])
           S == {i \in Used(arr[tbl.ma]) : hit(i) # {}}
<1>1. IsMaskArray(arr[tbl.ma])
  BY PublishedMasks
<1>2. \A i \in Used(arr[tbl.ma]) : i \in 1..arr[tbl.ma].max /\ Masks[i] # NULL
  BY DEF Used, Masks
<1>3. S = {}
  <2> SUFFICES ASSUME S # {} PROVE FALSE
    OBVIOUS
  <2>1. S \subseteq Nat
    BY DEF Used
  <2>2. PICK i \in S : \A j \in S : ~(j < i)
    BY <2>1, LowestSlot
  <2>3. \A j \in 1..(i - 1) : Masks[j] # NULL => hit(j) = {}
    <3> SUFFICES ASSUME NEW j \in 1..(i - 1), Masks[j] # NULL, hit(j) # {} PROVE FALSE
      OBVIOUS
    <3>1. i \in 1..arr[tbl.ma].max /\ arr[tbl.ma].max \in Nat
      BY <1>1, <1>2 DEF IsMaskArray
    <3>2. j \in 1..arr[tbl.ma].max /\ j < i
      BY <3>1
    <3>3. j \in S
      BY <3>2 DEF Used, Masks
    <3> QED
      BY <2>2, <3>2, <3>3
  <2>4. PICK f : f \in hit(i)
    BY <2>2
  <2>5. f \in Linked
    BY <2>4 DEF masked_flow_lookup
  <2>6. f \in ovs_flow_tbl_lookup(k)
    BY <1>2, <2>2, <2>3, <2>4, <2>5 DEF ovs_flow_tbl_lookup
  <2> QED
    BY <2>6
<1>4. \A mo \in Published : \E i \in Used(arr[tbl.ma]) : Masks[i] = mo
  BY DEF Published, Holds, Masks
<1> QED
  BY <1>3, <1>4

\* What the duplicate checks of ovs_flow_cmd_new() say of the flow they admit.
LEMMA NoDuplicate ==
  ASSUME OwnInv, MaskInv, UfidInv, NEW k, NEW m, NEW u,
         ovs_flow_tbl_lookup(ovs_flow_mask_key(k, m)) = {},
         u # NULL => ovs_flow_tbl_lookup_ufid(u) = {}
  PROVE  \A g \in Linked :
           /\ mask[flow[g].mask].m = m => flow[g].key # ovs_flow_mask_key(k, m)
           /\ flow[g].ufid = u => flow[g].ufid = NULL
<1> SUFFICES ASSUME NEW g \in Linked
             PROVE  /\ mask[flow[g].mask].m = m => flow[g].key # ovs_flow_mask_key(k, m)
                    /\ flow[g].ufid = u => flow[g].ufid = NULL
  OBVIOUS
<1>1. flow[g].mask \in Published
  BY DEF MaskInv, Using
<1>2. g \notin masked_flow_lookup(Linked, ovs_flow_mask_key(k, m), flow[g].mask)
  BY <1>1, NothingFound
<1>3. mask[flow[g].mask].m = m => flow[g].key # ovs_flow_mask_key(k, m)
  BY <1>2, MaskTwice DEF masked_flow_lookup
<1>4. flow[g].ufid = u => flow[g].ufid = NULL
  BY DEF UfidInv, ovs_flow_tbl_lookup_ufid
<1> QED
  BY <1>3, <1>4

-----------------------------------------------------------------------------
(* The steps. *)

\* A step that leaves both tables and their flows alone keeps them exact; the flows being
\* inserted are to be looked at apart.
LEMMA TablesKept ==
  ASSUME ExactInv, Linked' = Linked, tbl'.ufid = tbl.ufid, tbl'.ufid_count = tbl.ufid_count,
         \A f \in Linked : /\ flow'[f].mask = flow[f].mask /\ flow'[f].key = flow[f].key
                           /\ flow'[f].ufid = flow[f].ufid,
         \A t \in Threads : NewDiffers(t)'
  PROVE  ExactInv'
<1>1. UfidInv'
  BY DEF ExactInv, UfidInv
<1>2. FlowsUnique'
  BY DEF ExactInv, FlowsUnique
<1> QED
  BY <1>1, <1>2 DEF ExactInv

\* So does one that also leaves the flows being inserted alone.
LEMMA ExactFrame ==
  ASSUME OwnInv, ExactInv, Linked' = Linked,
         tbl'.ufid = tbl.ufid, tbl'.ufid_count = tbl.ufid_count,
         \A f \in Linked : /\ flow'[f].mask = flow[f].mask /\ flow'[f].key = flow[f].key
                           /\ flow'[f].ufid = flow[f].ufid
                           /\ mask'[flow[f].mask].m = mask[flow[f].mask].m,
         \A t \in Inserting' : cmd'[t] = cmd[t] /\ flow'[cmd[t].flow] = flow[cmd[t].flow]
  PROVE  ExactInv'
<1>1. ASSUME NEW t \in Threads PROVE NewDiffers(t)'
  <2>1. CASE t \in Inserting'
    BY <2>1 DEF ExactInv, NewDiffers, Differ
  <2>2. CASE t \notin Inserting'
    BY <2>2 DEF Inserting, NewDiffers
  <2> QED
    BY <2>1, <2>2
<1> QED
  BY <1>1, TablesKept

\* Replacing actions concerns neither table.
LEMMA ReplaceExact ==
  ASSUME OwnInv, ExactInv, NEW t \in Threads, NEW g \in Linked, NEW a, NEW s, cmd[t].pc = "idle",
         ReplaceActs(t, g, a, s), UNCHANGED <<mask, ti, tbl>>
  PROVE  ExactInv'
<1>1. /\ flow' = [flow EXCEPT ![g].acts = a]
      /\ cmd' = [cmd EXCEPT ![t] = [IdleCmd EXCEPT !.pc = "free_old",
                                        !.acts = flow[g].acts, !.sameid = s]]
  BY DEF ReplaceActs, AssignActs
<1>2. cmd'[t].pc = "free_old" /\ \A u \in Threads : u # t => cmd'[u] = cmd[u]
  BY <1>1 DEF OwnInv, TypeOK, IdleCmd
<1>3. \A f \in FlowObj : /\ flow'[f].mask = flow[f].mask /\ flow'[f].key = flow[f].key
                         /\ flow'[f].ufid = flow[f].ufid
                         /\ f # g => flow'[f] = flow[f]
  BY <1>1 DEF OwnInv, TypeOK, FlowType
<1>4. Linked' = Linked /\ Linked \subseteq FlowObj
  BY UsingLive DEF Linked, Using
<1>5. \A u \in Inserting' : u \in Inserting /\ cmd'[u] = cmd[u]
  BY <1>2 DEF Inserting
<1>6. \A u \in Inserting : cmd[u].flow \in FlowObj /\ cmd[u].flow # g
  BY DEF OwnInv, HeldInv, FlowPcs, Inserting
<1> QED
  BY <1>3, <1>4, <1>5, <1>6, ExactFrame

\* The flow ovs_flow_cmd_new() is about to insert has no duplicate.
LEMMA NewExact ==
  ASSUME OwnInv, MaskInv, ExactInv, NEW t \in Threads, NEW f \in FlowObj, NEW a \in ActObj,
         NEW k \in Keys, NEW m \in MaskVals, NEW u \in Ids, NEW excl \in BOOLEAN,
         ovs_flow_cmd_new(t, f, a, k, m, u, excl)
  PROVE  ExactInv'
<1> DEFINE masked == ovs_flow_mask_key(k, m)
           matchkey == IF u # NULL THEN masked ELSE k
           byUfid == IF u # NULL THEN ovs_flow_tbl_lookup_ufid(u) ELSE {}
           dup == IF byUfid # {} THEN byUfid ELSE ovs_flow_tbl_lookup(masked)
           fresh == [mask |-> NULL, key |-> masked, ufid |-> u,
                     ukey |-> IF u # NULL THEN ZeroKey ELSE k, acts |-> a]
<1>1. /\ cmd[t].pc = "idle" /\ ovs_mutex = NULL /\ f \notin alloc
      /\ UNCHANGED <<mask, arr, ti, tbl>>
  BY DEF ovs_flow_cmd_new, Free
<1>2. CASE /\ dup = {}
           /\ flow' = [flow EXCEPT ![f] = fresh]
           /\ cmd' = [cmd EXCEPT ![t] = [IdleCmd EXCEPT !.pc = "mask_insert",
                                          !.flow = f, !.m = m]]
  <2>1. ovs_flow_tbl_lookup(masked) = {} /\ (u # NULL => ovs_flow_tbl_lookup_ufid(u) = {})
    BY <1>2
  <2>2. fresh.key = masked /\ fresh.ufid = u
    OBVIOUS
  <2> HIDE DEF fresh, dup, byUfid, matchkey
  <2>3. \A g \in Linked : /\ mask[flow[g].mask].m = m => flow[g].key # masked
                          /\ flow[g].ufid = u => flow[g].ufid = NULL
    BY <2>1, NoDuplicate DEF ExactInv
  <2> HIDE DEF masked
  <2>4. /\ cmd'[t].pc = "mask_insert" /\ cmd'[t].flow = f /\ cmd'[t].m = m
        /\ \A x \in Threads : x # t => cmd'[x] = cmd[x]
    BY <1>2 DEF OwnInv, TypeOK, IdleCmd
  <2>5. flow'[f] = fresh /\ \A g \in FlowObj : g # f => flow'[g] = flow[g]
    BY <1>2 DEF OwnInv, TypeOK
  <2>6. Linked' = Linked /\ \A g \in Linked : g \in FlowObj /\ g # f
    BY <1>1, UsingLive DEF Linked, Using, Live
  <2>7. ASSUME NEW x \in Threads PROVE NewDiffers(x)'
    <3>1. CASE x = t
      BY <1>1, <2>2, <2>3, <2>4, <2>5, <2>6, <3>1 DEF NewDiffers
    <3>2. CASE x # t
      <4>1. cmd'[x].pc \notin {"mask_insert", "key_insert"}
        BY <1>1, <2>4, <3>2, PoolsAssumption DEF OwnInv, LockInv, LockedPcs, Procs
      <4> QED
        BY <4>1 DEF NewDiffers
    <3> QED
      BY <3>1, <3>2
  <2> QED
    BY <1>1, <2>5, <2>6, <2>7, TablesKept
<1>3. CASE \E g \in Linked : ReplaceActs(t, g, a, flow[g].ufid = u)
  BY <1>1, <1>3, ReplaceExact
<1>4. dup \subseteq Linked
  BY DEF ovs_flow_tbl_lookup, ovs_flow_tbl_lookup_ufid, OwnInv, TableInv
<1>5. ovs_flow_tbl_lookup_exact(matchkey) \subseteq Linked
  BY DEF ovs_flow_tbl_lookup_exact
<1> QED
  <2> HIDE DEF fresh, masked, matchkey, dup
  <2> QED
    BY <1>2, <1>3, <1>4, <1>5 DEF ovs_flow_cmd_new, fresh, masked, matchkey, dup

\* A flow that gets its mask differs from the linked flows that have the same one.
LEMMA UseMaskExact ==
  ASSUME OwnInv, ExactInv, NEW t \in Threads, NEW mo \in MaskObj, cmd[t].pc = "mask_insert",
         \A g \in Linked : flow[g].mask = mo => mask[mo].m = cmd[t].m,
         flow' = [flow EXCEPT ![cmd[t].flow].mask = mo],
         cmd' = [cmd EXCEPT ![t].pc = "key_insert"],
         ti' = ti, tbl'.ti = tbl.ti, tbl'.ufid = tbl.ufid, tbl'.ufid_count = tbl.ufid_count
  PROVE  ExactInv'
<1>1. PICK f : f = cmd[t].flow
  OBVIOUS
<1>2. f \in FlowObj /\ f \notin Linked /\ ovs_mutex = t
  BY <1>1 DEF OwnInv, HeldInv, FlowPcs, LockInv, LockedPcs
<1>3. /\ cmd'[t].pc = "key_insert" /\ cmd'[t].flow = f
      /\ \A u \in Threads : u # t => cmd'[u] = cmd[u]
  BY <1>1 DEF OwnInv, TypeOK, CmdType
<1>4. /\ flow'[f].mask = mo /\ flow'[f].key = flow[f].key /\ flow'[f].ufid = flow[f].ufid
      /\ \A g \in FlowObj : g # f => flow'[g] = flow[g]
  BY <1>1, <1>2 DEF OwnInv, TypeOK, FlowType
<1>5. Linked' = Linked /\ \A g \in Linked : g \in FlowObj /\ g # f
  BY <1>2, UsingLive DEF Linked, Using
<1>6. ASSUME NEW g \in Linked PROVE Differ(g, f)'
  <2>1. /\ mask[flow[g].mask].m = cmd[t].m => flow[g].key # flow[f].key
        /\ flow[g].ufid = flow[f].ufid => flow[g].ufid = NULL
    BY <1>1 DEF ExactInv, NewDiffers
  <2> QED
    BY <1>4, <1>5, <2>1 DEF Differ
<1>7. ASSUME NEW u \in Threads PROVE NewDiffers(u)'
  <2>1. CASE u = t
    BY <1>3, <1>5, <1>6, <2>1 DEF NewDiffers
  <2>2. CASE u # t
    <3>1. cmd'[u].pc \notin {"mask_insert", "key_insert"}
      BY <1>2, <1>3, <2>2 DEF OwnInv, LockInv, LockedPcs
    <3> QED
      BY <3>1 DEF NewDiffers
  <2> QED
    BY <2>1, <2>2
<1> QED
  BY <1>4, <1>5, <1>7, TablesKept

\* flow_mask_insert(): a mask that is shared is equal to the flow's, and a new one no other
\* flow has.
LEMMA MaskInsertExact ==
  ASSUME OwnInv, MaskInv, ExactInv, NEW t \in Threads, flow_mask_insert(t)
  PROVE  ExactInv'
<1>1. PICK f : f = cmd[t].flow
  OBVIOUS
<1>2. cmd[t].pc = "mask_insert" /\ ti' = ti
  BY DEF flow_mask_insert
<1>3. f \in FlowObj /\ f \notin Linked /\ ovs_mutex = t /\ tbl \in TblType
  BY <1>1, <1>2 DEF OwnInv, TypeOK, HeldInv, FlowPcs, LockInv, LockedPcs
<1>4. \A g \in Linked : flow[g].mask \in alloc
  BY DEF MaskInv, Using, Live
<1>5. CASE \E mo \in flow_mask_find(cmd[t].m) :
             /\ flow' = [flow EXCEPT ![f].mask = mo]
             /\ cmd' = [cmd EXCEPT ![t].pc = "key_insert"]
             /\ UNCHANGED tbl
  <2>1. PICK mo \in flow_mask_find(cmd[t].m) :
             /\ flow' = [flow EXCEPT ![f].mask = mo]
             /\ cmd' = [cmd EXCEPT ![t].pc = "key_insert"]
             /\ UNCHANGED tbl
    BY <1>5
  <2>2. mo \in MaskObj /\ mask[mo].m = cmd[t].m
    BY DEF flow_mask_find
  <2> QED
    BY <1>1, <1>2, <2>1, <2>2, UseMaskExact
<1>6. ASSUME NEW mo \in Free(MaskObj),
             flow' = [flow EXCEPT ![f].mask = mo], cmd' = [cmd EXCEPT ![t].pc = "key_insert"],
             tbl' = tbl \/ \E na \in ArrObj : tbl' = [tbl EXCEPT !.ma = na]
      PROVE  ExactInv'
  <2>1. tbl'.ti = tbl.ti /\ tbl'.ufid = tbl.ufid /\ tbl'.ufid_count = tbl.ufid_count
    BY <1>3, <1>6 DEF TblType
  <2>2. mo \in MaskObj /\ mo \notin alloc
    BY DEF Free
  <2>3. \A g \in Linked : flow[g].mask = mo => mask[mo].m = cmd[t].m
    BY <1>4, <2>2
  <2>4. /\ flow' = [flow EXCEPT ![cmd[t].flow].mask = mo]
        /\ cmd' = [cmd EXCEPT ![t].pc = "key_insert"]
    BY <1>1, <1>6
  <2> QED
    BY <1>2, <2>1, <2>2, <2>3, <2>4, UseMaskExact
<1>7. CASE /\ flow' = [flow EXCEPT ![f] = NoFlow]
           /\ cmd' = [cmd EXCEPT ![t] = IdleCmd]
           /\ UNCHANGED <<mask, tbl>>
  <2>1. cmd'[t] = IdleCmd /\ \A u \in Threads : u # t => cmd'[u] = cmd[u]
    BY <1>7 DEF OwnInv, TypeOK
  <2>2. cmd'[t].pc \notin {"mask_insert", "key_insert"}
    BY <2>1 DEF IdleCmd
  <2>3. Inserting' = {}
    BY <1>3, <2>1, <2>2, NoneInserting
  <2>4. \A g \in FlowObj : g # f => flow'[g] = flow[g]
    BY <1>7 DEF OwnInv, TypeOK
  <2>5. Linked' = Linked /\ \A g \in Linked : g \in FlowObj /\ g # f
    BY <1>2, <1>3, <1>7, UsingLive DEF Linked, Using
  <2> QED
    BY <1>7, <2>3, <2>4, <2>5, ExactFrame
<1>8. CASE \E mo \in Free(MaskObj) :
             /\ flow' = [flow EXCEPT ![f].mask = mo]
             /\ cmd' = [cmd EXCEPT ![t].pc = "key_insert"]
             /\ UNCHANGED tbl
  <2>1. PICK mo \in Free(MaskObj) :
             /\ flow' = [flow EXCEPT ![f].mask = mo]
             /\ cmd' = [cmd EXCEPT ![t].pc = "key_insert"]
             /\ tbl' = tbl
    BY <1>8
  <2> QED
    BY <1>6, <2>1
<1>9. CASE \E mo \in Free(MaskObj), na \in Free(ArrObj) :
             /\ flow' = [flow EXCEPT ![f].mask = mo]
             /\ cmd' = [cmd EXCEPT ![t].pc = "key_insert"]
             /\ tbl' = [tbl EXCEPT !.ma = na]
  <2>1. PICK mo \in Free(MaskObj), na \in Free(ArrObj) :
             /\ flow' = [flow EXCEPT ![f].mask = mo]
             /\ cmd' = [cmd EXCEPT ![t].pc = "key_insert"]
             /\ tbl' = [tbl EXCEPT !.ma = na]
    BY <1>9
  <2>2. na \in ArrObj
    BY DEF Free
  <2> QED
    BY <1>6, <2>1, <2>2
<1>10. \/ \E mo \in flow_mask_find(cmd[t].m) :
             /\ flow' = [flow EXCEPT ![f].mask = mo]
             /\ cmd' = [cmd EXCEPT ![t].pc = "key_insert"]
             /\ UNCHANGED tbl
       \/ \E mo \in Free(MaskObj) :
             /\ flow' = [flow EXCEPT ![f].mask = mo]
             /\ cmd' = [cmd EXCEPT ![t].pc = "key_insert"]
             /\ UNCHANGED tbl
       \/ \E mo \in Free(MaskObj), na \in Free(ArrObj), b \in InOrder(Used(arr[tbl.ma])) :
             /\ flow' = [flow EXCEPT ![f].mask = mo]
             /\ cmd' = [cmd EXCEPT ![t].pc = "key_insert"]
             /\ tbl' = [tbl EXCEPT !.ma = na]
       \/ /\ flow' = [flow EXCEPT ![f] = NoFlow]
          /\ cmd' = [cmd EXCEPT ![t] = IdleCmd]
          /\ UNCHANGED <<mask, tbl>>
  BY <1>1, Zenon DEF flow_mask_insert
<1> QED
  BY <1>5, <1>7, <1>8, <1>9, <1>10

\* flow_key_insert(): the flow that is linked differs from all others.
LEMMA KeyInsertExact ==
  ASSUME OwnInv, ExactInv, NEW t \in Threads, flow_key_insert(t)
  PROVE  ExactInv'
<1>1. PICK f : f = cmd[t].flow
  OBVIOUS
<1> DEFINE flows == Linked \cup {f}
<1>2. /\ cmd[t].pc = "key_insert" /\ cmd' = [cmd EXCEPT ![t] = IdleCmd] /\ UNCHANGED flow
  BY DEF flow_key_insert
<1>3. /\ f \in FlowObj /\ f \notin Linked /\ ovs_mutex = t /\ tbl.ti \in TiObj
      /\ tbl.ufid_count \in Int
  BY <1>1, <1>2 DEF OwnInv, HeldInv, LockInv, LockedPcs, FlowPcs, TypeOK, TblType
<1>4. /\ ti'[tbl'.ti].flows = flows
      /\ tbl'.ufid = IF flow[f].ufid # NULL THEN tbl.ufid \cup {f} ELSE tbl.ufid
      /\ tbl'.ufid_count = IF flow[f].ufid # NULL THEN tbl.ufid_count + 1 ELSE tbl.ufid_count
  <2> HIDE DEF flows
  <2> DEFINE Table(inst) ==
          [ti |-> inst, ma |-> tbl.ma, count |-> tbl.count + 1,
           ufid |-> IF flow[f].ufid # NULL THEN tbl.ufid \cup {f} ELSE tbl.ufid,
           ufid_count |-> IF flow[f].ufid # NULL THEN tbl.ufid_count + 1
                                                 ELSE tbl.ufid_count]
  <2>1. ASSUME NEW inst
        PROVE  /\ Table(inst).ti = inst
               /\ Table(inst).ufid = IF flow[f].ufid # NULL THEN tbl.ufid \cup {f} ELSE tbl.ufid
               /\ Table(inst).ufid_count = IF flow[f].ufid # NULL THEN tbl.ufid_count + 1
                                                                  ELSE tbl.ufid_count
    OBVIOUS
  <2> HIDE DEF Table
  <2>2. CASE /\ ti' = [ti EXCEPT ![tbl.ti].flows = flows]
             /\ tbl' = Table(tbl.ti)
             /\ UNCHANGED heap
    BY ZenonT(60), <1>3, <2>1, <2>2 DEF OwnInv, TypeOK
  <2>3. CASE \E new \in Free(TiObj) :
          /\ alloc' = alloc \cup {new}
          /\ ti' = [ti EXCEPT ![tbl.ti].flows = flows,
                      ![new] = [flows |-> flows,
                                n_buckets |-> NewBuckets(tbl.count + 1, ti[tbl.ti].n_buckets)]]
          /\ tbl' = Table(new)
          /\ call_rcu({tbl.ti})
    <3>1. PICK new \in TiObj :
          /\ ti' = [ti EXCEPT ![tbl.ti].flows = flows,
                      ![new] = [flows |-> flows,
                                n_buckets |-> NewBuckets(tbl.count + 1, ti[tbl.ti].n_buckets)]]
          /\ tbl' = Table(new)
      BY <2>3 DEF Free
    <3>2. tbl'.ti = new /\ ti'[new].flows = flows
      BY <1>3, <2>1, <3>1 DEF OwnInv, TypeOK
    <3> QED
      BY <2>1, <3>1, <3>2
  <2> QED
    BY <1>1, <2>2, <2>3 DEF flow_key_insert, Table, flows
<1>5. Linked' = flows
  BY <1>4 DEF Linked
<1>6. \A g \in Linked : Differ(g, f)
  BY <1>1, <1>2 DEF ExactInv, NewDiffers
<1>7. FlowsUnique'
  BY <1>2, <1>5, <1>6 DEF ExactInv, FlowsUnique, Differ
<1>8. UfidInv'
  <2>1. tbl'.ufid = {g \in flows : flow[g].ufid # NULL}
    BY <1>4 DEF ExactInv, UfidInv
  <2>2. f \notin tbl.ufid /\ IsFiniteSet(tbl.ufid) /\ tbl.ufid_count = Cardinality(tbl.ufid)
    BY <1>3, UsingLive, FS_Subset DEF ExactInv, UfidInv
  <2>3. Cardinality(tbl.ufid \cup {f}) = Cardinality(tbl.ufid) + 1
    BY <2>2, FS_AddElement
  <2>4. tbl'.ufid_count = Cardinality(tbl'.ufid)
    BY <1>4, <2>2, <2>3
  <2> QED
    BY <1>2, <1>5, <2>1, <2>4 DEF UfidInv
<1>9. \A u \in Threads : NewDiffers(u)'
  <2>1. cmd'[t] = IdleCmd /\ \A u \in Threads : u # t => cmd'[u] = cmd[u]
    BY <1>2 DEF OwnInv, TypeOK
  <2>2. cmd'[t].pc \notin {"mask_insert", "key_insert"}
    BY <2>1 DEF IdleCmd
  <2>3. Inserting' = {}
    BY <1>3, <2>1, <2>2, NoneInserting
  <2> QED
    BY <2>3 DEF Inserting, NewDiffers
<1> QED
  BY <1>7, <1>8, <1>9 DEF ExactInv

\* Unlinking takes a flow out of both tables and both counts.
LEMMA DelExact ==
  ASSUME OwnInv, ExactInv, NEW t \in Threads, NEW k, NEW u, ovs_flow_cmd_del(t, k, u)
  PROVE  ExactInv'
<1>1. PICK g \in Linked :
       /\ ti' = [ti EXCEPT ![tbl.ti].flows = @ \ {g}]
       /\ tbl' = [tbl EXCEPT !.count = @ - 1,
                    !.ufid = @ \ {g},
                    !.ufid_count = IF flow[g].ufid # NULL THEN @ - 1 ELSE @]
       /\ cmd' = [cmd EXCEPT ![t] = [IdleCmd EXCEPT !.pc = "mask_remove", !.flow = g]]
  BY SelectedLinked DEF OwnInv, ovs_flow_cmd_del
<1>2. ovs_mutex = NULL /\ UNCHANGED flow
  BY DEF ovs_flow_cmd_del
<1>3. /\ tbl.ti \in TiObj /\ tbl'.ti = tbl.ti /\ tbl'.ufid = tbl.ufid \ {g}
      /\ tbl'.ufid_count = IF flow[g].ufid # NULL THEN tbl.ufid_count - 1 ELSE tbl.ufid_count
      /\ tbl.ufid_count \in Int
  BY <1>1 DEF OwnInv, TypeOK, TblType
<1>4. Linked' = Linked \ {g}
  BY <1>1, <1>3 DEF Linked, OwnInv, TypeOK
<1>5. UfidInv'
  <2>1. tbl'.ufid = {f \in Linked' : flow[f].ufid # NULL}
    BY <1>3, <1>4 DEF ExactInv, UfidInv
  <2>2. IsFiniteSet(tbl.ufid) /\ tbl.ufid_count = Cardinality(tbl.ufid)
    BY UsingLive, FS_Subset DEF ExactInv, UfidInv
  <2>3. CASE flow[g].ufid # NULL
    <3>1. g \in tbl.ufid
      BY <2>3 DEF ExactInv, UfidInv
    <3>2. Cardinality(tbl.ufid \ {g}) = Cardinality(tbl.ufid) - 1
      BY <2>2, <3>1, FS_RemoveElement
    <3> QED
      BY <1>2, <1>3, <2>1, <2>2, <2>3, <3>2 DEF UfidInv
  <2>4. CASE flow[g].ufid = NULL
    <3>1. tbl.ufid \ {g} = tbl.ufid
      BY <2>4 DEF ExactInv, UfidInv
    <3> QED
      BY <1>2, <1>3, <2>1, <2>2, <2>4, <3>1 DEF UfidInv
  <2> QED
    BY <2>3, <2>4
<1>6. FlowsUnique'
  BY <1>2, <1>4 DEF ExactInv, FlowsUnique
<1>7. \A x \in Threads : NewDiffers(x)'
  <2>1. cmd'[t].pc = "mask_remove" /\ \A x \in Threads : x # t => cmd'[x] = cmd[x]
    BY <1>1 DEF OwnInv, TypeOK, IdleCmd
  <2>2. Inserting' = {}
    BY <1>2, <2>1, NoneInserting
  <2> QED
    BY <2>2 DEF Inserting, NewDiffers
<1> QED
  BY <1>5, <1>6, <1>7 DEF ExactInv

\* A flush empties both tables and resets the count of each.
LEMMA FlushExact ==
  ASSUME OwnInv, ExactInv, NEW t \in Threads, ovs_flow_tbl_flush(t)
  PROVE  ExactInv'
<1>1. /\ ovs_mutex = NULL
      /\ cmd' = [cmd EXCEPT ![t] = [IdleCmd EXCEPT !.pc = "flush", !.ti = tbl.ti]]
  BY DEF ovs_flow_tbl_flush
<1>2. PICK new \in TiObj :
       /\ ti' = [ti EXCEPT ![new] = [flows |-> {}, n_buckets |-> TBL_MIN_BUCKETS]]
       /\ tbl' = Flushed(new)
  BY DEF ovs_flow_tbl_flush, Free
<1>3. Linked' = {} /\ tbl'.ufid = {} /\ tbl'.ufid_count = 0
  BY <1>2 DEF Linked, Flushed, OwnInv, TypeOK
<1>4. Cardinality({}) = 0
  BY FS_EmptySet
<1>5. cmd'[t].pc = "flush" /\ \A x \in Threads : x # t => cmd'[x] = cmd[x]
  BY <1>1 DEF OwnInv, TypeOK, IdleCmd
<1>6. Inserting' = {}
  BY <1>1, <1>5, NoneInserting
<1> QED
  BY <1>3, <1>4, <1>6 DEF ExactInv, UfidInv, FlowsUnique, NewDiffers, Inserting

\* ovs_flow_cmd_set() finds the flow that NewExact replaces the actions of in another way.
LEMMA SetExact ==
  ASSUME OwnInv, ExactInv, NEW t \in Threads, NEW a, NEW k, NEW u, ovs_flow_cmd_set(t, a, k, u)
  PROVE  ExactInv'
BY SelectedLinked, ReplaceExact DEF OwnInv, ovs_flow_cmd_set

\* A command that leaves the table, the flows and the contents of the masks alone, and is
\* not inserting a flow afterwards.
LEMMA QuietExact ==
  ASSUME OwnInv, ExactInv, NEW t \in Threads, UNCHANGED flow, Linked' = Linked,
         tbl'.ufid = tbl.ufid, tbl'.ufid_count = tbl.ufid_count,
         \A f \in Linked : mask'[flow[f].mask].m = mask[flow[f].mask].m,
         \A x \in Threads : x # t => cmd'[x] = cmd[x],
         cmd'[t].pc \notin {"mask_insert", "key_insert"}
  PROVE  ExactInv'
<1>1. \A x \in Inserting' : cmd'[x] = cmd[x] /\ flow'[cmd[x].flow] = flow[cmd[x].flow]
  BY DEF Inserting
<1> QED
  BY <1>1, ExactFrame

\* What a command does after its flow is linked or unlinked concerns neither table.
LEMMA AfterExact ==
  ASSUME OwnInv, ExactInv, NEW t \in Threads,
         \/ ovs_nla_free_flow_actions_rcu(t) \/ del_fill_info(t) \/ del_fill_done(t)
         \/ ovs_flow_free(t)
  PROVE  ExactInv'
<1>1. /\ UNCHANGED <<flow, mask, ti, tbl>>
      /\ \/ cmd' = [cmd EXCEPT ![t] = IdleCmd]
         \/ \E pc \in {"del_fill", "del_free"} : cmd' = [cmd EXCEPT ![t].pc = pc]
  BY DEF ovs_nla_free_flow_actions_rcu, del_fill_info, del_fill_done, ovs_flow_free
<1>2. /\ cmd'[t].pc \notin {"mask_insert", "key_insert"}
      /\ \A x \in Threads : x # t => cmd'[x] = cmd[x]
  BY <1>1 DEF OwnInv, TypeOK, CmdType, IdleCmd
<1>3. Linked' = Linked
  BY <1>1 DEF Linked
<1> QED
  BY <1>1, <1>2, <1>3, QuietExact

\* Dropping a reference to a mask does not change what it covers.
LEMMA MaskRemoveExact ==
  ASSUME OwnInv, ExactInv, NEW t \in Threads, flow_mask_remove(t)
  PROVE  ExactInv'
<1>1. PICK mo : mo = flow[cmd[t].flow].mask
  OBVIOUS
<1>2. /\ mask' = [mask EXCEPT ![mo].ref = @ - 1]
      /\ cmd' = [cmd EXCEPT ![t].pc = "del_reply"]
      /\ tbl' = tbl \/ \E na \in ArrObj : tbl' = [tbl EXCEPT !.ma = na]
      /\ UNCHANGED <<flow, ti>>
  BY <1>1 DEF flow_mask_remove, Free
<1>3. /\ cmd'[t].pc = "del_reply"
      /\ \A x \in Threads : x # t => cmd'[x] = cmd[x]
  BY <1>2 DEF OwnInv, TypeOK, CmdType
<1>4. tbl'.ti = tbl.ti /\ tbl'.ufid = tbl.ufid /\ tbl'.ufid_count = tbl.ufid_count
  BY <1>2 DEF OwnInv, TypeOK, TblType
<1>5. Linked' = Linked
  BY <1>2, <1>4 DEF Linked
<1>6. \A x \in MaskObj : mask'[x].m = mask[x].m
  BY <1>2 DEF OwnInv, TypeOK
<1>7. \A f \in Linked : flow[f].mask \in MaskObj
  BY DEF OwnInv, TableInv
<1> QED
  BY <1>2, <1>3, <1>4, <1>5, <1>6, <1>7, QuietExact

\* The instance a flush destroys is not the one that is published.
LEMMA DestroyExact ==
  ASSUME OwnInv, ExactInv, NEW t \in Threads, table_instance_destroy(t)
  PROVE  ExactInv'
<1>1. PICK old : old = cmd[t].ti
  OBVIOUS
<1>2. /\ cmd[t].pc = "flush" /\ UNCHANGED <<flow, mask, tbl>>
      /\ ti' = ti \/ \E f : ti' = [ti EXCEPT ![old].flows = @ \ {f}]
      /\ cmd' = cmd \/ cmd' = [cmd EXCEPT ![t] = IdleCmd]
  BY <1>1 DEF table_instance_destroy
<1>3. old # tbl.ti /\ tbl.ti \in TiObj
  BY <1>1, <1>2 DEF OwnInv, FlushInv, TypeOK, TblType
<1>4. Linked' = Linked
  BY <1>2, <1>3 DEF Linked, OwnInv, TypeOK
<1>5. /\ cmd'[t].pc \notin {"mask_insert", "key_insert"}
      /\ \A x \in Threads : x # t => cmd'[x] = cmd[x]
  BY <1>2 DEF OwnInv, TypeOK, IdleCmd
<1> QED
  BY <1>2, <1>4, <1>5, QuietExact

\* Callbacks free no flow that is linked or being inserted and no mask of one.
LEMMA CallbacksExact ==
  ASSUME OwnInv, MaskInv, ExactInv, rcu_callbacks
  PROVE  ExactInv'
<1>1. PICK S : S = GraceEnded
  OBVIOUS
<1>2. /\ S \subseteq pend
      /\ flow' = [f \in FlowObj |-> IF f \in S THEN NoFlow ELSE flow[f]]
      /\ mask' = [mo \in MaskObj |-> IF mo \in S THEN NoMask ELSE mask[mo]]
      /\ ti' = [o \in TiObj |-> IF o \in S THEN NoTi ELSE ti[o]]
      /\ UNCHANGED <<tbl, cmd>>
  BY <1>1 DEF rcu_callbacks, GraceEnded
<1>3. \A o \in Live : o \notin S
  BY <1>2 DEF Live
<1>4. tbl.ti \in TiObj /\ tbl.ti \in Live
  BY DEF OwnInv, TypeOK, TableInv, TblType
<1>5. Linked' = Linked
  BY <1>2, <1>3, <1>4 DEF Linked
<1>6. \A f \in Linked : f \in FlowObj /\ f \in Live
  BY UsingLive DEF Using
<1>7. \A f \in Linked : flow[f].mask \in MaskObj /\ flow[f].mask \in Live
  BY PublishedMasks DEF MaskInv, Using
<1>8. \A f \in Linked : flow'[f] = flow[f] /\ mask'[flow[f].mask] = mask[flow[f].mask]
  BY <1>2, <1>3, <1>6, <1>7
<1>9. \A x \in Inserting : cmd[x].flow \in FlowObj /\ cmd[x].flow \in Live
  BY DEF OwnInv, HeldInv, FlowPcs, Inserting
<1>10. \A x \in Inserting' : cmd'[x] = cmd[x] /\ flow'[cmd[x].flow] = flow[cmd[x].flow]
  BY <1>2, <1>3, <1>9 DEF Inserting
<1> QED
  BY <1>2, <1>5, <1>8, <1>10, ExactFrame

\* Readers, and steps that change nothing.
LEMMA ReaderExact ==
  ASSUME OwnInv, ExactInv, NEW r \in Readers,
         \/ \E k \in Keys, s \in StartIndexes : ovs_flow_tbl_lookup_stats(r, k, s)
         \/ ovs_flow_cmd_dump(r)
         \/ ovs_flow_tbl_dump_next(r)
         \/ Read(r)
  PROVE  ExactInv'
<1>1. UNCHANGED <<flow, mask, ti, tbl, cmd>>
  <2>1. CASE \E k \in Keys, s \in StartIndexes : ovs_flow_tbl_lookup_stats(r, k, s)
    BY <2>1 DEF ovs_flow_tbl_lookup_stats, writerState
  <2>2. CASE ovs_flow_cmd_dump(r) \/ ovs_flow_tbl_dump_next(r)
    BY <2>2 DEF ovs_flow_cmd_dump, ovs_flow_tbl_dump_next, writerState
  <2>3. CASE Read(r)
    BY <2>3 DEF Read, lookup_read_ti, flow_lookup, lookup_walk, ovs_dp_process_packet,
                reader_done, writerState
  <2> QED
    BY <2>1, <2>2, <2>3
<1>2. Linked' = Linked
  BY <1>1 DEF Linked
<1> QED
  BY <1>1, <1>2, ExactFrame

\* Every step of every process keeps it.
LEMMA NextExact == OwnInv /\ MaskInv /\ ExactInv /\ [Next]_vars => ExactInv'
<1> SUFFICES ASSUME OwnInv, MaskInv, ExactInv, [Next]_vars PROVE ExactInv'
  OBVIOUS
<1>1. ASSUME NEW t \in Threads, NewCommand(t) PROVE ExactInv'
  BY <1>1, NewExact DEF NewCommand
<1>2. ASSUME NEW t \in Threads, SetCommand(t) PROVE ExactInv'
  BY <1>2, SetExact DEF SetCommand
<1>3. ASSUME NEW t \in Threads, DelCommand(t) PROVE ExactInv'
  BY <1>3, DelExact DEF DelCommand
<1>4. ASSUME NEW t \in Threads, FlushCommand(t) PROVE ExactInv'
  BY <1>4, FlushExact DEF FlushCommand
<1>5. ASSUME NEW t \in Threads, Proceed(t) PROVE ExactInv'
  BY <1>5, MaskInsertExact, KeyInsertExact, MaskRemoveExact, DestroyExact, AfterExact
     DEF Proceed
<1>6. CASE \E r \in Cpus : Lookup(r)
  BY <1>6, ReaderExact DEF Lookup, Readers
<1>7. CASE \E r \in Dumpers : ovs_flow_cmd_dump(r) \/ ovs_flow_tbl_dump_next(r)
  BY <1>7, ReaderExact DEF Readers
<1>8. CASE \E r \in Readers : Read(r)
  BY <1>8, ReaderExact
<1>9. CASE rcu_callbacks
  BY <1>9, CallbacksExact
<1>10. CASE UNCHANGED vars
  <2>1. UNCHANGED <<flow, mask, ti, tbl, cmd>>
    BY <1>10 DEF vars
  <2>2. Linked' = Linked
    BY <2>1 DEF Linked
  <2> QED
    BY <2>1, <2>2, ExactFrame
<1> QED
  BY <1>1, <1>2, <1>3, <1>4, <1>5, <1>6, <1>7, <1>8, <1>9, <1>10 DEF Next

\* In every state of the flow table its two tables agree and are counted, no two linked flows
\* are duplicates, and a flow being inserted is none of a linked one.
THEOREM ExactKept == Spec => [](OwnInv /\ MaskInv /\ ExactInv)
<1>1. Init => OwnInv /\ MaskInv /\ ExactInv
  BY InitOwn, InitMask, InitExact
<1>2. OwnInv /\ MaskInv /\ ExactInv /\ [Next]_vars => (OwnInv /\ MaskInv /\ ExactInv)'
  BY NextOwn, NextMask, NextExact
<1> QED
  BY <1>1, <1>2, PTL DEF Spec

\* The invariant holds the counts in every state, between two sections of ovs_mutex too.
LEMMA ExactInvSafe == OwnInv /\ MaskInv /\ ExactInv => TableExact
BY DEF MaskInv, ExactInv, UfidInv, TableExact, CountsExact

\* The flow table and the UFID table hold the same flows, count them exactly and hold none
\* twice, for every number of flows, keys and identifiers and every history of commands.
THEOREM TablesRight == Spec => []TableExact
BY ExactKept, ExactInvSafe, PTL


-----------------------------------------------------------------------------
(* What userspace sees of a flow. *)

\* Two linked flows look different, whichever actions they have.
LEMMA InstalledOnce ==
  ASSUME MaskInv, ExactInv, NEW f \in Linked, NEW g \in Linked, f # g
  PROVE  ~Abs!Same(AsInstalled(f), AsInstalled(g)) /\ AsInstalled(f) # AsInstalled(g)
<1>1. flow[f].mask \in Published /\ flow[g].mask \in Published
  BY DEF MaskInv, Using
<1>2. mask[flow[f].mask].m = mask[flow[g].mask].m => flow[f].mask = flow[g].mask
  BY <1>1 DEF MaskInv
<1>3. /\ <<flow[f].mask, flow[f].key>> # <<flow[g].mask, flow[g].key>>
      /\ flow[f].ufid = flow[g].ufid => flow[f].ufid = NULL
  BY DEF ExactInv, FlowsUnique
<1> QED
  BY <1>2, <1>3 DEF AsInstalled, Abs!Same

\* A flow that has its mask is a flow of the abstract table.
LEMMA InstalledType ==
  ASSUME OwnInv, NEW f \in FlowObj, f \in alloc, flow[f].mask \in MaskObj
  PROVE  AsInstalled(f) \in [m : SUBSET Fields, key : KeyType, ufid : Ids \cup {NULL},
                             ukey : KeyType, acts : ActObj]
<1>1. flow[f] \in FlowType /\ mask[flow[f].mask].m \in SUBSET Fields /\ flow[f].acts \in ActObj
  BY DEF OwnInv, TypeOK, ActsInv
<1> QED
  BY <1>1 DEF AsInstalled, FlowType

\* The empty table is the abstract one's initial state.
LEMMA InitRefines == Init => Abs!Init
<1> SUFFICES ASSUME Init PROVE Installed = {}
  BY DEF Abs!Init
<1>1. Linked = {}
  BY DEF Init, Linked
<1> QED
  BY <1>1 DEF Installed

\* A step that leaves the linked flows and their masks alone changes nothing that shows.
LEMMA StutterRefines ==
  ASSUME Linked' = Linked,
         \A f \in Linked : flow'[f] = flow[f] /\ mask'[flow[f].mask].m = mask[flow[f].mask].m
  PROVE  Installed' = Installed
BY DEF Installed, AsInstalled

\* Replacing actions is an update.
LEMMA ReplaceRefines ==
  ASSUME OwnInv, MaskInv, ExactInv, NEW t \in Threads, NEW g \in Linked, NEW a \in ActObj,
         NEW s, ReplaceActs(t, g, a, s), UNCHANGED <<mask, ti, tbl>>
  PROVE  Abs!Update
<1>1. flow' = [flow EXCEPT ![g].acts = a]
  BY DEF ReplaceActs, AssignActs
<1>2. /\ Linked' = Linked
      /\ \A f \in Linked : f \in FlowObj /\ f \in alloc /\ flow[f].mask \in MaskObj
  BY UsingLive DEF Linked, Using, Live, OwnInv, TableInv
<1>3. flow'[g] = [flow[g] EXCEPT !.acts = a] /\ flow[g] \in FlowType
  BY <1>1, <1>2 DEF OwnInv, TypeOK
<1>4. AsInstalled(g)' = [AsInstalled(g) EXCEPT !.acts = a]
  BY <1>3 DEF AsInstalled, FlowType
<1>5. \A f \in Linked : f # g => AsInstalled(f)' = AsInstalled(f)
  BY <1>1, <1>2 DEF AsInstalled, OwnInv, TypeOK
<1>6. \A f \in Linked : f # g => AsInstalled(f) # AsInstalled(g)
  BY InstalledOnce
<1>7. PICK old, new : old = AsInstalled(g) /\ new = [old EXCEPT !.acts = a]
  OBVIOUS
<1>8. Installed' = (Installed \ {old}) \cup {new}
  BY <1>2, <1>4, <1>5, <1>6, <1>7 DEF Installed
<1>9. old \in Installed
  BY <1>7 DEF Installed
<1>10. old \in [m : SUBSET Fields, key : KeyType, ufid : Ids \cup {NULL}, ukey : KeyType,
                acts : ActObj]
  BY <1>2, <1>7, InstalledType
<1>11. /\ new \in [m : SUBSET Fields, key : KeyType, ufid : Ids \cup {NULL}, ukey : KeyType,
                   acts : ActObj]
       /\ new = [old EXCEPT !.acts = new.acts]
  BY <1>7, <1>10
<1> QED
  BY <1>8, <1>9, <1>11 DEF Abs!Update

\* ovs_flow_cmd_new() shows nothing of a new flow yet; with one that exists it is an update.
LEMMA NewRefines ==
  ASSUME OwnInv, MaskInv, ExactInv, NEW t \in Threads, NEW f \in FlowObj, NEW a \in ActObj,
         NEW k, NEW m, NEW u, NEW excl, ovs_flow_cmd_new(t, f, a, k, m, u, excl)
  PROVE  Abs!Update \/ Installed' = Installed
<1> DEFINE masked == ovs_flow_mask_key(k, m)
           matchkey == IF u # NULL THEN masked ELSE k
           byUfid == IF u # NULL THEN ovs_flow_tbl_lookup_ufid(u) ELSE {}
           dup == IF byUfid # {} THEN byUfid ELSE ovs_flow_tbl_lookup(masked)
           fresh == [mask |-> NULL, key |-> masked, ufid |-> u,
                     ukey |-> IF u # NULL THEN ZeroKey ELSE k, acts |-> a]
<1>1. f \notin alloc /\ UNCHANGED <<mask, ti, tbl>>
  BY DEF ovs_flow_cmd_new, Free
<1>2. CASE flow' = [flow EXCEPT ![f] = fresh]
  <2> HIDE DEF fresh
  <2>1. Linked' = Linked
    BY <1>1 DEF Linked
  <2>2. \A g \in Linked : flow'[g] = flow[g]
    BY <1>1, <1>2, UsingLive DEF Using, Live, OwnInv, TypeOK
  <2> QED
    BY <1>1, <2>1, <2>2, StutterRefines
<1>3. CASE \E g \in Linked : ReplaceActs(t, g, a, flow[g].ufid = u)
  BY <1>1, <1>3, ReplaceRefines
<1>4. dup \subseteq Linked
  BY DEF ovs_flow_tbl_lookup, ovs_flow_tbl_lookup_ufid, OwnInv, TableInv
<1>5. ovs_flow_tbl_lookup_exact(matchkey) \subseteq Linked
  BY DEF ovs_flow_tbl_lookup_exact
<1> QED
  <2> HIDE DEF fresh, masked, matchkey, dup
  <2> QED
    BY <1>2, <1>3, <1>4, <1>5 DEF ovs_flow_cmd_new, fresh, masked, matchkey, dup

\* ovs_flow_cmd_set() is an update.
LEMMA SetRefines ==
  ASSUME OwnInv, MaskInv, ExactInv, NEW t \in Threads, NEW a \in ActObj, NEW k, NEW u,
         ovs_flow_cmd_set(t, a, k, u)
  PROVE  Abs!Update
BY SelectedLinked, ReplaceRefines DEF OwnInv, ovs_flow_cmd_set

\* flow_mask_insert(), and its failure, concern a flow and a mask that do not show yet.
LEMMA MaskInsertRefines ==
  ASSUME OwnInv, MaskInv, NEW t \in Threads, flow_mask_insert(t)
  PROVE  Installed' = Installed
<1>1. PICK f : f = cmd[t].flow
  OBVIOUS
<1>2. cmd[t].pc = "mask_insert" /\ ti' = ti
  BY DEF flow_mask_insert
<1>3. f \notin Linked
  BY <1>1, <1>2 DEF OwnInv, HeldInv, FlowPcs
<1>4. /\ \/ \E mo : flow' = [flow EXCEPT ![f].mask = mo]
         \/ flow' = [flow EXCEPT ![f] = NoFlow]
      /\ tbl' = tbl \/ \E na : tbl' = [tbl EXCEPT !.ma = na]
      /\ \/ \E mo : mask' = [mask EXCEPT ![mo].ref = @ + 1]
         \/ \E mo \in MaskObj : /\ mo \notin alloc
                                /\ mask' = [mask EXCEPT ![mo] = [m |-> cmd[t].m, ref |-> 1]]
         \/ mask' = mask
  BY <1>1, Zenon DEF flow_mask_insert, Free, ShareMask
<1>5. Linked' = Linked
  BY <1>2, <1>4 DEF Linked, OwnInv, TypeOK, TblType
<1>6. \A g \in Linked : g \in FlowObj /\ flow[g].mask \in MaskObj /\ flow[g].mask \in alloc
  BY UsingLive, PublishedMasks DEF MaskInv, Using, Live
<1>7. \A g \in Linked : flow'[g] = flow[g]
  BY <1>3, <1>4, <1>6 DEF OwnInv, TypeOK
<1>8. \A mo \in MaskObj : mo \in alloc => mask'[mo].m = mask[mo].m
  <2>1. mask \in [MaskObj -> [m : SUBSET Fields, ref : Nat]]
    BY DEF OwnInv, TypeOK
  <2>2. CASE \E mo : mask' = [mask EXCEPT ![mo].ref = @ + 1]
    BY <2>1, <2>2
  <2>3. CASE \E mo \in MaskObj : /\ mo \notin alloc
                                /\ mask' = [mask EXCEPT ![mo] = [m |-> cmd[t].m, ref |-> 1]]
    BY <2>1, <2>3
  <2> QED
    BY <1>4, <2>2, <2>3
<1> QED
  BY <1>5, <1>6, <1>7, <1>8, StutterRefines

\* flow_key_insert() publishes the flow, with or without a rehash.
LEMMA KeyInsertLinked ==
  ASSUME OwnInv, NEW t \in Threads, flow_key_insert(t)
  PROVE  Linked' = Linked \cup {cmd[t].flow}
<1>1. PICK f, flows : f = cmd[t].flow /\ flows = Linked \cup {f}
  OBVIOUS
<1> DEFINE Table(inst) ==
        [ti |-> inst, ma |-> tbl.ma, count |-> tbl.count + 1,
         ufid |-> IF flow[f].ufid # NULL THEN tbl.ufid \cup {f} ELSE tbl.ufid,
         ufid_count |-> IF flow[f].ufid # NULL THEN tbl.ufid_count + 1 ELSE tbl.ufid_count]
<1>2. ASSUME NEW inst PROVE Table(inst).ti = inst
  OBVIOUS
<1> HIDE DEF Table
<1>3. tbl.ti \in TiObj
  BY DEF OwnInv, TypeOK, TblType
<1>4. CASE /\ ti' = [ti EXCEPT ![tbl.ti].flows = flows]
           /\ tbl' = Table(tbl.ti)
           /\ UNCHANGED heap
  BY <1>1, <1>2, <1>3, <1>4 DEF Linked, OwnInv, TypeOK
<1>5. CASE \E new \in Free(TiObj) :
          /\ alloc' = alloc \cup {new}
          /\ ti' = [ti EXCEPT ![tbl.ti].flows = flows,
                      ![new] = [flows |-> flows,
                                n_buckets |-> NewBuckets(tbl.count + 1, ti[tbl.ti].n_buckets)]]
          /\ tbl' = Table(new)
          /\ call_rcu({tbl.ti})
  <2>1. PICK new \in TiObj :
          /\ ti' = [ti EXCEPT ![tbl.ti].flows = flows,
                      ![new] = [flows |-> flows,
                                n_buckets |-> NewBuckets(tbl.count + 1, ti[tbl.ti].n_buckets)]]
          /\ tbl' = Table(new)
    BY <1>5 DEF Free
  <2> QED
    BY <1>1, <1>2, <1>3, <2>1 DEF Linked, OwnInv, TypeOK
<1> QED
  BY <1>1, <1>4, <1>5 DEF flow_key_insert, Table

\* Publishing a flow installs it: the checks of ovs_flow_cmd_new() still hold.
LEMMA KeyInsertRefines ==
  ASSUME OwnInv, MaskInv, ExactInv, NEW t \in Threads, flow_key_insert(t)
  PROVE  Abs!Install
<1>1. PICK f : f = cmd[t].flow
  OBVIOUS
<1>2. cmd[t].pc = "key_insert" /\ UNCHANGED <<flow, mask>>
  BY DEF flow_key_insert
<1>3. Linked' = Linked \cup {f}
  BY <1>1, KeyInsertLinked
<1>4. Installed' = Installed \cup {AsInstalled(f)}
  BY <1>2, <1>3 DEF Installed, AsInstalled
<1>5. f \in FlowObj /\ f \in alloc /\ flow[f].mask \in MaskObj /\ f \in Using
  BY <1>1, <1>2 DEF OwnInv, HeldInv, FlowPcs, Live, Using, Held
<1>6. AsInstalled(f) \in [m : SUBSET Fields, key : KeyType, ufid : Ids \cup {NULL},
                          ukey : KeyType, acts : ActObj]
  BY <1>5, InstalledType
<1>7. ASSUME NEW g \in Linked PROVE ~Abs!Same(AsInstalled(f), AsInstalled(g))
  <2>1. flow[f].mask \in Published /\ flow[g].mask \in Published
    BY <1>5 DEF MaskInv, Using
  <2>2. mask[flow[f].mask].m = mask[flow[g].mask].m => flow[f].mask = flow[g].mask
    BY <2>1 DEF MaskInv
  <2>3. /\ <<flow[g].mask, flow[g].key>> # <<flow[f].mask, flow[f].key>>
        /\ flow[g].ufid = flow[f].ufid => flow[g].ufid = NULL
    BY <1>1, <1>2 DEF ExactInv, NewDiffers, Differ
  <2> QED
    BY <2>2, <2>3 DEF AsInstalled, Abs!Same
<1>8. \A old \in Installed : ~Abs!Same(AsInstalled(f), old)
  BY <1>7 DEF Installed
<1> QED
  BY <1>4, <1>6, <1>8 DEF Abs!Install

\* Unlinking a flow removes it.
LEMMA DelRefines ==
  ASSUME OwnInv, MaskInv, ExactInv, NEW t \in Threads, NEW k, NEW u, ovs_flow_cmd_del(t, k, u)
  PROVE  Abs!Remove
<1>1. PICK g \in Linked :
       /\ ti' = [ti EXCEPT ![tbl.ti].flows = @ \ {g}]
       /\ tbl' = [tbl EXCEPT !.count = @ - 1,
                    !.ufid = @ \ {g},
                    !.ufid_count = IF flow[g].ufid # NULL THEN @ - 1 ELSE @]
  BY SelectedLinked DEF OwnInv, ovs_flow_cmd_del
<1>2. UNCHANGED <<flow, mask>>
  BY DEF ovs_flow_cmd_del
<1>3. Linked' = Linked \ {g}
  <2>1. tbl.ti \in TiObj /\ tbl'.ti = tbl.ti
    BY <1>1 DEF OwnInv, TypeOK, TblType
  <2> QED
    BY <1>1, <2>1 DEF Linked, OwnInv, TypeOK
<1>4. \A f \in Linked : f # g => AsInstalled(f) # AsInstalled(g)
  BY InstalledOnce
<1>5. Installed' = Installed \ {AsInstalled(g)}
  BY <1>2, <1>3, <1>4 DEF Installed, AsInstalled
<1>6. AsInstalled(g) \in Installed
  BY DEF Installed
<1> QED
  BY <1>5, <1>6 DEF Abs!Remove

\* Publishing an empty instance flushes.
LEMMA FlushRefines ==
  ASSUME OwnInv, NEW t \in Threads, ovs_flow_tbl_flush(t)
  PROVE  Abs!Flush
<1>1. PICK new \in TiObj :
       /\ ti' = [ti EXCEPT ![new] = [flows |-> {}, n_buckets |-> TBL_MIN_BUCKETS]]
       /\ tbl' = Flushed(new)
  BY DEF ovs_flow_tbl_flush, Free
<1>2. Linked' = {}
  BY <1>1 DEF Linked, Flushed, OwnInv, TypeOK
<1> QED
  BY <1>2 DEF Abs!Flush, Installed

\* What remains of a deletion, a flush or an update does not show.
LEMMA RestRefines ==
  ASSUME OwnInv, NEW t \in Threads,
         \/ ovs_nla_free_flow_actions_rcu(t) \/ del_fill_info(t) \/ del_fill_done(t)
         \/ ovs_flow_free(t) \/ flow_mask_remove(t) \/ table_instance_destroy(t)
  PROVE  Installed' = Installed
<1>1. tbl.ti \in TiObj /\ \A f \in Linked : flow[f].mask \in MaskObj
  BY DEF OwnInv, TypeOK, TblType, TableInv
<1>2. CASE \/ ovs_nla_free_flow_actions_rcu(t) \/ del_fill_info(t) \/ del_fill_done(t)
           \/ ovs_flow_free(t)
  <2>1. UNCHANGED <<flow, mask, ti, tbl>>
    BY <1>2 DEF ovs_nla_free_flow_actions_rcu, del_fill_info, del_fill_done, ovs_flow_free
  <2> QED
    BY <2>1, StutterRefines DEF Linked
<1>3. CASE flow_mask_remove(t)
  <2>1. /\ \E mo : mask' = [mask EXCEPT ![mo].ref = @ - 1]
        /\ tbl' = tbl \/ \E na : tbl' = [tbl EXCEPT !.ma = na]
        /\ UNCHANGED <<flow, ti>>
    BY <1>3 DEF flow_mask_remove
  <2>2. Linked' = Linked
    BY <2>1 DEF Linked, OwnInv, TypeOK, TblType
  <2>3. \A mo \in MaskObj : mask'[mo].m = mask[mo].m
    BY <2>1 DEF OwnInv, TypeOK
  <2> QED
    BY <1>1, <2>1, <2>2, <2>3, StutterRefines
<1>4. CASE table_instance_destroy(t)
  <2>1. PICK old : old = cmd[t].ti
    OBVIOUS
  <2>2. /\ cmd[t].pc = "flush" /\ UNCHANGED <<flow, mask, tbl>>
        /\ ti' = ti \/ \E f : ti' = [ti EXCEPT ![old].flows = @ \ {f}]
    BY <1>4, <2>1 DEF table_instance_destroy
  <2>3. old # tbl.ti
    BY <2>1, <2>2 DEF OwnInv, FlushInv
  <2>4. Linked' = Linked
    BY <1>1, <2>2, <2>3 DEF Linked, OwnInv, TypeOK
  <2> QED
    BY <2>2, <2>4, StutterRefines
<1> QED
  BY <1>2, <1>3, <1>4

\* Nor does what RCU callbacks free.
LEMMA CallbacksRefines ==
  ASSUME OwnInv, MaskInv, rcu_callbacks
  PROVE  Installed' = Installed
<1>1. PICK S : S = GraceEnded
  OBVIOUS
<1>2. /\ S \subseteq pend
      /\ \A f \in FlowObj : f \notin S => flow'[f] = flow[f]
      /\ \A x \in MaskObj : x \notin S => mask'[x] = mask[x]
      /\ \A x \in TiObj : x \notin S => ti'[x] = ti[x]
      /\ UNCHANGED tbl
  BY <1>1 DEF rcu_callbacks, GraceEnded
<1>3. \A o \in Live : o \notin S
  BY <1>2 DEF Live
<1>4. Linked' = Linked
  BY <1>2, <1>3 DEF Linked, OwnInv, TypeOK, TblType, TableInv
<1>5. \A f \in Linked : /\ f \in FlowObj /\ f \in Live
                        /\ flow[f].mask \in MaskObj /\ flow[f].mask \in Live
  BY UsingLive, PublishedMasks DEF MaskInv, Using
<1> QED
  BY <1>2, <1>3, <1>4, <1>5, StutterRefines

\* Nor what readers do.
LEMMA ReaderRefines ==
  ASSUME NEW r \in Readers,
         \/ \E k \in Keys, s \in StartIndexes : ovs_flow_tbl_lookup_stats(r, k, s)
         \/ ovs_flow_cmd_dump(r)
         \/ ovs_flow_tbl_dump_next(r)
         \/ Read(r)
  PROVE  Installed' = Installed
<1>1. UNCHANGED <<flow, mask, ti, tbl>>
  <2>1. CASE \E k \in Keys, s \in StartIndexes : ovs_flow_tbl_lookup_stats(r, k, s)
    BY <2>1 DEF ovs_flow_tbl_lookup_stats, writerState
  <2>2. CASE ovs_flow_cmd_dump(r) \/ ovs_flow_tbl_dump_next(r)
    BY <2>2 DEF ovs_flow_cmd_dump, ovs_flow_tbl_dump_next, writerState
  <2>3. CASE Read(r)
    BY <2>3 DEF Read, lookup_read_ti, flow_lookup, lookup_walk, ovs_dp_process_packet,
                reader_done, writerState
  <2> QED
    BY <2>1, <2>2, <2>3
<1> QED
  BY <1>1, StutterRefines DEF Linked

-----------------------------------------------------------------------------
(* The theorem. *)

\* Every step of every process is a step of the abstract table or shows nothing.
LEMMA NextRefines ==
  OwnInv /\ MaskInv /\ ExactInv /\ [Next]_vars => Abs!Next \/ Installed' = Installed
<1> SUFFICES ASSUME OwnInv, MaskInv, ExactInv, [Next]_vars
             PROVE  \/ Abs!Install \/ Abs!Update \/ Abs!Remove \/ Abs!Flush
                    \/ Installed' = Installed
  BY DEF Abs!Next
<1>1. ASSUME NEW t \in Threads, NewCommand(t) PROVE Abs!Update \/ Installed' = Installed
  BY <1>1, NewRefines DEF NewCommand
<1>2. ASSUME NEW t \in Threads, SetCommand(t) PROVE Abs!Update
  BY <1>2, SetRefines DEF SetCommand
<1>3. ASSUME NEW t \in Threads, DelCommand(t) PROVE Abs!Remove
  BY <1>3, DelRefines DEF DelCommand
<1>4. ASSUME NEW t \in Threads, FlushCommand(t) PROVE Abs!Flush
  BY <1>4, FlushRefines DEF FlushCommand
<1>5. ASSUME NEW t \in Threads, Proceed(t) PROVE Abs!Install \/ Installed' = Installed
  BY <1>5, MaskInsertRefines, KeyInsertRefines, RestRefines DEF Proceed
<1>6. CASE \E r \in Cpus : Lookup(r)
  BY <1>6, ReaderRefines DEF Lookup, Readers
<1>7. CASE \E r \in Dumpers : ovs_flow_cmd_dump(r) \/ ovs_flow_tbl_dump_next(r)
  BY <1>7, ReaderRefines DEF Readers
<1>8. CASE \E r \in Readers : Read(r)
  BY <1>8, ReaderRefines
<1>9. CASE rcu_callbacks
  BY <1>9, CallbacksRefines
<1>10. CASE UNCHANGED vars
  BY <1>10, StutterRefines DEF vars, Linked
<1> QED
  BY <1>1, <1>2, <1>3, <1>4, <1>5, <1>6, <1>7, <1>8, <1>9, <1>10 DEF Next

\* The flow table implements FlowTableAbs, for every number of flows, masks, threads and
\* readers.
THEOREM Refinement == Spec => ImplementsAbs
<1>1. Init => Abs!Init
  BY InitRefines
<1>2. OwnInv /\ MaskInv /\ ExactInv /\ [Next]_vars => [Abs!Next]_Installed
  BY NextRefines
<1> QED
  BY <1>1, <1>2, ExactKept, PTL DEF Spec, ImplementsAbs, Abs!Spec

-----------------------------------------------------------------------------
(* What a lookup has still to do. *)

\* Slot s of the array has its turn when flow_lookup() gets to turn n or later: 'start'
\* goes first and is passed over afterwards.
Comes(s, n, start) == n = 0 \/ (s # start /\ s >= n)

\* The next turn of flow_lookup(), and whether it leads to the mask of flow f.
NextTurn(r) == IF rd[r].pc = "walk" THEN rd[r].i + 1 ELSE rd[r].i
Ahead(r, f) ==
  \E s \in Used(arr[rd[r].ma]) :
     arr[rd[r].ma].masks[s] = flow[f].mask /\ Comes(s, NextTurn(r), rd[r].start)

\* Each flow that matches and stays linked is still ahead of the lookup, under the mask
\* whose chain is walked or in a slot to come; and the lookup only gets to see flows that were
\* linked meanwhile.
LookupInv(r) ==
  /\ rd[r].pc = "ti" => rd[r].i = 0 /\ Linked \subseteq seen[r]
  /\ rd[r].pc \in {"mask", "walk"} => /\ ti[rd[r].ti].flows \subseteq seen[r]
                                      /\ cand[r] \subseteq ti[rd[r].ti].flows
  /\ rd[r].pc \in {"ti", "mask", "walk"} =>
       /\ cand[r] \subseteq Linked
       /\ \A f \in cand[r] : /\ Matches(f, rd[r].key)
                             /\ \/ rd[r].pc = "walk" /\ rd[r].mask = flow[f].mask
                                \/ Ahead(r, f)
  /\ rd[r].pc = "miss" => cand[r] = {}
  /\ rd[r].pc \in {"hit", "exec"} =>
       rd[r].flow \in seen[r] /\ Matches(rd[r].flow, rd[r].key)

LookupsInv == \A r \in Readers : LookupInv(r)

\* ovs_flow_tbl_init(): nobody looks anything up.
LEMMA InitLookup == Init => LookupsInv
BY DEF Init, LookupsInv, LookupInv, IdleRd

-----------------------------------------------------------------------------
(* The turns of flow_lookup(). *)

\* A turn that leads nowhere or to a slot passes over no other slot.
LEMMA TurnPasses ==
  ASSUME NEW a, IsMaskArray(a), NEW i \in Nat, NEW start \in Nat \ {0},
         NEW s \in Used(a), Comes(s, i, start)
  PROVE  /\ i <= a.max
         /\ Comes(s, i + 1, start) \/ (s = Slot(i, start) /\ Searches(a, i, start))
<1>1. a.max \in Nat /\ s \in Nat /\ 1 <= s /\ s <= a.max /\ a.masks[s] # NULL
  BY DEF IsMaskArray, Used
<1>2. CASE i = 0
  <2>1. Slot(i, start) = start /\ i # start
    BY <1>2 DEF Slot
  <2>2. s = start => Searches(a, i, start)
    BY <1>1, <2>1 DEF Searches
  <2> QED
    BY <1>1, <1>2, <2>1, <2>2 DEF Comes
<1>3. CASE i # 0
  <2>1. Slot(i, start) = i /\ s # start /\ s >= i
    BY <1>3 DEF Slot, Comes
  <2>2. s = i => Searches(a, i, start)
    BY <1>1, <2>1 DEF Searches
  <2>3. s # i => s >= i + 1
    BY <1>1, <2>1
  <2> QED
    BY <1>1, <2>1, <2>2, <2>3 DEF Comes
<1> QED
  BY <1>2, <1>3

-----------------------------------------------------------------------------
(* The steps of a reader. *)

\* A reader's step does not concern the lookups of the others.
LEMMA OthersLookup ==
  ASSUME LookupsInv, NEW q \in Readers, UNCHANGED <<flow, mask, arr, ti, tbl>>,
         \A r \in Readers : r # q => rd'[r] = rd[r] /\ cand'[r] = cand[r] /\ seen'[r] = seen[r],
         LookupInv(q)'
  PROVE  LookupsInv'
<1> SUFFICES ASSUME NEW r \in Readers, r # q PROVE LookupInv(r)'
  BY DEF LookupsInv
<1>1. LookupInv(r)
  BY DEF LookupsInv
<1> QED
  BY <1>1 DEF LookupInv, Ahead, NextTurn, Matches, Linked

\* ovs_flow_tbl_lookup_stats(): the mask of every linked flow is in the array, and all slots
\* are still to come.
LEMMA StartLookup ==
  ASSUME OwnInv, MaskInv, LookupsInv, NEW q \in Readers, NEW k, NEW s,
         ovs_flow_tbl_lookup_stats(q, k, s)
  PROVE  LookupsInv'
<1>1. /\ UNCHANGED <<flow, mask, arr, ti, tbl>>
      /\ rd' = [rd EXCEPT ![q] = [IdleRd EXCEPT !.pc = "ti", !.key = k,
                                     !.start = s, !.ma = tbl.ma]]
      /\ cand' = [cand EXCEPT ![q] = {f \in Linked : Matches(f, k)}]
      /\ seen' = [seen EXCEPT ![q] = Linked]
  BY DEF ovs_flow_tbl_lookup_stats, writerState
<1>2. /\ rd'[q].pc = "ti" /\ rd'[q].ma = tbl.ma /\ rd'[q].i = 0 /\ rd'[q].key = k
      /\ cand'[q] = {f \in Linked : Matches(f, k)} /\ seen'[q] = Linked
  BY <1>1 DEF OwnInv, TypeOK, IdleRd
<1>3. \A r \in Readers : r # q => rd'[r] = rd[r] /\ cand'[r] = cand[r] /\ seen'[r] = seen[r]
  BY <1>1 DEF OwnInv, TypeOK
<1>4. Linked' = Linked
  BY <1>1 DEF Linked
<1>5. ASSUME NEW f \in cand'[q] PROVE Matches(f, k)' /\ Ahead(q, f)'
  <2>1. f \in Linked /\ Matches(f, k)
    BY <1>2
  <2>2. flow[f].mask \in Published
    BY <2>1 DEF MaskInv, Using
  <2>3. PICK j \in Used(arr[tbl.ma]) : arr[tbl.ma].masks[j] = flow[f].mask
    BY <2>2 DEF Published, Holds
  <2>4. Comes(j, NextTurn(q)', rd'[q].start)
    BY <1>2 DEF Comes, NextTurn
  <2>5. Ahead(q, f)'
    BY <1>1, <1>2, <2>3, <2>4 DEF Ahead
  <2>6. Matches(f, k)'
    BY <1>1, <2>1 DEF Matches
  <2> QED
    BY <2>5, <2>6
<1>6. LookupInv(q)'
  BY <1>2, <1>4, <1>5 DEF LookupInv
<1> QED
  BY <1>1, <1>3, <1>6, OthersLookup

\* The instance is loaded later than the array; what has been linked from the beginning is
\* in it nevertheless.
LEMMA ReadTiLookup ==
  ASSUME OwnInv, LookupsInv, NEW q \in Readers, lookup_read_ti(q)
  PROVE  LookupsInv'
<1>1. /\ UNCHANGED <<flow, mask, arr, ti, tbl, cand, seen>>
      /\ rd[q].pc = "ti"
      /\ rd' = [rd EXCEPT ![q].pc = "mask", ![q].ti = tbl.ti]
  BY DEF lookup_read_ti, writerState, history
<1>2. /\ rd'[q].pc = "mask" /\ rd'[q].ti = tbl.ti /\ rd'[q].ma = rd[q].ma
      /\ rd'[q].i = rd[q].i /\ rd'[q].start = rd[q].start /\ rd'[q].key = rd[q].key
      /\ \A r \in Readers : r # q => rd'[r] = rd[r]
  BY <1>1 DEF OwnInv, TypeOK, RdType, RdRecord
<1>3. LookupInv(q)
  BY DEF LookupsInv
<1>4. Linked' = Linked
  BY <1>1 DEF Linked
<1>5. ASSUME NEW f \in cand[q] PROVE Matches(f, rd[q].key)' /\ Ahead(q, f)'
  <2>1. Matches(f, rd[q].key) /\ Ahead(q, f)
    BY <1>1, <1>3 DEF LookupInv
  <2>2. NextTurn(q)' = NextTurn(q)
    BY <1>1, <1>2 DEF NextTurn
  <2> QED
    BY <1>1, <1>2, <2>1, <2>2 DEF Ahead, Matches
<1>6. LookupInv(q)'
  BY <1>1, <1>2, <1>3, <1>4, <1>5 DEF LookupInv, Linked
<1> QED
  BY <1>1, <1>2, <1>6, OthersLookup

\* A turn of flow_lookup(): it ends when no slot is to come, and no candidate is left then.
LEMMA TurnLookup ==
  ASSUME OwnInv, LookupsInv, NEW q \in Readers, flow_lookup(q)
  PROVE  LookupsInv'
<1> DEFINE a == arr[rd[q].ma]
           i == rd[q].i
           start == rd[q].start
<1>1. /\ UNCHANGED <<flow, mask, arr, ti, tbl, cand, seen>>
      /\ rd[q].pc = "mask"
      /\ \/ /\ i > a.max
            /\ rd' = [rd EXCEPT ![q] = [IdleRd EXCEPT !.pc = "miss", !.key = rd[q].key]]
         \/ /\ ~Searches(a, i, start)
            /\ rd' = [rd EXCEPT ![q].i = i + 1]
         \/ /\ Searches(a, i, start)
            /\ rd' = [rd EXCEPT ![q].pc = "walk", ![q].mask = a.masks[Slot(i, start)]]
  BY DEF flow_lookup, writerState, history
<1>2. /\ rd[q] \in RdRecord /\ i \in Nat /\ start \in Nat \ {0} /\ rd[q].ma \in ArrObj
      /\ IsMaskArray(a) /\ a.max \in Nat
  BY <1>1 DEF OwnInv, TypeOK, RdType, RdRecord, IsMaskArray
<1>3. \A r \in Readers : r # q => rd'[r] = rd[r]
  BY <1>1 DEF OwnInv, TypeOK
<1>4. LookupInv(q)
  BY DEF LookupsInv
<1>5. Linked' = Linked
  BY <1>1 DEF Linked
<1> HIDE DEF a, i, start
<1>6. ASSUME NEW f \in cand[q]
      PROVE  /\ i <= a.max
             /\ f \in Linked /\ Matches(f, rd[q].key)
             /\ \E s \in Used(a) :
                  /\ a.masks[s] = flow[f].mask
                  /\ Comes(s, i + 1, start) \/ (s = Slot(i, start) /\ Searches(a, i, start))
  <2>1. f \in Linked /\ Matches(f, rd[q].key) /\ Ahead(q, f)
    BY <1>1, <1>4 DEF LookupInv
  <2>2. PICK s \in Used(a) : a.masks[s] = flow[f].mask /\ Comes(s, i, start)
    BY <1>1, <2>1 DEF Ahead, NextTurn, a, i, start
  <2> QED
    BY <1>2, <2>1, <2>2, TurnPasses
<1>7. CASE /\ i > a.max
           /\ rd' = [rd EXCEPT ![q] = [IdleRd EXCEPT !.pc = "miss", !.key = rd[q].key]]
  <2>1. cand[q] = {}
    BY <1>2, <1>6, <1>7
  <2>2. rd'[q].pc = "miss"
    BY <1>7 DEF OwnInv, TypeOK, IdleRd
  <2>3. LookupInv(q)'
    BY <1>1, <2>1, <2>2 DEF LookupInv
  <2> QED
    BY <1>1, <1>3, <2>3, OthersLookup
<1>8. CASE /\ ~Searches(a, i, start)
           /\ rd' = [rd EXCEPT ![q].i = i + 1]
  <2>1. /\ rd'[q].pc = "mask" /\ rd'[q].i = i + 1 /\ rd'[q].start = start
        /\ rd'[q].ma = rd[q].ma /\ rd'[q].ti = rd[q].ti /\ rd'[q].key = rd[q].key
    BY <1>1, <1>2, <1>8 DEF OwnInv, TypeOK, RdType, RdRecord, start
  <2>2. ASSUME NEW f \in cand[q] PROVE Matches(f, rd[q].key)' /\ Ahead(q, f)'
    <3>1. PICK s \in Used(a) : a.masks[s] = flow[f].mask /\ Comes(s, i + 1, start)
      BY <1>6, <1>8
    <3>2. NextTurn(q)' = i + 1
      BY <2>1 DEF NextTurn
    <3>3. Ahead(q, f)'
      BY <1>1, <2>1, <3>1, <3>2 DEF Ahead, a
    <3> QED
      BY <1>1, <1>6, <2>1, <3>3 DEF Matches
  <2>3. LookupInv(q)'
    BY <1>1, <1>4, <1>5, <2>1, <2>2 DEF LookupInv
  <2> QED
    BY <1>1, <1>3, <2>3, OthersLookup
<1>9. CASE /\ Searches(a, i, start)
           /\ rd' = [rd EXCEPT ![q].pc = "walk", ![q].mask = a.masks[Slot(i, start)]]
  <2>1. /\ rd'[q].pc = "walk" /\ rd'[q].i = i /\ rd'[q].start = start
        /\ rd'[q].mask = a.masks[Slot(i, start)]
        /\ rd'[q].ma = rd[q].ma /\ rd'[q].ti = rd[q].ti /\ rd'[q].key = rd[q].key
    BY <1>1, <1>2, <1>9 DEF OwnInv, TypeOK, RdType, RdRecord, start, i
  <2>2. ASSUME NEW f \in cand[q]
        PROVE  Matches(f, rd[q].key)' /\ (rd'[q].mask = flow'[f].mask \/ Ahead(q, f)')
    <3>1. PICK s \in Used(a) : /\ a.masks[s] = flow[f].mask
                               /\ Comes(s, i + 1, start) \/ s = Slot(i, start)
      BY <1>6
    <3>2. NextTurn(q)' = i + 1
      BY <2>1 DEF NextTurn
    <3>3. rd'[q].mask = flow'[f].mask \/ Ahead(q, f)'
      BY <1>1, <2>1, <3>1, <3>2 DEF Ahead, a
    <3> QED
      BY <1>1, <1>6, <2>1, <3>3 DEF Matches
  <2>3. LookupInv(q)'
    BY <1>1, <1>4, <1>5, <2>1, <2>2 DEF LookupInv
  <2> QED
    BY <1>1, <1>3, <2>3, OthersLookup
<1> QED
  BY <1>1, <1>7, <1>8, <1>9

\* masked_flow_lookup(): a hit was linked meanwhile and matches; a candidate whose mask it
\* is would have been hit.
LEMMA WalkLookup ==
  ASSUME OwnInv, LookupsInv, NEW q \in Readers, lookup_walk(q)
  PROVE  LookupsInv'
<1> DEFINE hits == masked_flow_lookup(ti[rd[q].ti].flows, rd[q].key, rd[q].mask)
<1>1. /\ UNCHANGED <<flow, mask, arr, ti, tbl, cand, seen>>
      /\ rd[q].pc = "walk"
      /\ \/ \E f \in hits :
              rd' = [rd EXCEPT ![q] = [IdleRd EXCEPT !.pc = "hit", !.key = rd[q].key,
                                                     !.flow = f]]
         \/ /\ hits = {}
            /\ rd' = [rd EXCEPT ![q].pc = "mask", ![q].i = @ + 1, ![q].mask = NULL]
  BY DEF lookup_walk, writerState, history
<1>2. rd[q] \in RdRecord
  BY DEF OwnInv, TypeOK, RdType
<1>3. \A r \in Readers : r # q => rd'[r] = rd[r]
  BY <1>1 DEF OwnInv, TypeOK
<1>4. LookupInv(q) /\ Linked' = Linked
  BY <1>1 DEF LookupsInv, Linked
<1>5. \A f \in hits : /\ f \in ti[rd[q].ti].flows /\ flow[f].mask = rd[q].mask
                      /\ Matches(f, rd[q].key)
  BY DEF masked_flow_lookup, Matches
<1>6. \A f \in ti[rd[q].ti].flows :
         flow[f].mask = rd[q].mask /\ Matches(f, rd[q].key) => f \in hits
  BY DEF masked_flow_lookup, Matches
<1> HIDE DEF hits
<1>7. CASE \E f \in hits :
              rd' = [rd EXCEPT ![q] = [IdleRd EXCEPT !.pc = "hit", !.key = rd[q].key,
                                                     !.flow = f]]
  <2>1. PICK f \in hits :
              rd' = [rd EXCEPT ![q] = [IdleRd EXCEPT !.pc = "hit", !.key = rd[q].key,
                                                     !.flow = f]]
    BY <1>7
  <2>2. rd'[q].pc = "hit" /\ rd'[q].key = rd[q].key /\ rd'[q].flow = f
    BY <2>1 DEF OwnInv, TypeOK, IdleRd
  <2>3. f \in seen[q] /\ Matches(f, rd[q].key)
    BY <1>1, <1>4, <1>5 DEF LookupInv
  <2>4. LookupInv(q)'
    BY <1>1, <2>2, <2>3 DEF LookupInv, Matches
  <2> QED
    BY <1>1, <1>3, <2>4, OthersLookup
<1>8. CASE /\ hits = {}
           /\ rd' = [rd EXCEPT ![q].pc = "mask", ![q].i = @ + 1, ![q].mask = NULL]
  <2>1. /\ rd'[q].pc = "mask" /\ rd'[q].i = rd[q].i + 1 /\ rd'[q].start = rd[q].start
        /\ rd'[q].ma = rd[q].ma /\ rd'[q].ti = rd[q].ti /\ rd'[q].key = rd[q].key
    BY <1>2, <1>8 DEF OwnInv, TypeOK, RdRecord
  <2>2. ASSUME NEW f \in cand[q] PROVE Matches(f, rd[q].key)' /\ Ahead(q, f)'
    <3>1. Matches(f, rd[q].key) /\ f \in ti[rd[q].ti].flows
      BY <1>1, <1>4 DEF LookupInv
    <3>2. Ahead(q, f)
      BY <1>1, <1>4, <1>6, <1>8, <3>1 DEF LookupInv
    <3>3. NextTurn(q)' = NextTurn(q)
      BY <1>1, <2>1 DEF NextTurn
    <3> QED
      BY <1>1, <2>1, <3>1, <3>2, <3>3 DEF Ahead, Matches
  <2>3. LookupInv(q)'
    BY <1>1, <1>4, <2>1, <2>2 DEF LookupInv
  <2> QED
    BY <1>1, <1>3, <2>3, OthersLookup
<1> QED
  BY <1>1, <1>7, <1>8

\* The actions of a flow that was hit; dumps; the end of a lookup or a dump.
LEMMA RestLookup ==
  ASSUME OwnInv, LookupsInv, NEW q \in Readers,
         \/ ovs_dp_process_packet(q) \/ ovs_flow_cmd_dump(q) \/ ovs_flow_tbl_dump_next(q)
         \/ reader_done(q)
  PROVE  LookupsInv'
<1>1. rd[q] \in RdRecord /\ LookupInv(q)
  BY DEF OwnInv, TypeOK, RdType, LookupsInv
<1>2. CASE ovs_dp_process_packet(q)
  <2>1. /\ UNCHANGED <<flow, mask, arr, ti, tbl, cand, seen>>
        /\ rd[q].pc = "hit"
        /\ rd' = [rd EXCEPT ![q].pc = "exec", ![q].acts = flow[rd[q].flow].acts]
    BY <1>2 DEF ovs_dp_process_packet, writerState, history
  <2>2. /\ rd'[q].pc = "exec" /\ rd'[q].flow = rd[q].flow /\ rd'[q].key = rd[q].key
        /\ \A r \in Readers : r # q => rd'[r] = rd[r]
    BY <1>1, <2>1 DEF OwnInv, TypeOK, RdRecord
  <2>3. LookupInv(q)'
    BY <1>1, <2>1, <2>2 DEF LookupInv, Matches
  <2> QED
    BY <2>1, <2>2, <2>3, OthersLookup
<1>3. CASE ovs_flow_cmd_dump(q) \/ ovs_flow_tbl_dump_next(q)
  <2>1. UNCHANGED <<flow, mask, arr, ti, tbl, cand, seen>>
    BY <1>3 DEF ovs_flow_cmd_dump, ovs_flow_tbl_dump_next, writerState, history
  <2>2. rd'[q].pc = "dump" /\ \A r \in Readers : r # q => rd'[r] = rd[r]
    <3>1. CASE ovs_flow_cmd_dump(q)
      BY <3>1 DEF ovs_flow_cmd_dump, OwnInv, TypeOK, IdleRd
    <3>2. CASE ovs_flow_tbl_dump_next(q)
      <4>1. rd[q].pc = "dump" /\ \E f : rd' = [rd EXCEPT ![q].flow = f, ![q].mask = flow[f].mask,
                                                        ![q].acts = flow[f].acts]
        BY <3>2 DEF ovs_flow_tbl_dump_next
      <4>2. PICK f : rd' = [rd EXCEPT ![q].flow = f, ![q].mask = flow[f].mask,
                                      ![q].acts = flow[f].acts]
        BY <4>1
      <4>3. rd \in [Readers -> RdType]
        BY DEF OwnInv, TypeOK
      <4> QED
        BY <1>1, <4>1, <4>2, <4>3 DEF RdRecord
    <3> QED
      BY <1>3, <3>1, <3>2
  <2>3. LookupInv(q)'
    BY <2>2 DEF LookupInv
  <2> QED
    BY <2>1, <2>2, <2>3, OthersLookup
<1>4. CASE reader_done(q)
  <2>1. /\ UNCHANGED <<flow, mask, arr, ti, tbl>>
        /\ rd' = [rd EXCEPT ![q] = IdleRd]
        /\ cand' = [cand EXCEPT ![q] = {}]
        /\ seen' = [seen EXCEPT ![q] = {}]
    BY <1>4 DEF reader_done, writerState
  <2>2. /\ rd'[q].pc = "idle"
        /\ \A r \in Readers : r # q => rd'[r] = rd[r] /\ cand'[r] = cand[r] /\ seen'[r] = seen[r]
    BY <2>1 DEF OwnInv, TypeOK, IdleRd
  <2>3. LookupInv(q)'
    BY <2>2 DEF LookupInv
  <2> QED
    BY <2>1, <2>2, <2>3, OthersLookup
<1> QED
  BY <1>2, <1>3, <1>4

-----------------------------------------------------------------------------
(* The steps of commands and of RCU callbacks. *)

\* A step that leaves reader r alone keeps what it has still to do, if the slots that hold the
\* mask of a linked flow keep it, what stays linked stays in every instance, what is linked is
\* seen, and the flows and masks that r can reach keep what they match.
LEMMA LookupFrame ==
  ASSUME OwnInv, MaskInv, NEW r \in Readers, ReaderInv(r), LookupInv(r), rd'[r] = rd[r],
         cand'[r] \subseteq cand[r], cand[r] \subseteq Linked => cand'[r] \subseteq Linked',
         rd[r].pc # "idle" => /\ seen[r] \subseteq seen'[r]
                              /\ Linked' \subseteq Linked \cup seen'[r],
         \A x \in ArrObj : x \in Protected(r) => \A s \in Used(arr[x]), g \in Linked :
            arr[x].masks[s] = flow[g].mask => /\ s \in Used(arr'[x])
                                              /\ arr'[x].masks[s] = arr[x].masks[s],
         \A x \in TiObj : x \in Protected(r) /\ rd[r].pc # "idle" =>
            /\ ti'[x].flows \subseteq ti[x].flows \cup seen'[r]
            /\ ti[x].flows \cap Linked' \subseteq ti'[x].flows,
         \A f \in FlowObj : f \in Protected(r) /\ (\A t \in Inserting : cmd[t].flow # f) =>
            flow'[f].mask = flow[f].mask /\ flow'[f].key = flow[f].key,
         \A mo \in MaskObj : mo \in Protected(r) => mask'[mo].m = mask[mo].m
  PROVE  LookupInv(r)'
<1>1. rd[r] \in RdType
  BY DEF OwnInv, TypeOK
<1>2. ASSUME NEW f \in FlowObj, f \in Protected(r), \A t \in Inserting : cmd[t].flow # f,
             flow[f].mask \in MaskObj, flow[f].mask \in Protected(r)
      PROVE  /\ flow'[f].mask = flow[f].mask
             /\ Matches(f, rd[r].key) => Matches(f, rd[r].key)'
  <2>1. flow'[f].mask = flow[f].mask /\ flow'[f].key = flow[f].key
    BY <1>2
  <2>2. mask'[flow[f].mask].m = mask[flow[f].mask].m
    BY <1>2
  <2> QED
    BY <2>1, <2>2 DEF Matches
<1>3. ASSUME NEW f \in Linked
      PROVE  /\ flow'[f].mask = flow[f].mask
             /\ Matches(f, rd[r].key) => Matches(f, rd[r].key)'
  <2>1. f \in FlowObj /\ f \in Live
    BY UsingLive DEF Using
  <2>2. \A t \in Inserting : cmd[t].flow # f
    BY DEF OwnInv, HeldInv, FlowPcs, Inserting
  <2>3. flow[f].mask \in MaskObj /\ flow[f].mask \in Live
    BY PublishedMasks DEF MaskInv, Using
  <2> QED
    BY <1>2, <2>1, <2>2, <2>3, LiveProtected
<1>4. CASE rd[r].pc \in {"ti", "mask", "walk"}
  <2>1. rd[r].ma \in ArrObj /\ rd[r].ma \in Protected(r)
    BY <1>1, <1>4, PoolsAssumption DEF RdType, ReaderInv, Loads, Obj
  <2>2. rd[r].pc \in {"mask", "walk"} => rd[r].ti \in TiObj /\ rd[r].ti \in Protected(r)
    BY <1>1, <1>4, PoolsAssumption DEF RdType, ReaderInv, Loads, Obj
  <2>3. cand[r] \subseteq Linked /\ cand'[r] \subseteq Linked'
    BY <1>4 DEF LookupInv
  <2>4. rd[r].pc = "ti" => rd[r].i = 0 /\ Linked' \subseteq seen'[r]
    BY <1>4 DEF LookupInv
  <2>5. rd[r].pc \in {"mask", "walk"} => /\ ti'[rd[r].ti].flows \subseteq seen'[r]
                                         /\ cand'[r] \subseteq ti'[rd[r].ti].flows
    BY <1>4, <2>2, <2>3 DEF LookupInv
  <2>6. ASSUME NEW f \in cand'[r]
        PROVE  /\ Matches(f, rd[r].key)'
               /\ \/ rd[r].pc = "walk" /\ rd[r].mask = flow'[f].mask
                  \/ Ahead(r, f)'
    <3>1. /\ f \in Linked /\ Matches(f, rd[r].key)
          /\ \/ rd[r].pc = "walk" /\ rd[r].mask = flow[f].mask
             \/ Ahead(r, f)
      BY <1>4, <2>3 DEF LookupInv
    <3>2. flow'[f].mask = flow[f].mask /\ Matches(f, rd[r].key)'
      BY <1>3, <3>1
    <3>3. Ahead(r, f) => Ahead(r, f)'
      <4>1. NextTurn(r)' = NextTurn(r)
        BY DEF NextTurn
      <4> QED
        BY <2>1, <3>1, <3>2, <4>1 DEF Ahead
    <3> QED
      BY <3>1, <3>2, <3>3
  <2> QED
    BY <1>4, <2>3, <2>4, <2>5, <2>6 DEF LookupInv
<1>5. CASE rd[r].pc \in {"hit", "exec"}
  <2>1. rd[r].flow \in FlowObj /\ rd[r].flow \in FlowsOf(r)
    BY <1>1, <1>5, PoolsAssumption DEF RdType, FlowsOf, Obj
  <2>2. Matches(rd[r].flow, rd[r].key)'
    BY <1>2, <1>5, <2>1 DEF ReaderInv, LookupInv
  <2> QED
    BY <1>5, <2>2 DEF LookupInv
<1>6. CASE rd[r].pc \in {"idle", "miss", "dump"}
  BY <1>6 DEF LookupInv
<1> QED
  BY <1>1, <1>4, <1>5, <1>6 DEF RdType, RdRecord

\* A command that leaves the table instances alone keeps every lookup, if it does the same for
\* the slots of masks in use and for flows and masks that others have allocated.
LEMMA QuietLookup ==
  ASSUME OwnInv, MaskInv, ReadersInv, LookupsInv,
         UNCHANGED <<ti, rd, cand, seen>>, Linked' = Linked,
         \A x \in ArrObj : x \in alloc => \A s \in Used(arr[x]), g \in Linked :
            arr[x].masks[s] = flow[g].mask => /\ s \in Used(arr'[x])
                                              /\ arr'[x].masks[s] = arr[x].masks[s],
         \A f \in FlowObj : f \in alloc /\ (\A t \in Inserting : cmd[t].flow # f) =>
            flow'[f].mask = flow[f].mask /\ flow'[f].key = flow[f].key,
         \A mo \in MaskObj : mo \in alloc => mask'[mo].m = mask[mo].m
  PROVE  LookupsInv'
<1> SUFFICES ASSUME NEW r \in Readers PROVE LookupInv(r)'
  BY DEF LookupsInv
<1>1. ReaderInv(r) /\ LookupInv(r)
  BY DEF ReadersInv, LookupsInv
<1>2. \A o \in Protected(r) : o \in alloc
  BY DEF Protected
<1> QED
  BY <1>1, <1>2, LookupFrame

\* Actions are no part of what a flow matches.
LEMMA ReplaceLookup ==
  ASSUME OwnInv, MaskInv, ReadersInv, LookupsInv, NEW t \in Threads, NEW g \in Linked, NEW a,
         NEW s, ReplaceActs(t, g, a, s), UNCHANGED <<mask, arr, ti, tbl, rd, cand, seen>>
  PROVE  LookupsInv'
<1>1. flow' = [flow EXCEPT ![g].acts = a]
  BY DEF ReplaceActs, AssignActs
<1>2. \A f \in FlowObj : flow'[f].mask = flow[f].mask /\ flow'[f].key = flow[f].key
  BY <1>1 DEF OwnInv, TypeOK, FlowType
<1>3. Linked' = Linked
  BY DEF Linked
<1> QED
  BY <1>2, <1>3, QuietLookup

\* ovs_flow_cmd_new(): the new flow is out of the reach of every lookup.
LEMMA NewLookup ==
  ASSUME OwnInv, MaskInv, ReadersInv, LookupsInv, NEW t \in Threads, NEW f \in FlowObj, NEW a,
         NEW k, NEW m, NEW u, NEW excl, ovs_flow_cmd_new(t, f, a, k, m, u, excl)
  PROVE  LookupsInv'
<1> DEFINE masked == ovs_flow_mask_key(k, m)
           matchkey == IF u # NULL THEN masked ELSE k
           byUfid == IF u # NULL THEN ovs_flow_tbl_lookup_ufid(u) ELSE {}
           dup == IF byUfid # {} THEN byUfid ELSE ovs_flow_tbl_lookup(masked)
           fresh == [mask |-> NULL, key |-> masked, ufid |-> u,
                     ukey |-> IF u # NULL THEN ZeroKey ELSE k, acts |-> a]
<1>1. f \notin alloc /\ UNCHANGED <<mask, arr, ti, tbl, rd, cand, seen>>
  BY DEF ovs_flow_cmd_new, Free, readState, history
<1>2. CASE flow' = [flow EXCEPT ![f] = fresh]
  <2> HIDE DEF fresh
  <2>1. \A g \in FlowObj : g \in alloc => flow'[g] = flow[g]
    BY <1>1, <1>2 DEF OwnInv, TypeOK
  <2>2. Linked' = Linked
    BY <1>1 DEF Linked
  <2> QED
    BY <1>1, <2>1, <2>2, QuietLookup
<1>3. CASE \E g \in Linked : ReplaceActs(t, g, a, flow[g].ufid = u)
  BY <1>1, <1>3, ReplaceLookup
<1>4. dup \subseteq Linked
  BY DEF ovs_flow_tbl_lookup, ovs_flow_tbl_lookup_ufid, OwnInv, TableInv
<1>5. ovs_flow_tbl_lookup_exact(matchkey) \subseteq Linked
  BY DEF ovs_flow_tbl_lookup_exact
<1> QED
  <2> HIDE DEF fresh, masked, matchkey, dup
  <2> QED
    BY <1>2, <1>3, <1>4, <1>5 DEF ovs_flow_cmd_new, fresh, masked, matchkey, dup

\* Nor does ovs_flow_cmd_set() change what a flow matches.
LEMMA SetLookup ==
  ASSUME OwnInv, MaskInv, ReadersInv, LookupsInv, NEW t \in Threads, NEW a, NEW k, NEW u,
         ovs_flow_cmd_set(t, a, k, u)
  PROVE  LookupsInv'
BY SelectedLinked, ReplaceLookup DEF OwnInv, ovs_flow_cmd_set, readState, history

\* What commands do once they have unlocked changes nothing a lookup reads.
LEMMA AfterLookup ==
  ASSUME OwnInv, MaskInv, ReadersInv, LookupsInv, NEW t \in Threads,
         \/ ovs_nla_free_flow_actions_rcu(t) \/ del_fill_info(t) \/ del_fill_done(t)
         \/ ovs_flow_free(t)
  PROVE  LookupsInv'
<1>1. UNCHANGED <<flow, mask, arr, ti, tbl, rd, cand, seen>>
  BY DEF ovs_nla_free_flow_actions_rcu, del_fill_info, del_fill_done, ovs_flow_free, readState,
         history
<1>2. Linked' = Linked
  BY <1>1 DEF Linked
<1> QED
  BY <1>1, <1>2, QuietLookup

\* A new mask goes to a slot that was empty; a grown array is another object.
LEMMA MaskInsertLookup ==
  ASSUME OwnInv, MaskInv, ReadersInv, LookupsInv, NEW t \in Threads, flow_mask_insert(t)
  PROVE  LookupsInv'
<1>1. PICK f : f = cmd[t].flow
  OBVIOUS
<1>2. cmd[t].pc = "mask_insert" /\ UNCHANGED <<ti, rd, cand, seen>>
  BY DEF flow_mask_insert, readState, history
<1>3. f \in FlowObj /\ t \in Inserting /\ tbl.ma \in ArrObj
  BY <1>1, <1>2 DEF OwnInv, TypeOK, TblType, HeldInv, FlowPcs, Inserting
<1>4. /\ \/ \E mo : flow' = [flow EXCEPT ![f].mask = mo]
         \/ flow' = [flow EXCEPT ![f] = NoFlow]
      /\ tbl' = tbl \/ \E na : tbl' = [tbl EXCEPT !.ma = na]
      /\ \/ \E mo : mask' = [mask EXCEPT ![mo].ref = @ + 1]
         \/ \E mo \in MaskObj : mo \notin alloc /\ mask' = [mask EXCEPT ![mo] = [m |-> cmd[t].m, ref |-> 1]]
         \/ mask' = mask
      /\ \/ arr' = arr
         \/ \E mo : arr' = [arr EXCEPT ![tbl.ma] = AddMask(arr[tbl.ma], mo)]
         \/ \E na \in ArrObj : na \notin alloc /\ \E x : arr' = [arr EXCEPT ![na] = x]
  BY <1>1, Zenon DEF flow_mask_insert, Free, ShareMask
<1>5. \A g \in FlowObj : g # f => flow'[g] = flow[g]
  BY <1>3, <1>4 DEF OwnInv, TypeOK
<1>6. Linked' = Linked
  BY <1>2, <1>4 DEF Linked, OwnInv, TypeOK, TblType
<1>7. \A mo \in MaskObj : mo \in alloc => mask'[mo].m = mask[mo].m
  BY <1>4 DEF OwnInv, TypeOK
<1>8. ASSUME NEW x \in ArrObj, x \in alloc, NEW s \in Used(arr[x])
      PROVE  s \in Used(arr'[x]) /\ arr'[x].masks[s] = arr[x].masks[s]
  <2>1. CASE arr' = arr \/ \E na \in ArrObj : na \notin alloc /\ \E y : arr' = [arr EXCEPT ![na] = y]
    <3>1. arr'[x] = arr[x]
      BY <1>8, <2>1 DEF OwnInv, TypeOK
    <3> QED
      BY <3>1
  <2>2. CASE \E mo : arr' = [arr EXCEPT ![tbl.ma] = AddMask(arr[tbl.ma], mo)]
    <3>1. PICK mo : arr' = [arr EXCEPT ![tbl.ma] = AddMask(arr[tbl.ma], mo)]
      BY <2>2
    <3>2. CASE x = tbl.ma
      <4>1. arr'[x] = AddMask(arr[x], mo)
        BY <3>1, <3>2 DEF OwnInv, TypeOK
      <4>2. s \notin EmptySlot(arr[x]) /\ s \in 1..arr[x].max /\ arr[x].masks[s] # NULL
        BY DEF EmptySlot, Used
      <4> QED
        BY <4>1, <4>2 DEF AddMask, Used
    <3>3. CASE x # tbl.ma
      <4>1. arr'[x] = arr[x]
        BY <3>1, <3>3 DEF OwnInv, TypeOK
      <4> QED
        BY <4>1
    <3> QED
      BY <3>2, <3>3
  <2> QED
    BY <1>4, <2>1, <2>2
<1> QED
  BY <1>1, <1>2, <1>3, <1>5, <1>6, <1>7, <1>8, QuietLookup

\* The mask taken out of the array is one that no linked flow has.
LEMMA MaskRemoveLookup ==
  ASSUME OwnInv, MaskInv, ReadersInv, LookupsInv, NEW t \in Threads, flow_mask_remove(t)
  PROVE  LookupsInv'
<1>1. PICK f, mo : f = cmd[t].flow /\ mo = flow[f].mask
  OBVIOUS
<1>2. /\ cmd[t].pc = "mask_remove" /\ UNCHANGED <<flow, ti, rd, cand, seen>>
      /\ mask' = [mask EXCEPT ![mo].ref = @ - 1]
      /\ tbl' = tbl \/ \E na : tbl' = [tbl EXCEPT !.ma = na]
  BY <1>1 DEF flow_mask_remove, readState, history
<1>3. mo \in MaskObj /\ f \in FlowObj /\ f \notin Linked /\ f \in Using
  BY <1>1, <1>2 DEF OwnInv, HeldInv, FlowPcs, Using, Held
<1>4. Linked' = Linked
  BY <1>2 DEF Linked, OwnInv, TypeOK, TblType
<1>5. \A x \in MaskObj : mask'[x].m = mask[x].m
  BY <1>2 DEF OwnInv, TypeOK
<1>6. mask[mo].ref = 1 => \A g \in Linked : flow[g].mask # mo
  <2> SUFFICES ASSUME mask[mo].ref = 1, NEW g \in Linked, flow[g].mask = mo PROVE FALSE
    OBVIOUS
  <2>1. {f, g} \subseteq Users(mo) /\ f # g
    BY <1>1, <1>3 DEF Users, Using
  <2>2. Cardinality({f, g}) <= Cardinality(Users(mo)) /\ Cardinality({f, g}) \in Nat
    BY <2>1, UsingLive, FS_Subset, FS_CardinalityType
  <2>3. Cardinality({f, g}) = 2
    <3>1. IsFiniteSet({g}) /\ Cardinality({g}) = 1
      BY FS_Singleton
    <3>2. Cardinality({g} \cup {f}) = Cardinality({g}) + 1
      BY <2>1, <3>1, FS_AddElement
    <3>3. {g} \cup {f} = {f, g}
      OBVIOUS
    <3> QED
      BY <3>1, <3>2, <3>3
  <2> QED
    BY <1>3, <2>2, <2>3, UsingLive DEF MaskInv
<1>7. \/ arr' = arr
      \/ /\ mask[mo].ref = 1
         /\ \/ arr' = [arr EXCEPT ![tbl.ma] = tbl_mask_array_delete_mask(arr[tbl.ma], mo)]
            \/ \E na \in ArrObj :
                 /\ na \notin alloc
                 /\ \E y : arr' = [arr EXCEPT
                              ![tbl.ma] = tbl_mask_array_delete_mask(arr[tbl.ma], mo),
                              ![na] = y]
  <2> DEFINE a == tbl_mask_array_delete_mask(arr[tbl.ma], mo)
  <2> HIDE DEF a
  <2>1. \/ UNCHANGED arr
        \/ /\ mask[mo].ref = 1
           /\ arr' = [arr EXCEPT ![tbl.ma] = a]
        \/ /\ mask[mo].ref = 1
           /\ \E na \in Free(ArrObj), b \in InOrder(Used(a)) :
                arr' = [arr EXCEPT ![tbl.ma] = a,
                            ![na] = tbl_mask_array_alloc(a.max \div 2, a, b)]
    BY <1>1, Zenon DEF flow_mask_remove, a
  <2>2. \A na \in Free(ArrObj) : na \in ArrObj /\ na \notin alloc
    BY DEF Free
  <2> QED
    BY <2>1, <2>2 DEF a
<1>8. ASSUME NEW x \in ArrObj, x \in alloc, NEW s \in Used(arr[x]), NEW g \in Linked,
             arr[x].masks[s] = flow[g].mask
      PROVE  s \in Used(arr'[x]) /\ arr'[x].masks[s] = arr[x].masks[s]
  <2>1. CASE arr'[x] = arr[x]
    BY <2>1
  <2>2. CASE mask[mo].ref = 1 /\ arr'[x] = tbl_mask_array_delete_mask(arr[x], mo)
    <3>1. arr[x].masks[s] # mo /\ s \in 1..arr[x].max /\ arr[x].masks[s] # NULL
      BY <1>6, <1>8, <2>2 DEF Used
    <3> QED
      BY <2>2, <3>1 DEF tbl_mask_array_delete_mask, Used
  <2>3. arr'[x] = arr[x] \/ (mask[mo].ref = 1 /\ arr'[x] = tbl_mask_array_delete_mask(arr[x], mo))
    <3>1. arr = [o \in ArrObj |-> arr[o]] /\ tbl.ma \in ArrObj
      BY DEF OwnInv, TypeOK, TblType
    <3> QED
      BY <1>7, <1>8, <3>1
  <2> QED
    BY <2>1, <2>2, <2>3
<1> QED
  BY <1>2, <1>4, <1>5, <1>8, QuietLookup

\* A flow that is linked is seen by every lookup under way, whichever instance it walks.
LEMMA KeyInsertLookup ==
  ASSUME OwnInv, MaskInv, ReadersInv, LookupsInv, NEW t \in Threads, flow_key_insert(t)
  PROVE  LookupsInv'
<1>1. PICK f : f = cmd[t].flow
  OBVIOUS
<1> DEFINE flows == Linked \cup {f}
<1>2. /\ cmd[t].pc = "key_insert" /\ UNCHANGED <<flow, mask, arr, rd, cand>>
      /\ seen' = [r \in Readers |-> IF rd[r].pc = "idle" THEN {} ELSE seen[r] \cup {f}]
  BY <1>1 DEF flow_key_insert, Links, readState
<1>3. tbl.ti \in TiObj
  BY DEF OwnInv, TypeOK, TblType
<1>4. /\ ti'[tbl'.ti].flows = flows
      /\ \A x \in TiObj : x \in alloc => ti'[x].flows = IF x = tbl.ti THEN flows ELSE ti[x].flows
  <2> HIDE DEF flows
  <2> DEFINE Table(inst) ==
          [ti |-> inst, ma |-> tbl.ma, count |-> tbl.count + 1,
           ufid |-> IF flow[f].ufid # NULL THEN tbl.ufid \cup {f} ELSE tbl.ufid,
           ufid_count |-> IF flow[f].ufid # NULL THEN tbl.ufid_count + 1
                                                 ELSE tbl.ufid_count]
  <2>1. ASSUME NEW inst PROVE Table(inst).ti = inst
    OBVIOUS
  <2> HIDE DEF Table
  <2>2. CASE /\ ti' = [ti EXCEPT ![tbl.ti].flows = flows]
             /\ tbl' = Table(tbl.ti)
             /\ UNCHANGED heap
    BY <1>3, <2>1, <2>2 DEF OwnInv, TypeOK
  <2>3. CASE \E new \in Free(TiObj) :
          /\ alloc' = alloc \cup {new}
          /\ ti' = [ti EXCEPT ![tbl.ti].flows = flows,
                      ![new] = [flows |-> flows,
                                n_buckets |-> NewBuckets(tbl.count + 1, ti[tbl.ti].n_buckets)]]
          /\ tbl' = Table(new)
          /\ call_rcu({tbl.ti})
    <3>1. PICK new \in TiObj :
          /\ new \notin alloc
          /\ ti' = [ti EXCEPT ![tbl.ti].flows = flows,
                      ![new] = [flows |-> flows,
                                n_buckets |-> NewBuckets(tbl.count + 1, ti[tbl.ti].n_buckets)]]
          /\ tbl' = Table(new)
      BY <2>3 DEF Free
    <3>2. tbl'.ti = new /\ ti'[new].flows = flows
      BY <1>3, <2>1, <3>1 DEF OwnInv, TypeOK
    <3>3. \A x \in TiObj : x \in alloc => ti'[x].flows = IF x = tbl.ti THEN flows ELSE ti[x].flows
      BY <1>3, <3>1 DEF OwnInv, TypeOK
    <3> QED
      BY <3>2, <3>3
  <2> QED
    BY <1>1, <2>2, <2>3 DEF flow_key_insert, Table, flows
<1>5. Linked' = flows
  BY <1>4 DEF Linked
<1>6. ASSUME NEW r \in Readers PROVE LookupInv(r)'
  <2>1. ReaderInv(r) /\ LookupInv(r) /\ \A o \in Protected(r) : o \in alloc
    BY DEF ReadersInv, LookupsInv, Protected
  <2>2. rd[r].pc # "idle" => seen'[r] = seen[r] \cup {f}
    BY <1>2
  <2>3. \A x \in TiObj : x \in Protected(r) /\ rd[r].pc # "idle" =>
            /\ ti'[x].flows \subseteq ti[x].flows \cup seen'[r]
            /\ ti[x].flows \cap Linked' \subseteq ti'[x].flows
    BY <1>4, <2>1, <2>2 DEF Linked
  <2> QED
    BY <1>2, <1>5, <2>1, <2>2, <2>3, LookupFrame
<1> QED
  BY <1>6 DEF LookupsInv

\* Deleted and flushed flows are no candidates any more.
LEMMA UnlinkLookup ==
  ASSUME OwnInv, MaskInv, ReadersInv, LookupsInv, NEW S, S \subseteq Linked,
         UNCHANGED <<flow, mask, arr, rd, seen>>, Unlinks(S), Linked' = Linked \ S,
         \A x \in TiObj : x \in alloc => /\ ti'[x].flows \subseteq ti[x].flows
                                         /\ ti[x].flows \ S \subseteq ti'[x].flows
  PROVE  LookupsInv'
<1> SUFFICES ASSUME NEW r \in Readers PROVE LookupInv(r)'
  BY DEF LookupsInv
<1>1. ReaderInv(r) /\ LookupInv(r) /\ \A o \in Protected(r) : o \in alloc
  BY DEF ReadersInv, LookupsInv, Protected
<1>2. cand'[r] = cand[r] \ S
  BY DEF Unlinks
<1>3. \A x \in TiObj : x \in Protected(r) =>
            /\ ti'[x].flows \subseteq ti[x].flows
            /\ ti[x].flows \cap Linked' \subseteq ti'[x].flows
  BY <1>1
<1> QED
  BY <1>1, <1>2, <1>3, LookupFrame

\* ovs_flow_cmd_del() unlinks from the published instance.
LEMMA DelLookup ==
  ASSUME OwnInv, MaskInv, ReadersInv, LookupsInv, NEW t \in Threads, NEW k, NEW u,
         ovs_flow_cmd_del(t, k, u)
  PROVE  LookupsInv'
<1>1. PICK g \in Linked :
       /\ ti' = [ti EXCEPT ![tbl.ti].flows = @ \ {g}]
       /\ tbl' = [tbl EXCEPT !.count = @ - 1,
                    !.ufid = @ \ {g},
                    !.ufid_count = IF flow[g].ufid # NULL THEN @ - 1 ELSE @]
       /\ Unlinks({g})
  BY SelectedLinked DEF OwnInv, ovs_flow_cmd_del
<1>2. UNCHANGED <<flow, mask, arr, rd, seen>>
  BY DEF ovs_flow_cmd_del, readState
<1>3. tbl.ti \in TiObj /\ tbl'.ti = tbl.ti
  BY <1>1 DEF OwnInv, TypeOK, TblType
<1>4. Linked' = Linked \ {g}
  BY <1>1, <1>3 DEF Linked, OwnInv, TypeOK
<1>5. \A x \in TiObj : ti'[x].flows \subseteq ti[x].flows /\ ti[x].flows \ {g} \subseteq ti'[x].flows
  BY <1>1, <1>3 DEF OwnInv, TypeOK
<1> QED
  BY <1>1, <1>2, <1>4, <1>5, UnlinkLookup

\* ovs_flow_tbl_flush() publishes another instance.
LEMMA FlushLookup ==
  ASSUME OwnInv, MaskInv, ReadersInv, LookupsInv, NEW t \in Threads, ovs_flow_tbl_flush(t)
  PROVE  LookupsInv'
<1>1. UNCHANGED <<flow, mask, arr, rd, seen>> /\ Unlinks(Linked)
  BY DEF ovs_flow_tbl_flush, readState
<1>2. PICK new \in TiObj :
       /\ new \notin alloc
       /\ ti' = [ti EXCEPT ![new] = [flows |-> {}, n_buckets |-> TBL_MIN_BUCKETS]]
       /\ tbl' = Flushed(new)
  BY DEF ovs_flow_tbl_flush, Free
<1>3. Linked' = {}
  BY <1>2 DEF Linked, Flushed, OwnInv, TypeOK
<1>4. \A x \in TiObj : x \in alloc => ti'[x] = ti[x]
  BY <1>2 DEF OwnInv, TypeOK
<1> QED
  BY <1>1, <1>3, <1>4, UnlinkLookup

\* By the time a flush takes flows out of the old instance none of them is a candidate.
LEMMA DestroyLookup ==
  ASSUME OwnInv, MaskInv, ReadersInv, LookupsInv, NEW t \in Threads, table_instance_destroy(t)
  PROVE  LookupsInv'
<1>1. PICK old : old = cmd[t].ti
  OBVIOUS
<1>2. /\ cmd[t].pc = "flush" /\ UNCHANGED <<flow, mask, arr, tbl, rd, cand, seen>>
      /\ ti' = ti \/ \E f : ti' = [ti EXCEPT ![old].flows = @ \ {f}]
  BY <1>1 DEF table_instance_destroy, readState, history
<1>3. old # tbl.ti /\ tbl.ti \in TiObj /\ Linked = {}
  BY <1>1, <1>2 DEF OwnInv, FlushInv, TypeOK, TblType
<1>4. Linked' = Linked
  BY <1>2, <1>3 DEF Linked, OwnInv, TypeOK
<1>5. \A x \in TiObj : ti'[x].flows \subseteq ti[x].flows
  BY <1>2 DEF OwnInv, TypeOK
<1> SUFFICES ASSUME NEW r \in Readers PROVE LookupInv(r)'
  BY DEF LookupsInv
<1>6. ReaderInv(r) /\ LookupInv(r)
  BY DEF ReadersInv, LookupsInv
<1> QED
  BY <1>2, <1>3, <1>4, <1>5, <1>6, LookupFrame

\* Callbacks free nothing a lookup still reads.
LEMMA CallbacksLookup ==
  ASSUME OwnInv, MaskInv, ReadersInv, LookupsInv, rcu_callbacks
  PROVE  LookupsInv'
<1>1. PICK S : S = GraceEnded
  OBVIOUS
<1>2. /\ S \subseteq pend /\ \A o \in S : wait[o] = {}
      /\ \A f \in FlowObj : f \notin S => flow'[f] = flow[f]
      /\ \A x \in MaskObj : x \notin S => mask'[x] = mask[x]
      /\ \A x \in ArrObj : x \notin S => arr'[x] = arr[x]
      /\ \A x \in TiObj : x \notin S => ti'[x] = ti[x]
      /\ UNCHANGED <<tbl, rd, cand, seen>>
  BY <1>1 DEF rcu_callbacks, GraceEnded, readState, history
<1>3. Linked' = Linked
  BY <1>2 DEF Linked, OwnInv, TypeOK, TblType, TableInv, Live
<1> SUFFICES ASSUME NEW r \in Readers PROVE LookupInv(r)'
  BY DEF LookupsInv
<1>4. ReaderInv(r) /\ LookupInv(r)
  BY DEF ReadersInv, LookupsInv
<1>5. \A o \in Protected(r) : o \notin S
  BY <1>2 DEF Protected
<1>6. /\ \A f \in FlowObj : f \in Protected(r) => flow'[f] = flow[f]
      /\ \A x \in MaskObj : x \in Protected(r) => mask'[x] = mask[x]
      /\ \A x \in ArrObj : x \in Protected(r) => arr'[x] = arr[x]
      /\ \A x \in TiObj : x \in Protected(r) => ti'[x] = ti[x]
  BY <1>2, <1>5
<1> QED
  BY <1>2, <1>3, <1>4, <1>6, LookupFrame

-----------------------------------------------------------------------------
(* The theorem. *)

\* Every step of every process keeps it.
LEMMA NextLookup == MemInv /\ LookupsInv /\ [Next]_vars => LookupsInv'
<1> SUFFICES ASSUME OwnInv, MaskInv, ReadersInv, LookupsInv, [Next]_vars PROVE LookupsInv'
  BY DEF MemInv
<1>1. ASSUME NEW t \in Threads, NewCommand(t) PROVE LookupsInv'
  BY <1>1, NewLookup DEF NewCommand
<1>2. ASSUME NEW t \in Threads, SetCommand(t) PROVE LookupsInv'
  BY <1>2, SetLookup DEF SetCommand
<1>3. ASSUME NEW t \in Threads, DelCommand(t) PROVE LookupsInv'
  BY <1>3, DelLookup DEF DelCommand
<1>4. ASSUME NEW t \in Threads, FlushCommand(t) PROVE LookupsInv'
  BY <1>4, FlushLookup DEF FlushCommand
<1>5. ASSUME NEW t \in Threads, Proceed(t) PROVE LookupsInv'
  BY <1>5, MaskInsertLookup, KeyInsertLookup, MaskRemoveLookup, DestroyLookup, AfterLookup
     DEF Proceed
<1>6. CASE \E r \in Cpus : Lookup(r)
  BY <1>6, StartLookup DEF Lookup, Readers
<1>7. CASE \E r \in Dumpers : ovs_flow_cmd_dump(r) \/ ovs_flow_tbl_dump_next(r)
  BY <1>7, RestLookup DEF Readers
<1>8. CASE \E r \in Readers : Read(r)
  BY <1>8, ReadTiLookup, TurnLookup, WalkLookup, RestLookup DEF Read
<1>9. CASE rcu_callbacks
  BY <1>9, CallbacksLookup
<1>10. CASE UNCHANGED vars
  <2>1. UNCHANGED <<flow, mask, arr, ti, tbl, rd, cand, seen>>
    BY <1>10 DEF vars
  <2>2. Linked' = Linked
    BY <2>1 DEF Linked
  <2> QED
    BY <2>1, <2>2, QuietLookup
<1> QED
  BY <1>1, <1>2, <1>3, <1>4, <1>5, <1>6, <1>7, <1>8, <1>9, <1>10 DEF Next

\* In every state each flow a lookup must not miss is still ahead of it.
THEOREM LookupKept == Spec => [](MemInv /\ LookupsInv)
<1>1. Init => MemInv /\ LookupsInv
  BY InitMem, InitLookup
<1>2. MemInv /\ LookupsInv /\ [Next]_vars => (MemInv /\ LookupsInv)'
  BY NextMem, NextLookup
<1> QED
  BY <1>1, <1>2, PTL DEF Spec

\* What the invariant says of a lookup that has come to its end.
LEMMA LookupInvRight == MemInv /\ LookupsInv => LookupRight
<1> SUFFICES ASSUME MemInv, LookupsInv PROVE LookupRight
  OBVIOUS
<1>1. ReadersSafe
  BY MemInvSafe DEF MemorySafe
<1>2. NoFalseMiss /\ HitFresh
  BY DEF LookupsInv, LookupInv, NoFalseMiss, HitFresh
<1> QED
  BY <1>1, <1>2 DEF LookupRight

\* A packet misses only if no matching flow was linked all through its lookup, and executes
\* only a flow that matches it and was linked during it, for every number of flows, masks,
\* packets and commands and every index its mask cache proposes.
THEOREM LookupCorrect == Spec => []LookupRight
BY LookupKept, LookupInvRight, PTL
=============================================================================
