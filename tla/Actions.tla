-------------------------------- MODULE Actions --------------------------------
(***************************************************************************)
(* Executing a flow's actions on one CPU (actions.c): nested executions    *)
(* when a packet is sampled, recirculated or comes back in through a port, *)
(* the per-CPU keys of the nesting levels, the FIFO of deferred actions    *)
(* for what nests too deep, and who owns each skb.                         *)
(*                                                                         *)
(* The C stack is a sequence of frames, the innermost first.  The flow a   *)
(* lookup finds, allocation failures and errors are chosen freely.         *)
(***************************************************************************)
EXTENDS Naturals, Sequences, FiniteSets

CONSTANTS
  Dps,         \* datapaths
  Skbs,        \* pool of skbs: 1..n
  ActLists,    \* lists of actions: those of flows and those of samples
  Flows,       \* the action lists in the flow table of each datapath
  OVS_RECURSION_LIMIT,
  OVS_DEFERRED_ACTION_THRESHOLD,  \* OVS_RECURSION_LIMIT - 2
  DEFERRED_ACTION_FIFO_SIZE

\* An action: op is "output", "enter" (an output whose packet comes back in at the
\* datapath arg before it returns), "set" (also pop_vlan and the like where they update
\* the key), "push" (invalidates the key), "ct", "recirc", or "sample" of the list
\* sub.  dp is the datapath the action was installed for.
Action == [op : {"output", "enter", "set", "push", "ct", "recirc", "sample"},
           dp : Dps, arg : Dps, sub : ActLists]

ASSUME ConstantsAssumption ==
  /\ Skbs \subseteq Nat
  /\ OVS_DEFERRED_ACTION_THRESHOLD \in Nat /\ OVS_RECURSION_LIMIT \in Nat
  /\ OVS_DEFERRED_ACTION_THRESHOLD < OVS_RECURSION_LIMIT
  /\ Dps # {}
  /\ DEFERRED_ACTION_FIFO_SIZE \in Nat \ {0}
  /\ ActLists \subseteq Seq(Action)
  /\ Flows \in [Dps -> SUBSET ActLists]

VARIABLES
  stack,  \* the functions in progress
  ret,    \* what the last one returned
  level,  \* exec_actions_level
  fifo,   \* action_fifos: head, tail and the entries (what to call, skb, actions)
  key,    \* struct sw_flow_key at each place one is stored
  skb,    \* the skbs: live, and the packet: its headers and the input datapath
  leaked  \* history: the skbs that the return after a failed key update leaves behind

vars == <<stack, ret, level, fifo, key, skb, leaked>>

\* Places of keys: flow_keys of each level, the FIFO entries, and the local variable of
\* the ovs_vport_receive() called at each level.
Places == {<<"clone", i>> : i \in 1..OVS_DEFERRED_ACTION_THRESHOLD}
            \cup {<<"fifo", i>> : i \in 0..(DEFERRED_ACTION_FIFO_SIZE - 1)}
            \cup {<<"local", i>> : i \in 0..OVS_RECURSION_LIMIT}

\* Packets differ in one header field; a key is what was extracted from it, or invalid.
Key   == [valid : BOOLEAN, hdr : 0..1]
Unset == [valid |-> FALSE, hdr |-> 0]
NoSkb == [live |-> FALSE, hdr |-> 0, dp |-> CHOOSE d \in Dps : TRUE]

NoEntry == [fn |-> "process", skb |-> 0, acts |-> <<>>]

Init ==
  /\ stack = <<>> /\ ret = "ok" /\ level = 0
  /\ fifo = [head |-> 0, tail |-> 0,
             entry |-> [i \in 0..(DEFERRED_ACTION_FIFO_SIZE - 1) |-> NoEntry]]
  /\ key = [p \in Places |-> Unset]
  /\ skb = [s \in Skbs |-> NoSkb]
  /\ leaked = {}

-----------------------------------------------------------------------------
(* Frames and skbs. *)

\* fn: "process" (ovs_dp_process_packet), "actions" (do_execute_actions), or, waiting
\* for the function it has called, "output", "clone", "clone_level", "execute"
\* (ovs_execute_actions) or "deferred".  acts are the actions still to execute.
Frame(fn, d, s, p, acts) == [fn |-> fn, dp |-> d, skb |-> s, key |-> p, acts |-> acts]

top  == Head(stack)
In(fn) == stack # <<>> /\ top.fn = fn
\* The innermost function waits, as fn, for a new one, or goes on, or returns.
Call(fn, acts, f) == stack' = <<f, [top EXCEPT !.fn = fn, !.acts = acts]>> \o Tail(stack)
Continue(acts) == stack' = <<[top EXCEPT !.fn = "actions", !.acts = acts]>> \o Tail(stack)
Return(v) == stack' = Tail(stack) /\ ret' = v

Freed(s) == [skb EXCEPT ![s] = NoSkb]

\* skb_clone(), or NULL when memory is short.
Unused == {s \in Skbs : ~skb[s].live}
Fresh  == {s \in Unused : \A x \in Unused : s <= x}

\* The next action of do_execute_actions(), and what it works on when it is given an skb
\* of its own: a clone, or the skb itself if it is the last action.
Doing(op) == In("actions") /\ top.acts # <<>> /\ Head(top.acts).op = op
action == Head(top.acts)
rest   == Tail(top.acts)
last   == rest = <<>>
NoClone == {top.skb}                                                \* mutant
OwnSkb  == IF last THEN {top.skb} ELSE Fresh

-----------------------------------------------------------------------------
(* Receiving and looking up. *)

\* ovs_vport_receive(): the key is extracted, or the packet dropped.  What earlier
\* packets have left in the places of keys, and skbs they have leaked, are forgotten:
\* nothing reads them, and the pool is not used up by them.
Extracted(s) == [valid |-> TRUE, hdr |-> skb[s].hdr]
receive ==
  /\ stack = <<>>
  /\ \E d \in Dps, s \in Skbs :
       /\ \A x \in Skbs : s <= x
       /\ skb' = [x \in Skbs |-> IF x = s THEN [live |-> TRUE, hdr |-> 0, dp |-> d] ELSE NoSkb]
       /\ leaked' = {}
       /\ key' = [p \in Places |-> [valid |-> p = <<"local", 0>>, hdr |-> 0]]
       /\ stack' = <<Frame("process", d, s, <<"local", 0>>, <<>>)>>
  /\ UNCHANGED <<ret, level, fifo>>

\* ovs_dp_process_packet(): a miss goes to userspace; a hit to ovs_execute_actions(),
\* unless the recursion is too deep.
NoLimit == FALSE                                                    \* mutant
LimitReached == level + 1 > OVS_RECURSION_LIMIT
ovs_dp_process_packet ==
  LET d == skb[top.skb].dp
  IN
  /\ In("process")
  /\ \/ /\ skb' = Freed(top.skb)
        /\ Return("ok")
        /\ UNCHANGED level
     \/ /\ Flows[d] # {}
        /\ LimitReached
        /\ skb' = Freed(top.skb)
        /\ Return("ok")
        /\ UNCHANGED level
     \/ /\ ~LimitReached
        /\ level' = level + 1
        /\ \E acts \in Flows[d] :
             stack' = <<Frame("actions", d, top.skb, top.key, acts),
                        [top EXCEPT !.fn = "execute", !.dp = d]>> \o Tail(stack)
        /\ UNCHANGED <<skb, ret>>
  /\ UNCHANGED <<leaked, fifo, key>>

-----------------------------------------------------------------------------
(* do_execute_actions() *)

\* After the last action the skb is consumed.
consume_skb ==
  /\ In("actions") /\ top.acts = <<>>
  /\ skb' = Freed(top.skb)
  /\ Return("ok")
  /\ UNCHANGED <<leaked, level, fifo, key>>

\* An output sends a clone, or the skb itself if it is the last action; do_output()
\* consumes what it is given.
output ==
  /\ Doing("output")
  /\ IF last THEN Return("ok") /\ skb' = Freed(top.skb)
             ELSE Continue(rest) /\ UNCHANGED <<skb, ret>>
  /\ UNCHANGED <<leaked, level, fifo, key>>

\* ... and one that leads back to ovs_vport_receive().
enter ==
  LET p == <<"local", level>>
  IN
  /\ Doing("enter")
  /\ \/ \E s \in OwnSkb :
          /\ skb' = [skb EXCEPT ![s] = [skb[top.skb] EXCEPT !.dp = action.arg]]
          /\ key' = [key EXCEPT ![p] = Extracted(top.skb)]
          /\ Call("output", rest, Frame("process", action.arg, s, p, <<>>))
          /\ UNCHANGED ret
     \/ /\ last
        /\ skb' = Freed(top.skb)
        /\ Return("ok")
        /\ UNCHANGED key
     \/ /\ ~last
        /\ Continue(rest)
        /\ UNCHANGED <<skb, ret, key>>
  /\ UNCHANGED <<leaked, level, fifo>>

output_done ==
  /\ In("output")
  /\ IF top.acts = <<>> THEN Return("ok") ELSE Continue(top.acts) /\ UNCHANGED ret
  /\ UNCHANGED <<leaked, level, fifo, key, skb>>

\* The error path of the loop.
NotFreed == Return("err") /\ UNCHANGED skb                          \* mutant
kfree_skb ==
  /\ skb' = Freed(top.skb)
  /\ Return("err")

\* Actions that change the packet: they keep the key up to date, or invalidate it.
Changed(k)     == [k EXCEPT !.hdr = 1 - @]
Invalidated(k) == [k EXCEPT !.valid = FALSE]
modify ==
  /\ Doing("set") \/ Doing("push")
  /\ \/ /\ skb' = [skb EXCEPT ![top.skb].hdr = 1 - @]
        /\ key' = [key EXCEPT ![top.key] = IF action.op = "set" THEN Changed(@) ELSE Invalidated(@)]
        /\ Continue(rest)
        /\ UNCHANGED ret
     \/ kfree_skb /\ UNCHANGED key
  /\ UNCHANGED <<leaked, level, fifo>>

\* ovs_flow_key_update() brings an invalid key up to date, or fails.
Updated == [key EXCEPT ![top.key] = IF @.valid THEN @ ELSE Extracted(top.skb)]

\* ... and when it fails, a return that leaves the skb to nobody.
ReturnsAtOnce ==
  /\ Return("err")
  /\ leaked' = leaked \cup {top.skb}
  /\ UNCHANGED skb

\* OVS_ACTION_ATTR_CT: a failed update returns at once; ovs_ct_execute() consumes the
\* skb when it does not succeed.
ct ==
  /\ Doing("ct")
  /\ \/ /\ ~key[top.key].valid
        /\ ReturnsAtOnce
        /\ UNCHANGED key
     \/ /\ key' = Updated
        /\ Continue(rest)
        /\ UNCHANGED <<ret, skb, leaked>>
     \/ /\ key' = Updated
        /\ skb' = Freed(top.skb)
        /\ \E v \in {"ok", "err"} : Return(v)
        /\ UNCHANGED leaked
  /\ UNCHANGED <<level, fifo>>

-----------------------------------------------------------------------------
(* clone_execute(): sampling and recirculating. *)

\* clone_key(): the place for the key of the next level, if there is one.
CloneAtOne == IF level <= OVS_DEFERRED_ACTION_THRESHOLD THEN {<<"clone", 1>>} ELSE {}  \* mutant
clone_key == IF level <= OVS_DEFERRED_ACTION_THRESHOLD THEN {<<"clone", level>>} ELSE {}

\* action_fifo_put()
HasRoom(n) == n < DEFERRED_ACTION_FIFO_SIZE - 1

\* The skb is a clone unless the action is the last; k is the caller's key, up to date.
\* f is "process" for a recirculation, "actions" for the actions of a sample.  A key that may change is
\* cloned; without a place for the clone the actions are deferred, and without room for that dropped.
clone_execute(k, f, acts, clone_flow_key) ==
  \E s \in OwnSkb :
    LET packet == [skb EXCEPT ![s] = skb[top.skb]]
        fn == IF f = "actions" /\ clone_flow_key THEN "clone_level" ELSE "clone"
        Execute(p) == Call(fn, rest, Frame(f, top.dp, s, p, acts))
        i == fifo.head
    IN
    \/ /\ ~clone_flow_key
       /\ key' = k /\ skb' = packet
       /\ Execute(top.key)
       /\ UNCHANGED <<level, fifo, ret>>
    \/ /\ clone_flow_key
       /\ \E p \in clone_key : key' = [k EXCEPT ![p] = k[top.key]] /\ Execute(p)
       /\ skb' = packet
       /\ level' = IF fn = "clone_level" THEN level + 1 ELSE level
       /\ UNCHANGED <<fifo, ret>>
    \/ /\ clone_flow_key /\ clone_key = {}
       /\ IF HasRoom(i)
          THEN /\ fifo' = [fifo EXCEPT !.head = i + 1, !.entry[i] = [fn |-> f, skb |-> s, acts |-> acts]]
               /\ key' = [k EXCEPT ![<<"fifo", i>>] = k[top.key]]
               /\ skb' = packet
          ELSE /\ skb' = Freed(s)
               /\ key' = k
               /\ UNCHANGED fifo
       /\ IF last THEN Return("ok") ELSE Continue(rest) /\ UNCHANGED ret
       /\ UNCHANGED level

\* Without memory for the clone the action is skipped.
skip ==
  /\ \/ Doing("sample") /\ UNCHANGED key
     \/ Doing("recirc") /\ key' = Updated
  /\ ~last
  /\ Continue(rest)
  /\ UNCHANGED <<leaked, ret, level, fifo, skb>>

\* execute_recirc()
execute_recirc ==
  /\ Doing("recirc")
  /\ \/ clone_execute(Updated, "process", <<>>, TRUE) /\ UNCHANGED leaked
     \/ /\ ~key[top.key].valid
        /\ IF last THEN ReturnsAtOnce ELSE kfree_skb /\ UNCHANGED leaked
        /\ UNCHANGED <<level, fifo, key>>

\* sample(): not sampled, or executed on a clone.  The attribute exec, computed when the
\* flow is installed (validate_and_copy_sample()), tells whether the actions may use the
\* caller's key.
actions_may_change_flow(acts) == \E i \in 1..Len(acts) : acts[i].op \notin {"output", "enter", "recirc"}
sample ==
  /\ Doing("sample")
  /\ \/ clone_execute(key, "actions", action.sub, ~(last \/ ~actions_may_change_flow(action.sub)))
     \/ /\ last
        /\ skb' = Freed(top.skb)
        /\ Return("ok")
        /\ UNCHANGED <<level, fifo, key>>
  /\ UNCHANGED leaked

\* ... and on: the error of a clone's actions is the error of the action.
LevelKept  == level                                                 \* mutant
LevelAfter == IF top.fn = "clone_level" THEN level - 1 ELSE level
clone_done ==
  /\ In("clone") \/ In("clone_level")
  /\ level' = LevelAfter
  /\ \/ top.acts = <<>> /\ Return(ret) /\ UNCHANGED skb
     \/ top.acts # <<>> /\ ret = "err" /\ kfree_skb
     \/ top.acts # <<>> /\ ret = "ok" /\ Continue(top.acts) /\ UNCHANGED <<skb, ret>>
  /\ UNCHANGED <<leaked, fifo, key>>

-----------------------------------------------------------------------------
(* ovs_execute_actions() after the flow's actions: the outermost one executes *)
(* what was deferred, in order, until nothing is left.                        *)

EmptyAgain(f) == [f EXCEPT !.entry[f.tail] = NoEntry, !.tail = IF f.tail + 1 = f.head THEN 0 ELSE f.tail + 1,
                           !.head = IF f.tail + 1 = f.head THEN 0 ELSE f.head]  \* mutant
Got(f) == [f EXCEPT !.tail = @ + 1, !.entry[f.tail] = NoEntry]
process_deferred_actions ==
  LET da == fifo.entry[fifo.tail]
      p  == <<"fifo", fifo.tail>>
  IN
  /\ In("execute") \/ In("deferred")
  /\ level = 1 /\ fifo.head # fifo.tail
  /\ fifo' = Got(fifo)
  /\ Call("deferred", <<>>, Frame(da.fn, top.dp, da.skb, p, da.acts))
  /\ UNCHANGED <<leaked, ret, level, key, skb>>

\* action_fifo_init() when the last deferred action is done, and the end.
executed ==
  /\ In("execute") \/ In("deferred")
  /\ level = 1 => fifo.head = fifo.tail
  /\ fifo' = IF top.fn = "deferred" THEN [fifo EXCEPT !.head = 0, !.tail = 0] ELSE fifo
  /\ level' = level - 1
  /\ Return("ok")
  /\ UNCHANGED <<leaked, key, skb>>

Execution ==
  \/ ovs_dp_process_packet \/ consume_skb \/ output \/ enter \/ output_done \/ modify \/ ct
  \/ skip \/ execute_recirc \/ sample \/ clone_done \/ process_deferred_actions \/ executed

Next == receive \/ Execution
Spec == Init /\ [][Next]_vars

\* The CPU executes on.
FairSpec == Spec /\ WF_vars(Execution)

-----------------------------------------------------------------------------
(* Properties. *)

\* Types; the nesting counter and the FIFO indices stay within their limits.
FrameType == [fn : {"process", "actions", "output", "clone", "clone_level", "execute", "deferred"},
              dp : Dps, skb : Skbs, key : Places, acts : Seq(Action)]
EntryType == [fn : {"process", "actions"}, skb : Skbs \cup {0}, acts : Seq(Action)]
TypeOK ==
  /\ stack \in Seq(FrameType)
  /\ ret \in {"ok", "err"}
  /\ level \in 0..OVS_RECURSION_LIMIT
  /\ fifo \in [head : 0..(DEFERRED_ACTION_FIFO_SIZE - 1), tail : 0..(DEFERRED_ACTION_FIFO_SIZE - 1),
               entry : [0..(DEFERRED_ACTION_FIFO_SIZE - 1) -> EntryType]]
  /\ fifo.tail <= fifo.head
  /\ key \in [Places -> Key]
  /\ skb \in [Skbs -> [live : BOOLEAN, hdr : 0..1, dp : Dps]]
  /\ leaked \subseteq Skbs

\* exec_actions_level counts the executions in progress, so that it is zero between
\* packets, and the FIFO is empty then and filled from its start for the next packet.
Count(fns) == Cardinality({i \in 1..Len(stack) : stack[i].fn \in fns})
LevelBalanced ==
  /\ level = Count({"execute", "deferred", "clone_level"})
  /\ stack = <<>> => fifo.head = 0 /\ fifo.tail = 0

\* However ports lead back into datapaths and flows recirculate, at most
\* OVS_RECURSION_LIMIT executions are nested on the kernel stack.
StackBounded == Count({"execute", "deferred"}) <= OVS_RECURSION_LIMIT

\* The types, the balance of level and FIFO, and the bound on the stack
\* (ovs_execute_actions).
LevelInv == TypeOK /\ LevelBalanced /\ StackBounded

\* Every skb somebody will still use is live, and used by one owner: a function that has
\* not handed it on, or an entry of the FIFO.
Owns(i) == \/ stack[i].fn \in {"process", "actions"}
           \/ stack[i].fn \in {"output", "clone", "clone_level"} /\ stack[i].acts # <<>>
Owners(s) == {<<"function", i>> : i \in {j \in 1..Len(stack) : Owns(j) /\ stack[j].skb = s}}
               \cup {<<"entry", i>> : i \in {j \in fifo.tail..(fifo.head - 1) : fifo.entry[j].skb = s}}
OneOwner == \A s \in Skbs : Cardinality(Owners(s)) <= 1 /\ (Owners(s) # {} => skb[s].live)

\* No skb outlives the processing of the packet it came from, except where a failed key
\* update leaves one behind (RecircConsumes).
NoSkbLeak == \A s \in Skbs : skb[s].live => Owners(s) # {} \/ s \in leaked

\* Every skb is freed or sent once, by whoever has it last (do_execute_actions).
SkbsOwned == OneOwner /\ NoSkbLeak

\* A key that is valid describes the packet it is used for, however deep the executions
\* nest, whatever is deferred and whatever clones of the packet have gone through: the
\* places of keys in use are never shared or reused too early.
Uses == {<<stack[i].skb, stack[i].key>> : i \in {j \in 1..Len(stack) : Owns(j)}}
          \cup {<<fifo.entry[j].skb, <<"fifo", j>> >> : j \in fifo.tail..(fifo.head - 1)}
KeyDescribesPacket ==
  \A u \in Uses : key[u[2]].valid => key[u[2]].hdr = skb[u[1]].hdr

\* Every packet is done with, also if its flows recirculate or send it in circles.
PacketDone == stack # <<>> ~> stack = <<>>

\* What the source says and the code does not keep.

\* do_execute_actions(): "If this is the last action, the skb has been consumed or freed."
RecircConsumes == leaked = {}

\* sample(): "Otherwise, sample() should keep 'skb' intact regardless what actions are
\* executed within sample()."
SampleKeepsSkb ==
  [][(In("clone") \/ In("clone_level")) /\ top.acts # <<>> => skb'[top.skb].live]_vars

\* openvswitch.h, OVS_VPORT_ATTR_PORT_NO: "32-bit port number within datapath."  An
\* output's port is one of the datapath the action was installed for.
PortsOfOwnDp == \A op \in {"output", "enter"} : Doing(op) => action.dp = top.dp
================================================================================
