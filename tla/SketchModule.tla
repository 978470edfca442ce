------------------------------ MODULE SketchModule ------------------------------
(***************************************************************************)
(* The life of the module (datapath.c, dp_init() and dp_cleanup()) with    *)
(* the sketches it makes (sketch_manage.c) and the thread that answers the *)
(* collector: what is set up step by step, undone when a step fails and    *)
(* taken down when the module is removed, while userspace makes and        *)
(* deletes datapaths as soon as there are netlink commands.  A task that   *)
(* goes through a pointer nobody checked dies where it stands, and nothing *)
(* it held is given back.                                                  *)
(***************************************************************************)
EXTENDS Integers, Sequences

CONSTANTS
  MAX_CONNS,      \* bound: connections of the collector
  MAX_CALLBACKS   \* bound: RCU callbacks that have not run

\* What dp_init() sets up, in this order; of the netlink families the one of datapaths
\* is the first that dp_register_genl() registers, and the others are "genl".
Steps == <<"action_fifos", "rtnl_link", "flow", "vport", "pernet", "compat", "notifier",
           "netdev", "dp_family", "genl", "filter_sketch", "report">>

switch_types == <<"filter", "filter", "ingress", "ingress", "egress", "egress">>
Switches == DOMAIN switch_types
Egress == {i \in Switches : switch_types[i] = "egress"}

VARIABLES
  load,       \* out, dp_init() at step at, in, its error labels or dp_cleanup(); dead:
              \* the task of insmod or rmmod has been killed
  up,         \* what is set up
  sketch,     \* countmin[] or countmax[] of each device; half: it lacks an array
  thread,     \* sketch_report_listen(): its progress, the device it reports, its listening
              \* socket (stray: it was never made), whether it has a buffer to send from
              \* and whether it has been told to stop
  conns,      \* connections that wait; history: how many there have been
  dps,        \* whether there is a datapath
  callbacks   \* RCU callbacks of datapaths and their flows that have not run

moduleVars == <<load, up, sketch, thread, conns, dps, callbacks>>

NoThread == [pc |-> "none", at |-> 0, sock |-> "none", buf |-> FALSE, stop |-> FALSE]

Init ==
  /\ load = [pc |-> "out", at |-> 0, failed |-> FALSE]
  /\ up = {} /\ sketch = [i \in Switches |-> "null"]
  /\ thread = NoThread /\ conns = [waiting |-> 0, made |-> 0]
  /\ dps = FALSE /\ callbacks = 0

-----------------------------------------------------------------------------
(* dp_init() *)

\* The module is loaded once.
insmod ==
  /\ load.pc = "out" /\ up = {} /\ ~load.failed /\ thread.pc = "none"
  /\ load' = [pc |-> "init", at |-> 1, failed |-> FALSE]
  /\ UNCHANGED <<up, sketch, thread, conns, dps, callbacks>>

Step == IF load.at = 0 THEN "none" ELSE Steps[load.at]
Advance ==
  /\ up' = up \cup {Step}
  /\ load' = IF load.at = Len(Steps) THEN [load EXCEPT !.pc = "in"] ELSE [load EXCEPT !.at = @ + 1]
\* The task is killed; the module can be removed no more.
Oops == load' = [load EXCEPT !.pc = "dead"] /\ UNCHANGED up

\* A step that fails has undone itself; those before it are undone by the labels.
register ==
  /\ load.pc = "init" /\ Step \notin {"filter_sketch", "report"}
  /\ \/ Advance
     \/ load' = [load EXCEPT !.pc = "undo", !.at = @ - 1, !.failed = TRUE] /\ UNCHANGED up
  /\ UNCHANGED <<sketch, thread, conns, dps, callbacks>>

\* The constructors never return NULL.  A sketch that has no memory for its counters, keys
\* or data is returned without them; that there is none for the sketch itself, its lines or
\* its masks, kills the task.
Sketches == {"null", "made", "half", "freed"}
Built(n) == {s \in [Switches -> {"null", "made", "half"}] :
               \A i \in Switches : s[i] = "null" <=> i > n \/ switch_types[i] = "ingress"}
init_filter_sketch ==
  /\ load.pc = "init" /\ Step = "filter_sketch"
  /\ \/ sketch' \in Built(Len(switch_types)) /\ Advance
     \/ \E i \in Switches : switch_types[i] # "ingress" /\ sketch' \in Built(i - 1) /\ Oops
  /\ UNCHANGED <<thread, conns, dps, callbacks>>

\* When there is no thread, its error number is woken up as if it were one.
sketch_report_init ==
  /\ load.pc = "init" /\ Step = "report"
  /\ \/ thread' = [NoThread EXCEPT !.pc = "started"] /\ Advance
     \/ Oops /\ UNCHANGED thread
  /\ UNCHANGED <<sketch, conns, dps, callbacks>>

-----------------------------------------------------------------------------
(* Taking down: the error labels of dp_init() and dp_cleanup(). *)

\* clean_filter_sketch()
Held(s) == s \in {"made", "half"}
Freed == [i \in Switches |-> IF Held(sketch[i]) THEN "freed" ELSE sketch[i]]
\* unregister_pernet_device() deletes the datapaths of every namespace.
PernetGone ==
  /\ dps' = FALSE
  /\ callbacks' = IF dps THEN callbacks + 1 ELSE callbacks

Out == load' = [load EXCEPT !.pc = "out"]
Down == load' = [load EXCEPT !.at = @ - 1]

\* The labels above error_unreg_netdev are never reached.
undo ==
  /\ load.pc = "undo"
  /\ IF load.at = 0 THEN Out /\ UNCHANGED <<up, dps, callbacks>>
     ELSE /\ Down /\ up' = up \ {Step}
          /\ IF Step = "pernet" THEN PernetGone ELSE UNCHANGED <<dps, callbacks>>
  /\ UNCHANGED <<sketch, thread, conns>>

\* kthread_stop() waits for the thread.  Nobody holds a reference to it before: of one that
\* has ended by itself freed memory is read, which may kill the task.
ThreadEnded == thread.pc \in {"ended", "dead"}
rmmod ==
  /\ load.pc = "in"
  /\ \/ /\ load' = [load EXCEPT !.pc = "cleanup"] /\ thread' = [thread EXCEPT !.stop = TRUE]
        /\ UNCHANGED up
     \/ ThreadEnded /\ Oops /\ UNCHANGED thread
  /\ UNCHANGED <<sketch, conns, dps, callbacks>>
sketch_report_clean ==
  /\ load.pc = "cleanup" /\ Step = "report" /\ ThreadEnded
  /\ Down /\ up' = up \ {Step}
  /\ UNCHANGED <<sketch, thread, conns, dps, callbacks>>

\* rcu_barrier() stands between the datapaths and the caches of their flows.
NoBarrier == TRUE                                                   \* mutant
BarrierPassed == Step = "vport" => callbacks = 0
\* dp_unregister_genl() begins with the family of datapaths; nothing tells the order apart.
dp_cleanup ==
  /\ load.pc = "cleanup" /\ load.at > 0 /\ Step # "report" /\ BarrierPassed
  /\ Down /\ up' = up \ {Step}
  /\ sketch' = IF Step = "filter_sketch" THEN Freed ELSE sketch
  /\ IF Step = "pernet" THEN PernetGone ELSE UNCHANGED <<dps, callbacks>>
  /\ UNCHANGED <<thread, conns>>
cleaned_up ==
  /\ load.pc = "cleanup" /\ load.at = 0 /\ Out
  /\ UNCHANGED <<up, sketch, thread, conns, dps, callbacks>>

-----------------------------------------------------------------------------
(* Userspace, RCU and the collector. *)

ovs_dp_cmd_new ==
  /\ {"dp_family", "pernet"} \subseteq up /\ ~dps
  /\ dps' = TRUE
  /\ UNCHANGED <<load, up, sketch, thread, conns, callbacks>>
ovs_dp_cmd_del ==
  /\ {"dp_family", "pernet"} \subseteq up /\ dps /\ callbacks < MAX_CALLBACKS
  /\ dps' = FALSE /\ callbacks' = callbacks + 1
  /\ UNCHANGED <<load, up, sketch, thread, conns>>
rcu_callback ==
  /\ callbacks > 0 /\ callbacks' = callbacks - 1
  /\ UNCHANGED <<load, up, sketch, thread, conns, dps>>

connect ==
  /\ thread.sock = "own" /\ ~ThreadEnded /\ conns.made < MAX_CONNS
  /\ conns' = [waiting |-> conns.waiting + 1, made |-> conns.made + 1]
  /\ UNCHANGED <<load, up, sketch, thread, dps, callbacks>>

-----------------------------------------------------------------------------
(* sketch_report_listen() *)

Goto(t) == thread' = t /\ UNCHANGED <<load, up, sketch, conns, dps, callbacks>>

\* The socket is made, bound and listened on, and a buffer allocated.  When one of these
\* fails the thread ends and keeps the socket, but that it could not be made is only
\* printed: every call with it may then kill the thread, fail, or do anything else.  A
\* thread that is told to stop before it runs (kthread()) does none of this.
listen ==
  /\ thread.pc = "started"
  /\ \/ \E s \in {"own", "stray"}, p \in {"loop", "ended"} : Goto([thread EXCEPT !.pc = p, !.sock = s])
     \/ Goto([thread EXCEPT !.pc = "dead", !.sock = "stray"])
     \/ thread.stop /\ Goto([thread EXCEPT !.pc = "ended"])

Killed == Goto([thread EXCEPT !.pc = "dead"])
StrayKills == thread.sock = "stray" /\ Killed

accept ==
  /\ thread.pc = "loop"
  /\ \/ /\ ~thread.stop /\ thread.sock = "own" /\ conns.waiting > 0
        /\ thread' = [thread EXCEPT !.pc = "recv"]
        /\ conns' = [conns EXCEPT !.waiting = @ - 1]
        /\ UNCHANGED <<load, up, sketch, dps, callbacks>>
     \/ ~thread.stop /\ thread.sock = "stray" /\ Goto([thread EXCEPT !.pc = "recv"])
     \/ ~thread.stop /\ Goto([thread EXCEPT !.pc = "ended"])                       \* error
     \/ thread.stop /\ Goto([thread EXCEPT !.pc = "ended", !.sock = "none"])
     \/ StrayKills

\* The collector asks, says something else or goes away.
FirstEgress == CHOOSE i \in Egress : \A j \in Egress : i <= j
recv ==
  /\ thread.pc = "recv"
  /\ \/ \E b \in BOOLEAN : Goto([thread EXCEPT !.pc = "report", !.at = FirstEgress, !.buf = b])
     \/ Goto([thread EXCEPT !.pc = "loop"])
     \/ StrayKills

\* get_stat_and_send_back() of one device: its arrays are read and each entry that is not
\* zero written to the buffer, whether or not there are any arrays or there is a buffer.
Later == {i \in Egress : i > thread.at}
get_stat_and_send_back ==
  /\ thread.pc = "report"
  /\ \/ /\ sketch[thread.at] = "made"
        /\ Goto(IF Later = {} THEN [thread EXCEPT !.pc = "loop", !.at = 0, !.buf = FALSE]
                ELSE [thread EXCEPT !.at = CHOOSE i \in Later : \A j \in Later : i <= j])
     \/ sketch[thread.at] = "half" /\ Killed
     \/ ~thread.buf /\ Killed
     \/ StrayKills

Next ==
  \/ insmod \/ register \/ init_filter_sketch \/ sketch_report_init
  \/ undo \/ rmmod \/ sketch_report_clean \/ dp_cleanup \/ cleaned_up
  \/ ovs_dp_cmd_new \/ ovs_dp_cmd_del \/ rcu_callback \/ connect
  \/ listen \/ accept \/ recv \/ get_stat_and_send_back

Spec == Init /\ [][Next]_moduleVars

-----------------------------------------------------------------------------
(* Properties. *)

\* While the thread may read them the sketches are there, whenever the module is removed:
\* kthread_stop() waits for it.  One that lacks an array is not reported, nor what comes
\* after it: the thread dies there (init_filter_sketch, get_stat_and_send_back).
ReportReadsLive ==
  /\ thread.pc \in {"recv", "report"} => \A i \in Egress : Held(sketch[i])
  /\ thread.pc = "report" => \A i \in Egress : i < thread.at => sketch[i] = "made"

\* What has been set up rests on what was set up before it, and is taken down before it;
\* a task that is killed leaves what was up.  A module that is out has left nothing behind
\* but the socket of a thread that ended early and, of a load that failed, callbacks: when
\* the module is removed none runs after the caches of its flows are gone (dp_init,
\* dp_cleanup).
Before(s) == {Steps[i] : i \in {j \in DOMAIN Steps : \E k \in DOMAIN Steps : j < k /\ Steps[k] = s}}
TakenDownInOrder ==
  /\ \A s \in up : Before(s) \subseteq up
  /\ load.pc = "out" => /\ up = {} /\ ~dps /\ \A i \in Switches : ~Held(sketch[i])
                        /\ thread.pc = "none" \/ ThreadEnded
  /\ callbacks > 0 /\ ~load.failed => "flow" \in up

\* What still runs finds what it uses, from insmod to rmmod (dp_init, dp_cleanup).
ModuleSafe == ReportReadsLive /\ TakenDownInOrder
================================================================================
