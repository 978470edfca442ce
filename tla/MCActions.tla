------------------------------- MODULE MCActions -------------------------------
(* Instances of Actions for TLC: the action lists of the flow tables. *)
EXTENDS Actions

CONSTANTS d1, d2

Act(d, op)      == [op |-> op, dp |-> d, arg |-> d, sub |-> <<>>]
Enter(d, e)     == [Act(d, "enter") EXCEPT !.arg = e]
Sample(d, acts) == [Act(d, "sample") EXCEPT !.sub = acts]

\* Sampling that changes the packet and sampling that does not, conntrack, recirculation
\* with keys up to date and invalid, and a circle of two datapaths.
Everything == [d \in Dps |->
  IF d = d1
  THEN {<<Sample(d, <<Act(d, "set"), Act(d, "recirc")>>), Act(d, "ct"), Act(d, "recirc")>>,
        <<Act(d, "push"), Act(d, "recirc"), Enter(d, d2), Act(d, "output")>>}
  ELSE {<<Sample(d, <<Act(d, "output"), Enter(d, d1)>>),
          Sample(d, <<Act(d, "set"), Act(d, "output")>>), Act(d, "push"), Act(d, "ct")>>}]

Lists == LET flows == UNION {Everything[d] : d \in Dps}
             Subs(ls) == UNION {{l[i].sub : i \in DOMAIN l} : l \in ls}
         IN  flows \cup Subs(flows) \cup {<<>>}
================================================================================
