------------------------------ MODULE MCFlowHash ------------------------------
(* Instances of FlowHash for TLC. *)
EXTENDS FlowHash

CONSTANTS f1, f2, f3, i1, i2, i3, k1, k2, k3, r1

\* Each flow object is used for a key of its own.
OwnKeys == [f \in FlowObj |-> CASE f = f1 -> k1 [] f = f2 -> k2 [] f = f3 -> k3]

\* The keys part one after the other as the table doubles and doubles again.
Growing == {[k \in Keys |-> CASE k = k1 -> 1 [] k = k2 -> 3 [] k = k3 -> 2]}
===============================================================================
