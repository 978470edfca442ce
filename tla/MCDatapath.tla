------------------------------ MODULE MCDatapath ------------------------------
(* Instances of Datapath for TLC. *)
EXTENDS Datapath, TLC

CONSTANTS d1, d2, v1, v2, v3, e1, e2, e3, n1, n2, n3, A, B, t1, t2, r1, w1

\* Pools, names and readers are interchangeable; devices are not when their headroom
\* differs.  No namespace is the initial one.
Symmetry ==
  Permutations(Dps) \cup Permutations(Vports) \cup Permutations(Names) \cup Permutations(Threads)
DevSymmetry == Symmetry \cup Permutations(Devs) \cup Permutations(Nets)

NoHeadroom == [e \in Devs |-> 0]
E2Headroom == [e \in Devs |-> IF e = e2 THEN 1 ELSE 0]
==============================================================================
