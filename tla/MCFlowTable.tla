----------------------------- MODULE MCFlowTable -----------------------------
(* Instances of FlowTable for TLC. *)
EXTENDS FlowTable, TLC

CONSTANTS f1, f2, f3, f4, m1, m2, m3, m4, a1, a2, a3, t1, t2, t3, t4, c1, c2, c3, c4,
          r1, r2, d1, w1, w2, u1, u2

\* Pools, readers and threads are interchangeable.
Symmetry ==
  Permutations(FlowObj) \cup Permutations(MaskObj) \cup Permutations(ArrObj)
    \cup Permutations(TiObj) \cup Permutations(ActObj)
    \cup Permutations(Cpus) \cup Permutations(Threads)

OneField  == {"p"}
OneKeys   == [OneField -> {0, 1}]
OneKey    == {[p |-> 1]}
OneMasks  == {{}, {"p"}}
TwoFields == {"p", "q"}
TwoKey    == {[p |-> 1, q |-> 1]}
ThreeMasks == {{"p"}, {"q"}, {"p", "q"}}
=============================================================================
