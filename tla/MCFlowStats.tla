----------------------------- MODULE MCFlowStats -----------------------------
(* Instances of FlowStats for TLC. *)
EXTENDS FlowStats

CONSTANTS p1, p2
==============================================================================
