---------------------------- MODULE MCFlowControl ----------------------------
(* Values for the constants of FlowControl.                                *)
EXTENDS FlowControl, TLC

CONSTANTS r1, r2, s1, s2

Symmetric == Permutations({r1, r2}) \cup Permutations({s1, s2})
=============================================================================
