----------------------------- MODULE MCFwSignal -----------------------------
(* Values for the constants of FwSignal.                                   *)
EXTENDS FwSignal, TLC

CONSTANTS s1, s2, s3, s4, s5

OneEach == [f \in Fifos |-> 1]
TwoOfAll == [f \in Fifos |-> 2]
OneStation == {<< 1, 1 >>, << 1, 0 >>}
OneNode == {<< 1, 0 >>}

Symmetric == Permutations(Slots)
=============================================================================
