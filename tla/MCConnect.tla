----------------------------- MODULE MCConnect -----------------------------
(* Values for the constants of Connect, and a specification that may rest  *)
(* when everything is quiet and nowhere else.                              *)
EXTENDS Connect, TLC

Rest == Quiet /\ UNCHANGED vars
MCSpec == Init /\ [][Next \/ Rest]_vars
Symmetry == Permutations(Bsses)
=============================================================================
