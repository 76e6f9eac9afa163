---------------------------- MODULE MCCommonRing ----------------------------
(* Values for the constants of CommonRing.                                 *)
EXTENDS CommonRing, TLC

CONSTANTS m1, m2, none

MCItems == {m1, m2}
MCOneItem == {m1}
=============================================================================
