-------------------------- MODULE MCCompletionRing --------------------------
(* Values for the constants of CompletionRing.                             *)
EXTENDS CompletionRing

CONSTANTS m1, m2, none

MCItems == {m1, m2}
MCOneItem == {m1}
=============================================================================
