------------------------------ MODULE MCMsgbufTx ------------------------------
(* Values for the constants of MsgbufTx.                                   *)
EXTENDS MsgbufTx, TLC

CONSTANTS i1, i2, i3

Symmetric == Permutations(PktIds)
=============================================================================
