--------------------------- MODULE MCMsgbufIoctl ---------------------------
(* Values for the constants of MsgbufIoctl.                                *)
EXTENDS MsgbufIoctl, TLC

TwoAnswers == [data |-> 1, event |-> 1, ioctl |-> 2]
=============================================================================
