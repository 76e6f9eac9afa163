----------------------------- MODULE MCSdioBus -----------------------------
(* Values for the constants of SdioBus are in the configurations.          *)
EXTENDS SdioBus
=============================================================================
