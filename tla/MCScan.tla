------------------------------- MODULE MCScan -------------------------------
(* Values for the constants of Scan.                                       *)
EXTENDS Scan, TLC
=============================================================================
