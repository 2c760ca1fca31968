-------------------------- MODULE MCOfflineMessages --------------------------
(* Instances of OfflineMessages for TLC.                                   *)
EXTENDS OfflineMessages

CONSTANTS s1, r1, r2, d1, d2
==============================================================================
