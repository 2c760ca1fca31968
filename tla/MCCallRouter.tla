---------------------------- MODULE MCCallRouter ----------------------------
(* Instances of CallRouter for TLC.                                        *)
EXTENDS CallRouter

CONSTANTS c1, t1, t2

(* All INVITEs of a Call-ID arrive at the connection of its caller.        *)
OneConnection == [c \in CallIds |-> {t1}]
==============================================================================
