---------------------------- MODULE MCConnections ----------------------------
(* Instances of Connections for TLC.                                       *)
EXTENDS Connections, TLC

CONSTANTS c1, c2, c3, e1, e2

(* Two connections of the phone of e1, one of the phone of e2.             *)
Phones == (c1 :> {e1}) @@ (c2 :> {e1}) @@ (c3 :> {e2})
==============================================================================
