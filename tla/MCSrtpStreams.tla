---------------------------- MODULE MCSrtpStreams ----------------------------
(* Instances of SrtpStreams for TLC: a long stream of the caller and a     *)
(* short one of the callee.                                                *)
EXTENDS SrtpStreams, TLC

CONSTANTS s1, s2

Sent == (s1 :> "caller") @@ (s2 :> "callee")
Starts == (s1 :> {0, 3, 7}) @@ (s2 :> {6})
Bounds == (s1 :> 20) @@ (s2 :> 8)
==============================================================================
