----------------------------- MODULE MCRegistrar -----------------------------
(* Instances of Registrar for TLC.                                         *)
EXTENDS Registrar, TLC

CONSTANTS e1, e2, i1, i2, h1, h2

(* e1 sends from two addresses, the second of which e2 uses as well.       *)
Roaming == (e1 :> {i1, i2}) @@ (e2 :> {i2})

Symmetric == Permutations({h1, h2})
==============================================================================
