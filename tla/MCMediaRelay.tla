---------------------------- MODULE MCMediaRelay ----------------------------
(* Instances of MediaRelay for TLC.                                        *)
EXTENDS MediaRelay, TLC

CONSTANTS t1, t2, s1, s2

Symmetric == Permutations({t1, t2})
==============================================================================
