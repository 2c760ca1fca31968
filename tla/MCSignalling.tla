---------------------------- MODULE MCSignalling ----------------------------
(* Instances of Signalling for TLC.                                        *)
EXTENDS Signalling, TLC

CONSTANTS a, b

Says(kind, n) == [kind |-> kind, lengths |-> IF n = 0 THEN {} ELSE {n}, body |-> n]

Options == Says("options", 0)
Request == Says("request", 2)
Conflicting == [kind |-> "request", lengths |-> {0, 2}, body |-> 2]

(* One client says what is hard to frame: lone CRLFs in front of a message,*)
(* a body that reads like a message, two lengths, several messages at once,*)
(* one that is too long.  The other is there to be reached and to reach    *)
(* back.                                                                   *)
Words ==
  a :> {<<Ping, Request, Options>>, <<Ping, Ping, Request>>, <<Request, Conflicting, Options>>,
        <<Says("oneway", 3), Options>>}
  @@ b :> {<<Says("register", 0)>>, <<Says("cancel", 0)>>}

Kept == (a :> 0) @@ (b :> 1)
==============================================================================
