------------------------------ MODULE CallMedia ------------------------------
(***************************************************************************)
(* What the call router promises about media, without handlers, locks or   *)
(* awaits: a relay task may carry the media of a call only while the call  *)
(* is active, at most one relay task does at a time, and ending the call   *)
(* withdraws the permission in the same step.                              *)
(***************************************************************************)
CONSTANTS
  CallIds,      \* the Call-IDs in use
  RelayIds      \* the names relay tasks go by

VARIABLES
  active,       \* the Call-IDs of the active calls
  carriers      \* carriers[c]: the relay tasks permitted to carry c's media

vars == <<active, carriers>>

Init ==
  /\ active = {}
  /\ carriers = [c \in CallIds |-> {}]

(* A call becomes active, or an active one is replaced under its Call-ID.  *)
Begin(c) ==
  /\ active' = active \cup {c}
  /\ UNCHANGED carriers

(* A relay task takes over the media of an active call; the one before it  *)
(* loses the permission.                                                   *)
Carry(c, r) ==
  /\ c \in active
  /\ carriers' = [carriers EXCEPT ![c] = {r}]
  /\ UNCHANGED active

(* The relay task of a call stops by itself.                               *)
Fade(c) ==
  /\ carriers' = [carriers EXCEPT ![c] = {}]
  /\ UNCHANGED active

End(c) ==
  /\ active' = active \ {c}
  /\ carriers' = [carriers EXCEPT ![c] = {}]

Next ==
  \E c \in CallIds :
    \/ Begin(c)
    \/ \E r \in RelayIds : Carry(c, r)
    \/ Fade(c)
    \/ End(c)

Spec == Init /\ [][Next]_vars
==============================================================================
