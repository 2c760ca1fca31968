------------------------------ MODULE PortRounds ------------------------------
(***************************************************************************)
(* What the port allocator comes down to: ports are given in rounds, each  *)
(* port of the pool once a round.  It promises a distance between two uses *)
(* of a port and nothing about whether the first use is over.              *)
(***************************************************************************)
CONSTANT Pool         \* the ports that can be given
VARIABLE given        \* the ports given in this round

Init == given = {}

Give(p) ==
  /\ p \notin given
  /\ given' = given \cup {p}

NextRound ==
  /\ given = Pool
  /\ given' = {}

Next == (\E p \in Pool : Give(p)) \/ NextRound

Spec == Init /\ [][Next]_given
==============================================================================
