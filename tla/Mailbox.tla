------------------------------- MODULE Mailbox -------------------------------
(***************************************************************************)
(* What the message service promises, without queues, locks, delivery      *)
(* tasks or connections: a mailbox for each recipient.  A sender is told   *)
(* that its message is accepted in the step in which it is handed over or  *)
(* enters the box of its recipient.  It leaves that box once, handed over  *)
(* or discarded, and enters no other.                                      *)
(***************************************************************************)
CONSTANTS
  Recipients,   \* those who have a mailbox
  MessageIds    \* the names messages go by

VARIABLES
  box,          \* box[e]: the messages that wait for e
  accepted,     \* messages the sender was told are accepted
  sent,         \* messages handed over
  dropped       \* messages discarded

vars == <<box, accepted, sent, dropped>>

Boxed == UNION {box[e] : e \in Recipients}

New(m) == m \notin Boxed \cup sent \cup dropped

Init ==
  /\ box = [e \in Recipients |-> {}]
  /\ accepted = {} /\ sent = {} /\ dropped = {}

(* A message is handed over at once.                                       *)
Forward(m) ==
  /\ New(m)
  /\ sent' = sent \cup {m} /\ accepted' = accepted \cup {m}
  /\ UNCHANGED <<box, dropped>>

(* A message enters a box, and others make room for it or have expired.    *)
Keep(e, m, gone) ==
  /\ New(m) /\ gone \subseteq Boxed
  /\ box' = [f \in Recipients |-> (box[f] \ gone) \cup IF f = e THEN {m} ELSE {}]
  /\ accepted' = accepted \cup {m}
  /\ dropped' = dropped \cup gone
  /\ UNCHANGED sent

HandOver(e, m) ==
  /\ m \in box[e]
  /\ box' = [box EXCEPT ![e] = @ \ {m}]
  /\ sent' = sent \cup {m}
  /\ UNCHANGED <<accepted, dropped>>

Discard(gone) ==
  /\ gone \subseteq Boxed
  /\ box' = [f \in Recipients |-> box[f] \ gone]
  /\ dropped' = dropped \cup gone
  /\ UNCHANGED <<accepted, sent>>

Next ==
  \/ \E m \in MessageIds : Forward(m)
  \/ \E e \in Recipients, m \in MessageIds : HandOver(e, m)
  \/ \E gone \in SUBSET Boxed :
       Discard(gone) \/ \E e \in Recipients, m \in MessageIds : Keep(e, m, gone)

Spec == Init /\ [][Next]_vars
==============================================================================
