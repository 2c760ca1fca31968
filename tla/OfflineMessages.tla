---------------------------- MODULE OfflineMessages ----------------------------
(***************************************************************************)
(* Instant messages between extensions (src/sip/message.rs): forwarded to  *)
(* an extension that has a connection, else kept and delivered when the    *)
(* extension registers.                                                    *)
(*                                                                         *)
(* The connection task of a sender runs handle_message to its end before   *)
(* it takes the sender's next message.  Each REGISTER that succeeds spawns *)
(* a task that runs deliver_offline_messages.  All of them interleave at   *)
(* their locks and at the awaits of their sends; an action is one lock     *)
(* section or one send.                                                    *)
(*                                                                         *)
(* Messages are numbers.  Their bodies, headers and URIs, and the checks   *)
(* that refuse a request before it touches any state, are left out.        *)
(***************************************************************************)
EXTENDS Integers, Sequences, FiniteSets

CONSTANTS
  Senders,         \* extensions that send messages
  Recipients,      \* extensions messages are sent to
  Deliverers,      \* delivery tasks that may run at once
  QueueCap,        \* MAX_OFFLINE_MESSAGES
  TotalCap,        \* MAX_TOTAL_OFFLINE_MESSAGES
  SenderQuota,     \* SENDER_OFFLINE_QUOTA
  RateLimit,       \* SENDER_RATE_LIMIT
  RateWindow,      \* SENDER_RATE_WINDOW_SECS
  Ttl,             \* OFFLINE_MSG_TTL_SECS
  MaxMessages,     \* bound: messages that reach handle_message
  MaxTime,         \* bound: the last tick of the clock
  MaxFaults        \* bound: connections that close and sends that fail

ASSUME CapsAssumption ==
  /\ {QueueCap, TotalCap, SenderQuota, RateLimit, RateWindow, Ttl} \subseteq Nat \ {0}
  /\ {MaxMessages, MaxTime, MaxFaults} \subseteq Nat

VARIABLES
  now,             \* the system clock
  offline,         \* offline_messages: the queue of each recipient
  rates,           \* sender_rates: the window of each sender
  connected,       \* the recipients get_outbound finds a sink for
  handler,         \* where the connection task of each sender is
  delivery,        \* where each delivery task is
  nMessages,       \* messages so far
  nFaults,         \* faults so far
  accepted,        \* history: messages answered 200
  sent,            \* history: messages handed to a connection
  dropped          \* history: messages expired or trimmed

vars == <<now, offline, rates, connected, handler, delivery, nMessages, nFaults,
          accepted, sent, dropped>>
history == <<accepted, sent, dropped>>

Times == 0..MaxTime
MessageIds == 1..MaxMessages

(* OfflineMessage.                                                         *)
Message == [id: MessageIds, from_ext: Senders, received_at: Times]

NoWindow == [window_start |-> 0, count |-> -1]

IdleHandler == [at |-> "idle"]
IdleDelivery == [at |-> "idle", pending |-> <<>>]

Init ==
  /\ now = 0
  /\ offline   = [e \in Recipients |-> <<>>]
  /\ rates     = [s \in Senders |-> NoWindow]
  /\ connected = {}
  /\ handler   = [s \in Senders |-> IdleHandler]
  /\ delivery  = [d \in Deliverers |-> IdleDelivery]
  /\ nMessages = 0 /\ nFaults = 0
  /\ accepted = {} /\ sent = {} /\ dropped = {}

Ids(queue) == {queue[i].id : i \in DOMAIN queue}
------------------------------------------------------------------------------
(* The queue operations.                                                   *)

Expired(m, t) == t >= m.received_at + Ttl

Retain(kept, m, t) == IF Expired(m, t) THEN kept ELSE Append(kept, m)

(* What retain keeps of the first messages of a queue.                     *)
Retained(queue, t) ==
  LET retained[i \in 0..Len(queue)] ==
        IF i = 0 THEN <<>> ELSE Retain(retained[i - 1], queue[i], t)
  IN  retained

Fresh(queue, t) == Retained(queue, t)[Len(queue)]

prune_expired(map, t) == [e \in Recipients |-> Fresh(map[e], t)]

Newest(queue, n) == SubSeq(queue, Len(queue) - n + 1, Len(queue))

(* Variant: the queue that has formed meanwhile goes first.                *)
merge_back_behind(queue, pending) ==
  LET combined == queue \o pending IN
  IF Len(combined) > QueueCap THEN Newest(combined, QueueCap) ELSE combined

(* Variant: no trimming.                                                   *)
merge_back_untrimmed(queue, pending) == pending \o queue

(* What was not delivered goes before what has arrived since; past the cap *)
(* the front of the result is trimmed.                                     *)
merge_back(queue, pending) ==
  LET combined == pending \o queue IN
  IF Len(combined) > QueueCap THEN Newest(combined, QueueCap) ELSE combined

Push(queue, m) == Append(IF Len(queue) >= QueueCap THEN Tail(queue) ELSE queue, m)
------------------------------------------------------------------------------
(* handle_message.                                                         *)

MessageArrives(s, e) ==
  /\ handler[s].at = "idle" /\ nMessages < MaxMessages
  /\ nMessages' = nMessages + 1
  /\ handler' = [handler EXCEPT ![s] =
       [at |-> IF e \in connected THEN "send" ELSE "rate",
        id |-> nMessages + 1, to |-> e, now |-> 0]]
  /\ UNCHANGED <<now, offline, rates, connected, delivery, nFaults, history>>

Answer200(s) ==
  /\ accepted' = accepted \cup {handler[s].id}
  /\ handler' = [handler EXCEPT ![s] = IdleHandler]

Answer503(s) == handler' = [handler EXCEPT ![s] = IdleHandler]

(* The send to the recipient's connection ends well.                       *)
MessageForwarded(s) ==
  /\ handler[s].at = "send"
  /\ sent' = sent \cup {handler[s].id}
  /\ Answer200(s)
  /\ UNCHANGED <<now, offline, rates, connected, delivery, nMessages, nFaults, dropped>>

(* It fails: the message is stored like one for an extension offline.      *)
MessageUndeliverable(s) ==
  /\ handler[s].at = "send" /\ nFaults < MaxFaults
  /\ nFaults' = nFaults + 1
  /\ handler' = [handler EXCEPT ![s].at = "rate"]
  /\ UNCHANGED <<now, offline, rates, connected, delivery, nMessages, history>>

(* store_offline_message, first section: the fixed window of the sender.   *)
(* The window counts the message whether or not it is stored in the end.   *)
RateWindowOf(s) ==
  IF rates[s].count = -1 \/ now >= rates[s].window_start + RateWindow
  THEN [window_start |-> now, count |-> 0]
  ELSE rates[s]

RateLimited(s) ==
  /\ handler[s].at = "rate"
  /\ RateWindowOf(s).count >= RateLimit
  /\ Answer503(s)
  /\ UNCHANGED <<now, offline, rates, connected, delivery, nMessages, nFaults, history>>

RateAllowed(s) ==
  /\ handler[s].at = "rate"
  /\ RateWindowOf(s).count < RateLimit
  /\ rates' = [rates EXCEPT ![s] = [RateWindowOf(s) EXCEPT !.count = @ + 1]]
  /\ handler' = [handler EXCEPT ![s] = [@ EXCEPT !.at = "store", !.now = now]]
  /\ UNCHANGED <<now, offline, connected, delivery, nMessages, nFaults, history>>

(* Second section: expired messages of every queue go first.               *)
Stored(map) == UNION {{<<e, i>> : i \in DOMAIN map[e]} : e \in Recipients}
StoredFrom(map, s) == {q \in Stored(map) : map[q[1]][q[2]].from_ext = s}

Full(map, s) ==
  \/ Cardinality(StoredFrom(map, s)) >= SenderQuota
  \/ Cardinality(Stored(map)) >= TotalCap

AllIds(map) == UNION {Ids(map[e]) : e \in Recipients}

StoreRefused(s) ==
  LET map == prune_expired(offline, handler[s].now) IN
  /\ handler[s].at = "store"
  /\ Full(map, s)
  /\ offline' = map
  /\ dropped' = dropped \cup (AllIds(offline) \ AllIds(map))
  /\ Answer503(s)
  /\ UNCHANGED <<now, rates, connected, delivery, nMessages, nFaults, accepted, sent>>

StoreDone(s) ==
  LET map == prune_expired(offline, handler[s].now)
      m   == [id |-> handler[s].id, from_ext |-> s, received_at |-> handler[s].now]
      new == [map EXCEPT ![handler[s].to] = Push(@, m)]
  IN
  /\ handler[s].at = "store"
  /\ ~Full(map, s)
  /\ offline' = new
  /\ dropped' = dropped \cup (AllIds(offline) \ AllIds(new))
  /\ Answer200(s)
  /\ UNCHANGED <<now, rates, connected, delivery, nMessages, nFaults, sent>>
------------------------------------------------------------------------------
(* deliver_offline_messages, and what starts it and stands in its way.     *)

(* Variant: the task is spawned for an extension that had no connection.   *)
Register_if_new(e, d) ==
  /\ delivery[d].at = "idle"
  /\ connected' = connected \cup {e}
  /\ delivery' = IF e \in connected THEN delivery
       ELSE [delivery EXCEPT ![d] = [at |-> "take", ext |-> e, pending |-> <<>>]]
  /\ UNCHANGED <<now, offline, rates, handler, nMessages, nFaults, history>>

(* A REGISTER succeeds: the extension has a connection, and a task to      *)
(* deliver what waits for it is spawned.                                   *)
Register(e, d) ==
  /\ delivery[d].at = "idle"
  /\ connected' = connected \cup {e}
  /\ delivery' = [delivery EXCEPT ![d] = [at |-> "take", ext |-> e, pending |-> <<>>]]
  /\ UNCHANGED <<now, offline, rates, handler, nMessages, nFaults, history>>

(* The connection of an extension closes, or its registration ends.        *)
Disconnect(e) ==
  /\ e \in connected /\ nFaults < MaxFaults
  /\ connected' = connected \ {e}
  /\ nFaults' = nFaults + 1
  /\ UNCHANGED <<now, offline, rates, handler, delivery, nMessages, history>>

(* Variant: the queue is read and left in place.                           *)
Remaining_kept(e) == offline

Remaining(e) == [offline EXCEPT ![e] = <<>>]

(* The whole queue is taken out; what has expired is dropped.              *)
DeliveryTakes(d) ==
  LET e == delivery[d].ext
      fresh == Fresh(offline[e], now)
  IN
  /\ delivery[d].at = "take"
  /\ offline' = Remaining(e)
  /\ dropped' = dropped \cup (Ids(offline[e]) \ Ids(fresh))
  /\ delivery' = [delivery EXCEPT ![d] =
       IF fresh = <<>> THEN IdleDelivery ELSE [@ EXCEPT !.at = "sink", !.pending = fresh]]
  /\ UNCHANGED <<now, rates, connected, handler, nMessages, nFaults, accepted, sent>>

DeliveryFindsSink(d) ==
  /\ delivery[d].at = "sink"
  /\ delivery' = [delivery EXCEPT ![d].at =
                    IF delivery[d].ext \in connected THEN "send" ELSE "putback"]
  /\ UNCHANGED <<now, offline, rates, connected, handler, nMessages, nFaults, history>>

(* The send of the first pending message ends well.                        *)
DeliverySends(d) ==
  /\ delivery[d].at = "send"
  /\ sent' = sent \cup {Head(delivery[d].pending).id}
  /\ delivery' = [delivery EXCEPT ![d] =
       IF Len(@.pending) = 1 THEN IdleDelivery
       ELSE [@ EXCEPT !.pending = Tail(delivery[d].pending)]]
  /\ UNCHANGED <<now, offline, rates, connected, handler, nMessages, nFaults, accepted, dropped>>

(* Variant: the message whose send failed is not put back with the rest.   *)
Unsent_rest(pending) == Tail(pending)

(* The message whose send failed is put back in front of the rest.         *)
Unsent(pending) == pending

DeliverySendFails(d) ==
  /\ delivery[d].at = "send" /\ nFaults < MaxFaults
  /\ nFaults' = nFaults + 1
  /\ delivery' = [delivery EXCEPT ![d] =
       [@ EXCEPT !.at = "putback", !.pending = Unsent(delivery[d].pending)]]
  /\ UNCHANGED <<now, offline, rates, connected, handler, nMessages, history>>

DeliveryPutsBack(d) ==
  LET e == delivery[d].ext
      merged == merge_back(offline[e], delivery[d].pending)
  IN
  /\ delivery[d].at = "putback"
  /\ offline' = [offline EXCEPT ![e] = merged]
  /\ dropped' = dropped \cup
       ((Ids(offline[e]) \cup Ids(delivery[d].pending)) \ Ids(merged))
  /\ delivery' = [delivery EXCEPT ![d] = IdleDelivery]
  /\ UNCHANGED <<now, rates, connected, handler, nMessages, nFaults, accepted, sent>>

Tick ==
  /\ now < MaxTime
  /\ now' = now + 1
  /\ UNCHANGED <<offline, rates, connected, handler, delivery, nMessages, nFaults, history>>
------------------------------------------------------------------------------
HandlerStep(s) ==
  \/ MessageForwarded(s) \/ MessageUndeliverable(s) \/ RateLimited(s) \/ RateAllowed(s)
  \/ StoreRefused(s) \/ StoreDone(s)

DeliveryStep(d) ==
  \/ DeliveryTakes(d) \/ DeliveryFindsSink(d) \/ DeliverySends(d) \/ DeliverySendFails(d)
  \/ DeliveryPutsBack(d)

Next ==
  \/ \E s \in Senders : HandlerStep(s) \/ \E e \in Recipients : MessageArrives(s, e)
  \/ \E d \in Deliverers : DeliveryStep(d) \/ \E e \in Recipients : Register(e, d)
  \/ \E e \in Recipients : Disconnect(e)
  \/ Tick

Spec == Init /\ [][Next]_vars

(* Handlers and delivery tasks that have begun go on.  Recipients register *)
(* again and again, as SIP clients do before their registration expires;   *)
(* README.md:156 rests the server's reachability on that.                  *)
FairSpec ==
  /\ Spec
  /\ \A s \in Senders : WF_vars(HandlerStep(s))
  /\ \A d \in Deliverers : WF_vars(DeliveryStep(d))
  /\ \A e \in Recipients : SF_vars(\E d \in Deliverers : Register(e, d))
------------------------------------------------------------------------------
(* Type invariant, with the cap every queue keeps to.                      *)
TypeOK ==
  /\ now \in Times
  /\ offline \in [Recipients -> Seq(Message)]
  /\ \A e \in Recipients : Len(offline[e]) <= QueueCap
  /\ rates \in [Senders -> [window_start: Times, count: -1..RateLimit]]
  /\ connected \subseteq Recipients
  /\ handler \in [Senders -> {IdleHandler} \cup
       [at: {"send", "rate", "store"}, id: MessageIds, to: Recipients, now: Times]]
  /\ delivery \in [Deliverers -> {IdleDelivery} \cup
       [at: {"take", "sink", "send", "putback"}, ext: Recipients, pending: Seq(Message)]]
  /\ nMessages \in 0..MaxMessages /\ nFaults \in 0..MaxFaults
  /\ accepted \subseteq MessageIds /\ sent \subseteq MessageIds /\ dropped \subseteq MessageIds

(* Where messages are kept: a place in a queue or in a delivery task.      *)
Waiting == AllIds(offline) \cup UNION {Ids(delivery[d].pending) : d \in Deliverers}

(* No message is lost: one answered 200 was handed to a connection, still  *)
(* waits, or was dropped for its age or by a cap.                          *)
NothingLost == accepted \subseteq sent \cup Waiting \cup dropped

(* No message goes out twice, and none that was dropped goes out: it waits *)
(* in one place only, and nowhere once it was sent or dropped.             *)
Distinct(queue) == \A i, j \in DOMAIN queue : queue[i].id = queue[j].id => i = j

NothingTwice ==
  /\ \A e \in Recipients : Distinct(offline[e])
  /\ \A d \in Deliverers : Distinct(delivery[d].pending)
  /\ \A e, f \in Recipients :
       e # f => Ids(offline[e]) \cap Ids(offline[f]) = {}
  /\ \A c, d \in Deliverers :
       c # d => Ids(delivery[c].pending) \cap Ids(delivery[d].pending) = {}
  /\ \A e \in Recipients, d \in Deliverers :
       Ids(offline[e]) \cap Ids(delivery[d].pending) = {}
  /\ Waiting \cap (sent \cup dropped) = {}
  /\ sent \cap dropped = {}

(* What makes the two inductive: a message a handler has in hand is known  *)
(* to nobody else, and a delivery task has messages exactly from its look  *)
(* at the queue to its end.                                                *)
InHand(s) == IF handler[s].at = "idle" THEN {} ELSE {handler[s].id}

HandsApart ==
  /\ \A s \in Senders : InHand(s) \cap (Waiting \cup sent \cup dropped) = {}
  /\ \A r, s \in Senders : r # s => InHand(r) \cap InHand(s) = {}

NumbersUsed ==
  /\ Waiting \cup sent \cup dropped \subseteq 1..nMessages
  /\ \A s \in Senders : InHand(s) \subseteq 1..nMessages

TasksLoaded ==
  \A d \in Deliverers :
    delivery[d].pending = <<>> <=> delivery[d].at \in {"idle", "take"}

IInv == TypeOK /\ NothingLost /\ NothingTwice /\ HandsApart /\ NumbersUsed /\ TasksLoaded

(* The promise of Mailbox: what waits for an extension is what is in its   *)
(* queue and with the tasks that deliver it.                               *)
Delivering(d, e) == delivery[d].at # "idle" /\ delivery[d].ext = e

InBox(e) ==
  Ids(offline[e]) \cup
    UNION {Ids(delivery[d].pending) : d \in {c \in Deliverers : Delivering(c, e)}}

Mail == INSTANCE Mailbox WITH box <- [e \in Recipients |-> InBox(e)]

(* Queues, tasks that take them away and put them back, prunings and       *)
(* trimmings implement Mailbox: no message for one extension comes to      *)
(* another (deliver_offline_messages), none leaves sent or dropped again,  *)
(* and 200 is answered in the very step that secures the message           *)
(* (handle_message).                                                       *)
KeepsMail == Mail!Spec

(* The order merge_back is written for (message.rs:88-90): old messages    *)
(* before new ones, in every queue.  It holds with one sender and one      *)
(* delivery task, and fails when two deliveries to an extension overlap.   *)
QueuesOrdered ==
  \A e \in Recipients : \A i, j \in DOMAIN offline[e] :
    i < j => offline[e][i].received_at <= offline[e][j].received_at

(* A message that waits for an extension is sent or dropped in the end,    *)
(* even if it was stored just after the delivery that should have taken it.*)
NobodyForgotten ==
  \A id \in MessageIds : id \in Waiting ~> id \in sent \cup dropped
==============================================================================
