# A verification project for minghe

minghe is a small SIP server in Rust: phones register over TLS (or, for listed
extensions, plain UDP), call each other through a B2BUA that relays their SRTP
media, and exchange instant messages that are kept for phones that are offline.
It runs on tokio: every TLS connection is a task, the UDP listener is one more,
relays and deliveries are spawned, and all of them share tables under locks they
let go of before every `await`. What is hard to get right, and hard to test, is
what happens between two lock sections. The modules here model that.

All paths below are relative to the repository (`src/sip/router.rs` is written
`router.rs`).

## 1. Inventory

| Component | State | Operations | Interacts with |
|---|---|---|---|
| call router, `sip/router.rs` | `active_calls` | INVITE, callee response, ACK, BYE, CANCEL; `start_media_relay`, `cleanup_call` | relay manager (sessions, stop handles), registrar (who is online, failures), sinks |
| media relay, `media/relay.rs` | `next_port`, `sessions`, `shutdown_senders`; one task per relay | `create_session`, `remove_session`, `register_shutdown`, `run_relay` | called by the router; tasks stop on a watch channel; packets pass through SRTP |
| SRTP, `media/srtp.rs` | `stream_states`: rollover counter and newest sequence number per SSRC | `unprotect_rtp`, `protect_rtp` | a suite to open and one to protect per direction of a relay |
| offline messages, `sip/message.rs` | `offline_messages`, `sender_rates` | `handle_message`, `store_offline_message`, `deliver_offline_messages` | sinks, registrar; deliveries are spawned by a REGISTER |
| registrar, `sip/registrar.rs` | `registrations`, `failed_ips`, `blocked_ips`, `issued_nonces` | `handle_register`, failures of INVITEs, cleanup every 30 s | read by router and messages |
| connections, `sip/server.rs` | `connections`, `pending_handshakes`; per connection a buffer and two tasks | accept loop, handshake, reading and framing, dispatch, writing, end of a connection, UDP listener | owns the calls into all the others |
| sinks, `sip/transport.rs`, `connection_writers` in `router.rs` | a bounded channel per connection; one sink per extension | `send`, `register_writer`, `unregister_writer` | a send ends, fails, or waits for room |
| transaction manager, `sip/transaction.rs` | `transactions` | cleanup only; nothing creates one | - |
| parser, `sip/parser.rs` | - | framing; pure functions on text | called by the connection tasks and the handlers |
| TLS, `tls.rs` | `server.crt`, `server.key`, `server.expiry`; the acceptor in memory | start-up, generation, renewal every 6 h | the accept loop uses the acceptor |
| configuration `config.rs`, start-up `main.rs` | - | read once | - |

What makes each correct, and what is hard about it:

* **Router**: a relay exists only for a call that can stop it; ports are kept
  while the call lives and freed with it; one relay per call. Handlers of several
  connections touch one call, and all of them await between reading it and
  cleaning it up; a Call-ID may be reused meanwhile.
* **Relay manager**: a port is not given to two calls. The allocator is lock
  free and returns to its start by a race of compare-exchanges.
* **SRTP**: a packet is opened with the rollover counter its sender had, and leaves
  under the index it came with. The counter is worked out from 16 bits that are
  lost, repeated and reordered on the way.
* **Messages**: what was answered 200 is delivered, or dropped by a rule that is
  written down; once; in order. Deliveries overlap with arrivals, failures, and
  each other.
* **Registrar**: credentials authenticate once; only addresses that fail are
  blocked; nobody goes offline early. Four locks are taken one after the other
  and every table may be emptied when full.
* **Connections**: what the accept loop counts is what there is; an extension is
  reached through a connection that is open. Connections of one extension end in
  any order.
* **Signalling** (connection tasks, framing, sinks): a client's messages are
  handled whole, once and in order, whatever pieces they arrive in; bodies never
  are; a connection is cut for cause only; tasks that wait for room in each
  other's channels all go on in the end.
* **TLS**: what is served is renewed before it has expired; a renewal cut off
  between its files does not keep the server from starting. Files and acceptor are
  replaced one after the other, and the replacement of each may fail.

`PROJECT.json` lists the hazards one by one, with the line where each bites and
the properties that watch it.

## 2. Modules

| Module | Models | Uses |
|---|---|---|
| `CallRouter` | router handlers, stop handles, relay tasks | refines `CallMedia` |
| `CallMedia` | abstract: a relay carries media only while its call is active, one at a time | |
| `CallRouterProofs` | theorems of `CallRouter` | |
| `MediaRelay` | port allocator and session table | refines `PortRounds` |
| `PortRounds` | abstract: each port once a round | |
| `MediaRelayProofs` | theorems of `MediaRelay` | |
| `SrtpStreams` | packets inside a relay: addresses, stream states, forwarding | |
| `SrtpStreamsProofs` | theorems of `SrtpStreams` | |
| `OfflineMessages` | message service | refines `Mailbox` |
| `Mailbox` | abstract: a mailbox per extension | |
| `OfflineMessagesProofs` | theorems of `OfflineMessages` | |
| `Registrar` | registrar and the INVITE checks that use it | |
| `RegistrarProofs` | theorems of `Registrar` | |
| `Connections` | accept loop, connection table, sinks | |
| `ConnectionsProofs` | theorems of `Connections` | |
| `Signalling` | reading, framing, dispatch, channels, writing; UDP listener | |
| `SignallingProofs` | theorems of `Signalling` | |
| `TlsCertificates` | certificate files, start-up and renewal | |
| `TlsCertificatesProofs` | theorems of `TlsCertificates` | |
| `MC*` | the constants of the runs | |

Definitions named `X_something` beside a definition `X`, under a comment that
says *Variant*, are slips the code could have had. They are in no behaviour of
the specifications; each shows that some property notices the slip.

### CallRouter

`calls` is `active_calls` (an entry with `invite = 0` is absent), `sessions` and
`senders` the two tables of `MediaRelayManager`, `relays` the spawned
`run_relay` tasks, `task[t]` where the handler of connection task `t` is. One
action is one lock section with the local work before it: a handler is a path
through the actions, for example `InviteArrives`, `InvitePurges`,
`InviteFindsSession`, `InviteCreatesSession`, `InviteInserts`,
`InviteForwarded`, and the awaits are the points between them. INVITEs that pass
the sender checks are numbered; the number names the call, its ports (its
*lease*) and its relay. Headers and bodies are reduced to what decides: status
class, kind of SDP body, outcome of the identity check of a BYE.
`handle_ack` reads a call and sends; it changes no state and has no action.

`InviteTasks` says at which tasks INVITEs of a Call-ID arrive. The runs take one
task: a phone has one connection, and that connection's INVITEs are handled one
after the other. The proved theorems hold for every assignment, except those about
`LiveCallHoldsPorts` and `RelayServesCurrentCall`, which assume one task
(`OneInviter`).

### MediaRelay

Each atomic operation of `allocate_port_pair` is an action: `Allocate` and
`Miss` (the `fetch_add`), `Wrap` (the `compare_exchange`, its result ignored, and
the count of four attempts), then `Insert`. `round` and the `round` of a grant
are history. `Modulus` is 2^16 in the code. A `u16` that wraps would give ports
below the range; `Headroom` says the bounds keep the counter away from it and is
what the theorems assume. In the code it needs some 20,000 threads to be past the
end at once.

### SrtpStreams

A packet is its index; `Sequence` is what it carries and `Rollovers` what it does
not. `estimate_roc` and `update_stream_state_after_success` are the functions of
the code with `Modulus` for 2^16. The counter enters the tag and the keystream, so
`Opens` says the estimate is the sender's. `Receives` is a task's `recv_from` with
the locking of its side's address, `DropsUnaddressed`, `DropsUnopened` and
`Forwards` what comes of the packet once the other side's address was looked up;
the two are separate sections, as in the code. Loss, repetition and
reordering are one definition: any packet that is at most `Window` behind the
newest one sent may be received. `top` and `out` are history. The run of the relay
task itself (start, stop, socket errors) is in `CallRouter`.

### OfflineMessages

Messages are numbers; `offline[e]` is the queue of an extension. A handler goes
`send` (a sink was found), `rate` (first lock section of
`store_offline_message`), `store` (second); a delivery goes `take`, `sink`,
`send` once per message, `putback`. `connected` is the set of extensions
`get_outbound` finds a sink for. `accepted`, `sent` and `dropped` are history.
`retain` is the recursive function `Retained`: what it keeps of each prefix of the
queue.

`Mailbox` says what all this is for. It has a box for each extension and four ways to
move a message: forward it at once, keep it in the box of its recipient, hand it over
from there, discard some, and nothing else. `KeepsMail` maps the box of `e` to what is
in `offline[e]` and with the tasks that deliver to `e` (`InBox`). Taking a queue out
and a failed send are then invisible; a put-back is too, or discards what it trims;
an arrival is invisible until the step that answers 200. The order of a box is not
part of it: that is `QueuesOrdered`, which does not always hold.

### Registrar

A request is an extension, an address, a nonce with its count, and how the checks
without state go (`verdict`). The four tables are variables of the code's names.
`validate_nonce` is `NonceUnknown`, `NonceExpired`, `NonceReplayed` and
`NonceAccepted`; `record_failure` is its two sections `RecordFailure` and `Block`.
A phone keeps the nonce of its last challenge across a restart of the server and
counts up with each use; `wire` holds what it sent, so that it can be repeated.
Phones in `WithoutQop` leave the count unchecked, as the code does. IP blocking
is taken to be enabled. Outside the cleanup, a clock reading is part of the
section that uses it.

### Connections

`listener` and `task[c]` are program counters, `connections` maps an open
connection to the extension it is associated with, `writers` is
`connection_writers`. The end of a connection is `remove_connection`,
`LeavingLooks`, `LeavingUnregisters`, as in `handle_connection`.

### Signalling

A client's words are chosen at the start (`said`); `wire` is what of them the server
has not read. Bytes come in symbols that end a line: the start line and headers of
a message, or a CRLF. A body is made of the same symbols, so it reads like a
message. `BytesFrom` gives the bytes of what is said from an item on, a recursive
function rather than an operator, so that it can be reasoned about. `Meant` tells from
the words alone which messages are to be heard. `frame_sip_message` looks for the first CRLF that ends a second line,
collects the declared lengths, and answers as the code does. `reader[c]` is the task of
a connection: `Reads` or `ReadEnds`; then, per round of the inner loop, `Ignores`,
`Handles`, `FramesNothing` (with the test of the buffer's length) or `Refuses`. A
handler is reduced to the sends it makes, in order (`Routes`); whom a message goes to
is any choice the other modules allow. `chan[c]` counts what is in a channel, `Send`
waits for room or finds it closed, `Takes` and `Writes` are the second task.
Deliveries and the UDP listener send like any other. `heard` is history. Between the end
of the read loop and `abort` the code does not await, so that is one action.

### TlsCertificates

The three files, each with the pair it belongs to; `serving` is the acceptor. A
generation is `WriteCrt`, `WriteKey`, `WriteExpiry`, and then `Reload` or `ReloadFails`.
A write may fail, cut its file short, or be cut off by the end of the process;
`ReloadFails` is `build_acceptor` failing with the files saved, which ends a start-up
and leaves a running server with the acceptor it has. `StartFails` and `CheckFails`
are generations that end before a file is written (no key pair, no `certs/`). `Deletes`
removes a file. `tried` is history: the last pair an acceptor was to be built from.
Time is counted in check intervals. Of the code's rounding to whole days only the
comparison is kept.

## 3. Runs

Passing runs:

| Run | Instance | Shows |
|---|---|---|
| `router` | 1 Call-ID, 2 tasks, 2 INVITEs; 24,000 states | `RelayStoppable`, `SessionOwned`, `StartsOnce`, `LiveCallHoldsPorts`, `RelayServesCurrentCall`, the inductive invariant `IInv`, that the router implements `CallMedia` (`KeepsPromise`), `HangupFreesPorts`, `EstablishedGetsMedia` |
| `media` | 2 threads, 2 sessions, 3 ports, 4 allocations; 107,000 states | `OncePerRound`, and that the allocator implements `PortRounds` (`RoundsKept`) |
| `srtp` | 2 streams, modulus 8, up to 3 places late; 668,000 states | `InStep`, `IndexKept`, `NewerOpens` |
| `offline` | 1 sender, 2 recipients, 1 delivery, 4 messages, all caps 2 or 3; 174,000 states | `NothingLost`, `NothingTwice`, `QueuesOrdered`, that the message service implements `Mailbox` (`KeepsMail`), `NobodyForgotten` |
| `registrar` | 2 phones, 2 addresses, 2 tasks, 3 requests, a repeat, a restart; 480,000 states | `NonceOnce`, `BlockEarned`, the inductive invariant `IInv`, `KeepsOnline` |
| `connections` | 3 connections of 2 extensions, cap 2; 19,000 states | `CountsExact`, `NoLeftover`, the inductive invariant `IInv`, `Heals` |
| `signalling` | 2 clients, 4 scripts of one and 2 of the other, channels of 1, reads of 2, cap 4; 235,000 states | `HeardInOrder`, `EndsForCause`, `NobodyStuck` |
| `tls` | validity 4, renewal 2 before, 1 miss, 5 generations, 4 faults, time to 10; 808,000 states | `RenewedInTime`, `RenewalRestarts` |

Runs that end in a counterexample, each a disagreement between the code and what
it says of itself (details under `findings` in `PROJECT.json`):

* `media_shared`: a long call and a new one get the same port although others are
  free, because `remove_session` returns none (`relay.rs:72`). By the same
  arithmetic the default range of 20 ports holds 10 even ports, two per call, so
  five calls and not the ten `README.md:89` mentions.
* `offline_order`: two overlapping deliveries put messages back in the wrong
  order (`message.rs:468`).
* `srtp_late`: after a rollover a packet one place late is dropped, where RFC 3711
  opens it (`srtp.rs:695`).
* `connections_reached`: the newest connection of an extension closes and its dead
  sink stays although another is open (`server.rs:388`).

### Bounds

* `MaxInvites = 2`: one call and one that reuses its Call-ID; every hazard of the
  router is a race of one call's handlers, or of them with the next call's. Calls
  under different Call-IDs share nothing but the allocator.
* `MaxCreates = 4` with three ports: eight grants go round the pool more than
  twice. `MaxMisses` only bounds the counter and is far above what four creations
  can reach.
* `Modulus = 8` and indices up to 20: two rollovers, both halves of a round, gaps
  around half of it. `Window = 3` is the most that stays below half. The second
  stream is short: directions share the addresses only.
* `MaxMessages = 4` with queues of two and a total of two: every cap and
  the put-back over a full queue are reached. Two recipients meet the total cap.
  One delivery runs at a time, because `QueuesOrdered` fails otherwise: run
  `offline_order` has two, and that `NothingLost` and `NothingTwice` survive any
  number of overlapping ones is proved.
* Registrar: three requests and one repeat suffice for challenge, answer, and
  answer again; tables hold one or two entries, so each of them overflows.
* `MaxConnections = 2` with three connections: one is refused or waits.
* `Signalling`: channels hold one message, so that every send may have to wait.
  The scripts are one or two lone CRLFs before messages, a body that reads like
  a message, contradicting lengths with more behind them, and a message longer than
  the cap; any reads of one or two symbols, so that the buffer holds parts of two
  messages and passes the cap. One client may leave at any time.
* TLS: four intervals of validity, renewed two before the end, leave room for the
  one generation that may fail (`MaxMisses`) and one spare; ten intervals see two
  renewals, or one whose acceptor fails and the next, and four faults reach a torn pair
  together with a lost expiry file.
* `MaxTime` and `MaxFaults`: enough for each window to end once and each kind of
  fault to happen.

Deadlock is not checked: the counters of the environment run out, and a server
nobody talks to has nothing to do.

### Fairness

* Router: handlers that have begun go on. Locks are held for a section and never
  across an await, except in `start_media_relay`, which holds one without awaiting.
  A send ends because the peer's connection drains its channel or closes, which is
  what `NobodyStuck` shows. Nobody is obliged to send a message, and relays need not break.
* Messages: in addition, each recipient registers again and again, strongly fair
  because the delivery task it needs may be busy each time. `README.md:156` asks
  clients to keep registered.
* Signalling: tasks go on where they wait for nobody; what a client has to say
  arrives; a client reads what is written to it, or goes away. A peer that stays
  connected and never reads holds a sender up for as long as that lasts, with all of
  UDP if the listener is the sender: that case is outside the assumption and listed as
  a hazard (`server.rs:255`). Senders are strongly fair: the channel of tokio gives
  room in the order of asking.
* Connections: tasks that do not wait for a client go on (the handshake has a
  timeout), and a client refreshes the registration it has.

## 4. Proofs

TLAPS checks, for all values of the constants:

`CallRouterProofs`: `TypeCorrect`, `Invariant`, `NoOrphanRelay`,
`NoLeakedSession`, `OneStartPerCall` and `Implements` (the router implements
`CallMedia`), from the assumptions in `CallRouter` alone. `RelayStoppable` is not
inductive: that a relay is started under its own number, and not over another's,
rests on three facts. The number of an INVITE is fresh (`NumbersFresh`); as long
as a call's `relay_started` is clear, its number has started no relay and no task
is about to start one (`NumbersUnclaimed`); a registered handle is that of a relay
of its own Call-ID (`HandlesOwn`), so signalling it never stops another call's.
`IInv` is their conjunction with `TypeOK`, `RelayStoppable`, `SessionOwned` and
`StartsOnce`. The proof takes the actions one by one; those that do not start a
relay or end a call are shown together to leave the media part alone
(`MediaSteps`, `CleanupEffect`). `Implements` maps each action to a step of
`CallMedia` or a stutter; `cleanup_call` is its `End`, `InviteInserts` its `Begin`,
`start_media_relay` its `Carry`.

The ports have an invariant of their own (`PortsIInv`) on top, under `OneInviter`:
`PortsStay` and `RelayIsCurrent`. It needs `EntryClear`: from the moment an INVITE has
found no call or has cleaned one up until it inserts its own, nobody else puts a call
under its Call-ID. With two connections that is false, and both properties with it.

`MediaRelayProofs`: `TypeCorrect`, `Invariant`, `DistinctInRound` and `Implements`
(the allocator implements `PortRounds`), from the assumptions in `MediaRelay`
and `Headroom`. `OncePerRound` needs two strengthenings. `BehindCounter`: a port
of the current round is below the counter, so the next one differs.
`CounterSane`: a thread about to set the counter back read a value past the end,
so an exchange that succeeds finds the whole pool given, and the counter stays
below its modulus, so `% Modulus` does nothing.

`SrtpStreamsProofs`: `TypeCorrect`, `SuitesAgree`, `IndicesKept` and `SurvivesLoss`,
from the assumptions in `SrtpStreams`. The invariant is the conjunction of `TypeOK`,
`InStep` and `IndexKept`. `IndexSplits` puts an index together again;
`UpdateStands` shows that a suite then stands at the newer of the packet and what it
had seen; the second suite, which starts equal, estimates equal. `SurvivesLoss` rests
on `EstimateOfNewer`: a packet ahead by less than half a round is in the same round
or the next (`MultiplesApart`), and each branch of the estimate is right for one.

`OfflineMessagesProofs`: `TypeCorrect`, `Invariant`, `AllAccounted` (`NothingLost`)
and `OnceOnly` (`NothingTwice`), for any number of senders, recipients and
overlapping deliveries. `retain` is recursive, and what it keeps is found without
induction: if the equation failed for some length it would fail for a least one
(`Least`), which the step before rules out. The rest is an account of places: queues,
tasks and hands hold disjoint sets of numbers (`HandsApart`, `NumbersUsed`), each
step moves numbers from one place to another or to `sent` or `dropped`, and
`Transfer` shows once that such a move keeps the account.

The order of queues has an invariant of its own (`OrderInv`): a queue is sorted by
`received_at`; what a delivery task holds is sorted and not younger than what is kept
of its extension, so that it may go back in front; and nothing kept is younger than
the time a handler that is about to store has read (`KeptUntil`). That is true as
long as no two tasks hold messages of one extension and handlers about to store have
read the same time (`InTurn`). `OrderInTurn` takes that as an assumption on the
behaviour, `Spec /\ []InTurn => []QueuesOrdered`: nothing in the code ensures it.
With overlapping deliveries the property is false (run `offline_order`), and so it is with
two handlers that read the clock in one order and store in the other. In the run
`offline`, with one sender and one delivery task, tasks always take turns.

`ImplementsMailbox` (`KeepsMail`) rests on `Invariant` alone, so it holds for any
number of senders, recipients and overlapping deliveries. `Becomes` says how a step
changes every box at once: what is gone, and what is new in one of them. `QueuesMove`
shows it of the steps that store and prune, `TaskMoves` of those of a delivery task;
both need that no message waits in two places (`Apart`, from `NothingTwice`), since a
message discarded from one queue must not be left in another box. `MailMeans` reads
the actions of `Mailbox` in those terms, and each action of the service is one of
them (`MailForwarded`, `MailRefused`, `MailStored`, `MailTakes`, `MailSends`,
`MailPutsBack`) or a stutter (`MailRests`).

`ConnectionsProofs`: `TypeCorrect`, `ExactCounts`, `Invariant`, `NoSinkLeft`. The counts
need that the connection the accept loop has in hand has no task yet; the sinks,
that a connection has one account (`OneAccount`): then every sink that is written
belongs to a connection whose own end will look at it.

`RegistrarProofs`: `TypeCorrect`, `Invariant`, `SingleUse` (`NonceOnce`),
`BlocksEarned` and the action property `StaysOnline` (`KeepsOnline`), for any phones,
limits and number of requests, repeats and restarts, and finitely many addresses.
`NonceOnce` needs `CountsKept`: no count that passed is above the one its nonce has in
the table, so a higher one is new, and since numbers of nonces are fresh a nonce that
left the table never returns. `BlockEarned` needs `StrikesCounted`: the strikes an
entry counts all fall after its `window_start`, through pruning, windows that end and
successes that clear it; and `HandlersRight`, since the address is blocked in a
section of its own, after the lock on the counts was let go. `KeepsOnline` rests on
the cleanup task's reading of the clock never being ahead of the clock.

`TlsCertificatesProofs`: `TypeCorrect`, `ServesInTime` (`RenewedInTime`) and
`StartsAfterRenewal` (`RenewalRestarts`), for all periods and any number of faults. The
files never claim more time than the last pair has that an acceptor was to be built
from, less the checks missed (`Margin`): that is the certificate in use, unless
`build_acceptor` failed since. And while all files are there only a pair that is due is written
over (`Restartable`).

`SignallingProofs`: `TypeCorrect`, `HeardRight` (`HeardInOrder`) and `EndedForCause`
(`EndsForCause`), for any clients, scripts of any items, cuts of the bytes into reads,
and sizes of channel, read and buffer. The invariant (`Sound`) says of each connection
that framing has come to some item p: all that is meant before p was heard, buffer and
wire together are the bytes from p on (`Aligned`; cut short if the client has gone
away), and no lone CRLF waits to be joined (`UpTo`). What the proof needs of
`frame_sip_message` is `Framing`: of any first part of the bytes from p it says that
there is too little (`Waits`), that a message is malformed (`Breaks`), or cuts out
exactly a *unit* (`Cuts`): a message, a CRLF with the message behind it, or two CRLFs.
`UnitShape` finds where the headers of a unit end, `UnitDone` that framing has then
come to the next p. Since a unit without its end is never longer than the longest
message, a buffer over the cap always has a message over the cap in it
(`SoundNothing`): this is why the test comes after framing. `BytesFrom` is recursive;
its equation is found without induction, as that of `retain` is (`Least`). What is
assumed of clients is `ScriptsAssumption`: a length a message declares is that of its
body, or is a mistake that can be seen.

Model-checked only: liveness (`HangupFreesPorts`, `EstablishedGetsMedia`,
`NobodyForgotten`, `Heals`, `NobodyStuck`), which rests on fairness and `ENABLED` and is
out of the prover's reach, as is induction over data. Every other property of a
passing run is a theorem, `QueuesOrdered` under `InTurn`.

## 5. Not modelled, and why

* Headers, SDP and message texts; digests; parsing: pure functions, whose outcome
  is an input of the models.
* The caller's crypto tag, read a second time (`router.rs:600`): content.
* Relays without keys: they drop everything (`relay.rs:280`, `361`), though the
  comment at `relay.rs:177` speaks of plain RTP being passed on.
* UDP sessions in the connection table: there are none, see the hazard at
  `server.rs:445`.
* Bytes that are not UTF-8. In headers they make a message invalid, which ends the
  connection (`parser.rs:561`), as a malformed length does, and that case is modelled;
  in a body they are framed like others, and the message is dropped (`server.rs:365`).
* Clients with several accounts on one connection: the code associates the last
  one only, and `NoLeftover` does not hold for them (`server.rs:445`).
* Keys and ciphers of SRTP; a certificate configured with `cert_path` and `key_path`,
  which is read once; configuration, start-up, and the transaction manager, which
  nothing uses.
* That a refused message uses up the sender's rate (`message.rs:320`): one request
  after another shows it.
* Who the connection of an INVITE is known as (`router.rs:236-280`): whether it is the
  caller is an input of `InviteChecked`. A connection that is not counts as a failure
  of its address, like a caller that is not registered.
* Some disagreements were met and have no run. A relay may be started for a call that
  took over the Call-ID and has no callee key yet (`router.rs:999`): the handler
  tested for the key of the call before. And a nonce from before a restart counts as
  a failure of the address (`registrar.rs:461`), so that a few phones behind one
  address can get it blocked, where `README.md:200` says normal use is not affected.
  A client that keeps its connection alive with single CRLFs, which `server.rs:329`
  counts as a legitimate keepalive, loses the message it sends after one
  (`HeardInOrder` says which). A first generation whose key file is cut short, or
  a deleted certificate with an expiry far ahead, leaves a pair that does not match,
  which start-up refuses (`tls.rs:84`) instead of making a new one; `RenewalRestarts`
  therefore speaks of files that were all there. And when `build_acceptor` fails in a
  renewal (`tls.rs:173`), the new files are saved already: they claim a full validity,
  no check renews again until it is nearly over, and the old certificate is shown after
  it has expired, though `tls.rs:15` says that it is renewed 30 days before that. TLC
  finds a behaviour of sixteen states of `TlsCertificates` if `RenewedInTime` is stated without
  its second case; the property says how far it can go.

## 6. Plan

Order: the call router first, since calls are what the server is for; then the
allocator it depends on; messages; registrar; connections; the packets of a relay;
certificates; signalling. What is left:

1. Router and allocator composed: leases replaced by the ports of `MediaRelay`.
2. An abstract specification for registration (who is online), with `Registrar`
   shown to implement it.
