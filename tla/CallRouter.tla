------------------------------ MODULE CallRouter ------------------------------
(***************************************************************************)
(* The calls of the B2BUA (src/sip/router.rs) and the part of the media    *)
(* relay manager that starts and stops their relays (src/media/relay.rs).  *)
(*                                                                         *)
(* Every connection of the server runs a task that takes one SIP message   *)
(* at a time and runs its handler to the end.  The handlers of different   *)
(* connections interleave: a handler holds the lock on `calls' for one     *)
(* section, lets it go to send a message (an await of any length) and      *)
(* takes it again.  An action is one such section, with the local work     *)
(* that leads to it.                                                       *)
(*                                                                         *)
(* Bodies, headers and addresses are abstracted to what decides the        *)
(* control flow: the class of a status code, whether there is an SDP body  *)
(* and whether its a=crypto line is one the router offered.  A pair of     *)
(* relay ports is the number of the INVITE it was first allocated for (its *)
(* lease); the allocator itself is in module MediaRelay.                   *)
(***************************************************************************)
EXTENDS Naturals

CONSTANTS
  CallIds,      \* the Call-IDs in use
  Tasks,        \* the connection tasks
  InviteTasks,  \* InviteTasks[c]: the tasks INVITEs with Call-ID c arrive at
  MaxInvites    \* bound: INVITEs that pass the sender checks

ASSUME CallIdsAssumption  == CallIds # {}
ASSUME InviteAssumption   == InviteTasks \in [CallIds -> SUBSET Tasks]
ASSUME BoundAssumption    == MaxInvites \in Nat \ {0}

VARIABLES
  calls,        \* active_calls: the call under each Call-ID, NoCall if none
  sessions,     \* media sessions: the lease under each Call-ID, 0 if none
  senders,      \* shutdown_senders: the relay each Call-ID can stop, 0 if none
  relays,       \* relays[i]: the relay task started when call i was claimed
  task,         \* where the handler of each connection task is
  nInvites      \* INVITEs admitted so far: names calls, leases and relays

vars == <<calls, sessions, senders, relays, task, nInvites>>
media == <<sessions, senders, relays>>

InviteIds == 1..MaxInvites

CallStates == {"Trying", "Ringing", "Established", "Terminated"}

(* Status classes handle_callee_response tells apart, and the SDP body of  *)
(* the response: no body, a body without usable a=crypto, a body whose     *)
(* a=crypto was not offered to the callee, one whose a=crypto was.         *)
Codes  == {"100", "18x", "200", "4xx"}
Bodies == {"absent", "plain", "unoffered", "offered"}

AnyCall == CHOOSE c \in CallIds : TRUE

(* CallInfo, reduced to what decides.  invite = 0 is "no entry".           *)
CallInfo ==
  [invite: 0..MaxInvites, state: CallStates, callee_tag: BOOLEAN,
   callee_remote_crypto: BOOLEAN, relay_started: BOOLEAN, lease: 0..MaxInvites]

NoCall ==
  [invite |-> 0, state |-> "Trying", callee_tag |-> FALSE,
   callee_remote_crypto |-> FALSE, relay_started |-> FALSE, lease |-> 0]

Relay ==
  [status: {"unused", "spawned", "running", "ended", "failed"}, call: CallIds,
   invite: 0..MaxInvites, lease: 0..MaxInvites, keyed: BOOLEAN, stop: BOOLEAN]

NoRelay ==
  [status |-> "unused", call |-> AnyCall, invite |-> 0, lease |-> 0,
   keyed |-> FALSE, stop |-> FALSE]

Steps ==
  {"idle", "purge", "admit", "allocate", "insert", "forward", "refuse", "rekey",
   "respond", "fault", "start", "bye", "cancel"}

Handler ==
  [at: Steps, call: CallIds, invite: 0..MaxInvites, lease: 0..MaxInvites,
   code: Codes]

Idle == [at |-> "idle", call |-> AnyCall, invite |-> 0, lease |-> 0, code |-> "100"]

Live(c) == calls[c].invite # 0

Init ==
  /\ calls    = [c \in CallIds |-> NoCall]
  /\ sessions = [c \in CallIds |-> 0]
  /\ senders  = [c \in CallIds |-> 0]
  /\ relays   = [r \in InviteIds |-> NoRelay]
  /\ task     = [t \in Tasks |-> Idle]
  /\ nInvites = 0

Goto(t, step) == task' = [task EXCEPT ![t].at = step]
Return(t)     == task' = [task EXCEPT ![t] = Idle]
------------------------------------------------------------------------------
(* The relay manager's part of a call's end and of a relay's start.        *)

(* Dropping or signalling the watch::Sender of relay r, if there is one,   *)
(* makes the relay's shutdown_rx.changed() return.                         *)
Signalled(r) ==
  [x \in InviteIds |-> IF x = r THEN [relays[x] EXCEPT !.stop = TRUE] ELSE relays[x]]

(* Variants: what a slip in remove_session could look like.                *)
remove_session_keeps_session(c) ==
  /\ relays'   = Signalled(senders[c])
  /\ senders'  = [senders EXCEPT ![c] = 0]
  /\ UNCHANGED sessions

remove_session_keeps_relay(c) ==
  /\ sessions' = [sessions EXCEPT ![c] = 0]
  /\ UNCHANGED <<senders, relays>>

remove_session(c) ==
  /\ relays'   = Signalled(senders[c])
  /\ senders'  = [senders EXCEPT ![c] = 0]
  /\ sessions' = [sessions EXCEPT ![c] = 0]

(* Variant: release the session whether or not the call was still there.   *)
cleanup_call_unconditional(c) ==
  /\ calls' = [calls EXCEPT ![c] = NoCall]
  /\ remove_session(c)

cleanup_call(c) ==
  IF Live(c)
  THEN /\ calls' = [calls EXCEPT ![c] = NoCall]
       /\ remove_session(c)
  ELSE UNCHANGED <<calls, media>>

(* Insert the new sender (the one it replaces is dropped) and spawn the    *)
(* relay with what the call's entry holds now.                             *)
register_shutdown(c, r) == senders' = [senders EXCEPT ![c] = r]

(* Variant: the sender that is replaced lives on.                          *)
SpawnRelay_keeps_old(c, r) ==
  relays' = [relays EXCEPT ![r] =
               [status |-> "spawned", call |-> c, invite |-> calls[c].invite,
                lease |-> calls[c].lease, keyed |-> calls[c].callee_remote_crypto,
                stop |-> FALSE]]

SpawnRelay(c, r) ==
  relays' = [Signalled(senders[c]) EXCEPT ![r] =
               [status |-> "spawned", call |-> c, invite |-> calls[c].invite,
                lease |-> calls[c].lease, keyed |-> calls[c].callee_remote_crypto,
                stop |-> FALSE]]
------------------------------------------------------------------------------
(* INVITE.  The checks on the sender come first and change nothing here.   *)

InviteArrives(t, c) ==
  /\ task[t].at = "idle"
  /\ t \in InviteTasks[c]
  /\ nInvites < MaxInvites
  /\ nInvites' = nInvites + 1
  /\ task' = [task EXCEPT ![t] =
                [Idle EXCEPT !.at = IF Live(c) THEN "purge" ELSE "admit",
                             !.call = c, !.invite = nInvites + 1]]
  /\ UNCHANGED <<calls, media>>

(* The Call-ID was in use when looked up: whatever is there now goes.      *)
InvitePurges(t) ==
  /\ task[t].at = "purge"
  /\ cleanup_call(task[t].call)
  /\ Goto(t, "admit")
  /\ UNCHANGED nInvites

(* 404, 480, 488 or, with the port pool refusing, 503.                     *)
InviteRejected(t) ==
  /\ task[t].at \in {"admit", "allocate"}
  /\ Return(t)
  /\ UNCHANGED <<calls, media, nInvites>>

(* create_session: an existing session is shared, else ports are taken     *)
(* with the sessions unlocked and the session inserted afterwards.         *)
InviteFindsSession(t) ==
  LET c == task[t].call IN
  /\ task[t].at = "admit"
  /\ task' = [task EXCEPT ![t] =
                [@ EXCEPT !.at = IF sessions[c] # 0 THEN "insert" ELSE "allocate",
                          !.lease = sessions[c]]]
  /\ UNCHANGED <<calls, media, nInvites>>

(* Variant: the port after the allocated one.                              *)
InviteCreatesSession_off_by_one(t) ==
  LET c == task[t].call IN
  /\ task[t].at = "allocate"
  /\ sessions' = [sessions EXCEPT ![c] = task[t].invite + 1]
  /\ task' = [task EXCEPT ![t] = [@ EXCEPT !.at = "insert", !.lease = task[t].invite + 1]]
  /\ UNCHANGED <<calls, senders, relays, nInvites>>

InviteCreatesSession(t) ==
  LET c == task[t].call IN
  /\ task[t].at = "allocate"
  /\ sessions' = [sessions EXCEPT ![c] = task[t].invite]
  /\ task' = [task EXCEPT ![t] = [@ EXCEPT !.at = "insert", !.lease = task[t].invite]]
  /\ UNCHANGED <<calls, senders, relays, nInvites>>

InviteInserts(t) ==
  /\ task[t].at = "insert"
  /\ calls' = [calls EXCEPT ![task[t].call] =
                 [NoCall EXCEPT !.invite = task[t].invite, !.lease = task[t].lease]]
  /\ Goto(t, "forward")
  /\ UNCHANGED <<media, nInvites>>

(* The send to the callee ends: 100 to the caller.                         *)
InviteForwarded(t) ==
  /\ task[t].at = "forward"
  /\ Return(t)
  /\ UNCHANGED <<calls, media, nInvites>>

(* The send fails, the callee's connection being gone: 500.                *)
InviteUndeliverable(t) ==
  /\ task[t].at = "forward"
  /\ cleanup_call(task[t].call)
  /\ Return(t)
  /\ UNCHANGED nInvites
------------------------------------------------------------------------------
(* A response of the callee to the INVITE.  Code class "100" stands for    *)
(* every code that writes nothing into the call.                           *)

(* What the first section writes into the call.                            *)
Answered(call, code, body) ==
  CASE code = "18x" -> [call EXCEPT !.state = "Ringing", !.callee_tag = TRUE]
    [] code = "200" /\ body = "offered" ->
         [call EXCEPT !.state = "Established", !.callee_tag = TRUE,
                      !.callee_remote_crypto = TRUE]
    [] code = "200" /\ body # "offered" ->
         [call EXCEPT !.state = "Terminated", !.callee_tag = TRUE]
    [] code = "4xx" -> [call EXCEPT !.state = "Terminated"]
    [] OTHER -> call

(* A 200 with no callee key on record is refused; a body is rewritten with *)
(* the caller's key, looked up again later; anything else is passed on.    *)
AfterAnswer(call, code, body) ==
  IF code = "200" /\ ~call.callee_remote_crypto THEN "refuse"
  ELSE IF body # "absent" THEN "rekey"
  ELSE "respond"

ResponseArrives(t, c, code, body) ==
  /\ task[t].at = "idle"
  /\ Live(c)
  /\ LET call == Answered(calls[c], code, body) IN
     /\ calls' = [calls EXCEPT ![c] = call]
     /\ task' = [task EXCEPT ![t] = [Idle EXCEPT !.at = AfterAnswer(call, code, body),
                                                 !.call = c, !.code = code]]
  /\ UNCHANGED <<media, nInvites>>

(* The section that looks up caller_local_crypto again.                    *)
ResponseRekeyed(t) ==
  /\ task[t].at = "rekey"
  /\ Goto(t, IF Live(task[t].call) THEN "respond" ELSE "fault")
  /\ UNCHANGED <<calls, media, nInvites>>

(* The 488 (refuse) or the 500 (fault) to the caller is sent.              *)
ResponseFails(t) ==
  /\ task[t].at \in {"refuse", "fault"}
  /\ cleanup_call(task[t].call)
  /\ Return(t)
  /\ UNCHANGED nInvites

(* The response is sent to the caller.  A failure ends the call; the 200   *)
(* that finds relay_started clear sets it and goes on to start the relay.  *)
ResponseDeclines(t) ==
  /\ task[t].at = "respond" /\ task[t].code = "4xx"
  /\ cleanup_call(task[t].call)
  /\ Return(t)
  /\ UNCHANGED nInvites

(* Variants: the flag is not tested; the state is tested, too.             *)
ShouldStart_untested(c) == Live(c) /\ calls[c].callee_remote_crypto

ShouldStart_if_established(c) ==
  /\ Live(c) /\ ~calls[c].relay_started /\ calls[c].callee_remote_crypto
  /\ calls[c].state = "Established"

ShouldStart(c) ==
  Live(c) /\ ~calls[c].relay_started /\ calls[c].callee_remote_crypto

ResponseClaimsRelay(t) ==
  LET c == task[t].call IN
  /\ task[t].at = "respond" /\ task[t].code = "200"
  /\ ShouldStart(c)
  /\ calls' = [calls EXCEPT ![c].relay_started = TRUE]
  /\ task' = [task EXCEPT ![t] = [@ EXCEPT !.at = "start", !.invite = calls[c].invite]]
  /\ UNCHANGED <<media, nInvites>>

ResponsePassed(t) ==
  /\ task[t].at = "respond"
  /\ task[t].code \in {"100", "18x"} \/ (task[t].code = "200" /\ ~ShouldStart(task[t].call))
  /\ Return(t)
  /\ UNCHANGED <<calls, media, nInvites>>

(* start_media_relay: the call is looked up once more, and the stop handle *)
(* registered and the relay spawned under the same lock.                   *)
(* Variant: the relay starts without another look at the call.             *)
start_media_relay_blind(t) ==
  /\ task[t].at = "start"
  /\ register_shutdown(task[t].call, task[t].invite)
  /\ SpawnRelay(task[t].call, task[t].invite)
  /\ Return(t)
  /\ UNCHANGED <<calls, sessions, nInvites>>

start_media_relay(t) ==
  LET c == task[t].call
      r == task[t].invite
  IN
  /\ task[t].at = "start"
  /\ IF Live(c)
     THEN register_shutdown(c, r) /\ SpawnRelay(c, r)
     ELSE UNCHANGED <<senders, relays>>
  /\ Return(t)
  /\ UNCHANGED <<calls, sessions, nInvites>>
------------------------------------------------------------------------------
(* BYE and CANCEL.  `verified' is the outcome of the identity check: tag   *)
(* of the dialog or identity of the connection for a BYE, the caller's tag *)
(* for a CANCEL.  A refused request (481) changes nothing.                 *)

(* A callee not yet tagged is known only by its connection.                *)
ByeVerified(call, by, connected) ==
  by = "caller" \/ (by = "callee" /\ (call.callee_tag \/ connected))

ByeArrives(t, c, by, connected) ==
  /\ task[t].at = "idle"
  /\ Live(c) /\ ByeVerified(calls[c], by, connected)
  /\ task' = [task EXCEPT ![t] = [Idle EXCEPT !.at = "bye", !.call = c]]
  /\ UNCHANGED <<calls, media, nInvites>>

CancelArrives(t, c) ==
  /\ task[t].at = "idle"
  /\ Live(c)
  /\ calls' = [calls EXCEPT ![c].state = "Terminated"]
  /\ task' = [task EXCEPT ![t] = [Idle EXCEPT !.at = "cancel", !.call = c]]
  /\ UNCHANGED <<media, nInvites>>

(* The BYE is passed on; or the CANCEL is, and the 487 sent to the caller. *)
(* Variant: a CANCEL that lost the race against the 200 ends nothing.      *)
HangupDone_unless_established(t) ==
  /\ task[t].at \in {"bye", "cancel"}
  /\ IF calls[task[t].call].state = "Established"
     THEN UNCHANGED <<calls, media>>
     ELSE cleanup_call(task[t].call)
  /\ Return(t)
  /\ UNCHANGED nInvites

HangupDone(t) ==
  /\ task[t].at \in {"bye", "cancel"}
  /\ cleanup_call(task[t].call)
  /\ Return(t)
  /\ UNCHANGED nInvites
------------------------------------------------------------------------------
(* Relay tasks (run_relay).                                                *)

Others == <<calls, sessions, senders, task, nInvites>>

Bound(lease) == \E r \in InviteIds : relays[r].status = "running" /\ relays[r].lease = lease

(* Binding fails when another relay still has the ports: the task ends.    *)
RelayBinds(r) ==
  /\ relays[r].status = "spawned"
  /\ relays' = [relays EXCEPT ![r].status =
                  IF Bound(relays[r].lease) THEN "failed" ELSE "running"]
  /\ UNCHANGED Others

(* shutdown_rx.changed() returned: both forwarding tasks are aborted.      *)
RelayStops(r) ==
  /\ relays[r].status = "running" /\ relays[r].stop
  /\ relays' = [relays EXCEPT ![r].status = "ended"]
  /\ UNCHANGED Others

(* A socket error ends one forwarding task, and with it the relay.         *)
RelayBreaks(r) ==
  /\ relays[r].status = "running" /\ ~relays[r].stop
  /\ relays' = [relays EXCEPT ![r].status = "ended"]
  /\ UNCHANGED Others
------------------------------------------------------------------------------
(* A message arrives at an idle task.                                      *)
Arrival(t) ==
  \E c \in CallIds :
    \/ InviteArrives(t, c)
    \/ \E code \in Codes, body \in Bodies : ResponseArrives(t, c, code, body)
    \/ \E by \in {"caller", "callee"}, connected \in BOOLEAN : ByeArrives(t, c, by, connected)
    \/ CancelArrives(t, c)

(* A busy task goes on.                                                    *)
Continue(t) ==
  \/ InvitePurges(t) \/ InviteRejected(t) \/ InviteFindsSession(t)
  \/ InviteCreatesSession(t) \/ InviteInserts(t) \/ InviteForwarded(t)
  \/ InviteUndeliverable(t)
  \/ ResponseRekeyed(t) \/ ResponseFails(t) \/ ResponseDeclines(t)
  \/ ResponseClaimsRelay(t) \/ ResponsePassed(t) \/ start_media_relay(t)
  \/ HangupDone(t)

RelayStep(r) == RelayBinds(r) \/ RelayStops(r)

Next ==
  \/ \E t \in Tasks : Arrival(t) \/ Continue(t)
  \/ \E r \in InviteIds : RelayStep(r) \/ RelayBreaks(r)

Spec == Init /\ [][Next]_vars

(* A handler that has begun goes on, because every lock is held for a      *)
(* section only and every send ends (with an error once the peer's         *)
(* connection is closed); a spawned relay task is scheduled.  Nothing      *)
(* obliges a peer to send.                                                 *)
FairSpec ==
  /\ Spec
  /\ \A t \in Tasks : WF_vars(Continue(t))
  /\ \A r \in InviteIds : WF_vars(RelayStep(r))
------------------------------------------------------------------------------
(* The promise of CallMedia: the calls under which there is an entry are   *)
(* the active ones, and a relay nobody told to stop carries media.         *)
Carrying(i) == relays[i].status \in {"spawned", "running"} /\ ~relays[i].stop

Promise == INSTANCE CallMedia WITH
  RelayIds <- InviteIds,
  active   <- {c \in CallIds : Live(c)},
  carriers <- [c \in CallIds |-> {i \in InviteIds : Carrying(i) /\ relays[i].call = c}]

(* The handlers with their locks and awaits implement CallMedia: ending a  *)
(* call and withdrawing its relay's permission is one step to every        *)
(* observer, and a new relay under a Call-ID replaces the one before.      *)
KeepsPromise == Promise!Spec

(* Type invariant: every table maps Call-IDs, tasks and relays to entries  *)
(* of the shape the structs give them.                                     *)
TypeOK ==
  /\ calls    \in [CallIds -> CallInfo]
  /\ sessions \in [CallIds -> 0..MaxInvites]
  /\ senders  \in [CallIds -> 0..MaxInvites]
  /\ relays   \in [InviteIds -> Relay]
  /\ task     \in [Tasks -> Handler]
  /\ nInvites \in 0..MaxInvites

(* No orphan relay.  A relay task nobody has told to stop belongs to an    *)
(* active call, whose registered stop handle is that task's; and no handle *)
(* outlives its call.  It rests on start_media_relay looking the call up   *)
(* again and registering the handle under the lock cleanup_call takes.     *)
RelayStoppable ==
  /\ \A i \in InviteIds :
        Carrying(i) => Live(relays[i].call) /\ senders[relays[i].call] = i
  /\ \A c \in CallIds : senders[c] # 0 => Live(c)

(* No leaked ports.  A media session belongs to an active call or to an    *)
(* INVITE that is about to insert its call: create_session precedes the    *)
(* insertion, and no path between them gives up.                           *)
SessionOwned ==
  \A c \in CallIds : sessions[c] # 0 =>
    Live(c) \/ \E t \in Tasks : task[t].at = "insert" /\ task[t].call = c

(* With the INVITEs of a Call-ID arriving at one connection, an active     *)
(* call holds the session its relay ports come from: no cleanup of an      *)
(* earlier call under the Call-ID took it away.                            *)
LiveCallHoldsPorts ==
  \A c \in CallIds : Live(c) => calls[c].lease # 0 /\ sessions[c] = calls[c].lease

(* ... and the relay that carries media under a Call-ID forwards on the    *)
(* ports, and for the INVITE, of the call that is there now: a new INVITE  *)
(* under the Call-ID silences the relay of the one before.                 *)
RelayServesCurrentCall ==
  \A i \in InviteIds : Carrying(i) =>
    /\ relays[i].invite = calls[relays[i].call].invite
    /\ relays[i].lease  = calls[relays[i].call].lease

(* The INVITE number a task is about to insert a call under.               *)
Admitting(t) == task[t].at \in {"purge", "admit", "allocate", "insert"}
Starting(t)  == task[t].at = "start"

(* The test-and-set on relay_started lets one relay start per call: a      *)
(* second start never overwrites the first one's task.                     *)
StartsOnce ==
  \A t \in Tasks : Starting(t) =>
    /\ relays[task[t].invite].status = "unused"
    /\ \A u \in Tasks \ {t} : Starting(u) => task[u].invite # task[t].invite

(* Why a claim is exclusive: a number is given to one INVITE, becomes one  *)
(* call's, and starts a relay only after that call's flag is set.          *)
NumbersFresh ==
  /\ \A t \in Tasks : task[t].invite <= nInvites
  /\ \A c \in CallIds : calls[c].invite <= nInvites
  /\ \A i \in InviteIds : i > nInvites => relays[i].status = "unused"

NumbersUnclaimed ==
  /\ \A t \in Tasks : Admitting(t) =>
       /\ task[t].invite # 0
       /\ relays[task[t].invite].status = "unused"
       /\ \A c \in CallIds : calls[c].invite # task[t].invite
       /\ \A u \in Tasks \ {t} :
            Admitting(u) \/ Starting(u) => task[u].invite # task[t].invite
  /\ \A c \in CallIds : Live(c) =>
       /\ \A d \in CallIds \ {c} : calls[d].invite # calls[c].invite
       /\ ~calls[c].relay_started =>
            /\ relays[calls[c].invite].status = "unused"
            /\ \A t \in Tasks : Starting(t) => task[t].invite # calls[c].invite
  /\ \A t \in Tasks : Starting(t) => task[t].invite # 0

(* A stop handle registered under a Call-ID is that of a relay started for *)
(* it, so ending one call never silences another.                          *)
HandlesOwn ==
  \A c \in CallIds : senders[c] # 0 =>
    relays[senders[c]].status # "unused" /\ relays[senders[c]].call = c

(* The inductive invariant behind the three above: relay_started and the   *)
(* numbers keep two handlers from ever starting, or stopping, one relay.   *)
IInv ==
  /\ TypeOK
  /\ RelayStoppable /\ HandlesOwn
  /\ SessionOwned
  /\ NumbersFresh /\ NumbersUnclaimed /\ StartsOnce

(* Why a call has its ports, and a relay its call, if the INVITEs of a     *)
(* Call-ID arrive at one task: there is no call under the Call-ID from the *)
(* time an INVITE has looked or cleaned up until it inserts its own.       *)
OneInviter == \A c \in CallIds : \A t, u \in InviteTasks[c] : t = u

EntryClearFor(t) ==
  /\ Admitting(t) => t \in InviteTasks[task[t].call]
  /\ Admitting(t) /\ task[t].at # "purge" => ~Live(task[t].call)
  /\ task[t].at = "insert" => task[t].lease # 0 /\ sessions[task[t].call] = task[t].lease

EntryClear == \A t \in Tasks : EntryClearFor(t)

PortsIInv == IInv /\ EntryClear /\ LiveCallHoldsPorts /\ RelayServesCurrentCall

(* A hang-up takes effect: once the BYE or CANCEL of a call is accepted,   *)
(* that call is eventually gone and no relay task has its ports.           *)
HangupFreesPorts ==
  \A c \in CallIds, k \in InviteIds :
    (\E t \in Tasks : task[t].at \in {"bye", "cancel"} /\ task[t].call = c /\ calls[c].invite = k)
      ~> /\ calls[c].invite # k
         /\ \A i \in InviteIds : relays[i].invite = k =>
              relays[i].status \notin {"spawned", "running"}

(* A call that is established gets a relay that binds its ports and has    *)
(* the callee's key, unless it ends first or its Call-ID is used for       *)
(* another INVITE: then the relay may be started for the new call, before  *)
(* its callee has sent a key.  A relay that breaks later is not started    *)
(* again.                                                                  *)
EstablishedGetsMedia ==
  \A c \in CallIds :
    (nInvites = 1 /\ calls[c].state = "Established")
      ~> \/ ~Live(c) \/ nInvites > 1
         \/ \E i \in InviteIds :
              /\ relays[i].call = c /\ relays[i].keyed
              /\ relays[i].status \in {"running", "ended"}
==============================================================================
