--------------------------- MODULE CallRouterProofs ---------------------------
(***************************************************************************)
(* Proofs about CallRouter, for every set of Call-IDs and tasks, every     *)
(* assignment of INVITEs to connections and any number of INVITEs.         *)
(***************************************************************************)
EXTENDS CallRouter, TLAPS

LEMMA AnyCallIsACall == AnyCall \in CallIds
  BY CallIdsAssumption DEF AnyCall

LEMMA NoCallType == NoCall \in CallInfo
  BY BoundAssumption DEF NoCall, CallInfo, CallStates

LEMMA IdleType == Idle \in Handler
  BY BoundAssumption, AnyCallIsACall DEF Idle, Handler, Steps, Codes

LEMMA NoRelayType == NoRelay \in Relay
  BY BoundAssumption, AnyCallIsACall DEF NoRelay, Relay

(* What a response writes into a call leaves it a call of the same INVITE  *)
(* on the same ports.                                                      *)
LEMMA AnsweredKeeps ==
  ASSUME NEW call \in CallInfo, NEW code \in Codes, NEW body \in Bodies
  PROVE  /\ Answered(call, code, body) \in CallInfo
         /\ Answered(call, code, body).invite = call.invite
         /\ Answered(call, code, body).lease  = call.lease
  BY DEF Answered, CallInfo, CallStates, Codes, Bodies

LEMMA AfterAnswerIsAStep ==
  ASSUME NEW call, NEW code, NEW body
  PROVE  AfterAnswer(call, code, body) \in {"refuse", "rekey", "respond"}
  BY DEF AfterAnswer

LEMMA SignalledType ==
  ASSUME TypeOK, NEW r
  PROVE  Signalled(r) \in [InviteIds -> Relay]
  BY DEF Signalled, TypeOK, Relay

(* cleanup_call touches the entries of its own Call-ID only, and leaves    *)
(* neither a call, a session nor a stop handle there if there was a call.  *)
LEMMA CleanupType ==
  ASSUME TypeOK, NEW c \in CallIds, cleanup_call(c)
  PROVE  /\ calls'    \in [CallIds -> CallInfo]
         /\ sessions' \in [CallIds -> 0..MaxInvites]
         /\ senders'  \in [CallIds -> 0..MaxInvites]
         /\ relays'   \in [InviteIds -> Relay]
  BY NoCallType, SignalledType, BoundAssumption
  DEF TypeOK, cleanup_call, remove_session, media
------------------------------------------------------------------------------
(* Every table keeps its type, whatever the handlers do.                   *)
LEMMA TypeStep == TypeOK /\ [Next]_vars => TypeOK'
<1> SUFFICES ASSUME TypeOK, [Next]_vars
             PROVE  TypeOK'
  OBVIOUS
<1>1. ASSUME NEW t \in Tasks, Arrival(t) PROVE TypeOK'
  <2> PICK c \in CallIds :
        \/ InviteArrives(t, c)
        \/ \E code \in Codes, body \in Bodies : ResponseArrives(t, c, code, body)
        \/ \E by \in {"caller", "callee"}, connected \in BOOLEAN :
              ByeArrives(t, c, by, connected)
        \/ CancelArrives(t, c)
    BY <1>1 DEF Arrival
  <2>1. CASE InviteArrives(t, c)
    <3>1. nInvites + 1 \in 0..MaxInvites
      BY <2>1, BoundAssumption DEF InviteArrives, TypeOK
    <3>2. ASSUME NEW step \in {"purge", "admit"}
          PROVE  [Idle EXCEPT !.at = step, !.call = c, !.invite = nInvites + 1] \in Handler
      BY <3>1, IdleType DEF Handler, Steps
    <3> QED
      BY <2>1, <3>1, <3>2 DEF InviteArrives, TypeOK, media
  <2>2. ASSUME NEW code \in Codes, NEW body \in Bodies, ResponseArrives(t, c, code, body)
        PROVE  TypeOK'
    <3> DEFINE call == Answered(calls[c], code, body)
    <3>1. call \in CallInfo
      BY AnsweredKeeps DEF TypeOK
    <3>2. AfterAnswer(call, code, body) \in Steps
      BY AfterAnswerIsAStep DEF Steps
    <3> HIDE DEF call
    <3>3. calls' = [calls EXCEPT ![c] = call]
          /\ task' = [task EXCEPT ![t] = [Idle EXCEPT !.at = AfterAnswer(call, code, body),
                                                      !.call = c, !.code = code]]
          /\ UNCHANGED <<media, nInvites>>
      BY <2>2 DEF ResponseArrives, call
    <3> QED
      BY <3>1, <3>2, <3>3, IdleType DEF TypeOK, Handler, media
  <2>3. ASSUME NEW by \in {"caller", "callee"}, NEW connected \in BOOLEAN,
               ByeArrives(t, c, by, connected)
        PROVE  TypeOK'
    BY <2>3, IdleType DEF ByeArrives, TypeOK, Handler, Steps, media
  <2>4. CASE CancelArrives(t, c)
    <3>1. [Idle EXCEPT !.at = "cancel", !.call = c] \in Handler
      BY IdleType DEF Handler, Steps
    <3>2. [calls[c] EXCEPT !.state = "Terminated"] \in CallInfo
      BY DEF TypeOK, CallInfo, CallStates
    <3> QED
      BY <2>4, <3>1, <3>2 DEF CancelArrives, TypeOK, media
  <2> QED
    BY <2>1, <2>2, <2>3, <2>4
<1>2. ASSUME NEW t \in Tasks, Continue(t) PROVE TypeOK'
  <2> task[t].call \in CallIds /\ task[t].invite \in 0..MaxInvites
    BY DEF TypeOK, Handler
  <2>1. CASE InvitePurges(t)
    BY <2>1, CleanupType DEF InvitePurges, Goto, TypeOK, Handler, Steps
  <2>2. CASE InviteRejected(t)
    BY <2>2, IdleType DEF InviteRejected, Return, TypeOK, media
  <2>3. CASE InviteFindsSession(t)
    <3>1. ASSUME NEW step \in {"insert", "allocate"}
          PROVE  [task[t] EXCEPT !.at = step, !.lease = sessions[task[t].call]] \in Handler
      BY DEF TypeOK, Handler, Steps
    <3> QED
      BY <2>3, <3>1 DEF InviteFindsSession, TypeOK, media
  <2>4. CASE InviteCreatesSession(t)
    BY <2>4 DEF InviteCreatesSession, TypeOK, Handler, Steps
  <2>5. CASE InviteInserts(t)
    BY <2>5, NoCallType DEF InviteInserts, Goto, TypeOK, Handler, Steps, CallInfo, media
  <2>6. CASE InviteForwarded(t)
    BY <2>6, IdleType DEF InviteForwarded, Return, TypeOK, media
  <2>7. CASE InviteUndeliverable(t)
    BY <2>7, CleanupType, IdleType DEF InviteUndeliverable, Return, TypeOK
  <2>8. CASE ResponseRekeyed(t)
    BY <2>8 DEF ResponseRekeyed, Goto, TypeOK, Handler, Steps, media
  <2>9. CASE ResponseFails(t)
    BY <2>9, CleanupType, IdleType DEF ResponseFails, Return, TypeOK
  <2>10. CASE ResponseDeclines(t)
    BY <2>10, CleanupType, IdleType DEF ResponseDeclines, Return, TypeOK
  <2>11. CASE ResponseClaimsRelay(t)
    <3> DEFINE c == task[t].call
    <3>1. [calls[c] EXCEPT !.relay_started = TRUE] \in CallInfo
      BY DEF TypeOK, CallInfo
    <3>2. [task[t] EXCEPT !.at = "start", !.invite = calls[c].invite] \in Handler
      BY DEF TypeOK, Handler, Steps, CallInfo
    <3>3. /\ calls' = [calls EXCEPT ![c] = [calls[c] EXCEPT !.relay_started = TRUE]]
          /\ task' = [task EXCEPT ![t] =
                         [task[t] EXCEPT !.at = "start", !.invite = calls[c].invite]]
      BY <2>11 DEF ResponseClaimsRelay, TypeOK
    <3> QED
      BY <2>11, <3>1, <3>2, <3>3 DEF ResponseClaimsRelay, TypeOK, media
  <2>12. CASE ResponsePassed(t)
    BY <2>12, IdleType DEF ResponsePassed, Return, TypeOK, media
  <2>13. CASE start_media_relay(t)
    <3> DEFINE c == task[t].call
               new == [status |-> "spawned", call |-> c, invite |-> calls[c].invite,
                       lease |-> calls[c].lease,
                       keyed |-> calls[c].callee_remote_crypto, stop |-> FALSE]
    <3>1. new \in Relay
      BY DEF TypeOK, Relay, CallInfo
    <3>2. task' = [task EXCEPT ![t] = Idle] /\ UNCHANGED <<calls, sessions, nInvites>>
      BY <2>13 DEF start_media_relay, Return
    <3>3. \/ UNCHANGED <<senders, relays>>
          \/ /\ senders' = [senders EXCEPT ![c] = task[t].invite]
             /\ relays' = [Signalled(senders[c]) EXCEPT ![task[t].invite] = new]
      BY <2>13 DEF start_media_relay, register_shutdown, SpawnRelay
    <3> HIDE DEF new
    <3>4. senders' \in [CallIds -> 0..MaxInvites] /\ relays' \in [InviteIds -> Relay]
      BY <3>1, <3>3, SignalledType DEF TypeOK
    <3> QED
      BY <3>2, <3>4, IdleType DEF TypeOK
  <2>14. CASE HangupDone(t)
    BY <2>14, CleanupType, IdleType DEF HangupDone, Return, TypeOK
  <2> QED
    BY <1>2, <2>1, <2>2, <2>3, <2>4, <2>5, <2>6, <2>7, <2>8, <2>9, <2>10, <2>11, <2>12,
       <2>13, <2>14 DEF Continue
<1>3. ASSUME NEW r \in InviteIds, RelayStep(r) \/ RelayBreaks(r) PROVE TypeOK'
  BY <1>3 DEF RelayStep, RelayBinds, RelayStops, RelayBreaks, Others, TypeOK, Relay
<1>4. CASE UNCHANGED vars
  BY <1>4 DEF vars, TypeOK
<1> QED
  BY <1>1, <1>2, <1>3, <1>4 DEF Next

(* The tables of the router and of the relay manager always hold entries   *)
(* of the shape their structs give them.                                   *)
THEOREM TypeCorrect == Spec => []TypeOK
<1>1. Init => TypeOK
  BY NoCallType, IdleType, NoRelayType, BoundAssumption DEF Init, TypeOK
<1> QED
  BY <1>1, TypeStep, PTL DEF Spec
------------------------------------------------------------------------------
(* What a cleanup does to its own Call-ID, and leaves alone.               *)
LEMMA CleanupEffect ==
  ASSUME TypeOK, NEW c \in CallIds, cleanup_call(c)
  PROVE  /\ calls'[c].invite = 0
         /\ \A d \in CallIds \ {c} : /\ calls'[d] = calls[d]
                                     /\ sessions'[d] = sessions[d]
                                     /\ senders'[d] = senders[d]
         /\ Live(c) => sessions'[c] = 0 /\ senders'[c] = 0
         /\ ~Live(c) => UNCHANGED <<calls, sessions, senders, relays>>
         /\ \A i \in InviteIds : /\ relays'[i].status = relays[i].status
                                 /\ relays'[i].call = relays[i].call
                                 /\ relays[i].stop => relays'[i].stop
                                 /\ Live(c) /\ i = senders[c] => relays'[i].stop
                                 /\ ~(Live(c) /\ i = senders[c]) => relays'[i] = relays[i]
<1>1. CASE Live(c)
  <2>1. /\ calls' = [calls EXCEPT ![c] = NoCall]
        /\ sessions' = [sessions EXCEPT ![c] = 0]
        /\ senders' = [senders EXCEPT ![c] = 0]
        /\ relays' = Signalled(senders[c])
    BY <1>1 DEF cleanup_call, remove_session
  <2>2. \A i \in InviteIds : relays'[i] = IF i = senders[c] THEN [relays[i] EXCEPT !.stop = TRUE]
                                                          ELSE relays[i]
    BY <2>1 DEF Signalled
  <2>3. \A i \in InviteIds : relays[i] \in Relay
    BY DEF TypeOK
  <2>4. \A i \in InviteIds : /\ relays'[i].status = relays[i].status
                             /\ relays'[i].call = relays[i].call
                             /\ relays[i].stop => relays'[i].stop
                             /\ i = senders[c] => relays'[i].stop
    BY <2>2, <2>3 DEF Relay
  <2> QED
    BY <1>1, <2>1, <2>2, <2>4 DEF TypeOK, NoCall
<1>2. CASE ~Live(c)
  BY <1>2 DEF cleanup_call, media, Live
<1> QED
  BY <1>1, <1>2

(* The invariant that makes a claim exclusive.                             *)
NumbersInv == TypeOK /\ NumbersFresh /\ NumbersUnclaimed /\ StartsOnce

(* A step that hands out no number, starts no relay and neither inserts a  *)
(* call nor sets its flag keeps it.                                        *)
LEMMA NumbersQuiet ==
  ASSUME NumbersInv, UNCHANGED nInvites,
         \A u \in Tasks :
           /\ task'[u].invite \in {task[u].invite, 0}
           /\ Admitting(u)' => Admitting(u) /\ task'[u].invite = task[u].invite
           /\ Starting(u)'  => Starting(u)  /\ task'[u].invite = task[u].invite,
         \A d \in CallIds :
           \/ calls'[d].invite = 0
           \/ /\ calls'[d].invite = calls[d].invite
              /\ calls'[d].relay_started = calls[d].relay_started,
         \A i \in InviteIds : (relays'[i].status = "unused") <=> (relays[i].status = "unused")
  PROVE  NumbersFresh' /\ NumbersUnclaimed' /\ StartsOnce'
<1>1. /\ \A u \in Tasks : task[u].invite \in 0..MaxInvites
      /\ \A d \in CallIds : calls[d].invite \in 0..MaxInvites
      /\ nInvites \in 0..MaxInvites
  BY DEF NumbersInv, TypeOK, Handler, CallInfo
<1>2. NumbersFresh'
  BY <1>1 DEF NumbersInv, NumbersFresh
<1>3. StartsOnce'
  BY <1>1, BoundAssumption DEF NumbersInv, StartsOnce, InviteIds, NumbersUnclaimed
<1>4. NumbersUnclaimed'
  BY <1>1, BoundAssumption DEF NumbersInv, NumbersUnclaimed, InviteIds, Live
<1> QED
  BY <1>2, <1>3, <1>4

LEMMA NumbersStep == NumbersInv /\ [Next]_vars => NumbersInv'
<1> SUFFICES ASSUME NumbersInv, [Next]_vars
             PROVE  NumbersFresh' /\ NumbersUnclaimed' /\ StartsOnce'
  BY TypeStep DEF NumbersInv
<1> TypeOK /\ TypeOK'
  BY TypeStep DEF NumbersInv
<1> /\ \A u \in Tasks : task[u] \in Handler /\ task[u].call \in CallIds
                                            /\ task[u].invite \in 0..MaxInvites
    /\ \A d \in CallIds : calls[d] \in CallInfo /\ calls[d].invite \in 0..MaxInvites
    /\ nInvites \in 0..MaxInvites /\ MaxInvites \in Nat
  BY BoundAssumption DEF TypeOK, Handler, CallInfo
<1>1. ASSUME NEW t \in Tasks, NEW c \in CallIds, InviteArrives(t, c)
      PROVE  NumbersFresh' /\ NumbersUnclaimed' /\ StartsOnce'
  <2> DEFINE k == nInvites + 1
  <2>1. /\ k \in InviteIds /\ nInvites' = k /\ relays' = relays /\ calls' = calls
        /\ task'[t].invite = k /\ task'[t].at \in {"purge", "admit"}
        /\ \A u \in Tasks \ {t} : task'[u] = task[u]
    BY <1>1 DEF InviteArrives, TypeOK, InviteIds, media, Idle
  <2>2. /\ \A u \in Tasks : task[u].invite # k
        /\ \A d \in CallIds : calls[d].invite # k
        /\ relays[k].status = "unused"
    BY <2>1 DEF NumbersInv, NumbersFresh
  <2>3. /\ ~Starting(t)'
        /\ \A u \in Tasks \ {t} : /\ Admitting(u)' <=> Admitting(u)
                                  /\ Starting(u)' <=> Starting(u)
    BY <2>1 DEF Admitting, Starting
  <2>4. NumbersFresh'
    BY <2>1 DEF NumbersInv, NumbersFresh, InviteIds
  <2>5. StartsOnce'
    BY <2>1, <2>3 DEF NumbersInv, StartsOnce
  <2>6. NumbersUnclaimed'
    BY <2>1, <2>2, <2>3 DEF NumbersInv, NumbersUnclaimed, Live
  <2> QED
    BY <2>4, <2>5, <2>6
<1>2. ASSUME NEW t \in Tasks, InviteInserts(t)
      PROVE  NumbersFresh' /\ NumbersUnclaimed' /\ StartsOnce'
  <2> DEFINE c == task[t].call
             k == task[t].invite
  <2>1. /\ nInvites' = nInvites /\ relays' = relays
        /\ calls'[c].invite = k
        /\ \A d \in CallIds \ {c} : calls'[d] = calls[d]
        /\ task'[t].invite = k /\ task'[t].at = "forward"
        /\ \A u \in Tasks \ {t} : task'[u] = task[u]
        /\ Admitting(t)
    BY <1>2 DEF InviteInserts, Goto, TypeOK, Handler, media, NoCall, Admitting
  <2>2. /\ k # 0 /\ k \in InviteIds /\ relays[k].status = "unused"
        /\ \A d \in CallIds : calls[d].invite # k
        /\ \A u \in Tasks \ {t} : Admitting(u) \/ Starting(u) => task[u].invite # k
    BY <2>1 DEF NumbersInv, NumbersUnclaimed, InviteIds
  <2>3. /\ ~Starting(t)' /\ ~Admitting(t)'
        /\ \A u \in Tasks \ {t} : /\ Admitting(u)' <=> Admitting(u)
                                  /\ Starting(u)' <=> Starting(u)
    BY <2>1 DEF Admitting, Starting
  <2>4. NumbersFresh'
    BY <2>1 DEF NumbersInv, NumbersFresh
  <2>5. StartsOnce'
    BY <2>1, <2>3 DEF NumbersInv, StartsOnce
  <2>6. NumbersUnclaimed'
    BY <2>1, <2>2, <2>3 DEF NumbersInv, NumbersUnclaimed, Live
  <2> QED
    BY <2>4, <2>5, <2>6
<1>3. ASSUME NEW t \in Tasks, ResponseClaimsRelay(t)
      PROVE  NumbersFresh' /\ NumbersUnclaimed' /\ StartsOnce'
  <2> DEFINE c == task[t].call
             k == calls[c].invite
  <2>1. /\ nInvites' = nInvites /\ relays' = relays
        /\ Live(c) /\ ~calls[c].relay_started
        /\ calls'[c].invite = k /\ calls'[c].relay_started
        /\ \A d \in CallIds \ {c} : calls'[d] = calls[d]
        /\ task'[t].invite = k /\ task'[t].at = "start"
        /\ \A u \in Tasks \ {t} : task'[u] = task[u]
    BY <1>3 DEF ResponseClaimsRelay, ShouldStart, TypeOK, CallInfo, Handler, media
  <2>2. /\ k \in InviteIds /\ relays[k].status = "unused"
        /\ \A d \in CallIds \ {c} : calls[d].invite # k
        /\ \A u \in Tasks : Admitting(u) \/ Starting(u) => task[u].invite # k
    BY <2>1 DEF NumbersInv, NumbersUnclaimed, InviteIds, Live
  <2>3. /\ Starting(t)' /\ ~Admitting(t)'
        /\ \A u \in Tasks \ {t} : /\ Admitting(u)' <=> Admitting(u)
                                  /\ Starting(u)' <=> Starting(u)
    BY <2>1 DEF Admitting, Starting
  <2>4. NumbersFresh'
    BY <2>1 DEF NumbersInv, NumbersFresh
  <2>5. StartsOnce'
    BY <2>1, <2>2, <2>3 DEF NumbersInv, StartsOnce
  <2>6. NumbersUnclaimed'
    BY <2>1, <2>2, <2>3 DEF NumbersInv, NumbersUnclaimed, Live
  <2> QED
    BY <2>4, <2>5, <2>6
<1>4. ASSUME NEW t \in Tasks, start_media_relay(t)
      PROVE  NumbersFresh' /\ NumbersUnclaimed' /\ StartsOnce'
  <2> DEFINE k == task[t].invite
  <2>1. /\ nInvites' = nInvites /\ calls' = calls
        /\ Starting(t) /\ task'[t].invite = 0 /\ task'[t].at = "idle"
        /\ \A u \in Tasks \ {t} : task'[u] = task[u]
    BY <1>4 DEF start_media_relay, Return, Starting, TypeOK, Idle
  <2>2. /\ k \in InviteIds
        /\ \A i \in InviteIds \ {k} : relays'[i].status = relays[i].status
    <3>1. k \in InviteIds
      BY <2>1 DEF NumbersInv, NumbersUnclaimed, InviteIds
    <3>2. ASSUME NEW i \in InviteIds \ {k} PROVE relays'[i].status = relays[i].status
      <4>1. CASE relays' = relays
        BY <4>1
      <4>2. ASSUME NEW new, relays' = [Signalled(senders[task[t].call]) EXCEPT ![k] = new]
            PROVE  relays'[i].status = relays[i].status
        BY <3>2, <4>2 DEF Signalled, TypeOK, Relay
      <4> QED
        BY <1>4, <4>1, <4>2 DEF start_media_relay, SpawnRelay
    <3> QED
      BY <3>1, <3>2
  <2>3. /\ ~Starting(t)' /\ ~Admitting(t)' /\ ~Admitting(t)
        /\ \A u \in Tasks \ {t} : /\ Admitting(u)' <=> Admitting(u)
                                  /\ Starting(u)' <=> Starting(u)
    BY <2>1 DEF Admitting, Starting
  <2>4. /\ \A u \in Tasks \ {t} : Admitting(u) \/ Starting(u) => task[u].invite # k
        /\ \A d \in CallIds : Live(d) /\ ~calls[d].relay_started => calls[d].invite # k
    BY <2>1, <2>3 DEF NumbersInv, NumbersUnclaimed, StartsOnce
  <2>5. NumbersFresh'
    BY <2>1, <2>2 DEF NumbersInv, NumbersFresh
  <2>6. StartsOnce'
    BY <2>1, <2>2, <2>3, <2>4, <1>4 DEF NumbersInv, StartsOnce, NumbersUnclaimed, InviteIds
  <2>7. NumbersUnclaimed'
    BY <2>1, <2>2, <2>3, <2>4 DEF NumbersInv, NumbersUnclaimed, Live, InviteIds
  <2> QED
    BY <2>5, <2>6, <2>7
<1>5. ASSUME NEW t \in Tasks, cleanup_call(task[t].call), UNCHANGED nInvites,
             Return(t) \/ (task[t].at = "purge" /\ Goto(t, "admit"))
      PROVE  NumbersFresh' /\ NumbersUnclaimed' /\ StartsOnce'
  <2> DEFINE c == task[t].call
  <2>1. /\ calls'[c].invite = 0
        /\ \A d \in CallIds \ {c} : calls'[d] = calls[d]
        /\ \A i \in InviteIds : relays'[i].status = relays[i].status
    BY <1>5, CleanupEffect
  <2>2. /\ \A u \in Tasks \ {t} : task'[u] = task[u]
        /\ \/ task'[t].at = "idle" /\ task'[t].invite = 0
           \/ /\ task[t].at = "purge" /\ task'[t].at = "admit"
              /\ task'[t].invite = task[t].invite
    BY <1>5 DEF TypeOK, Handler, Return, Goto, Idle
  <2>3. \A u \in Tasks :
          /\ task'[u].invite \in {task[u].invite, 0}
          /\ Admitting(u)' => Admitting(u) /\ task'[u].invite = task[u].invite
          /\ Starting(u)'  => Starting(u)  /\ task'[u].invite = task[u].invite
    BY <2>2 DEF Admitting, Starting
  <2>4. \A d \in CallIds :
          \/ calls'[d].invite = 0
          \/ /\ calls'[d].invite = calls[d].invite
             /\ calls'[d].relay_started = calls[d].relay_started
    BY <2>1
  <2> QED
    BY <1>5, <2>1, <2>3, <2>4, NumbersQuiet
<1>6. ASSUME NEW t \in Tasks, UNCHANGED <<calls, relays, nInvites>>,
             \/ Return(t)
             \/ InviteFindsSession(t) \/ InviteCreatesSession(t) \/ ResponseRekeyed(t)
      PROVE  NumbersFresh' /\ NumbersUnclaimed' /\ StartsOnce'
  <2>1. /\ \A u \in Tasks \ {t} : task'[u] = task[u]
        /\ \/ task'[t].at = "idle" /\ task'[t].invite = 0
           \/ /\ Admitting(t) \/ task'[t].at \in {"respond", "fault"}
              /\ task'[t].at \in {"insert", "allocate", "respond", "fault"}
              /\ task'[t].invite = task[t].invite
    <3>1. CASE Return(t)
      BY <3>1 DEF Return, Idle, TypeOK
    <3>2. CASE InviteFindsSession(t)
      <4>1. \E at \in {"insert", "allocate"} :
              task' = [task EXCEPT ![t] =
                         [task[t] EXCEPT !.at = at, !.lease = sessions[task[t].call]]]
        BY <3>2 DEF InviteFindsSession
      <4>2. Admitting(t)
        BY <3>2 DEF InviteFindsSession, Admitting
      <4> QED
        BY <4>1, <4>2 DEF TypeOK, Handler
    <3>3. CASE InviteCreatesSession(t)
      <4>1. task' = [task EXCEPT ![t] =
                       [task[t] EXCEPT !.at = "insert", !.lease = task[t].invite]]
        BY <3>3 DEF InviteCreatesSession
      <4>2. Admitting(t)
        BY <3>3 DEF InviteCreatesSession, Admitting
      <4> QED
        BY <4>1, <4>2 DEF TypeOK, Handler
    <3>4. CASE ResponseRekeyed(t)
      <4>1. \E at \in {"respond", "fault"} :
              task' = [task EXCEPT ![t] = [task[t] EXCEPT !.at = at]]
        BY <3>4 DEF ResponseRekeyed, Goto
      <4> QED
        BY <4>1 DEF TypeOK, Handler
    <3> QED
      BY <1>6, <3>1, <3>2, <3>3, <3>4
  <2>2. \A u \in Tasks :
          /\ task'[u].invite \in {task[u].invite, 0}
          /\ Admitting(u)' => Admitting(u) /\ task'[u].invite = task[u].invite
          /\ Starting(u)'  => Starting(u)  /\ task'[u].invite = task[u].invite
    BY <2>1 DEF Admitting, Starting
  <2> QED
    BY <1>6, <2>2, NumbersQuiet
<1>7. ASSUME NEW t \in Tasks, NEW c \in CallIds, task[t].at = "idle", UNCHANGED <<relays, nInvites>>,
             NEW call, NEW handler, handler.invite = 0,
             handler.at \in {"refuse", "rekey", "respond", "bye", "cancel"},
             call.invite = calls[c].invite, call.relay_started = calls[c].relay_started,
             calls' = [calls EXCEPT ![c] = call],
             task' = [task EXCEPT ![t] = handler]
      PROVE  NumbersFresh' /\ NumbersUnclaimed' /\ StartsOnce'
  <2>1. \A u \in Tasks :
          /\ task'[u].invite \in {task[u].invite, 0}
          /\ Admitting(u)' => Admitting(u) /\ task'[u].invite = task[u].invite
          /\ Starting(u)'  => Starting(u)  /\ task'[u].invite = task[u].invite
    BY <1>7 DEF Admitting, Starting, TypeOK
  <2>2. \A d \in CallIds : /\ calls'[d].invite = calls[d].invite
                           /\ calls'[d].relay_started = calls[d].relay_started
    BY <1>7 DEF TypeOK
  <2> QED
    BY <1>7, <2>1, <2>2, NumbersQuiet
<1>8. ASSUME NEW t \in Tasks, NEW c \in CallIds, NEW code \in Codes, NEW body \in Bodies,
             ResponseArrives(t, c, code, body)
      PROVE  NumbersFresh' /\ NumbersUnclaimed' /\ StartsOnce'
  <2> DEFINE call == Answered(calls[c], code, body)
             handler == [Idle EXCEPT !.at = AfterAnswer(call, code, body), !.call = c,
                                     !.code = code]
  <2>1. call.invite = calls[c].invite /\ call.relay_started = calls[c].relay_started
    BY DEF Answered, CallInfo, Codes, Bodies
  <2>2. /\ handler.at \in {"refuse", "rekey", "respond", "bye", "cancel"}
        /\ handler.invite = 0
    BY AfterAnswerIsAStep DEF Idle
  <2>3. /\ task[t].at = "idle" /\ UNCHANGED <<relays, nInvites>>
        /\ calls' = [calls EXCEPT ![c] = call]
        /\ task' = [task EXCEPT ![t] = handler]
    BY <1>8 DEF ResponseArrives, media
  <2> HIDE DEF call, handler
  <2> QED
    BY <1>7, <2>1, <2>2, <2>3
<1>9. ASSUME NEW t \in Tasks, NEW c \in CallIds, CancelArrives(t, c)
      PROVE  NumbersFresh' /\ NumbersUnclaimed' /\ StartsOnce'
  <2> DEFINE call == [calls[c] EXCEPT !.state = "Terminated"]
             handler == [Idle EXCEPT !.at = "cancel", !.call = c]
  <2>1. call.invite = calls[c].invite /\ call.relay_started = calls[c].relay_started
    BY DEF CallInfo
  <2>2. /\ task[t].at = "idle" /\ UNCHANGED <<relays, nInvites>>
        /\ calls' = [calls EXCEPT ![c] = call]
        /\ task' = [task EXCEPT ![t] = handler]
    BY <1>9 DEF CancelArrives, media
  <2>3. handler.at = "cancel" /\ handler.invite = 0
    BY DEF Idle
  <2> HIDE DEF call, handler
  <2> QED
    BY <1>7, <2>1, <2>2, <2>3
<1>10. ASSUME NEW t \in Tasks, NEW c \in CallIds, NEW by, NEW connected,
              ByeArrives(t, c, by, connected)
       PROVE  NumbersFresh' /\ NumbersUnclaimed' /\ StartsOnce'
  <2> DEFINE handler == [Idle EXCEPT !.at = "bye", !.call = c]
  <2>1. /\ task[t].at = "idle" /\ UNCHANGED <<calls, relays, nInvites>>
        /\ task' = [task EXCEPT ![t] = handler]
    BY <1>10 DEF ByeArrives, media
  <2>2. calls' = [calls EXCEPT ![c] = calls[c]]
    BY <2>1 DEF TypeOK
  <2>3. handler.at = "bye" /\ handler.invite = 0
    BY DEF Idle
  <2> HIDE DEF handler
  <2> QED
    BY <1>7, <2>1, <2>2, <2>3
<1>11. ASSUME NEW r \in InviteIds, RelayStep(r) \/ RelayBreaks(r)
       PROVE  NumbersFresh' /\ NumbersUnclaimed' /\ StartsOnce'
  <2>1. \A i \in InviteIds : (relays'[i].status = "unused") <=> (relays[i].status = "unused")
    BY <1>11 DEF RelayStep, RelayBinds, RelayStops, RelayBreaks, TypeOK, Relay
  <2>2. UNCHANGED <<calls, task, nInvites>>
    BY <1>11 DEF RelayStep, RelayBinds, RelayStops, RelayBreaks, Others
  <2> QED
    BY <2>1, <2>2, NumbersQuiet DEF Admitting, Starting
<1>12. CASE UNCHANGED vars
  BY <1>12, NumbersQuiet DEF vars, Admitting, Starting
<1>13. ASSUME NEW t \in Tasks, Arrival(t)
       PROVE  NumbersFresh' /\ NumbersUnclaimed' /\ StartsOnce'
  BY <1>1, <1>8, <1>9, <1>10, <1>13 DEF Arrival
<1>14. ASSUME NEW t \in Tasks, Continue(t)
       PROVE  NumbersFresh' /\ NumbersUnclaimed' /\ StartsOnce'
  <2>1. CASE InvitePurges(t) \/ InviteUndeliverable(t) \/ ResponseFails(t)
             \/ ResponseDeclines(t) \/ HangupDone(t)
    BY <1>5, <2>1 DEF InvitePurges, InviteUndeliverable, ResponseFails, ResponseDeclines,
                      HangupDone
  <2>2. CASE InviteRejected(t) \/ InviteFindsSession(t) \/ InviteCreatesSession(t)
             \/ InviteForwarded(t) \/ ResponseRekeyed(t) \/ ResponsePassed(t)
    BY <1>6, <2>2 DEF InviteRejected, InviteFindsSession, InviteCreatesSession,
                      InviteForwarded, ResponseRekeyed, ResponsePassed, media
  <2> QED
    BY <1>2, <1>3, <1>4, <1>14, <2>1, <2>2 DEF Continue
<1> QED
  BY <1>11, <1>12, <1>13, <1>14 DEF Next
------------------------------------------------------------------------------
(* A step that leaves relays and stop handles alone and at most makes one  *)
(* more call live.                                                         *)
Quiet ==
  /\ UNCHANGED <<senders, relays>>
  /\ \E c \in CallIds : /\ Live(c) => Live(c)'
                       /\ \A d \in CallIds \ {c} : Live(d)' <=> Live(d)

(* What a step can do to relays and stop handles: be quiet, end a call,    *)
(* start a relay, or be a relay's own.                                     *)
LEMMA MediaSteps ==
  ASSUME NumbersInv, [Next]_vars
  PROVE  \/ Quiet
         \/ \E c \in CallIds : cleanup_call(c)
         \/ \E t \in Tasks : start_media_relay(t)
         \/ \E r \in InviteIds : RelayStep(r) \/ RelayBreaks(r)
<1> TypeOK
  BY DEF NumbersInv
<1>1. ASSUME NEW t \in Tasks, Arrival(t) PROVE Quiet
  <2> PICK c \in CallIds :
        \/ InviteArrives(t, c)
        \/ \E code \in Codes, body \in Bodies : ResponseArrives(t, c, code, body)
        \/ \E by \in {"caller", "callee"}, connected \in BOOLEAN :
              ByeArrives(t, c, by, connected)
        \/ CancelArrives(t, c)
    BY <1>1 DEF Arrival
  <2>1. ASSUME NEW code \in Codes, NEW body \in Bodies, ResponseArrives(t, c, code, body)
        PROVE  Quiet
    <3> DEFINE call == Answered(calls[c], code, body)
    <3>1. call.invite = calls[c].invite
      BY AnsweredKeeps DEF TypeOK
    <3>2. calls' = [calls EXCEPT ![c] = call] /\ UNCHANGED <<senders, relays>>
      BY <2>1 DEF ResponseArrives, media
    <3> HIDE DEF call
    <3> QED
      BY <3>1, <3>2 DEF Quiet, Live, TypeOK
  <2>2. CASE CancelArrives(t, c)
    BY <2>2 DEF CancelArrives, Quiet, Live, media, TypeOK, CallInfo
  <2> QED
    BY <2>1, <2>2 DEF InviteArrives, ByeArrives, Quiet, Live, media
<1>2. ASSUME NEW t \in Tasks, Continue(t)
      PROVE  Quiet \/ cleanup_call(task[t].call) \/ start_media_relay(t)
  <2> task[t].call \in CallIds
    BY DEF TypeOK, Handler
  <2>1. CASE InviteInserts(t)
    <3>1. task[t].invite # 0
      BY <2>1 DEF NumbersInv, NumbersUnclaimed, Admitting, InviteInserts
    <3> QED
      BY <2>1, <3>1 DEF InviteInserts, Quiet, Live, NoCall, media, TypeOK
  <2>2. CASE ResponseClaimsRelay(t)
    BY <2>2 DEF ResponseClaimsRelay, Quiet, Live, media, TypeOK, CallInfo
  <2>3. CASE \/ InviteRejected(t) \/ InviteFindsSession(t) \/ InviteCreatesSession(t)
             \/ InviteForwarded(t) \/ ResponseRekeyed(t) \/ ResponsePassed(t)
    BY <2>3 DEF InviteRejected, InviteFindsSession, InviteCreatesSession, InviteForwarded,
                ResponseRekeyed, ResponsePassed, media, Live, Quiet
  <2> QED
    BY <1>2, <2>1, <2>2, <2>3 DEF Continue, InvitePurges, InviteUndeliverable, ResponseFails,
                                  ResponseDeclines, HangupDone
<1>3. ASSUME NEW t \in Tasks PROVE task[t].call \in CallIds
  BY DEF TypeOK, Handler
<1>4. UNCHANGED vars => Quiet
  BY CallIdsAssumption DEF vars, Live, Quiet
<1> QED
  BY <1>1, <1>2, <1>3, <1>4 DEF Next

LEMMA RelayStoppableStep ==
  ASSUME NumbersInv, RelayStoppable, [Next]_vars
  PROVE  RelayStoppable'
<1> TypeOK
  BY DEF NumbersInv
<1> \A i \in InviteIds : relays[i] \in Relay /\ relays[i].call \in CallIds /\ i # 0
  BY BoundAssumption DEF TypeOK, Relay, InviteIds
<1>1. CASE Quiet
  BY <1>1 DEF Quiet, RelayStoppable, Carrying
<1>2. ASSUME NEW c \in CallIds, cleanup_call(c) PROVE RelayStoppable'
  <2>1. CASE ~Live(c)
    BY <1>2, <2>1, CleanupEffect DEF RelayStoppable, Carrying, Live
  <2>2. CASE Live(c)
    <3>1. /\ \A d \in CallIds \ {c} : /\ Live(d)' <=> Live(d)
                                      /\ senders'[d] = senders[d]
          /\ senders'[c] = 0
      BY <1>2, <2>2, CleanupEffect DEF Live
    <3>2. \A i \in InviteIds : relays'[i].call = relays[i].call
                               /\ (Carrying(i)' => Carrying(i) /\ i # senders[c])
      BY <1>2, <2>2, CleanupEffect DEF Carrying
    <3> QED
      BY <3>1, <3>2 DEF RelayStoppable
  <2> QED
    BY <2>1, <2>2
<1>3. ASSUME NEW t \in Tasks, start_media_relay(t) PROVE RelayStoppable'
  <2> DEFINE c == task[t].call
             k == task[t].invite
  <2>1. CASE ~Live(c)
    BY <1>3, <2>1 DEF start_media_relay, RelayStoppable, Carrying, Live
  <2>2. CASE Live(c)
    <3>1. c \in CallIds /\ k \in InviteIds
      BY <1>3 DEF start_media_relay, TypeOK, Handler, NumbersInv, NumbersUnclaimed, Starting,
                  InviteIds
    <3>2. calls' = calls /\ senders' = [senders EXCEPT ![c] = k]
      BY <1>3, <2>2 DEF start_media_relay, register_shutdown
    <3> DEFINE new == [status |-> "spawned", call |-> c, invite |-> calls[c].invite,
                       lease |-> calls[c].lease,
                       keyed |-> calls[c].callee_remote_crypto, stop |-> FALSE]
    <3>3. relays' = [Signalled(senders[c]) EXCEPT ![k] = new]
      BY <1>3, <2>2 DEF start_media_relay, SpawnRelay
    <3>4. new.call = c
      OBVIOUS
    <3> HIDE DEF new
    <3>5. relays'[k].call = c
      BY <3>1, <3>3, <3>4 DEF Signalled
    <3>6. \A i \in InviteIds \ {k} : relays'[i].call = relays[i].call
                                     /\ (Carrying(i)' => Carrying(i) /\ i # senders[c])
      BY <3>3 DEF Signalled, Carrying, Relay
    <3> QED
      BY <2>2, <3>1, <3>2, <3>5, <3>6 DEF RelayStoppable, TypeOK, Live
  <2> QED
    BY <2>1, <2>2
<1>4. ASSUME NEW r \in InviteIds, RelayStep(r) \/ RelayBreaks(r) PROVE RelayStoppable'
  <2>1. UNCHANGED <<calls, senders>>
    BY <1>4 DEF RelayStep, RelayBinds, RelayStops, RelayBreaks, Others
  <2>2. \A i \in InviteIds : relays'[i].call = relays[i].call /\ (Carrying(i)' => Carrying(i))
    BY <1>4 DEF RelayStep, RelayBinds, RelayStops, RelayBreaks, TypeOK, Relay, Carrying
  <2> QED
    BY <2>1, <2>2 DEF RelayStoppable, Live
<1> QED
  BY <1>1, <1>2, <1>3, <1>4, MediaSteps

LEMMA HandlesOwnStep ==
  ASSUME NumbersInv, HandlesOwn, [Next]_vars
  PROVE  HandlesOwn'
<1> TypeOK
  BY DEF NumbersInv
<1> /\ \A i \in InviteIds : relays[i] \in Relay
    /\ \A c \in CallIds : senders[c] # 0 => senders[c] \in InviteIds
  BY BoundAssumption DEF TypeOK, InviteIds
<1>1. CASE Quiet
  BY <1>1 DEF Quiet, HandlesOwn
<1>2. ASSUME NEW c \in CallIds, cleanup_call(c) PROVE HandlesOwn'
  <2>1. /\ \A i \in InviteIds : relays'[i].status = relays[i].status
                                /\ relays'[i].call = relays[i].call
        /\ \A d \in CallIds : senders'[d] \in {senders[d], 0}
    BY <1>2, CleanupEffect
  <2> QED
    BY <2>1 DEF HandlesOwn
<1>3. ASSUME NEW t \in Tasks, start_media_relay(t) PROVE HandlesOwn'
  <2> PICK c \in CallIds, k \in InviteIds : c = task[t].call /\ k = task[t].invite
    BY <1>3 DEF start_media_relay, TypeOK, Handler, NumbersInv, NumbersUnclaimed, Starting,
                InviteIds
  <2>1. CASE ~Live(c)
    BY <1>3, <2>1 DEF start_media_relay, HandlesOwn
  <2>2. CASE Live(c)
    <3> DEFINE new == [status |-> "spawned", call |-> c, invite |-> calls[c].invite,
                       lease |-> calls[c].lease,
                       keyed |-> calls[c].callee_remote_crypto, stop |-> FALSE]
    <3>1. /\ senders' = [senders EXCEPT ![c] = k]
          /\ relays' = [Signalled(senders[c]) EXCEPT ![k] = new]
      BY <1>3, <2>2 DEF start_media_relay, register_shutdown, SpawnRelay
    <3>2. new.call = c /\ new.status = "spawned"
      OBVIOUS
    <3> HIDE DEF new
    <3>3. /\ relays'[k].call = c /\ relays'[k].status = "spawned"
          /\ \A i \in InviteIds \ {k} : /\ relays'[i].call = relays[i].call
                                        /\ relays'[i].status = relays[i].status
      BY <3>1, <3>2 DEF Signalled, Relay
    <3>4. relays[k].status = "unused"
      BY <1>3 DEF start_media_relay, NumbersInv, StartsOnce, Starting
    <3> QED
      BY <3>1, <3>3, <3>4 DEF HandlesOwn, TypeOK
  <2> QED
    BY <2>1, <2>2
<1>4. ASSUME NEW r \in InviteIds, RelayStep(r) \/ RelayBreaks(r) PROVE HandlesOwn'
  <2>1. UNCHANGED senders
    BY <1>4 DEF RelayStep, RelayBinds, RelayStops, RelayBreaks, Others
  <2>2. \A i \in InviteIds : /\ relays'[i].call = relays[i].call
                             /\ relays'[i].status = "unused" <=> relays[i].status = "unused"
    BY <1>4 DEF RelayStep, RelayBinds, RelayStops, RelayBreaks, TypeOK, Relay
  <2> QED
    BY <2>1, <2>2 DEF HandlesOwn
<1> QED
  BY <1>1, <1>2, <1>3, <1>4, MediaSteps
------------------------------------------------------------------------------
(* A task is about to insert a call under c.                               *)
Inserting(c) == \E t \in Tasks : task[t].at = "insert" /\ task[t].call = c

LEMMA SessionOwnedMeans ==
  SessionOwned <=> \A c \in CallIds : sessions[c] # 0 => Live(c) \/ Inserting(c)
  BY DEF SessionOwned, Inserting

(* The tasks that are about to insert a call keep their sessions owned.    *)
LEMMA SessionOwnedStep ==
  ASSUME NumbersInv, SessionOwned, [Next]_vars
  PROVE  SessionOwned'
<1> TypeOK
  BY DEF NumbersInv
<1> \A t \in Tasks : task[t] \in Handler /\ task[t].call \in CallIds
  BY DEF TypeOK, Handler
<1>1. ASSUME NEW t \in Tasks, task[t].at # "insert", NEW handler,
             task' = [task EXCEPT ![t] = handler]
      PROVE  \A c \in CallIds : Inserting(c) => Inserting(c)'
  BY <1>1 DEF TypeOK, Inserting
<1>2. ASSUME NEW t \in Tasks, Return(t)
      PROVE  task' = [task EXCEPT ![t] = Idle]
  BY <1>2 DEF Return
<1>3. ASSUME NEW t \in Tasks, NEW step, Goto(t, step)
      PROVE  task' = [task EXCEPT ![t] = [task[t] EXCEPT !.at = step]]
  BY <1>3 DEF Goto, TypeOK
<1>4. ASSUME \A c \in CallIds : Inserting(c) => Inserting(c)',
             UNCHANGED sessions, \A c \in CallIds : Live(c) => Live(c)'
      PROVE  SessionOwned'
  BY <1>4, SessionOwnedMeans DEF SessionOwned, Inserting
<1>5. ASSUME \A c \in CallIds : Inserting(c) => Inserting(c)',
             NEW c \in CallIds, cleanup_call(c)
      PROVE  SessionOwned'
  <2>1. CASE Live(c)
    BY <1>5, <2>1, CleanupEffect DEF SessionOwned, Inserting, Live
  <2>2. CASE ~Live(c)
    BY <1>4, <1>5, <2>2, CleanupEffect DEF Live
  <2> QED
    BY <2>1, <2>2
<1>6. ASSUME NEW t \in Tasks, Arrival(t) PROVE SessionOwned'
  <2>1. task[t].at # "insert"
    BY <1>6 DEF Arrival, InviteArrives, ResponseArrives, ByeArrives, CancelArrives
  <2>2. UNCHANGED sessions /\ \E handler : task' = [task EXCEPT ![t] = handler]
    BY <1>6 DEF Arrival, InviteArrives, ResponseArrives, ByeArrives, CancelArrives, media
  <2>3. \A c \in CallIds : Live(c) => Live(c)'
    <3>1. ASSUME NEW c \in CallIds, NEW code \in Codes, NEW body \in Bodies,
                 ResponseArrives(t, c, code, body)
          PROVE  \A d \in CallIds : Live(d) => Live(d)'
      <4> DEFINE call == Answered(calls[c], code, body)
      <4>1. call.invite = calls[c].invite
        BY AnsweredKeeps DEF TypeOK
      <4>2. calls' = [calls EXCEPT ![c] = call]
        BY <3>1 DEF ResponseArrives
      <4> HIDE DEF call
      <4> QED
        BY <4>1, <4>2 DEF Live, TypeOK
    <3>2. ASSUME NEW c \in CallIds, CancelArrives(t, c)
          PROVE  \A d \in CallIds : Live(d) => Live(d)'
      BY <3>2 DEF CancelArrives, Live, TypeOK, CallInfo
    <3> QED
      BY <1>6, <3>1, <3>2 DEF Arrival, InviteArrives, ByeArrives, Live
  <2> QED
    BY <1>1, <1>4, <2>1, <2>2, <2>3
<1>7. ASSUME NEW t \in Tasks, Continue(t) PROVE SessionOwned'
  <2>1. CASE \/ InvitePurges(t) \/ InviteUndeliverable(t) \/ ResponseFails(t)
             \/ ResponseDeclines(t) \/ HangupDone(t)
    <3>1. cleanup_call(task[t].call) /\ task[t].at # "insert"
      BY <2>1 DEF InvitePurges, InviteUndeliverable, ResponseFails, ResponseDeclines, HangupDone
    <3>2. Return(t) \/ Goto(t, "admit")
      BY <2>1 DEF InvitePurges, InviteUndeliverable, ResponseFails, ResponseDeclines, HangupDone
    <3> QED
      BY <1>1, <1>2, <1>3, <1>5, <3>1, <3>2
  <2>2. CASE \/ InviteRejected(t) \/ InviteForwarded(t) \/ ResponseRekeyed(t)
             \/ ResponsePassed(t) \/ InviteFindsSession(t)
    <3>1. UNCHANGED <<calls, sessions>> /\ task[t].at # "insert"
      BY <2>2 DEF InviteRejected, InviteForwarded, ResponseRekeyed, ResponsePassed,
                  InviteFindsSession, media
    <3>2. \E handler : task' = [task EXCEPT ![t] = handler]
      BY <1>2, <1>3, <2>2 DEF InviteRejected, InviteForwarded, ResponseRekeyed,
                              ResponsePassed, InviteFindsSession
    <3> QED
      BY <1>1, <1>4, <3>1, <3>2 DEF Live
  <2>3. CASE InviteCreatesSession(t)
    <3> PICK c \in CallIds : c = task[t].call
      OBVIOUS
    <3> DEFINE handler == [task[t] EXCEPT !.at = "insert", !.lease = task[t].invite]
    <3>1. /\ task[t].at # "insert" /\ UNCHANGED calls
          /\ task' = [task EXCEPT ![t] = handler]
          /\ sessions' = [sessions EXCEPT ![c] = task[t].invite]
      BY <2>3 DEF InviteCreatesSession
    <3>2. handler.at = "insert" /\ handler.call = c
      BY DEF Handler
    <3> HIDE DEF handler
    <3>3. Inserting(c)' /\ \A d \in CallIds : Inserting(d) => Inserting(d)'
      BY <1>1, <3>1, <3>2 DEF TypeOK, Inserting
    <3>4. UNCHANGED calls /\ \A d \in CallIds \ {c} : sessions'[d] = sessions[d]
      BY <3>1 DEF TypeOK
    <3>5. \A d \in CallIds : sessions[d] # 0 => Live(d) \/ Inserting(d)
      BY SessionOwnedMeans
    <3>6. \A d \in CallIds : sessions'[d] # 0 => Live(d)' \/ Inserting(d)'
      BY <3>3, <3>4, <3>5 DEF Live
    <3> QED
      BY <3>6 DEF SessionOwned, Inserting
  <2>4. CASE InviteInserts(t)
    <3> PICK c \in CallIds : c = task[t].call
      OBVIOUS
    <3>1. task[t].invite # 0
      BY <2>4 DEF NumbersInv, NumbersUnclaimed, Admitting, InviteInserts
    <3>2. UNCHANGED sessions /\ Live(c)' /\ \A d \in CallIds : Live(d) => Live(d)'
      BY <2>4, <3>1 DEF InviteInserts, Live, NoCall, media, TypeOK
    <3>3. \A u \in Tasks \ {t} : task'[u] = task[u]
      BY <2>4 DEF InviteInserts, Goto, TypeOK
    <3>4. \A d \in CallIds \ {c} : Inserting(d) => Inserting(d)'
      BY <3>3 DEF Inserting
    <3>5. \A d \in CallIds : sessions[d] # 0 => Live(d) \/ Inserting(d)
      BY SessionOwnedMeans
    <3>6. \A d \in CallIds : sessions'[d] # 0 => Live(d)' \/ Inserting(d)'
      BY <3>2, <3>4, <3>5
    <3> QED
      BY <3>6 DEF SessionOwned, Inserting
  <2>5. CASE ResponseClaimsRelay(t)
    <3>1. UNCHANGED sessions /\ task[t].at # "insert"
          /\ \A d \in CallIds : Live(d) => Live(d)'
      BY <2>5 DEF ResponseClaimsRelay, Live, media, TypeOK, CallInfo
    <3>2. \E handler : task' = [task EXCEPT ![t] = handler]
      BY <2>5 DEF ResponseClaimsRelay
    <3> QED
      BY <1>1, <1>4, <3>1, <3>2
  <2>6. CASE start_media_relay(t)
    BY <1>1, <1>2, <1>4, <2>6 DEF start_media_relay, Live
  <2> QED
    BY <1>7, <2>1, <2>2, <2>3, <2>4, <2>5, <2>6 DEF Continue
<1>8. ASSUME NEW r \in InviteIds, RelayStep(r) \/ RelayBreaks(r) PROVE SessionOwned'
  BY <1>4, <1>8 DEF Inserting, RelayStep, RelayBinds, RelayStops, RelayBreaks, Others, Live
<1>9. CASE UNCHANGED vars
  BY <1>4, <1>9 DEF vars, Live, Inserting
<1> QED
  BY <1>6, <1>7, <1>8, <1>9 DEF Next
------------------------------------------------------------------------------
(* The inductive invariant holds in every reachable state.                 *)
THEOREM Invariant == Spec => []IInv
<1>1. Init => IInv
  <2>1. Init => TypeOK
    BY NoCallType, IdleType, NoRelayType, BoundAssumption DEF Init, TypeOK
  <2> QED
    BY <2>1 DEF IInv, Init, RelayStoppable, HandlesOwn, SessionOwned, NumbersFresh,
                NumbersUnclaimed, StartsOnce, NoCall, NoRelay, Idle, Carrying, Live, Starting,
                Admitting, InviteIds
<1>2. IInv /\ [Next]_vars => IInv'
  BY NumbersStep, RelayStoppableStep, HandlesOwnStep, SessionOwnedStep DEF IInv, NumbersInv
<1> QED
  BY <1>1, <1>2, PTL DEF Spec

(* However the handlers and relay tasks interleave, a relay nobody told to *)
(* stop belongs to an active call that can stop it (start_media_relay      *)
(* looks up, registers and spawns under the lock cleanup_call takes).      *)
THEOREM NoOrphanRelay == Spec => []RelayStoppable
<1>1. IInv => RelayStoppable
  BY DEF IInv
<1> QED
  BY <1>1, Invariant, PTL

(* No path through handle_invite or cleanup_call leaks a media session.    *)
THEOREM NoLeakedSession == Spec => []SessionOwned
<1>1. IInv => SessionOwned
  BY DEF IInv
<1> QED
  BY <1>1, Invariant, PTL

(* The test-and-set of relay_started lets each call start one relay.       *)
THEOREM OneStartPerCall == Spec => []StartsOnce
<1>1. IInv => StartsOnce
  BY DEF IInv
<1> QED
  BY <1>1, Invariant, PTL
------------------------------------------------------------------------------
(* What a step does that neither inserts a call nor makes a session.       *)
Calm ==
  \A d \in CallIds :
    /\ Live(d)' => /\ Live(d) /\ sessions'[d] = sessions[d]
                   /\ calls'[d].invite = calls[d].invite
                   /\ calls'[d].lease = calls[d].lease
    /\ ~Live(d) => sessions'[d] = sessions[d]

(* A call that stays keeps its INVITE and its ports.                       *)
CallsKept ==
  \A d \in CallIds : Live(d) /\ Live(d)' =>
    calls'[d].invite = calls[d].invite /\ calls'[d].lease = calls[d].lease

LEMMA CalmKeeps ==
  ASSUME TypeOK, Calm, EntryClear, LiveCallHoldsPorts,
         \A u \in Tasks : task'[u] = task[u] \/ ~Admitting(u)'
  PROVE  EntryClear' /\ LiveCallHoldsPorts' /\ CallsKept
<1> \A u \in Tasks : task[u].call \in CallIds
  BY DEF TypeOK, Handler
<1>1. EntryClear'
  BY DEF Calm, EntryClear, EntryClearFor, Admitting
<1>2. LiveCallHoldsPorts' /\ CallsKept
  BY DEF Calm, LiveCallHoldsPorts, CallsKept
<1> QED
  BY <1>1, <1>2

LEMMA CleanupCalm ==
  ASSUME TypeOK, NEW c \in CallIds, cleanup_call(c)
  PROVE  Calm /\ ~Live(c)'
<1>1. ~Live(c)' /\ \A d \in CallIds \ {c} : calls'[d] = calls[d] /\ sessions'[d] = sessions[d]
  BY CleanupEffect DEF Live
<1>2. ~Live(c) => sessions'[c] = sessions[c]
  BY CleanupEffect
<1> QED
  BY <1>1, <1>2 DEF Calm, Live

(* Once an INVITE has found or made the entry of its Call-ID clear, only   *)
(* that INVITE fills it.                                                   *)
LEMMA PortsStep ==
  ASSUME OneInviter, NumbersInv, EntryClear, LiveCallHoldsPorts, [Next]_vars
  PROVE  EntryClear' /\ LiveCallHoldsPorts' /\ CallsKept
<1> TypeOK
  BY DEF NumbersInv
<1> \A t \in Tasks : task[t] \in Handler /\ task[t].call \in CallIds
  BY DEF TypeOK, Handler
<1>1. ASSUME NEW t \in Tasks, NEW h, task' = [task EXCEPT ![t] = h],
             h.at \notin {"purge", "admit", "allocate", "insert"}
      PROVE  \A u \in Tasks : task'[u] = task[u] \/ ~Admitting(u)'
  BY <1>1 DEF TypeOK, Admitting
<1>2. ASSUME UNCHANGED <<calls, sessions>> PROVE Calm
  BY <1>2 DEF Calm, Live
<1>3. Idle.at = "idle"
  BY DEF Idle
<1>4. ASSUME NEW t \in Tasks, Arrival(t) PROVE EntryClear' /\ LiveCallHoldsPorts' /\ CallsKept
  <2> PICK c \in CallIds :
        \/ InviteArrives(t, c)
        \/ \E code \in Codes, body \in Bodies : ResponseArrives(t, c, code, body)
        \/ \E by \in {"caller", "callee"}, connected \in BOOLEAN :
              ByeArrives(t, c, by, connected)
        \/ CancelArrives(t, c)
    BY <1>4 DEF Arrival
  <2>1. CASE InviteArrives(t, c)
    <3> DEFINE h == [Idle EXCEPT !.at = IF Live(c) THEN "purge" ELSE "admit",
                                 !.call = c, !.invite = nInvites + 1]
    <3>1. /\ h.at = IF Live(c) THEN "purge" ELSE "admit"
          /\ h.call = c /\ t \in InviteTasks[c]
          /\ task' = [task EXCEPT ![t] = h] /\ UNCHANGED <<calls, sessions>>
      BY <2>1, IdleType DEF InviteArrives, media, Handler
    <3> HIDE DEF h
    <3>2. EntryClearFor(t)'
      BY <3>1 DEF EntryClearFor, Admitting, Live, TypeOK
    <3>3. \A u \in Tasks \ {t} : EntryClearFor(u)'
      BY <3>1 DEF EntryClear, EntryClearFor, Admitting, Live, TypeOK
    <3> QED
      BY <3>1, <3>2, <3>3 DEF EntryClear, LiveCallHoldsPorts, CallsKept, Live
  <2>2. ASSUME NEW code \in Codes, NEW body \in Bodies, ResponseArrives(t, c, code, body)
        PROVE  EntryClear' /\ LiveCallHoldsPorts' /\ CallsKept
    <3> DEFINE call == Answered(calls[c], code, body)
               h == [Idle EXCEPT !.at = AfterAnswer(call, code, body), !.call = c, !.code = code]
    <3>1. call.invite = calls[c].invite /\ call.lease = calls[c].lease
      BY AnsweredKeeps DEF TypeOK
    <3>2. h.at \notin {"purge", "admit", "allocate", "insert"}
      BY AfterAnswerIsAStep, IdleType DEF Handler
    <3>3. /\ calls' = [calls EXCEPT ![c] = call] /\ UNCHANGED sessions
          /\ task' = [task EXCEPT ![t] = h]
      BY <2>2 DEF ResponseArrives, media
    <3> HIDE DEF call, h
    <3>4. Calm
      BY <3>1, <3>3 DEF Calm, Live, TypeOK
    <3> QED
      BY <1>1, <3>2, <3>3, <3>4, CalmKeeps
  <2>3. ASSUME NEW by, NEW connected, ByeArrives(t, c, by, connected)
        PROVE  EntryClear' /\ LiveCallHoldsPorts' /\ CallsKept
    <3> DEFINE h == [Idle EXCEPT !.at = "bye", !.call = c]
    <3>1. /\ h.at = "bye" /\ task' = [task EXCEPT ![t] = h] /\ UNCHANGED <<calls, sessions>>
      BY <2>3, IdleType DEF ByeArrives, media, Handler
    <3> HIDE DEF h
    <3> QED
      BY <1>1, <1>2, <3>1, CalmKeeps
  <2>4. CASE CancelArrives(t, c)
    <3> DEFINE h == [Idle EXCEPT !.at = "cancel", !.call = c]
               call == [calls[c] EXCEPT !.state = "Terminated"]
    <3>1. /\ h.at = "cancel" /\ task' = [task EXCEPT ![t] = h] /\ UNCHANGED sessions
          /\ calls' = [calls EXCEPT ![c] = call]
      BY <2>4, IdleType DEF CancelArrives, media, Handler
    <3>2. call.invite = calls[c].invite /\ call.lease = calls[c].lease
      BY DEF TypeOK, CallInfo
    <3> HIDE DEF h, call
    <3>3. Calm
      BY <3>1, <3>2 DEF Calm, Live, TypeOK
    <3> QED
      BY <1>1, <3>1, <3>3, CalmKeeps
  <2> QED
    BY <2>1, <2>2, <2>3, <2>4
<1>5. ASSUME NEW t \in Tasks, Return(t), Calm PROVE EntryClear' /\ LiveCallHoldsPorts' /\ CallsKept
  BY <1>1, <1>3, <1>5, CalmKeeps DEF Return
<1>6. ASSUME NEW t \in Tasks, NEW step, Goto(t, step), Calm,
             step \notin {"purge", "admit", "allocate", "insert"}
      PROVE  EntryClear' /\ LiveCallHoldsPorts' /\ CallsKept
  <2> DEFINE h == [task[t] EXCEPT !.at = step]
  <2>1. h.at = step /\ task' = [task EXCEPT ![t] = h]
    BY <1>6 DEF Goto, TypeOK, Handler
  <2> HIDE DEF h
  <2> QED
    BY <1>1, <1>6, <2>1, CalmKeeps
<1>7. ASSUME NEW t \in Tasks, Continue(t) PROVE EntryClear' /\ LiveCallHoldsPorts' /\ CallsKept
  <2> PICK c \in CallIds : c = task[t].call
    OBVIOUS
  <2>1. CASE InvitePurges(t)
    <3> DEFINE h == [task[t] EXCEPT !.at = "admit"]
    <3>1. /\ h.at = "admit" /\ h.call = c /\ task' = [task EXCEPT ![t] = h]
          /\ Admitting(t)
      BY <2>1 DEF InvitePurges, Goto, TypeOK, Handler, Admitting
    <3>2. Calm /\ ~Live(c)'
      BY <2>1, CleanupCalm DEF InvitePurges
    <3> HIDE DEF h
    <3>3. EntryClearFor(t)'
      BY <3>1, <3>2 DEF EntryClear, EntryClearFor, Admitting, TypeOK
    <3>4. \A u \in Tasks \ {t} : EntryClearFor(u)'
      BY <3>1, <3>2 DEF EntryClear, EntryClearFor, Admitting, TypeOK, Calm
    <3> QED
      BY <3>2, <3>3, <3>4 DEF EntryClear, LiveCallHoldsPorts, CallsKept, Calm
  <2>2. CASE \/ InviteUndeliverable(t) \/ ResponseFails(t) \/ ResponseDeclines(t)
             \/ HangupDone(t)
    BY <1>5, <2>2, CleanupCalm
    DEF InviteUndeliverable, ResponseFails, ResponseDeclines, HangupDone
  <2>3. CASE \/ InviteRejected(t) \/ InviteForwarded(t) \/ ResponsePassed(t)
             \/ start_media_relay(t)
    BY <1>2, <1>5, <2>3 DEF InviteRejected, InviteForwarded, ResponsePassed, start_media_relay, media
  <2>4. CASE ResponseRekeyed(t)
    BY <1>2, <1>6, <2>4 DEF ResponseRekeyed, media
  <2>5. CASE ResponseClaimsRelay(t)
    <3> DEFINE h == [task[t] EXCEPT !.at = "start", !.invite = calls[c].invite]
               call == [calls[c] EXCEPT !.relay_started = TRUE]
    <3>1. /\ h.at = "start" /\ task' = [task EXCEPT ![t] = h] /\ UNCHANGED sessions
          /\ calls' = [calls EXCEPT ![c] = call]
      BY <2>5 DEF ResponseClaimsRelay, media, Handler, TypeOK
    <3>2. call.invite = calls[c].invite /\ call.lease = calls[c].lease
      BY DEF TypeOK, CallInfo
    <3> HIDE DEF h, call
    <3>3. Calm
      BY <3>1, <3>2 DEF Calm, Live, TypeOK
    <3> QED
      BY <1>1, <3>1, <3>3, CalmKeeps
  <2>6. CASE InviteFindsSession(t)
    <3> DEFINE h == [task[t] EXCEPT !.at = IF sessions[c] # 0 THEN "insert" ELSE "allocate",
                                    !.lease = sessions[c]]
    <3>1. /\ h.at = IF sessions[c] # 0 THEN "insert" ELSE "allocate"
          /\ h.call = c /\ h.lease = sessions[c]
          /\ task' = [task EXCEPT ![t] = h] /\ UNCHANGED <<calls, sessions>>
          /\ Admitting(t) /\ task[t].at = "admit"
      BY <2>6 DEF InviteFindsSession, Handler, media, Admitting
    <3> HIDE DEF h
    <3>2. EntryClearFor(t)'
      BY <3>1 DEF EntryClear, EntryClearFor, Admitting, TypeOK, Live
    <3>3. \A u \in Tasks \ {t} : EntryClearFor(u)'
      BY <3>1 DEF EntryClear, EntryClearFor, Admitting, TypeOK, Live
    <3> QED
      BY <3>1, <3>2, <3>3 DEF EntryClear, LiveCallHoldsPorts, CallsKept, Live
  <2>7. CASE InviteCreatesSession(t)
    <3> DEFINE h == [task[t] EXCEPT !.at = "insert", !.lease = task[t].invite]
    <3>1. /\ h.at = "insert" /\ h.call = c /\ h.lease = task[t].invite
          /\ task' = [task EXCEPT ![t] = h] /\ UNCHANGED calls
          /\ sessions' = [sessions EXCEPT ![c] = task[t].invite]
          /\ Admitting(t) /\ task[t].at = "allocate"
      BY <2>7 DEF InviteCreatesSession, Handler, Admitting
    <3>2. task[t].invite # 0 /\ ~Live(c) /\ t \in InviteTasks[c]
      BY <3>1 DEF NumbersInv, NumbersUnclaimed, EntryClear, EntryClearFor
    <3> HIDE DEF h
    <3>3. EntryClearFor(t)'
      BY <3>1, <3>2 DEF EntryClear, EntryClearFor, Admitting, TypeOK, Live
    <3>4. \A u \in Tasks \ {t} : EntryClearFor(u)'
      <4> SUFFICES ASSUME NEW u \in Tasks \ {t} PROVE EntryClearFor(u)'
        OBVIOUS
      <4>1. task'[u] = task[u] /\ EntryClearFor(u)
        BY <3>1 DEF EntryClear
      <4>2. CASE task[u].call = c
        BY <3>1, <3>2, <4>1, <4>2 DEF EntryClearFor, OneInviter, Admitting
      <4>3. CASE task[u].call # c
        BY <3>1, <4>1, <4>3 DEF EntryClearFor, Admitting, Live, TypeOK
      <4> QED
        BY <4>2, <4>3
    <3>5. LiveCallHoldsPorts' /\ CallsKept
      BY <3>1, <3>2 DEF LiveCallHoldsPorts, CallsKept, Live, TypeOK
    <3> QED
      BY <3>3, <3>4, <3>5 DEF EntryClear
  <2>8. CASE InviteInserts(t)
    <3> DEFINE h == [task[t] EXCEPT !.at = "forward"]
               call == [NoCall EXCEPT !.invite = task[t].invite, !.lease = task[t].lease]
    <3>1. /\ h.at = "forward" /\ task' = [task EXCEPT ![t] = h]
          /\ calls' = [calls EXCEPT ![c] = call] /\ UNCHANGED sessions
          /\ call.lease = task[t].lease
          /\ Admitting(t) /\ task[t].at = "insert"
      BY <2>8, NoCallType DEF InviteInserts, Goto, Handler, Admitting, media, TypeOK, CallInfo
    <3>2. /\ ~Live(c) /\ t \in InviteTasks[c]
          /\ task[t].lease # 0 /\ sessions[c] = task[t].lease
      BY <3>1 DEF EntryClear, EntryClearFor
    <3> HIDE DEF h, call
    <3>3. EntryClearFor(t)'
      BY <3>1 DEF EntryClearFor, Admitting, TypeOK
    <3>4. \A u \in Tasks \ {t} : EntryClearFor(u)'
      <4> SUFFICES ASSUME NEW u \in Tasks \ {t} PROVE EntryClearFor(u)'
        OBVIOUS
      <4>1. task'[u] = task[u] /\ EntryClearFor(u)
        BY <3>1 DEF EntryClear
      <4>2. CASE task[u].call = c
        BY <3>1, <3>2, <4>1, <4>2 DEF EntryClearFor, OneInviter, Admitting
      <4>3. CASE task[u].call # c
        BY <3>1, <4>1, <4>3 DEF EntryClearFor, Admitting, Live, TypeOK
      <4> QED
        BY <4>2, <4>3
    <3>5. LiveCallHoldsPorts' /\ CallsKept
      BY <3>1, <3>2 DEF LiveCallHoldsPorts, CallsKept, Live, TypeOK
    <3> QED
      BY <3>3, <3>4, <3>5 DEF EntryClear
  <2> QED
    BY <1>7, <2>1, <2>2, <2>3, <2>4, <2>5, <2>6, <2>7, <2>8 DEF Continue
<1>8. ASSUME UNCHANGED <<calls, sessions, task>>
      PROVE  EntryClear' /\ LiveCallHoldsPorts' /\ CallsKept
  BY <1>2, <1>8, CalmKeeps
<1>9. \A r \in InviteIds : RelayStep(r) \/ RelayBreaks(r) => UNCHANGED <<calls, sessions, task>>
  BY DEF RelayStep, RelayBinds, RelayStops, RelayBreaks, Others
<1> QED
  BY <1>4, <1>7, <1>8, <1>9 DEF Next, vars

(* A relay keeps the INVITE and the ports it was started with, and its     *)
(* call keeps them as long as the relay is not told to stop.               *)
LEMMA RelayServesStep ==
  ASSUME NumbersInv, RelayStoppable, RelayStoppable', RelayServesCurrentCall, CallsKept,
         [Next]_vars
  PROVE  RelayServesCurrentCall'
<1> TypeOK
  BY DEF NumbersInv
<1> \A i \in InviteIds : relays[i] \in Relay /\ relays[i].call \in CallIds
  BY DEF TypeOK, Relay
<1> DEFINE Same(i) == /\ Carrying(i)' => Carrying(i)
                      /\ relays'[i].call = relays[i].call
                      /\ relays'[i].invite = relays[i].invite
                      /\ relays'[i].lease = relays[i].lease
           Serves(i) == Carrying(i) => /\ relays[i].invite = calls[relays[i].call].invite
                                       /\ relays[i].lease = calls[relays[i].call].lease
<1>1. ASSUME NEW i \in InviteIds, Same(i) PROVE Serves(i)'
  BY <1>1 DEF RelayServesCurrentCall, RelayStoppable, CallsKept
<1>2. CASE Quiet
  <2>1. \A i \in InviteIds : Same(i)
    BY <1>2 DEF Quiet, Carrying
  <2> QED
    BY <1>1, <2>1 DEF RelayServesCurrentCall
<1>3. ASSUME NEW c \in CallIds, cleanup_call(c) PROVE RelayServesCurrentCall'
  <2>1. relays' = relays \/ relays' = Signalled(senders[c])
    BY <1>3 DEF cleanup_call, remove_session, media
  <2>2. \A i \in InviteIds : Same(i)
    BY <2>1 DEF Signalled, Carrying, Relay
  <2> QED
    BY <1>1, <2>2 DEF RelayServesCurrentCall
<1>4. ASSUME NEW t \in Tasks, start_media_relay(t) PROVE RelayServesCurrentCall'
  <2> DEFINE c == task[t].call
             k == task[t].invite
             new == [status |-> "spawned", call |-> c, invite |-> calls[c].invite,
                     lease |-> calls[c].lease, keyed |-> calls[c].callee_remote_crypto,
                     stop |-> FALSE]
  <2>1. calls' = calls /\ (relays' = relays \/ relays' = [Signalled(senders[c]) EXCEPT ![k] = new])
    BY <1>4 DEF start_media_relay, SpawnRelay
  <2>2. new.call = c /\ new.invite = calls[c].invite /\ new.lease = calls[c].lease
    OBVIOUS
  <2> HIDE DEF new
  <2>3. ASSUME NEW i \in InviteIds, relays'[i] # new PROVE Serves(i)'
    <3>1. Same(i)
      BY <2>1, <2>3 DEF Signalled, Carrying, Relay
    <3> QED
      BY <1>1, <3>1
  <2>4. ASSUME NEW i \in InviteIds, relays'[i] = new PROVE Serves(i)'
    BY <2>1, <2>2, <2>4
  <2> QED
    BY <2>3, <2>4 DEF RelayServesCurrentCall
<1>5. ASSUME NEW r \in InviteIds, RelayStep(r) \/ RelayBreaks(r) PROVE RelayServesCurrentCall'
  <2>1. \A i \in InviteIds : Same(i)
    BY <1>5 DEF RelayStep, RelayBinds, RelayStops, RelayBreaks, Carrying, Relay, TypeOK
  <2> QED
    BY <1>1, <2>1 DEF RelayServesCurrentCall
<1> QED
  BY <1>2, <1>3, <1>4, <1>5, MediaSteps

(* With one connection for the INVITEs of a Call-ID, the invariant behind  *)
(* LiveCallHoldsPorts and RelayServesCurrentCall holds.                    *)
THEOREM PortsInvariant == OneInviter /\ Spec => []PortsIInv
<1> SUFFICES ASSUME OneInviter PROVE Spec => []PortsIInv
  OBVIOUS
<1>1. Init => EntryClear /\ LiveCallHoldsPorts /\ RelayServesCurrentCall
  BY DEF Init, EntryClear, EntryClearFor, Admitting, LiveCallHoldsPorts, Live, NoCall, Idle,
         RelayServesCurrentCall, Carrying, NoRelay
<1>2. IInv /\ IInv' /\ EntryClear /\ LiveCallHoldsPorts /\ RelayServesCurrentCall /\ [Next]_vars
        => (EntryClear /\ LiveCallHoldsPorts /\ RelayServesCurrentCall)'
  BY PortsStep, RelayServesStep DEF IInv, NumbersInv
<1> QED
  BY <1>1, <1>2, Invariant, PTL DEF Spec, PortsIInv

(* An active call holds the ports its relay uses: no cleanup of an earlier *)
(* call under the Call-ID takes them (router.rs:1052-1061).                *)
THEOREM PortsStay == OneInviter /\ Spec => []LiveCallHoldsPorts
<1>1. PortsIInv => LiveCallHoldsPorts
  BY DEF PortsIInv
<1> QED
  BY <1>1, PortsInvariant, PTL

(* The relay that carries media under a Call-ID is that of the call there. *)
THEOREM RelayIsCurrent == OneInviter /\ Spec => []RelayServesCurrentCall
<1>1. PortsIInv => RelayServesCurrentCall
  BY DEF PortsIInv
<1> QED
  BY <1>1, PortsInvariant, PTL
------------------------------------------------------------------------------
(* Every step of the router is a step of CallMedia, or none.               *)
Active == {c \in CallIds : Live(c)}
CarriersOf(c) == {i \in InviteIds : Carrying(i) /\ relays[i].call = c}
Carriers == [c \in CallIds |-> CarriersOf(c)]

LEMMA RefinedStep ==
  ASSUME IInv, [Next]_vars
  PROVE  [Promise!Next]_(Promise!vars)
<1> NumbersInv /\ TypeOK /\ RelayStoppable /\ HandlesOwn
  BY DEF IInv, NumbersInv
<1> /\ \A i \in InviteIds : relays[i] \in Relay /\ relays[i].call \in CallIds /\ i # 0
    /\ \A c \in CallIds : senders[c] # 0 => senders[c] \in InviteIds
  BY BoundAssumption DEF TypeOK, Relay, InviteIds
<1>1. CASE Quiet
  <2> PICK c \in CallIds : /\ Live(c) => Live(c)'
                           /\ \A d \in CallIds \ {c} : Live(d)' <=> Live(d)
    BY <1>1 DEF Quiet
  <2>1. Carriers' = Carriers
    BY <1>1 DEF Quiet, Carriers, CarriersOf, Carrying
  <2>2. Active' = Active \/ Active' = Active \cup {c}
    BY DEF Active
  <2> QED
    BY <2>1, <2>2 DEF Promise!Next, Promise!Begin, Promise!vars, Active, Carriers, CarriersOf
<1>2. ASSUME NEW c \in CallIds, cleanup_call(c)
      PROVE  [Promise!Next]_(Promise!vars)
  <2>1. CASE ~Live(c)
    <3>1. UNCHANGED <<calls, relays>>
      BY <1>2, <2>1, CleanupEffect
    <3> QED
      BY <3>1 DEF Promise!vars, Live, Carrying
  <2>2. CASE Live(c)
    <3>1. Active' = Active \ {c}
      BY <1>2, CleanupEffect DEF Active, Live
    <3>2. \A i \in InviteIds :
            /\ relays'[i].call = relays[i].call
            /\ Carrying(i)' <=> (Carrying(i) /\ i # senders[c])
      BY <1>2, <2>2, CleanupEffect DEF Carrying
    <3>3. \A i \in InviteIds : Carrying(i) => (relays[i].call = c <=> i = senders[c])
      BY DEF RelayStoppable, HandlesOwn
    <3>4. Carriers' = [Carriers EXCEPT ![c] = {}]
      <4>1. CarriersOf(c)' = {}
        BY <3>2, <3>3 DEF CarriersOf
      <4>2. \A d \in CallIds \ {c} : CarriersOf(d)' = CarriersOf(d)
        BY <3>2, <3>3 DEF CarriersOf
      <4> QED
        BY <4>1, <4>2 DEF Carriers
    <3> QED
      BY <3>1, <3>4 DEF Promise!Next, Promise!End, Promise!vars, Active, Carriers, CarriersOf
  <2> QED
    BY <2>1, <2>2
<1>3. ASSUME NEW t \in Tasks, start_media_relay(t)
      PROVE  [Promise!Next]_(Promise!vars)
  <2> PICK c \in CallIds, k \in InviteIds : c = task[t].call /\ k = task[t].invite
    BY <1>3 DEF start_media_relay, TypeOK, Handler, NumbersInv, NumbersUnclaimed, Starting,
                InviteIds
  <2>1. UNCHANGED calls
    BY <1>3 DEF start_media_relay
  <2>2. CASE ~Live(c)
    BY <1>3, <2>1, <2>2 DEF start_media_relay, Promise!vars, Live, Carrying
  <2>3. CASE Live(c)
    <3> DEFINE new == [status |-> "spawned", call |-> c, invite |-> calls[c].invite,
                       lease |-> calls[c].lease,
                       keyed |-> calls[c].callee_remote_crypto, stop |-> FALSE]
    <3>1. relays' = [Signalled(senders[c]) EXCEPT ![k] = new]
      BY <1>3, <2>3 DEF start_media_relay, SpawnRelay
    <3>2. new.call = c /\ new.status = "spawned" /\ ~new.stop
      OBVIOUS
    <3> HIDE DEF new
    <3>3. /\ Carrying(k)' /\ relays'[k].call = c
          /\ \A i \in InviteIds \ {k} :
                relays'[i].call = relays[i].call
                /\ (Carrying(i)' <=> (Carrying(i) /\ i # senders[c]))
      BY <3>1, <3>2 DEF Signalled, Carrying, Relay
    <3>4. /\ \A i \in InviteIds : Carrying(i) => (relays[i].call = c <=> i = senders[c])
          /\ ~Carrying(k)
      <4>1. relays[k].status = "unused"
        BY <1>3 DEF start_media_relay, NumbersInv, StartsOnce, Starting
      <4> QED
        BY <4>1 DEF RelayStoppable, HandlesOwn, Carrying
    <3>5. Carriers' = [Carriers EXCEPT ![c] = {k}]
      <4>1. CarriersOf(c)' = {k}
        BY <3>3, <3>4 DEF CarriersOf
      <4>2. \A d \in CallIds \ {c} : CarriersOf(d)' = CarriersOf(d)
        BY <3>3, <3>4 DEF CarriersOf
      <4> QED
        BY <4>1, <4>2 DEF Carriers
    <3>6. Active' = Active /\ c \in Active
      BY <2>1, <2>3 DEF Active, Live
    <3> QED
      BY <3>5, <3>6 DEF Promise!Next, Promise!Carry, Promise!vars, Active, Carriers, CarriersOf
  <2> QED
    BY <2>2, <2>3
<1>4. ASSUME NEW r \in InviteIds, RelayStep(r) \/ RelayBreaks(r)
      PROVE  [Promise!Next]_(Promise!vars)
  <2> PICK c \in CallIds : c = relays[r].call
    OBVIOUS
  <2>1. Active' = Active
    BY <1>4 DEF RelayStep, RelayBinds, RelayStops, RelayBreaks, Others, Active, Live
  <2>2. /\ \A i \in InviteIds : relays'[i].call = relays[i].call
        /\ \A i \in InviteIds \ {r} : Carrying(i)' <=> Carrying(i)
        /\ Carrying(r)' => Carrying(r)
    BY <1>4 DEF RelayStep, RelayBinds, RelayStops, RelayBreaks, Relay, Carrying, TypeOK
  <2>3. CASE Carrying(r)' <=> Carrying(r)
    <3>1. Carriers' = Carriers
      BY <2>2, <2>3 DEF Carriers, CarriersOf
    <3> QED
      BY <2>1, <3>1 DEF Promise!vars, Active, Carriers, CarriersOf
  <2>4. CASE Carrying(r) /\ ~Carrying(r)'
    <3>1. \A i \in InviteIds : Carrying(i) /\ relays[i].call = c => i = r
      BY <2>4 DEF RelayStoppable
    <3>2. Carriers' = [Carriers EXCEPT ![c] = {}]
      BY <2>2, <2>4, <3>1 DEF Carriers, CarriersOf
    <3> QED
      BY <2>1, <3>2 DEF Promise!Next, Promise!Fade, Promise!vars, Active, Carriers, CarriersOf
  <2> QED
    BY <2>2, <2>3, <2>4
<1> QED
  BY <1>1, <1>2, <1>3, <1>4, MediaSteps

(* The handlers, with every lock section and await, implement CallMedia:   *)
(* media flows for active calls only, by one relay per call, and the step  *)
(* that ends a call withdraws its relay.                                   *)
THEOREM Implements == Spec => KeepsPromise
<1>1. Init => Promise!Init
  BY DEF Init, Promise!Init, Live, NoCall, NoRelay, Carrying
<1>2. IInv /\ [Next]_vars => [Promise!Next]_(Promise!vars)
  BY RefinedStep
<1> QED
  BY <1>1, <1>2, Invariant, PTL DEF Spec, KeepsPromise, Promise!Spec
==============================================================================
