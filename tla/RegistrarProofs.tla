---------------------------- MODULE RegistrarProofs ----------------------------
(***************************************************************************)
(* Proofs about Registrar, for any phones, addresses, limits and number of *)
(* requests, repeats and restarts.  The invariant is taken apart by the    *)
(* tables it is about, and each part goes through the actions once.        *)
(***************************************************************************)
EXTENDS Registrar, FiniteSetTheorems, TLAPS

Requests ==
  /\ request \in [Handlers -> Busy \cup {NotBusy}]
  /\ HandlersRight

Nonces ==
  /\ nNonces \in Nat
  /\ DOMAIN issued_nonces \subseteq 1..nNonces
  /\ Cardinality(DOMAIN issued_nonces) <= MaxNonces
  /\ \A n \in DOMAIN issued_nonces :
       issued_nonces[n] \in [issued_at: Times, ip: Ips, max_nc: NonceCounts]
  /\ NonceOnce /\ CountsKept

Failures ==
  /\ failed_ips \in [Ips -> [count: 0..(MaxFailures - 1), window_start: Times]]
  /\ Cardinality(Counted(failed_ips)) <= MaxFailedIps
  /\ strikes \in [Ips -> Seq(Times)]
  /\ StrikesCounted

Blocks ==
  /\ blocked_ips \subseteq Ips /\ Cardinality(blocked_ips) <= MaxBlockedIps
  /\ guilty \subseteq Ips
  /\ BlockEarned

Phones ==
  /\ phone \in [Extensions -> [nonce: 0..nNonces, nc: NonceCounts, known: BOOLEAN]]
  /\ wire \subseteq [ext: Extensions, ip: Ips, nonce: 0..nNonces, nc: NonceCounts,
                     verdict: {"refused", "wrong", "right"}, expires: {0, Expires}]
  /\ nRequests \in 0..MaxRequests /\ nFaults \in 0..MaxFaults
  /\ nRestarts \in 0..MaxRestarts

Clocks ==
  /\ now \in Times
  /\ registrations \in [Extensions -> [expires_at: 0..(MaxTime + Expires)]]
  /\ cleaner \in [at: {"asleep", "registrations", "nonces"}, now: Times]
  /\ cleaner.now <= now

LEMMA Parts ==
  IInv <=> Requests /\ Nonces /\ Failures /\ Blocks /\ Phones /\ Clocks
  BY DEF IInv, TypeOK, Requests, Nonces, Failures, Blocks, Phones, Clocks

LEMMA Limits ==
  /\ MaxFailures \in Nat \ {0} /\ WindowSecs \in Nat \ {0}
  /\ MaxFailedIps \in Nat \ {0} /\ MaxBlockedIps \in Nat \ {0}
  /\ NonceTtl \in Nat \ {0} /\ MaxNonces \in Nat \ {0} /\ Expires \in Nat \ {0}
  /\ MaxRequests \in Nat /\ MaxFaults \in Nat /\ MaxRestarts \in Nat /\ MaxTime \in Nat
  BY LimitsAssumption

LEMMA InitInv == Init => IInv
<1> SUFFICES ASSUME Init PROVE IInv
  OBVIOUS
<1>1. Requests
  BY DEF Init, Requests, HandlersRight, NotBusy
<1>2. Nonces
  BY Limits, FS_EmptySet DEF Init, Nonces, NonceOnce, CountsKept
<1>3. Failures
  <2>1. Counted(failed_ips) = {}
    BY DEF Init, Counted, NoFailures
  <2>2. Cardinality(Counted(failed_ips)) <= MaxFailedIps
    BY <2>1, Limits, FS_EmptySet
  <2>3. strikes \in [Ips -> Seq(Times)] /\ \A i \in Ips : Len(strikes[i]) = 0
    BY DEF Init
  <2>7. now = 0 /\ \A i \in Ips : failed_ips[i].window_start = 0
    BY DEF Init, NoFailures
  <2>4. failed_ips \in [Ips -> [count: 0..(MaxFailures - 1), window_start: Times]]
    BY Limits DEF Init, NoFailures, Times
  <2>5. \A i \in Ips : failed_ips[i].count = 0
    BY DEF Init, NoFailures
  <2>6. StrikesCounted
    BY <2>3, <2>5, <2>7 DEF StrikesCounted, CountFits
  <2> QED
    BY <2>2, <2>3, <2>4, <2>6 DEF Failures
<1>4. Blocks
  BY Limits, FS_EmptySet DEF Init, Blocks, BlockEarned
<1>5. Phones
  BY Limits DEF Init, Phones, NonceCounts
<1>6. Clocks
  BY Limits DEF Init, Clocks, Times, NotRegistered, Sleeping
<1> QED
  BY <1>1, <1>2, <1>3, <1>4, <1>5, <1>6, Parts
------------------------------------------------------------------------------
(* Numbers only grow.                                                      *)
LEMMA Grows ==
  ASSUME IInv, [Next]_vars
  PROVE  /\ nNonces \in Nat /\ nNonces' \in {nNonces, nNonces + 1}
         /\ nRequests \in 0..MaxRequests /\ nRequests' \in {nRequests, nRequests + 1}
<1>1. nNonces \in Nat /\ nRequests \in 0..MaxRequests
  BY DEF IInv, TypeOK
<1>2. ASSUME NEW h \in Handlers, HandlerStep(h)
      PROVE  nNonces' \in {nNonces, nNonces + 1} /\ nRequests' = nRequests
  BY <1>2 DEF HandlerStep, bounds, InviteChecked, NonceUnknown, NonceExpired, NonceReplayed,
     NonceAccepted, Challenge, RecordFailure, Block, ClearFailures, Register
<1>3. ASSUME NEW h \in Handlers, NEW e \in Extensions,
             RegisterArrives(h, e) \/ InviteArrives(h, e) \/ RegisterRepeated(h)
      PROVE  nNonces' = nNonces /\ nRequests' \in {nRequests, nRequests + 1}
  BY <1>3 DEF RegisterArrives, InviteArrives, RegisterRepeated
<1>4. ASSUME NEW h \in Handlers, RegisterRepeated(h)
      PROVE  nNonces' = nNonces /\ nRequests' = nRequests
  BY <1>4 DEF RegisterRepeated
<1>5. ASSUME Cleanup \/ Restart \/ Tick \/ UNCHANGED vars
      PROVE  nNonces' = nNonces /\ nRequests' = nRequests
  <2>1. ASSUME CleanupWakes PROVE nNonces' = nNonces /\ nRequests' = nRequests
    BY <2>1 DEF bounds, CleanupWakes
  <2>2. ASSUME CleanupRegistrations PROVE nNonces' = nNonces /\ nRequests' = nRequests
    BY <2>2 DEF bounds, CleanupRegistrations
  <2>3. ASSUME CleanupNonces PROVE nNonces' = nNonces /\ nRequests' = nRequests
    BY <2>3 DEF bounds, CleanupNonces
  <2>4. ASSUME Restart \/ Tick \/ UNCHANGED vars
        PROVE  nNonces' = nNonces /\ nRequests' = nRequests
    BY <2>4 DEF vars, bounds, Restart, Tick
  <2> QED
    BY <1>5, <2>1, <2>2, <2>3, <2>4 DEF Cleanup
<1> QED
  BY <1>1, <1>2, <1>3, <1>4, <1>5 DEF Next

(* A handler that goes on with a request, or has answered it.              *)
LEMMA RequestMoves ==
  ASSUME IInv, [Next]_vars, NEW h \in Handlers, NEW r \in Busy' \cup {NotBusy},
         request' = [request EXCEPT ![h] = r],
         guilty \subseteq guilty',
         r.at = "block" => r.ip \in guilty',
         r.at \in {"clear", "register"} => r.verdict = "right"
  PROVE  Requests'
<1>1. Busy \subseteq Busy'
  <2>1. 0..nNonces \subseteq 0..nNonces' /\ 0..nRequests \subseteq 0..nRequests'
    BY Grows
  <2> QED
    BY <2>1 DEF Busy, NonceCounts
<1>2. request' \in [Handlers -> Busy' \cup {NotBusy}]
  BY <1>1 DEF IInv, TypeOK
<1>3. HandlersRight'
  BY DEF HandlersRight, IInv, TypeOK
<1> QED
  BY <1>2, <1>3 DEF Requests

(* A task that is somewhere has a request in hand.                         *)
LEMMA InHand ==
  ASSUME IInv, NEW h \in Handlers, request[h].at # "idle"
  PROVE  request[h] \in Busy
  BY DEF IInv, TypeOK, NotBusy

(* It goes on.                                                             *)
LEMMA RequestStep ==
  ASSUME IInv, [Next]_vars, NEW h \in Handlers, request[h].at # "idle",
         NEW at \in {"challenge", "block", "clear", "register"}, Step(h, at),
         guilty \subseteq guilty',
         at = "block" => request[h].ip \in guilty',
         at \in {"clear", "register"} => request[h].verdict = "right"
  PROVE  Requests'
<1> DEFINE r == [request[h] EXCEPT !.at = at]
<1>1. request[h] \in Busy
  BY InHand
<1>2. request[h] \in Busy' /\ r \in Busy'
  <2>1. 0..nNonces \subseteq 0..nNonces' /\ 0..nRequests \subseteq 0..nRequests'
    BY Grows
  <2>2. request[h] \in Busy'
    BY <1>1, <2>1 DEF Busy, NonceCounts
  <2> QED
    BY <2>2 DEF Busy
<1>3. request' = [request EXCEPT ![h] = r]
  BY DEF Step
<1>4. r.at = at /\ r.ip = request[h].ip /\ r.verdict = request[h].verdict
  BY <1>1 DEF Busy
<1> HIDE DEF r
<1> QED
  BY <1>2, <1>3, <1>4, RequestMoves

(* It has failed.                                                          *)
LEMMA RequestFails ==
  ASSUME IInv, [Next]_vars, NEW h \in Handlers, request[h].at # "idle",
         NEW then \in {"reject", "challenge"}, Fails(h, then), guilty \subseteq guilty'
  PROVE  Requests'
<1> DEFINE r == [request[h] EXCEPT !.at = "failure", !.then = then]
<1>1. request[h] \in Busy
  BY InHand
<1>2. r \in Busy'
  <2>1. 0..nNonces \subseteq 0..nNonces' /\ 0..nRequests \subseteq 0..nRequests'
    BY Grows
  <2>2. request[h] \in Busy'
    BY <1>1, <2>1 DEF Busy, NonceCounts
  <2> QED
    BY <2>2 DEF Busy
<1>3. request' = [request EXCEPT ![h] = r]
  BY DEF Fails
<1>4. r.at = "failure"
  BY <1>1 DEF Busy
<1> HIDE DEF r
<1> QED
  BY <1>2, <1>3, <1>4, RequestMoves

(* It is answered.                                                         *)
LEMMA RequestAnswered ==
  ASSUME IInv, [Next]_vars, NEW h \in Handlers, Answered(h), guilty \subseteq guilty'
  PROVE  Requests'
<1>1. NotBusy.at = "idle"
  BY DEF NotBusy
<1> QED
  BY <1>1, RequestMoves DEF Answered

(* It begins.                                                              *)
LEMMA RequestBegins ==
  ASSUME IInv, [Next]_vars, NEW h \in Handlers, guilty' = guilty,
         NEW ext \in Extensions, NEW ip \in Ips, NEW n \in 0..nNonces, NEW nc \in 0..nRequests',
         NEW verdict \in {"refused", "wrong", "right", "call"}, NEW expires \in {0, Expires},
         NEW r, Handle(h, r), r.ext = ext, r.ip = ip, r.nonce = n, r.nc = nc,
         r.verdict = verdict, r.expires = expires
  PROVE  Requests'
<1> DEFINE at == CASE verdict = "refused" -> "failure"
                   [] verdict = "call" -> "invite"
                   [] OTHER -> IF n = 0 THEN "challenge" ELSE "nonce"
<1> DEFINE q == [ext |-> ext, ip |-> ip, nonce |-> n, nc |-> nc, verdict |-> verdict,
                 expires |-> expires, then |-> "reject", at |-> at]
<1>1. at \in {"failure", "invite", "challenge", "nonce"}
  OBVIOUS
<1>2. request' = [request EXCEPT ![h] = IF ip \in blocked_ips THEN NotBusy ELSE q]
  BY DEF Handle
<1> HIDE DEF at
<1>3. q \in Busy'
  <2>1. n \in 0..nNonces'
    BY Grows
  <2> QED
    BY <1>1, <2>1 DEF Busy, NonceCounts
<1>4. q.at = at
  OBVIOUS
<1> HIDE DEF q
<1>5. CASE ip \in blocked_ips
  BY <1>2, <1>5, RequestAnswered DEF Answered
<1>6. CASE ip \notin blocked_ips
  BY <1>1, <1>2, <1>3, <1>4, <1>6, RequestMoves
<1> QED
  BY <1>5, <1>6

------------------------------------------------------------------------------
(* A count of failures.                                                    *)
EntryType == [count: 0..(MaxFailures - 1), window_start: Times]

(* Pruning keeps an entry or drops it, and leaves room for one more.       *)
LEMMA PrunedFacts ==
  ASSUME Failures
  PROVE  /\ Pruned(failed_ips) \in [Ips -> EntryType]
         /\ \A i \in Ips : Pruned(failed_ips)[i] \in {failed_ips[i], NoFailures}
         /\ Cardinality(Counted(Pruned(failed_ips))) < MaxFailedIps
<1> DEFINE kept == {i \in Counted(failed_ips) : InWindow(failed_ips[i])}
           left == IF Cardinality(kept) < MaxFailedIps THEN kept ELSE {}
           cut == [i \in Ips |-> IF i \in left THEN failed_ips[i] ELSE NoFailures]
<1>1. CASE Cardinality(Counted(failed_ips)) < MaxFailedIps
  BY <1>1 DEF Pruned, Failures, EntryType
<1>2. CASE ~(Cardinality(Counted(failed_ips)) < MaxFailedIps)
  <2>1. Pruned(failed_ips) = cut
    BY <1>2 DEF Pruned
  <2>2. left \subseteq Counted(failed_ips) /\ Cardinality(left) < MaxFailedIps
    BY Limits, FS_EmptySet
  <2> HIDE DEF left
  <2>3. NoFailures \in EntryType /\ NoFailures.count = 0
    BY Limits DEF NoFailures, EntryType, Times
  <2>4. cut \in [Ips -> EntryType] /\ \A i \in Ips : cut[i] \in {failed_ips[i], NoFailures}
    BY <2>3 DEF Failures, EntryType
  <2>5. Counted(cut) = left
    BY <2>2, <2>3 DEF Counted
  <2> QED
    BY <2>1, <2>2, <2>4, <2>5
<1> QED
  BY <1>1, <1>2

(* The entry a failure is added to.                                        *)
LEMMA EntryFacts ==
  ASSUME Failures, now \in Times, NEW i \in Ips, NEW e, e = Entry(Pruned(failed_ips), i)
  PROVE  /\ e \in EntryType /\ CountFits(e, strikes[i])
         /\ now - e.window_start < WindowSecs
<1> DEFINE old == Pruned(failed_ips)[i]
<1>1. old \in EntryType /\ old \in {failed_ips[i], NoFailures}
  BY PrunedFacts
<1>2. strikes[i] \in Seq(Times) /\ Len(strikes[i]) \in Nat
  BY DEF Failures
<1>3. now \in Nat /\ now \in 0..MaxTime
  BY Limits DEF Times
<1>4. CASE old.count > 0 /\ InWindow(old)
  <2>1. e = old
    BY <1>4 DEF Entry
  <2>2. old = failed_ips[i]
    BY <1>1, <1>4 DEF NoFailures
  <2> QED
    BY <1>1, <1>4, <2>1, <2>2 DEF InWindow, Failures, StrikesCounted
<1>5. CASE ~(old.count > 0 /\ InWindow(old))
  <2>1. e = [count |-> 0, window_start |-> now]
    BY <1>5 DEF Entry
  <2>2. e \in EntryType
    BY <2>1, Limits DEF EntryType
  <2>3. e.count = 0 /\ e.window_start = now
    BY <2>1
  <2>4. CountFits(e, strikes[i])
    BY <1>2, <1>3, <2>3 DEF CountFits
  <2> QED
    BY <1>3, <2>2, <2>3, <2>4, Limits
<1> QED
  BY <1>4, <1>5

(* A strike fits the count it adds to, and the one that reaches the        *)
(* threshold makes the address guilty.                                     *)
LEMMA StrikeFits ==
  ASSUME now \in Times, NEW e \in EntryType, NEW times \in Seq(Times), CountFits(e, times),
         now - e.window_start < WindowSecs
  PROVE  /\ CountFits([e EXCEPT !.count = e.count + 1], Append(times, now))
         /\ e.count + 1 >= MaxFailures => Guilty(Append(times, now))
<1> DEFINE n == Len(times)
           more == Append(times, now)
           f == [e EXCEPT !.count = e.count + 1]
<1>1. n \in Nat /\ now \in Nat /\ e.count \in 0..(MaxFailures - 1) /\ e.window_start \in Nat
  BY Limits DEF Times, EntryType
<1>2. Len(more) = n + 1 /\ more[n + 1] = now /\ \A k \in 1..n : more[k] = times[k]
  OBVIOUS
<1>3. \A k \in 1..n : times[k] \in Nat
  BY Limits DEF Times
<1>4. e.count <= n /\ e.window_start <= now
  BY DEF CountFits
<1>5. \A k \in (n - e.count + 1)..(n + 1) : more[k] >= e.window_start /\ more[k] \in Nat
  <2> TAKE k \in (n - e.count + 1)..(n + 1)
  <2>1. CASE k = n + 1
    BY <1>1, <1>2, <1>4, <2>1
  <2>2. CASE k # n + 1
    <3>1. k \in 1..n /\ k \in (n - e.count + 1)..n
      BY <1>1, <1>4, <2>2
    <3> QED
      BY <1>2, <1>3, <3>1 DEF CountFits
  <2> QED
    BY <2>1, <2>2
<1>6. f.count = e.count + 1 /\ f.window_start = e.window_start
  BY DEF EntryType
<1> HIDE DEF more, f
<1>7. CountFits(f, more)
  <2>1. \A k \in (Len(more) - f.count + 1)..Len(more) : k \in (n - e.count + 1)..(n + 1)
    BY <1>1, <1>2, <1>6
  <2> QED
    BY <1>1, <1>2, <1>4, <1>5, <1>6, <2>1 DEF CountFits
<1>8. ASSUME e.count + 1 >= MaxFailures PROVE Guilty(more)
  <2>1. e.count + 1 = MaxFailures
    BY <1>1, <1>8, Limits
  <2>2. Len(more) - MaxFailures + 1 = n - e.count + 1 /\ Len(more) >= MaxFailures
    BY <1>1, <1>2, <1>4, <2>1
  <2>3. more[n - e.count + 1] >= e.window_start /\ more[n - e.count + 1] \in Nat
    BY <1>1, <1>4, <1>5
  <2>4. now - more[n - e.count + 1] < WindowSecs
    <3>1. WindowSecs \in Nat /\ now - e.window_start < WindowSecs
      BY Limits
    <3> QED
      BY <1>1, <2>3, <3>1
  <2>5. more[Len(more)] = now
    BY <1>2
  <2> QED
    BY <2>2, <2>4, <2>5 DEF Guilty
<1> QED
  BY <1>7, <1>8 DEF more, f
------------------------------------------------------------------------------
LEMMA RequestsStep == IInv /\ [Next]_vars => Requests'
<1> SUFFICES ASSUME IInv, [Next]_vars PROVE Requests'
  OBVIOUS
<1>1. Requests
  BY Parts
<1>2. ASSUME NEW h \in Handlers, InviteChecked(h) PROVE Requests'
  BY <1>2, RequestAnswered, RequestFails DEF InviteChecked, history
<1>3. ASSUME NEW h \in Handlers, NonceUnknown(h) PROVE Requests'
  BY <1>3, RequestFails DEF NonceUnknown, history
<1>4. ASSUME NEW h \in Handlers, NonceExpired(h) PROVE Requests'
  BY <1>4, RequestFails DEF NonceExpired, history
<1>5. ASSUME NEW h \in Handlers, NonceReplayed(h) PROVE Requests'
  BY <1>5, RequestFails DEF NonceReplayed, history
<1>6. ASSUME NEW h \in Handlers, NonceAccepted(h) PROVE Requests'
  BY <1>6, RequestFails, RequestStep DEF NonceAccepted
<1>7. ASSUME NEW h \in Handlers, Challenge(h) PROVE Requests'
  BY <1>7, RequestAnswered DEF Challenge, history
<1>8. ASSUME NEW h \in Handlers, RecordFailure(h) PROVE Requests'
  <2>1. guilty \subseteq guilty' /\ request[h].at = "failure"
    BY <1>8 DEF RecordFailure
  <2>2. request[h].ip \in guilty' \/ Step(h, "challenge") \/ Answered(h)
    <3> DEFINE i == request[h].ip
               e == Entry(Pruned(failed_ips), i)
    <3>1. i \in Ips
      BY <2>1, InHand DEF Busy
    <3>2. Failures /\ now \in Times /\ strikes[i] \in Seq(Times)
      BY <3>1, Parts DEF Clocks, Failures
    <3>3. e.count + 1 >= MaxFailures => Guilty(Append(strikes[i], now))
      BY <3>1, <3>2, EntryFacts, StrikeFits
    <3>4. e.count \in Nat
      BY <3>1, <3>2, EntryFacts, Limits DEF EntryType
    <3> QED
      BY <1>8, <3>3, <3>4, Limits DEF RecordFailure
  <2> QED
    BY <1>8, <2>1, <2>2, RequestAnswered, RequestStep DEF RecordFailure
<1>9. ASSUME NEW h \in Handlers, Block(h) PROVE Requests'
  BY <1>9, RequestAnswered, RequestStep DEF Block, history
<1>10. ASSUME NEW h \in Handlers, ClearFailures(h) PROVE Requests'
  BY <1>1, <1>10, RequestStep DEF ClearFailures, Requests, HandlersRight
<1>11. ASSUME NEW h \in Handlers, Register(h) PROVE Requests'
  BY <1>11, RequestAnswered DEF Register, history
<1>12. ASSUME NEW h \in Handlers, NEW e \in Extensions, RegisterArrives(h, e) PROVE Requests'
  <2>1. PICK ip \in IpsOf[e], verdict \in Verdicts(e), expires \in {0, Expires} :
          Handle(h, [ext |-> e, ip |-> ip, nonce |-> phone[e].nonce,
                     nc |-> IF phone[e].nonce = 0 THEN 0 ELSE phone[e].nc + 1,
                     verdict |-> verdict, expires |-> expires])
    BY <1>12 DEF RegisterArrives
  <2>2. ip \in Ips /\ verdict \in {"refused", "wrong", "right", "call"}
    BY PhonesAssumption DEF Verdicts
  <2>3. phone[e].nonce \in 0..nNonces /\ phone[e].nc \in 0..nRequests
    BY DEF IInv, TypeOK, NonceCounts
  <2>4. nRequests' = nRequests + 1 /\ nRequests \in Nat /\ guilty' = guilty
    BY <1>12, Limits DEF RegisterArrives, history, IInv, TypeOK
  <2> DEFINE nc == IF phone[e].nonce = 0 THEN 0 ELSE phone[e].nc + 1
  <2>5. nc \in 0..nRequests'
    BY <2>3, <2>4
  <2> HIDE DEF nc
  <2>6. Handle(h, [ext |-> e, ip |-> ip, nonce |-> phone[e].nonce, nc |-> nc,
                   verdict |-> verdict, expires |-> expires])
    BY <2>1 DEF nc
  <2> QED
    BY <2>2, <2>3, <2>4, <2>5, <2>6, RequestBegins
<1>13. ASSUME NEW h \in Handlers, NEW e \in Extensions, InviteArrives(h, e) PROVE Requests'
  <2>1. PICK ip \in IpsOf[e] :
          Handle(h, [ext |-> e, ip |-> ip, nonce |-> 0, nc |-> 0, verdict |-> "call",
                     expires |-> 0])
    BY <1>13 DEF InviteArrives
  <2>2. ip \in Ips /\ nNonces \in Nat /\ 0 \in 0..nNonces
    BY PhonesAssumption DEF IInv, TypeOK
  <2>3. nRequests' \in Nat /\ 0 \in 0..nRequests' /\ guilty' = guilty
    BY <1>13, Limits DEF InviteArrives, history, IInv, TypeOK
  <2> QED
    BY <2>1, <2>2, <2>3, RequestBegins
<1>14. ASSUME NEW h \in Handlers, RegisterRepeated(h) PROVE Requests'
  <2>1. PICK r \in wire : Handle(h, r)
    BY <1>14 DEF RegisterRepeated
  <2>2. r \in [ext: Extensions, ip: Ips, nonce: 0..nNonces, nc: 0..nRequests,
               verdict: {"refused", "wrong", "right"}, expires: {0, Expires}]
    BY DEF IInv, TypeOK, NonceCounts
  <2>3. nRequests' = nRequests /\ guilty' = guilty
    BY <1>14 DEF RegisterRepeated, history
  <2> QED
    BY <2>1, <2>2, <2>3, RequestBegins
<1>15. CASE Restart
  <2>1. NotBusy.at = "idle"
    BY DEF NotBusy
  <2>2. request' = [h \in Handlers |-> NotBusy]
    BY <1>15 DEF Restart
  <2> QED
    BY <2>1, <2>2 DEF Requests, HandlersRight
<1>16. ASSUME UNCHANGED <<request, nNonces, nRequests, guilty>> PROVE Requests'
  BY <1>1, <1>16 DEF Requests, HandlersRight, Busy, NonceCounts
<1>17. CASE Cleanup
  BY <1>16, <1>17 DEF Cleanup, CleanupWakes, CleanupRegistrations, CleanupNonces, bounds, history
<1>18. CASE Tick \/ UNCHANGED vars
  BY <1>16, <1>18 DEF Tick, vars, bounds, history
<1> QED
  BY <1>2, <1>3, <1>4, <1>5, <1>6, <1>7, <1>8, <1>9, <1>10, <1>11, <1>12, <1>13, <1>14, <1>15,
     <1>17, <1>18 DEF Next, HandlerStep
------------------------------------------------------------------------------
(* The table of nonces is finite, and so is any part of it.                *)
LEMMA NoncesFinite ==
  ASSUME Nonces, NEW S \in SUBSET DOMAIN issued_nonces
  PROVE  IsFiniteSet(S) /\ Cardinality(S) \in Nat /\ Cardinality(S) <= MaxNonces
<1>1. IsFiniteSet(1..nNonces) /\ nNonces \in Nat
  BY FS_Interval DEF Nonces
<1>2. IsFiniteSet(DOMAIN issued_nonces)
  BY <1>1, FS_Subset DEF Nonces
<1>3. IsFiniteSet(S) /\ Cardinality(S) <= Cardinality(DOMAIN issued_nonces)
  BY <1>2, FS_Subset
<1>4. Cardinality(S) \in Nat /\ Cardinality(DOMAIN issued_nonces) \in Nat
  BY <1>2, <1>3, FS_CardinalityType
<1> QED
  BY <1>3, <1>4, Limits DEF Nonces

LEMMA CountsGrow == IInv /\ [Next]_vars => NonceCounts \subseteq NonceCounts'
  BY Grows DEF NonceCounts

(* Dropping nonces, or doing nothing with them.                            *)
LEMMA NoncesKept ==
  ASSUME IInv, [Next]_vars, NEW S, issued_nonces' = Keep(issued_nonces, S),
         UNCHANGED <<nNonces, passed, repassed>>
  PROVE  Nonces'
<1>1. Nonces /\ NonceCounts \subseteq NonceCounts'
  BY Parts, CountsGrow
<1>2. /\ DOMAIN issued_nonces' = DOMAIN issued_nonces \cap S
      /\ \A n \in DOMAIN issued_nonces' : issued_nonces'[n] = issued_nonces[n]
  BY DEF Keep
<1>3. Cardinality(DOMAIN issued_nonces') <= MaxNonces
  BY <1>1, <1>2, NoncesFinite
<1> QED
  BY <1>1, <1>2, <1>3 DEF Nonces, NonceOnce, CountsKept

LEMMA NoncesSame ==
  ASSUME IInv, [Next]_vars, UNCHANGED <<issued_nonces, nNonces, passed, repassed>>
  PROVE  Nonces'
  BY Parts, CountsGrow DEF Nonces, NonceOnce, CountsKept

(* A new nonce finds room.                                                 *)
LEMMA RoomFacts ==
  ASSUME IInv, NEW room, room = MakeRoom(issued_nonces)
  PROVE  /\ DOMAIN room \subseteq DOMAIN issued_nonces
         /\ \A n \in DOMAIN room : room[n] = issued_nonces[n]
         /\ Cardinality(DOMAIN room) < MaxNonces
<1> DEFINE alive == {n \in DOMAIN issued_nonces : NonceAlive(issued_nonces[n], now)}
<1>1. alive \subseteq DOMAIN issued_nonces
  OBVIOUS
<1>2. CASE Cardinality(DOMAIN issued_nonces) < MaxNonces
  BY <1>2 DEF MakeRoom
<1>3. CASE ~(Cardinality(DOMAIN issued_nonces) < MaxNonces) /\ Cardinality(alive) < MaxNonces
  <2>1. room = Keep(issued_nonces, alive)
    BY <1>3 DEF MakeRoom
  <2>2. DOMAIN room = alive /\ \A n \in DOMAIN room : room[n] = issued_nonces[n]
    BY <1>1, <2>1 DEF Keep
  <2> QED
    BY <1>1, <1>3, <2>2
<1>4. CASE ~(Cardinality(DOMAIN issued_nonces) < MaxNonces) /\ ~(Cardinality(alive) < MaxNonces)
  <2>1. room = Keep(issued_nonces, {})
    BY <1>4 DEF MakeRoom
  <2>2. DOMAIN room = {}
    BY <2>1 DEF Keep
  <2> QED
    BY <2>2, Limits, FS_EmptySet
<1> QED
  BY <1>2, <1>3, <1>4

(* The nonce of a challenge is new: nothing has passed with it.            *)
LEMMA ChallengeNonces ==
  ASSUME IInv, [Next]_vars, NEW h \in Handlers, Challenge(h)
  PROVE  Nonces'
<1> DEFINE room == MakeRoom(issued_nonces)
           new == [issued_at |-> now, ip |-> request[h].ip, max_nc |-> 0]
<1>1. Nonces /\ NonceCounts \subseteq NonceCounts' /\ nNonces \in Nat
  BY Parts, CountsGrow DEF Nonces
<1>2. nNonces' = nNonces + 1 /\ passed' = passed /\ repassed' = repassed
  BY DEF Challenge, history
<1>3. /\ DOMAIN room \subseteq DOMAIN issued_nonces
      /\ \A n \in DOMAIN room : room[n] = issued_nonces[n]
      /\ Cardinality(DOMAIN room) < MaxNonces
  BY RoomFacts
<1>4. new \in [issued_at: Times, ip: Ips, max_nc: NonceCounts]
  <2>1. request[h] \in Busy
    BY InHand DEF Challenge
  <2>2. now \in Times /\ 0 \in NonceCounts
    BY DEF IInv, TypeOK, NonceCounts
  <2> QED
    BY <2>1, <2>2 DEF Busy
<1>5. issued_nonces' = [m \in DOMAIN room \cup {nNonces + 1} |->
                         IF m = nNonces + 1 THEN new ELSE room[m]]
  BY DEF Challenge
<1> HIDE DEF room, new
<1>6. DOMAIN issued_nonces' = DOMAIN room \cup {nNonces + 1}
  BY <1>5
<1>7. DOMAIN room \subseteq 1..nNonces /\ nNonces + 1 \notin DOMAIN room
  BY <1>1, <1>3 DEF Nonces
<1>8. DOMAIN issued_nonces' \subseteq 1..nNonces'
  BY <1>1, <1>2, <1>6, <1>7
<1>9. Cardinality(DOMAIN issued_nonces') <= MaxNonces
  <2>1. IsFiniteSet(DOMAIN room) /\ Cardinality(DOMAIN room) \in Nat
    BY <1>1, <1>3, NoncesFinite
  <2>2. Cardinality(DOMAIN issued_nonces') = Cardinality(DOMAIN room) + 1
    BY <1>6, <1>7, <2>1, FS_AddElement
  <2> QED
    BY <1>3, <2>1, <2>2, Limits
<1>10. \A n \in DOMAIN issued_nonces' :
         issued_nonces'[n] = IF n = nNonces + 1 THEN new ELSE issued_nonces[n]
  BY <1>3, <1>5, <1>6
<1>11. \A n \in DOMAIN issued_nonces' :
         issued_nonces'[n] \in [issued_at: Times, ip: Ips, max_nc: NonceCounts']
  BY <1>1, <1>3, <1>4, <1>6, <1>10 DEF Nonces
<1>12. CountsKept'
  <2>1. \A p \in passed : p[1] \in 0..nNonces /\ p[1] \in 0..nNonces' /\ p[1] # nNonces + 1
    BY <1>1, <1>2 DEF Nonces, CountsKept
  <2>2. \A p \in passed : p[1] \in DOMAIN issued_nonces' =>
          p[1] \in DOMAIN issued_nonces /\ issued_nonces'[p[1]] = issued_nonces[p[1]]
    BY <1>3, <1>6, <1>10, <2>1
  <2> QED
    BY <1>1, <1>2, <2>1, <2>2 DEF Nonces, CountsKept
<1> QED
  BY <1>1, <1>2, <1>8, <1>9, <1>11, <1>12 DEF Nonces, NonceOnce

(* A nonce count that passes is above every one that has passed with this  *)
(* nonce.                                                                  *)
LEMMA AcceptedNonces ==
  ASSUME IInv, [Next]_vars, NEW h \in Handlers, NonceAccepted(h)
  PROVE  Nonces'
<1> DEFINE n == request[h].nonce
           nc == request[h].nc
<1>1. Nonces /\ NonceCounts \subseteq NonceCounts'
  BY Parts, CountsGrow
<1>2. n \in DOMAIN issued_nonces /\ nNonces' = nNonces
  BY DEF NonceAccepted, NonceKnown
<1>3. n \in 0..nNonces /\ nc \in NonceCounts /\ nc \in Nat
  BY InHand DEF NonceAccepted, Busy, NonceCounts
<1>4. CASE ~ChecksNc(h)
  BY <1>2, <1>4, NoncesSame DEF NonceAccepted
<1>5. CASE ChecksNc(h)
  <2>1. /\ nc > issued_nonces[n].max_nc
        /\ issued_nonces' = [issued_nonces EXCEPT ![n].max_nc = nc]
        /\ passed' = passed \cup {<<n, nc>>}
        /\ repassed' = IF <<n, nc>> \in passed THEN repassed \cup {<<n, nc>>} ELSE repassed
    BY <1>5 DEF NonceAccepted, NcRises
  <2> HIDE DEF n, nc
  <2>2. \A m \in DOMAIN issued_nonces :
          issued_nonces[m] \in [issued_at: Times, ip: Ips, max_nc: NonceCounts]
    BY <1>1 DEF Nonces
  <2>3. issued_nonces[n].max_nc \in Nat
    BY <1>2, <2>2 DEF NonceCounts
  <2>4. DOMAIN issued_nonces' = DOMAIN issued_nonces
    BY <2>1
  <2>5. issued_nonces'[n] = [issued_nonces[n] EXCEPT !.max_nc = nc]
    BY <1>2, <2>1
  <2>6. \A m \in DOMAIN issued_nonces : m # n => issued_nonces'[m] = issued_nonces[m]
    BY <2>1
  <2>7. issued_nonces'[n].max_nc = nc
    BY <1>2, <2>2, <2>5
  <2>8. \A m \in DOMAIN issued_nonces' :
          issued_nonces'[m] \in [issued_at: Times, ip: Ips, max_nc: NonceCounts']
    BY <1>1, <1>2, <1>3, <2>2, <2>4, <2>5, <2>6
  <2>9. \A p \in passed : p[1] = n => p[2] <= issued_nonces[n].max_nc
    BY <1>1, <1>2 DEF Nonces, CountsKept
  <2>10. <<n, nc>> \notin passed
    BY <1>3, <2>1, <2>3, <2>9
  <2>11. NonceOnce'
    BY <1>1, <2>1, <2>10 DEF Nonces, NonceOnce
  <2>12. CountsKept'
    <3> SUFFICES ASSUME NEW p \in passed'
                 PROVE  /\ p \in (0..nNonces') \X NonceCounts'
                        /\ p[1] \in DOMAIN issued_nonces' => p[2] <= issued_nonces'[p[1]].max_nc
      BY DEF CountsKept
    <3>4. \A q \in passed : q \in (0..nNonces) \X NonceCounts /\ q[2] \in Nat
      BY <1>1 DEF Nonces, CountsKept, NonceCounts
    <3>1. CASE p = <<n, nc>>
      BY <1>1, <1>2, <1>3, <2>7, <3>1
    <3>2. CASE p \in passed /\ p[1] # n
      BY <1>1, <1>2, <2>4, <2>6, <3>2, <3>4 DEF Nonces, CountsKept
    <3>3. CASE p \in passed /\ p[1] = n
      <4>1. p[2] <= nc
        BY <1>3, <2>1, <2>3, <2>9, <3>3, <3>4
      <4> QED
        BY <1>1, <1>2, <2>7, <3>3, <3>4, <4>1
    <3> QED
      BY <2>1, <3>1, <3>2, <3>3
  <2> QED
    BY <1>1, <1>2, <2>4, <2>8, <2>11, <2>12 DEF Nonces
<1> QED
  BY <1>4, <1>5

LEMMA NoncesStep == IInv /\ [Next]_vars => Nonces'
<1> SUFFICES ASSUME IInv, [Next]_vars PROVE Nonces'
  OBVIOUS
<1>1. ASSUME NEW h \in Handlers, NonceExpired(h) PROVE Nonces'
  BY <1>1, NoncesKept DEF NonceExpired, history
<1>2. ASSUME NEW h \in Handlers, NonceAccepted(h) PROVE Nonces'
  BY <1>2, AcceptedNonces
<1>3. ASSUME NEW h \in Handlers, Challenge(h) PROVE Nonces'
  BY <1>3, ChallengeNonces
<1>4. ASSUME NEW h \in Handlers,
             \/ InviteChecked(h) \/ NonceUnknown(h) \/ NonceReplayed(h) \/ RecordFailure(h)
             \/ Block(h) \/ ClearFailures(h) \/ Register(h) \/ RegisterRepeated(h)
      PROVE  Nonces'
  BY <1>4, NoncesSame DEF InviteChecked, NonceUnknown, NonceReplayed, RecordFailure, Block,
     ClearFailures, Register, RegisterRepeated, server, history
<1>5. ASSUME NEW h \in Handlers, NEW e \in Extensions,
             RegisterArrives(h, e) \/ InviteArrives(h, e)
      PROVE  Nonces'
  BY <1>5, NoncesSame DEF RegisterArrives, InviteArrives, server, history
<1>6. CASE CleanupNonces \/ Restart
  BY <1>6, NoncesKept DEF CleanupNonces, Restart, history
<1>7. CASE CleanupWakes \/ CleanupRegistrations \/ Tick \/ UNCHANGED vars
  BY <1>7, NoncesSame DEF CleanupWakes, CleanupRegistrations, Tick, vars, server, history
<1> QED
  BY <1>1, <1>2, <1>3, <1>4, <1>5, <1>6, <1>7 DEF Next, HandlerStep, Cleanup
------------------------------------------------------------------------------
LEMMA EmptyEntry ==
  /\ NoFailures \in EntryType /\ NoFailures.count = 0 /\ NoFailures.window_start = 0
  /\ \A times \in Seq(Times) : now \in Times => CountFits(NoFailures, times)
<1>1. NoFailures \in EntryType /\ NoFailures.count = 0 /\ NoFailures.window_start = 0
  BY Limits DEF NoFailures, EntryType, Times
<1>2. ASSUME NEW times \in Seq(Times), now \in Times PROVE CountFits(NoFailures, times)
  BY <1>1, <1>2, Limits DEF CountFits, Times
<1> QED
  BY <1>1, <1>2

(* A table of which at most one address is counted that was not.           *)
LEMMA OneMore ==
  ASSUME NEW S \in SUBSET Ips, NEW T, NEW i, T \subseteq S \cup {i},
         Cardinality(S) < MaxFailedIps
  PROVE  Cardinality(T) <= MaxFailedIps
<1>1. IsFiniteSet(S) /\ Cardinality(S) \in Nat
  BY FiniteAssumption, FS_Subset, FS_CardinalityType
<1>2. IsFiniteSet(S \cup {i}) /\ Cardinality(S \cup {i}) <= Cardinality(S) + 1
  <2>1. /\ IsFiniteSet(S \cup {i})
        /\ Cardinality(S \cup {i}) = IF i \in S THEN Cardinality(S) ELSE Cardinality(S) + 1
    BY <1>1, FS_AddElement
  <2> QED
    BY <1>1, <2>1
<1>3. Cardinality(T) <= Cardinality(S \cup {i}) /\ IsFiniteSet(T)
  BY <1>2, FS_Subset
<1>4. Cardinality(T) \in Nat /\ Cardinality(S \cup {i}) \in Nat
  BY <1>2, <1>3, FS_CardinalityType
<1> QED
  BY <1>1, <1>2, <1>3, <1>4, Limits

(* The next table of failures, from one whose entries are kept or dropped, *)
(* but for one address.                                                    *)
LEMMA FailuresMove ==
  ASSUME Failures, now \in Times, now' = now, NEW i \in Ips, NEW e \in EntryType,
         NEW times \in Seq(Times), CountFits(e, times),
         NEW table \in [Ips -> EntryType],
         \A j \in Ips : table[j] \in {failed_ips[j], NoFailures},
         Cardinality(Counted(table)) < MaxFailedIps \/ e.count = 0,
         Cardinality(Counted(table)) <= MaxFailedIps,
         failed_ips' = [table EXCEPT ![i] = e],
         strikes' = [strikes EXCEPT ![i] = times]
  PROVE  Failures'
<1>1. failed_ips' \in [Ips -> EntryType] /\ strikes' \in [Ips -> Seq(Times)]
  BY DEF Failures
<1>2. Cardinality(Counted(failed_ips')) <= MaxFailedIps
  <2>1. Counted(table) \subseteq Ips /\ Counted(failed_ips') \subseteq Counted(table) \cup {i}
    BY DEF Counted
  <2>2. CASE Cardinality(Counted(table)) < MaxFailedIps
    BY <2>1, <2>2, OneMore
  <2>3. CASE e.count = 0
    <3>1. Counted(failed_ips') \subseteq Counted(table)
      BY <2>3 DEF Counted
    <3>2. IsFiniteSet(Counted(table))
      BY <2>1, FiniteAssumption, FS_Subset
    <3>3. /\ Cardinality(Counted(failed_ips')) <= Cardinality(Counted(table))
          /\ IsFiniteSet(Counted(failed_ips'))
      BY <3>1, <3>2, FS_Subset
    <3> QED
      BY <3>2, <3>3, FS_CardinalityType, Limits
  <2> QED
    BY <2>2, <2>3
<1>3. ASSUME NEW j \in Ips PROVE CountFits(failed_ips'[j], strikes'[j])
  <2>1. CASE j = i
    BY <2>1 DEF Failures
  <2>2. CASE j # i
    <3>1. failed_ips'[j] = table[j] /\ strikes'[j] = strikes[j] /\ strikes[j] \in Seq(Times)
      BY <2>2 DEF Failures
    <3>2. CountFits(failed_ips[j], strikes[j]) /\ CountFits(NoFailures, strikes[j])
      BY <3>1, EmptyEntry DEF Failures, StrikesCounted
    <3> QED
      BY <3>1, <3>2
  <2> QED
    BY <2>1, <2>2
<1>4. StrikesCounted'
  BY <1>3 DEF StrikesCounted, CountFits
<1> QED
  BY <1>1, <1>2, <1>4 DEF Failures, Counted, EntryType

LEMMA RecordedFailures ==
  ASSUME IInv, NEW h \in Handlers, RecordFailure(h)
  PROVE  Failures'
<1> DEFINE i == request[h].ip
           table == Pruned(failed_ips)
           e == Entry(table, i)
           more == [e EXCEPT !.count = e.count + 1]
           times == Append(strikes[i], now)
<1>1. Failures /\ now \in Times /\ now' = now
  BY Parts DEF RecordFailure, Clocks
<1>2. i \in Ips /\ strikes[i] \in Seq(Times) /\ times \in Seq(Times)
  BY <1>1, InHand DEF RecordFailure, Busy, Failures
<1>3. e \in EntryType /\ CountFits(e, strikes[i]) /\ now - e.window_start < WindowSecs
  BY <1>1, <1>2, EntryFacts
<1>4. CountFits(more, times)
  BY <1>1, <1>2, <1>3, StrikeFits
<1>5. /\ table \in [Ips -> EntryType] /\ \A j \in Ips : table[j] \in {failed_ips[j], NoFailures}
      /\ Cardinality(Counted(table)) < MaxFailedIps
  BY <1>1, PrunedFacts
<1>6. Cardinality(Counted(table)) <= MaxFailedIps
  <2>1. IsFiniteSet(Counted(table))
    BY FiniteAssumption, FS_Subset DEF Counted
  <2> QED
    BY <1>5, <2>1, FS_CardinalityType, Limits
<1>7. strikes' = [strikes EXCEPT ![i] = times]
  BY DEF RecordFailure
<1>8. CASE e.count + 1 < MaxFailures
  <2>1. failed_ips' = [table EXCEPT ![i] = more]
    BY <1>8 DEF RecordFailure
  <2>2. more \in EntryType
    BY <1>3, <1>8, Limits DEF EntryType
  <2> HIDE DEF i, table, e, more, times
  <2> QED
    BY <1>1, <1>2, <1>4, <1>5, <1>6, <1>7, <2>1, <2>2, FailuresMove
<1>9. CASE ~(e.count + 1 < MaxFailures)
  <2>1. failed_ips' = [table EXCEPT ![i] = NoFailures]
    BY <1>9 DEF RecordFailure
  <2> HIDE DEF i, table, e, more, times
  <2> QED
    BY <1>1, <1>2, <1>5, <1>6, <1>7, <2>1, EmptyEntry, FailuresMove
<1> QED
  BY <1>8, <1>9

LEMMA FailuresStep == IInv /\ [Next]_vars => Failures'
<1> SUFFICES ASSUME IInv, [Next]_vars PROVE Failures'
  OBVIOUS
<1>1. Failures /\ now \in Times
  BY Parts DEF Clocks
<1>2. ASSUME NEW h \in Handlers, RecordFailure(h) PROVE Failures'
  BY <1>2, RecordedFailures
<1>3. ASSUME NEW h \in Handlers, ClearFailures(h) PROVE Failures'
  <2>1. request[h].ip \in Ips
    BY <1>3, InHand DEF ClearFailures, Busy
  <2>2. <<>> \in Seq(Times)
    OBVIOUS
  <2>3. /\ failed_ips \in [Ips -> EntryType]
        /\ Cardinality(Counted(failed_ips)) <= MaxFailedIps
    BY <1>1 DEF Failures, EntryType
  <2>4. /\ failed_ips' = [failed_ips EXCEPT ![request[h].ip] = NoFailures]
        /\ strikes' = [strikes EXCEPT ![request[h].ip] = <<>>]
        /\ now' = now
    BY <1>3 DEF ClearFailures
  <2> QED
    BY <1>1, <2>1, <2>2, <2>3, <2>4, EmptyEntry, FailuresMove
<1>4. CASE Restart
  <2>1. /\ failed_ips' = [i \in Ips |-> NoFailures] /\ strikes' = [i \in Ips |-> <<>>]
        /\ now' = now
    BY <1>4 DEF Restart
  <2>2. Counted(failed_ips') = {}
    BY <2>1, EmptyEntry DEF Counted
  <2>3. Cardinality(Counted(failed_ips')) <= MaxFailedIps
    BY <2>2, FS_EmptySet, Limits
  <2>4. failed_ips' \in [Ips -> EntryType] /\ strikes' \in [Ips -> Seq(Times)]
    BY <2>1, EmptyEntry
  <2>5. \A i \in Ips : CountFits(failed_ips'[i], strikes'[i])
    <3>1. <<>> \in Seq(Times)
      OBVIOUS
    <3>2. CountFits(NoFailures, <<>>)
      BY <1>1, <3>1, EmptyEntry
    <3> QED
      BY <2>1, <3>2
  <2>6. StrikesCounted'
    BY <2>1, <2>5 DEF StrikesCounted, CountFits
  <2> QED
    BY <2>3, <2>4, <2>6 DEF Failures, Counted, EntryType
<1>5. CASE Tick
  <2>1. now' = now + 1 /\ UNCHANGED <<failed_ips, strikes>>
    BY <1>5 DEF Tick, server, history
  <2>2. \A i \in Ips : failed_ips[i].window_start \in Nat /\ now \in Nat
    BY <1>1, Limits DEF Failures, Times
  <2>3. StrikesCounted'
    BY <1>1, <2>1, <2>2 DEF Failures, StrikesCounted, CountFits
  <2>4. Counted(failed_ips') = Counted(failed_ips)
    BY <2>1 DEF Counted
  <2>5. Counted(failed_ips') = Counted(failed_ips)'
    BY DEF Counted
  <2> QED
    BY <1>1, <2>1, <2>3, <2>4, <2>5 DEF Failures
<1>6. ASSUME UNCHANGED <<now, failed_ips, strikes>> PROVE Failures'
  BY <1>1, <1>6 DEF Failures, Counted, StrikesCounted, CountFits
<1>7. ASSUME NEW h \in Handlers,
             \/ InviteChecked(h) \/ NonceUnknown(h) \/ NonceExpired(h) \/ NonceReplayed(h)
             \/ NonceAccepted(h) \/ Challenge(h) \/ Block(h) \/ Register(h)
             \/ RegisterRepeated(h)
      PROVE  Failures'
  BY <1>6, <1>7 DEF InviteChecked, NonceUnknown, NonceExpired, NonceReplayed, NonceAccepted,
     Challenge, Block, Register, RegisterRepeated, server, history
<1>8. ASSUME NEW h \in Handlers, NEW e \in Extensions,
             RegisterArrives(h, e) \/ InviteArrives(h, e)
      PROVE  Failures'
  BY <1>6, <1>8 DEF RegisterArrives, InviteArrives, server, history
<1>9. CASE Cleanup \/ UNCHANGED vars
  BY <1>6, <1>9 DEF Cleanup, CleanupWakes, CleanupRegistrations, CleanupNonces, vars, server,
     history
<1> QED
  BY <1>2, <1>3, <1>4, <1>5, <1>7, <1>8, <1>9 DEF Next, HandlerStep
------------------------------------------------------------------------------
(* Who is blocked is guilty.                                               *)
LEMMA BlocksStep == IInv /\ [Next]_vars => Blocks'
<1> SUFFICES ASSUME IInv, [Next]_vars PROVE Blocks'
  OBVIOUS
<1>1. Blocks /\ Requests
  BY Parts
<1>2. ASSUME NEW h \in Handlers, Block(h) PROVE Blocks'
  <2>1. request[h].ip \in Ips /\ request[h].ip \in guilty
    BY <1>1, <1>2, InHand DEF Block, Busy, Requests, HandlersRight
  <2>2. guilty' = guilty
    BY <1>2 DEF Block, history
  <2>3. IsFiniteSet(blocked_ips) /\ Cardinality(blocked_ips) \in Nat
    BY <1>1, FiniteAssumption, FS_Subset, FS_CardinalityType DEF Blocks
  <2>4. CASE Cardinality(blocked_ips) >= MaxBlockedIps
    BY <1>1, <1>2, <2>2, <2>4 DEF Block, Blocks, BlockEarned
  <2>5. CASE ~(Cardinality(blocked_ips) >= MaxBlockedIps)
    <3>1. blocked_ips' = blocked_ips \cup {request[h].ip}
      BY <1>2, <2>5 DEF Block
    <3>2. Cardinality(blocked_ips') =
            IF request[h].ip \in blocked_ips THEN Cardinality(blocked_ips)
            ELSE Cardinality(blocked_ips) + 1
      BY <2>3, <3>1, FS_AddElement
    <3>3. Cardinality(blocked_ips') <= MaxBlockedIps
      BY <2>3, <2>5, <3>2, Limits
    <3> QED
      BY <1>1, <2>1, <2>2, <3>1, <3>3 DEF Blocks, BlockEarned
  <2> QED
    BY <2>4, <2>5
<1>3. ASSUME NEW h \in Handlers, RecordFailure(h) PROVE Blocks'
  <2>1. request[h].ip \in Ips
    BY <1>3, InHand DEF RecordFailure, Busy
  <2>2. guilty' \in {guilty, guilty \cup {request[h].ip}} /\ blocked_ips' = blocked_ips
    BY <1>3 DEF RecordFailure
  <2> QED
    BY <1>1, <2>1, <2>2 DEF Blocks, BlockEarned
<1>4. CASE Restart
  BY <1>4, Limits, FS_EmptySet DEF Restart, Blocks, BlockEarned
<1>5. ASSUME UNCHANGED <<blocked_ips, guilty>> PROVE Blocks'
  BY <1>1, <1>5 DEF Blocks, BlockEarned
<1>6. ASSUME NEW h \in Handlers,
             \/ InviteChecked(h) \/ NonceUnknown(h) \/ NonceExpired(h) \/ NonceReplayed(h)
             \/ NonceAccepted(h) \/ Challenge(h) \/ ClearFailures(h) \/ Register(h)
             \/ RegisterRepeated(h)
      PROVE  Blocks'
  BY <1>5, <1>6 DEF InviteChecked, NonceUnknown, NonceExpired, NonceReplayed, NonceAccepted,
     Challenge, ClearFailures, Register, RegisterRepeated, server, history
<1>7. ASSUME NEW h \in Handlers, NEW e \in Extensions,
             RegisterArrives(h, e) \/ InviteArrives(h, e)
      PROVE  Blocks'
  BY <1>5, <1>7 DEF RegisterArrives, InviteArrives, server, history
<1>8. CASE Cleanup \/ Tick \/ UNCHANGED vars
  BY <1>5, <1>8 DEF Cleanup, CleanupWakes, CleanupRegistrations, CleanupNonces, Tick, vars,
     server, history
<1> QED
  BY <1>2, <1>3, <1>4, <1>6, <1>7, <1>8 DEF Next, HandlerStep
------------------------------------------------------------------------------
(* The phones, and the bounds.                                             *)
LEMMA PhonesStep == IInv /\ [Next]_vars => Phones'
<1> SUFFICES ASSUME IInv, [Next]_vars PROVE Phones'
  OBVIOUS
<1> DEFINE Phone(n, c) == [nonce: 0..n, nc: 0..c, known: BOOLEAN]
           Wire(n, c) == [ext: Extensions, ip: Ips, nonce: 0..n, nc: 0..c,
                          verdict: {"refused", "wrong", "right"}, expires: {0, Expires}]
<1>1. /\ phone \in [Extensions -> Phone(nNonces, nRequests)]
      /\ wire \subseteq Wire(nNonces, nRequests)
      /\ nRequests \in 0..MaxRequests /\ nFaults \in 0..MaxFaults
      /\ nRestarts \in 0..MaxRestarts
  BY DEF IInv, TypeOK, NonceCounts
<1>2. 0..nNonces \subseteq 0..nNonces' /\ 0..nRequests \subseteq 0..nRequests'
  BY Grows
<1>3. /\ Phone(nNonces, nRequests) \subseteq Phone(nNonces', nRequests')
      /\ Wire(nNonces, nRequests) \subseteq Wire(nNonces', nRequests')
  BY <1>2
<1>4. /\ phone \in [Extensions -> Phone(nNonces', nRequests')]
      /\ wire \subseteq Wire(nNonces', nRequests')
  BY <1>1, <1>3
<1>5. ASSUME phone' \in [Extensions -> Phone(nNonces', nRequests')],
             wire' \subseteq Wire(nNonces', nRequests'),
             nRequests' \in 0..MaxRequests, nFaults' \in 0..MaxFaults,
             nRestarts' \in 0..MaxRestarts
      PROVE  Phones'
  BY <1>5 DEF Phones, NonceCounts
<1> HIDE DEF Wire
<1>6. ASSUME UNCHANGED <<phone, wire, bounds>> PROVE Phones'
  BY <1>1, <1>4, <1>5, <1>6 DEF bounds
<1>7. ASSUME NEW h \in Handlers, Challenge(h) PROVE Phones'
  <2>1. UNCHANGED <<wire, nRequests, nRestarts>>
    BY <1>7 DEF Challenge
  <2>2. nFaults' \in 0..MaxFaults
    BY <1>1, <1>7, Limits DEF Challenge
  <2>3. nNonces + 1 \in 0..nNonces' /\ 0 \in 0..nRequests'
    BY <1>1, <1>7, Grows, Limits DEF Challenge
  <2>4. \/ phone' = phone
        \/ phone' = [phone EXCEPT ![request[h].ext].nonce = nNonces + 1,
                                  ![request[h].ext].nc = 0]
    BY <1>7 DEF Challenge
  <2>5. phone' \in [Extensions -> Phone(nNonces', nRequests')]
    BY <1>4, <2>3, <2>4
  <2> QED
    BY <1>1, <1>4, <1>5, <2>1, <2>2, <2>5
<1>8. ASSUME NEW h \in Handlers, Register(h) PROVE Phones'
  <2>1. UNCHANGED <<wire, bounds>>
    BY <1>8 DEF Register
  <2>2. PICK known \in BOOLEAN : phone' = [phone EXCEPT ![request[h].ext].known = known]
    BY <1>1, <1>8 DEF Register
  <2>3. phone' \in [Extensions -> Phone(nNonces', nRequests')]
    BY <1>4, <2>2
  <2> QED
    BY <1>1, <1>4, <1>5, <2>1, <2>3 DEF bounds
<1>9. ASSUME NEW h \in Handlers, NEW e \in Extensions, RegisterArrives(h, e) PROVE Phones'
  <2> DEFINE nc == IF phone[e].nonce = 0 THEN 0 ELSE phone[e].nc + 1
  <2>1. UNCHANGED <<nFaults, nRestarts>> /\ nRequests' = nRequests + 1
        /\ nRequests < MaxRequests
    BY <1>9 DEF RegisterArrives
  <2>2. nc \in 0..nRequests'
    <3>1. phone[e].nc \in 0..nRequests
      BY <1>1
    <3> QED
      BY <1>1, <2>1, <3>1, Limits
  <2>3. phone' = [phone EXCEPT ![e].nc = nc]
    BY <1>9 DEF RegisterArrives
  <2>4. wire' \subseteq Wire(nNonces', nRequests')
    <3>1. PICK ip \in IpsOf[e], verdict \in Verdicts(e), expires \in {0, Expires} :
            wire' \subseteq wire \cup {[ext |-> e, ip |-> ip, nonce |-> phone[e].nonce,
                                      nc |-> nc, verdict |-> verdict, expires |-> expires]}
      BY <1>9 DEF RegisterArrives
    <3>2. ip \in Ips /\ verdict \in {"refused", "wrong", "right"}
      BY PhonesAssumption DEF Verdicts
    <3>3. phone[e].nonce \in 0..nNonces'
      BY <1>1, <1>2
    <3> HIDE DEF nc
    <3>4. [ext |-> e, ip |-> ip, nonce |-> phone[e].nonce, nc |-> nc, verdict |-> verdict,
           expires |-> expires] \in Wire(nNonces', nRequests')
      BY <2>2, <3>2, <3>3 DEF Wire
    <3> QED
      BY <1>4, <3>1, <3>4
  <2> HIDE DEF nc
  <2>5. phone' \in [Extensions -> Phone(nNonces', nRequests')]
    BY <1>4, <2>2, <2>3
  <2>6. nRequests' \in 0..MaxRequests
    BY <1>1, <2>1, Limits
  <2> QED
    BY <1>1, <1>5, <2>1, <2>4, <2>5, <2>6
<1>10. ASSUME NEW h \in Handlers, NEW e \in Extensions, InviteArrives(h, e) PROVE Phones'
  <2>1. UNCHANGED <<phone, wire, nFaults, nRestarts>> /\ nRequests' = nRequests + 1
        /\ nRequests < MaxRequests
    BY <1>10 DEF InviteArrives, clients
  <2> QED
    BY <1>1, <1>4, <1>5, <2>1, Limits
<1>11. ASSUME NEW h \in Handlers, RegisterRepeated(h) PROVE Phones'
  <2>1. UNCHANGED <<phone, wire, nRequests, nRestarts>> /\ nFaults' = nFaults + 1
        /\ nFaults < MaxFaults
    BY <1>11 DEF RegisterRepeated, clients
  <2> QED
    BY <1>1, <1>4, <1>5, <2>1, Limits
<1>12. CASE Restart
  <2>1. UNCHANGED <<phone, wire, nRequests, nFaults>> /\ nRestarts' = nRestarts + 1
        /\ nRestarts < MaxRestarts
    BY <1>12 DEF Restart, clients
  <2> QED
    BY <1>1, <1>4, <1>5, <2>1, Limits
<1>13. ASSUME NEW h \in Handlers,
              \/ InviteChecked(h) \/ NonceUnknown(h) \/ NonceExpired(h) \/ NonceReplayed(h)
              \/ NonceAccepted(h) \/ RecordFailure(h) \/ Block(h) \/ ClearFailures(h)
       PROVE  Phones'
  BY <1>6, <1>13 DEF InviteChecked, NonceUnknown, NonceExpired, NonceReplayed, NonceAccepted,
     RecordFailure, Block, ClearFailures, clients
<1>14. CASE Cleanup \/ Tick \/ UNCHANGED vars
  BY <1>6, <1>14 DEF Cleanup, CleanupWakes, CleanupRegistrations, CleanupNonces, Tick, vars,
     clients
<1> QED
  BY <1>7, <1>8, <1>9, <1>10, <1>11, <1>12, <1>13, <1>14 DEF Next, HandlerStep
------------------------------------------------------------------------------
(* The clock, the registrations and the cleanup task's reading.            *)
LEMMA ClocksStep == IInv /\ [Next]_vars => Clocks'
<1> SUFFICES ASSUME IInv, [Next]_vars PROVE Clocks'
  OBVIOUS
<1>1. Clocks
  BY Parts
<1>2. now \in Nat /\ now <= MaxTime /\ Expires \in Nat /\ MaxTime \in Nat
  BY <1>1, Limits DEF Clocks, Times
<1>3. ASSUME NEW h \in Handlers, Register(h) PROVE Clocks'
  <2>1. request[h].expires \in {0, Expires}
    BY <1>3, InHand DEF Register, Busy
  <2>2. PICK r : /\ registrations' = [registrations EXCEPT ![request[h].ext] = r]
                 /\ r \in {NotRegistered, [expires_at |-> now + request[h].expires]}
    BY <1>3 DEF Register
  <2>3. r \in [expires_at: 0..(MaxTime + Expires)]
    BY <1>2, <2>1, <2>2 DEF NotRegistered
  <2>4. UNCHANGED <<now, cleaner>>
    BY <1>3 DEF Register
  <2> QED
    BY <1>1, <2>2, <2>3, <2>4 DEF Clocks, Times
<1>4. CASE CleanupWakes
  BY <1>1, <1>2, <1>4 DEF CleanupWakes, Clocks, server
<1>5. CASE CleanupRegistrations
  <2>1. NotRegistered \in [expires_at: 0..(MaxTime + Expires)]
    BY <1>2 DEF NotRegistered
  <2>2. registrations' \in [Extensions -> [expires_at: 0..(MaxTime + Expires)]]
    BY <1>1, <1>5, <2>1 DEF CleanupRegistrations, Clocks
  <2>3. cleaner' = [cleaner EXCEPT !.at = "nonces"] /\ now' = now
    BY <1>5 DEF CleanupRegistrations
  <2> QED
    BY <1>1, <2>2, <2>3 DEF Clocks
<1>6. CASE CleanupNonces
  BY <1>1, <1>2, <1>6 DEF CleanupNonces, Clocks, Sleeping, Times
<1>7. CASE Restart
  <2>1. NotRegistered \in [expires_at: 0..(MaxTime + Expires)]
    BY <1>2 DEF NotRegistered
  <2> QED
    BY <1>1, <1>2, <1>7, <2>1 DEF Restart, Clocks, Sleeping, Times
<1>8. CASE Tick
  BY <1>1, <1>2, <1>8 DEF Tick, Clocks, Times, server
<1>9. ASSUME UNCHANGED <<now, registrations, cleaner>> PROVE Clocks'
  BY <1>1, <1>9 DEF Clocks
<1>10. ASSUME NEW h \in Handlers,
              \/ InviteChecked(h) \/ NonceUnknown(h) \/ NonceExpired(h) \/ NonceReplayed(h)
              \/ NonceAccepted(h) \/ Challenge(h) \/ RecordFailure(h) \/ Block(h)
              \/ ClearFailures(h) \/ RegisterRepeated(h)
       PROVE  Clocks'
  BY <1>9, <1>10 DEF InviteChecked, NonceUnknown, NonceExpired, NonceReplayed, NonceAccepted,
     Challenge, RecordFailure, Block, ClearFailures, RegisterRepeated, server
<1>11. ASSUME NEW h \in Handlers, NEW e \in Extensions,
              RegisterArrives(h, e) \/ InviteArrives(h, e)
       PROVE  Clocks'
  BY <1>9, <1>11 DEF RegisterArrives, InviteArrives, server
<1>12. CASE UNCHANGED vars
  BY <1>9, <1>12 DEF vars, server
<1> QED
  BY <1>3, <1>4, <1>5, <1>6, <1>7, <1>8, <1>10, <1>11, <1>12 DEF Next, HandlerStep, Cleanup

(* Whatever requests, failures, cleanups and restarts come between: a      *)
(* nonce in issued_nonces has its newest count, an entry of failed_ips     *)
(* counts failures of its own window, who is about to be blocked is guilty.*)
THEOREM Invariant == Spec => []IInv
<1>1. IInv /\ [Next]_vars => IInv'
  <2> SUFFICES ASSUME IInv, [Next]_vars PROVE IInv'
    OBVIOUS
  <2>1. Requests' /\ Nonces' /\ Failures' /\ Blocks' /\ Phones' /\ Clocks'
    BY RequestsStep, NoncesStep, FailuresStep, BlocksStep, PhonesStep, ClocksStep
  <2> QED
    BY <2>1 DEF IInv, TypeOK, Requests, Nonces, Failures, Blocks, Phones, Clocks
<1> QED
  BY <1>1, InitInv, PTL DEF Spec

(* Every table keeps to its type and its capacity: nonces, addresses with  *)
(* failures, blocked addresses (registrar.rs: MAX_ISSUED_NONCES,           *)
(* IpBlockPolicy).                                                         *)
THEOREM TypeCorrect == Spec => []TypeOK
<1>1. IInv => TypeOK
  BY DEF IInv
<1> QED
  BY <1>1, Invariant, PTL

(* A nonce and nonce count that validate_nonce let pass never pass again.  *)
THEOREM SingleUse == Spec => []NonceOnce
<1>1. IInv => NonceOnce
  BY DEF IInv
<1> QED
  BY <1>1, Invariant, PTL

(* Only an address that failed MaxFailures times in one window is blocked. *)
THEOREM BlocksEarned == Spec => []BlockEarned
<1>1. IInv => BlockEarned
  BY DEF IInv
<1> QED
  BY <1>1, Invariant, PTL

(* The cleanup task never takes an extension offline, and no request does  *)
(* but one with a right digest that expires at once.                       *)
THEOREM StaysOnline == Spec => KeepsOnline
<1> DEFINE Excused(e) ==
      \/ now' > now
      \/ nRestarts' > nRestarts
      \/ \E h \in Handlers : /\ request[h].at = "register" /\ request[h].ext = e
                             /\ request[h].expires = 0 /\ request[h].verdict = "right"
    Kept == \A e \in Extensions : Online(e) /\ ~Online(e)' => Excused(e)
<1>1. IInv /\ [Next]_vars => [Kept]_vars
  <2> SUFFICES ASSUME IInv, [Next]_vars, NEW e \in Extensions, Online(e), ~Online(e)'
               PROVE  Excused(e)
    OBVIOUS
  <2>1. /\ now \in Nat /\ Expires \in Nat \ {0} /\ cleaner.now \in Nat /\ cleaner.now <= now
        /\ registrations \in [Extensions -> [expires_at: 0..(MaxTime + Expires)]]
        /\ nRestarts \in Nat
    BY Limits DEF IInv, TypeOK, Times
  <2>2. registrations[e].expires_at \in Nat
    BY <2>1, Limits
  <2>3. ~(UNCHANGED <<now, registrations>>)
    BY DEF Online
  <2>4. CASE Tick
    BY <2>1, <2>4 DEF Tick
  <2>5. CASE Restart
    BY <2>1, <2>5 DEF Restart
  <2>6. CASE CleanupRegistrations
    <3>1. now' = now /\ registrations[e].expires_at > cleaner.now
      BY <2>1, <2>2, <2>6 DEF CleanupRegistrations, Online
    <3>2. registrations'[e] = registrations[e]
      BY <2>1, <2>2, <2>6, <3>1 DEF CleanupRegistrations, Lapsed
    <3> QED
      BY <3>1, <3>2 DEF Online
  <2>7. ASSUME NEW h \in Handlers, Register(h) PROVE Excused(e)
    <3>1. now' = now /\ request[h].expires \in {0, Expires}
      BY <2>7, InHand DEF Register, Busy
    <3>2. request[h].at = "register" /\ request[h].verdict = "right"
      BY <2>7 DEF Register, IInv, HandlersRight
    <3>3. request[h].ext = e
      BY <2>1, <2>7, <3>1 DEF Register, Online
    <3>4. request[h].expires = 0
      <4> SUFFICES ASSUME request[h].expires # 0 PROVE FALSE
        OBVIOUS
      <4>1. registrations'[e] = [expires_at |-> now + Expires]
        BY <2>1, <2>7, <3>1, <3>3 DEF Register
      <4> QED
        BY <2>1, <3>1, <4>1 DEF Online
    <3> QED
      BY <3>2, <3>3, <3>4
  <2>8. ASSUME NEW h \in Handlers,
               \/ InviteChecked(h) \/ NonceUnknown(h) \/ NonceExpired(h) \/ NonceReplayed(h)
               \/ NonceAccepted(h) \/ Challenge(h) \/ RecordFailure(h) \/ Block(h)
               \/ ClearFailures(h) \/ RegisterRepeated(h)
        PROVE  FALSE
    BY <2>3, <2>8 DEF InviteChecked, NonceUnknown, NonceExpired, NonceReplayed, NonceAccepted,
       Challenge, RecordFailure, Block, ClearFailures, RegisterRepeated, server
  <2>9. ASSUME NEW h \in Handlers, NEW g \in Extensions,
               RegisterArrives(h, g) \/ InviteArrives(h, g)
        PROVE  FALSE
    BY <2>3, <2>9 DEF RegisterArrives, InviteArrives, server
  <2>10. ASSUME CleanupWakes \/ CleanupNonces \/ UNCHANGED vars PROVE FALSE
    BY <2>3, <2>10 DEF CleanupWakes, CleanupNonces, vars, server
  <2> HIDE DEF Excused
  <2> QED
    BY <2>4, <2>5, <2>6, <2>7, <2>8, <2>9, <2>10 DEF Next, HandlerStep, Cleanup
<1> QED
  BY <1>1, Invariant, PTL DEF Spec, KeepsOnline
==============================================================================
