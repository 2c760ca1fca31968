--------------------------- MODULE MediaRelayProofs ---------------------------
(***************************************************************************)
(* Proofs about MediaRelay, for every pool, number of threads and number   *)
(* of sessions, as long as the counter has the headroom the bounds need.   *)
(***************************************************************************)
EXTENDS MediaRelay, TLAPS

Thread_at == {"idle", "caller", "caller_wrap", "callee", "callee_wrap", "insert"}

LEMMA IdleType ==
  /\ Idle \in Thread /\ Idle.at = "idle"
  /\ \A side \in Sides : Taken(Idle, side) = None
  BY SessionIdsAssumption DEF Idle, Thread, Taken, Sides, MaybeGrant

LEMMA NoGrant == None \notin Grant
  BY RangeAssumption DEF None, Grant, Pool

(* A thread's entry keeps its type when fields are replaced by values of   *)
(* theirs.                                                                 *)
LEMMA ThreadUpdate ==
  ASSUME NEW h \in Thread, NEW at \in Thread_at, NEW n \in 0..3, NEW g \in MaybeGrant
  PROVE  /\ [h EXCEPT !.at = at, !.attempts = n, !.missed = 0] \in Thread
         /\ [h EXCEPT !.at = at, !.caller_port = g, !.attempts = n] \in Thread
         /\ [h EXCEPT !.at = at, !.callee_port = g] \in Thread
  BY DEF Thread, Thread_at

(* Below its modulus, the counter is the mathematical one.                 *)
LEMMA NoWrapAround ==
  ASSUME NEW n \in Nat, n < Modulus
  PROVE  n % Modulus = n
  BY RangeAssumption

LEMMA EvenSuccessor ==
  ASSUME NEW n \in Nat, n % 2 = 0
  PROVE  (n + 2) % 2 = 0 /\ (n + 1) % 2 # 0
  OBVIOUS

LEMMA FetchAddIsExact ==
  ASSUME Headroom, TypeOK, CounterSane, FetchAdd,
         InRange(next_port) \/ misses < MaxMisses
  PROVE  /\ next_port' = next_port + 2
         /\ next_port' % 2 = 0
         /\ next_port' \in 0..(Modulus - 1)
<1>1. next_port \in Nat /\ next_port + 2 < Modulus
  BY RangeAssumption, BoundsAssumption DEF Headroom, TypeOK, CounterSane, InRange
<1>2. next_port' = next_port + 2
  BY <1>1, NoWrapAround DEF FetchAdd
<1>3. (next_port + 2) % 2 = 0
  BY <1>1, EvenSuccessor DEF CounterSane
<1> QED
  BY <1>1, <1>2, <1>3, RangeAssumption
------------------------------------------------------------------------------
(* A step that hands out nothing and leaves every holding where it was, or *)
(* gives it up, keeps OncePerRound and BehindCounter.                      *)
LEMMA NothingTaken ==
  ASSUME TypeOK, OncePerRound, BehindCounter,
         \A side \in Sides :
           /\ \A s \in SessionIds : Taken(sessions[s], side)' \in {Taken(sessions[s], side), None}
           /\ \A t \in Threads : Taken(thread[t], side)' \in {Taken(thread[t], side), None},
         \/ round' = round /\ next_port <= next_port' /\ next_port' \in Nat
         \/ round' = round + 1
  PROVE  OncePerRound' /\ BehindCounter'
<1>1. /\ next_port \in Nat /\ round \in Nat
      /\ \A side \in Sides :
           /\ \A s \in SessionIds : Taken(sessions[s], side) \in Grant \cup {None}
           /\ \A t \in Threads : Taken(thread[t], side) \in Grant \cup {None}
  BY DEF TypeOK, Session, Thread, Taken, Sides, NoSession, MaybeGrant
<1>2. OncePerRound'
  BY DEF OncePerRound
<1>3. \A g \in Grant : g.round \in Nat /\ g.port \in Nat
  BY RangeAssumption DEF Grant, Pool
<1>4. BehindCounter'
  BY <1>1, <1>3 DEF BehindCounter
<1> QED
  BY <1>2, <1>4

LEMMA Step == Headroom /\ IInv /\ [Next]_vars => IInv'
<1> SUFFICES ASSUME Headroom, IInv, [Next]_vars
             PROVE  IInv'
  OBVIOUS
<1> TypeOK /\ OncePerRound /\ BehindCounter /\ CounterSane /\ BothTaken
  BY DEF IInv
<1> /\ next_port \in Nat /\ round \in Nat /\ misses \in Nat
    /\ PortStart \in Nat /\ PortEnd \in Nat /\ Modulus \in Nat /\ PortEnd < Modulus
    /\ PortStart <= PortEnd /\ PortStart % 2 = 0
  BY RangeAssumption, BoundsAssumption DEF TypeOK
<1>1. ASSUME NEW t \in Threads, NEW s \in SessionIds, CreateCalled(t, s)
      PROVE  IInv'
  <2> DEFINE new == [Idle EXCEPT !.at = "caller", !.id = s]
  <2>1. new \in Thread /\ new.at = "caller" /\ \A side \in Sides : Taken(new, side) = None
    BY IdleType DEF Thread, Taken
  <2>2. /\ thread' = [thread EXCEPT ![t] = new] /\ creates' = creates + 1
        /\ UNCHANGED <<next_port, sessions, misses, round>> /\ creates < MaxCreates
    BY <1>1 DEF CreateCalled
  <2> HIDE DEF new
  <2>3. TypeOK'
    BY <2>1, <2>2, BoundsAssumption DEF TypeOK
  <2>4. OncePerRound' /\ BehindCounter'
    BY <2>1, <2>2, NothingTaken DEF TypeOK
  <2>5. CounterSane' /\ BothTaken'
    BY <2>1, <2>2 DEF CounterSane, BothTaken, TypeOK
  <2> QED
    BY <2>3, <2>4, <2>5 DEF IInv
<1>2. ASSUME NEW t \in Threads, NEW side \in Sides, Allocate(t, side)
      PROVE  IInv'
  <2> DEFINE grant == [port |-> next_port, round |-> round]
             new == Granted(thread[t], side, next_port)
             other == IF side = "caller" THEN "callee" ELSE "caller"
  <2>1. /\ grant \in Grant /\ grant # None /\ thread[t] \in Thread
        /\ next_port \in Pool
    BY <1>2, NoGrant DEF Allocate, InRange, Grant, Pool, CounterSane, TypeOK
  <2>2. /\ new \in Thread
        /\ Taken(new, side) = grant /\ Taken(new, other) = Taken(thread[t], other)
        /\ new.at = IF side = "caller" THEN "callee" ELSE "insert"
    <3>1. CASE side = "caller"
      <4>1. new = [thread[t] EXCEPT !.at = "callee", !.caller_port = grant, !.attempts = 0]
        BY <3>1 DEF Granted
      <4> HIDE DEF new, grant
      <4>2. new \in Thread
        <5>1. 0 \in 0..3 /\ "callee" \in Thread_at /\ grant \in MaybeGrant
          BY <2>1 DEF Thread_at, MaybeGrant
        <5> QED
          BY <2>1, <4>1, <5>1, ThreadUpdate, Zenon
      <4>3. /\ new.caller_port = grant /\ new.callee_port = thread[t].callee_port
            /\ new.at = "callee"
        BY <2>1, <4>1 DEF Thread
      <4> QED
        BY <3>1, <4>2, <4>3 DEF Taken
    <3>2. CASE side = "callee"
      <4>1. new = [thread[t] EXCEPT !.at = "insert", !.callee_port = grant]
        BY <3>2 DEF Granted
      <4> HIDE DEF new, grant
      <4>2. new \in Thread
        <5>1. 0 \in 0..3 /\ "insert" \in Thread_at /\ grant \in MaybeGrant
          BY <2>1 DEF Thread_at, MaybeGrant
        <5> QED
          BY <2>1, <4>1, <5>1, ThreadUpdate, Zenon
      <4>3. /\ new.callee_port = grant /\ new.caller_port = thread[t].caller_port
            /\ new.at = "insert"
        BY <2>1, <4>1 DEF Thread
      <4> QED
        BY <3>2, <4>2, <4>3 DEF Taken
    <3> QED
      BY <3>1, <3>2 DEF Sides
  <2>3. /\ thread' = [thread EXCEPT ![t] = new]
        /\ UNCHANGED <<sessions, creates, misses, round>>
    BY <1>2 DEF Allocate
  <2>4. next_port' = next_port + 2 /\ next_port' % 2 = 0 /\ next_port' \in 0..(Modulus - 1)
    BY <1>2, FetchAddIsExact DEF Allocate
  <2>5. /\ \A a \in Sides : /\ \A s \in SessionIds : Taken(sessions[s], a) # grant
                            /\ \A u \in Threads : Taken(thread[u], a) # grant
    BY <2>1 DEF BehindCounter
  <2>6. /\ \A a \in Sides : \A s \in SessionIds : Taken(sessions[s], a)' = Taken(sessions[s], a)
        /\ \A a \in Sides : \A u \in Threads \ {t} :
              Taken(thread[u], a)' = Taken(thread[u], a)
        /\ Taken(thread[t], side)' = grant
        /\ \A a \in Sides \ {side} : Taken(thread[t], a)' = Taken(thread[t], a)
    BY <2>2, <2>3 DEF TypeOK, Sides
  <2> HIDE DEF new, grant
  <2>7. TypeOK'
    BY <2>2, <2>3, <2>4 DEF TypeOK
  <2>8. OncePerRound'
    BY <2>1, <2>5, <2>6 DEF OncePerRound
  <2>9. BehindCounter'
    <3>1. grant.round = round /\ grant.port < next_port'
      BY <2>4 DEF grant
    <3>2. /\ \A a \in Sides :
             /\ \A s \in SessionIds : Taken(sessions[s], a) \in MaybeGrant
             /\ \A u \in Threads : Taken(thread[u], a) \in MaybeGrant
      BY DEF TypeOK, Session, Thread, Taken, Sides, NoSession, MaybeGrant
    <3>3. \A g \in Grant : g.round \in Nat /\ g.port \in Nat
      BY DEF Grant, Pool
    <3> QED
      BY <2>3, <2>4, <2>6, <3>1, <3>2, <3>3 DEF BehindCounter, MaybeGrant
  <2>10. CounterSane'
    <3>1. next_port' <= PortEnd + 1 + 2 * misses /\ PortStart <= next_port'
      BY <1>2, <2>4 DEF Allocate, InRange, CounterSane
    <3> QED
      BY <2>2, <2>3, <2>4, <3>1 DEF CounterSane, TypeOK
  <2>11. BothTaken'
    <3>1. thread[t].at = side
      BY <1>2 DEF Allocate
    <3>2. new.caller_port # None /\ (new.at = "insert" => new.callee_port # None)
      BY <2>1, <2>2, <3>1 DEF BothTaken, Taken, Sides
    <3> QED
      BY <2>3, <3>2 DEF BothTaken, TypeOK
  <2> QED
    BY <2>7, <2>8, <2>9, <2>10, <2>11 DEF IInv
<1>3. ASSUME NEW t \in Threads, NEW side \in Sides, Miss(t, side)
      PROVE  IInv'
  <2> DEFINE new == [thread[t] EXCEPT !.at = WrapOf(side), !.missed = next_port]
  <2>1. /\ new \in Thread /\ new.missed = next_port
        /\ \A a \in Sides : Taken(new, a) = Taken(thread[t], a)
        /\ new.at # "insert" /\ (new.at = "callee_wrap" => thread[t].at = "callee")
        /\ new.at # "callee" /\ new.caller_port = thread[t].caller_port
    BY <1>3 DEF TypeOK, Thread, Taken, WrapOf, Sides, Miss
  <2>2. /\ thread' = [thread EXCEPT ![t] = new] /\ misses' = misses + 1
        /\ UNCHANGED <<sessions, creates, round>>
        /\ misses < MaxMisses /\ PortEnd <= next_port
    BY <1>3 DEF Miss, InRange
  <2>3. next_port' = next_port + 2 /\ next_port' % 2 = 0 /\ next_port' \in 0..(Modulus - 1)
    BY <1>3, FetchAddIsExact DEF Miss
  <2> HIDE DEF new
  <2>4. TypeOK'
    BY <2>1, <2>2, <2>3, BoundsAssumption DEF TypeOK
  <2>5. OncePerRound' /\ BehindCounter'
    BY <2>1, <2>2, <2>3, NothingTaken DEF TypeOK
  <2>6. CounterSane' /\ BothTaken'
    BY <2>1, <2>2, <2>3 DEF CounterSane, BothTaken, TypeOK, Thread
  <2> QED
    BY <2>4, <2>5, <2>6 DEF IInv
<1>4. ASSUME NEW t \in Threads, NEW side \in Sides, Wrap(t, side)
      PROVE  IInv'
  <2> DEFINE again == [thread[t] EXCEPT !.at = side,
                                        !.attempts = thread[t].attempts + 1, !.missed = 0]
             new == IF thread[t].attempts = 3 THEN Idle ELSE again
  <2>0. thread' = [thread EXCEPT ![t] = new]
    <3>1. CASE thread[t].attempts < 3
      <4>1. thread' = [thread EXCEPT ![t] = again]
        BY <1>4, <3>1 DEF Wrap
      <4>2. new = again
        BY <3>1
      <4> QED
        BY <4>1, <4>2
    <3>2. CASE thread[t].attempts = 3
      <4>1. thread' = [thread EXCEPT ![t] = Idle]
        BY <1>4, <3>2 DEF Wrap
      <4> QED
        BY <3>2, <4>1
    <3> QED
      BY <1>4, <3>1, <3>2 DEF Wrap
  <2>1. /\ new \in Thread /\ new.at \in {"idle", side}
        /\ \A a \in Sides : Taken(new, a) \in {Taken(thread[t], a), None}
        /\ new.at = "callee" => new.caller_port = thread[t].caller_port
    <3>1. CASE thread[t].attempts = 3
      BY <3>1, IdleType DEF Sides
    <3>2. CASE thread[t].attempts # 3
      <4>1. /\ thread[t] \in Thread /\ thread[t].attempts + 1 \in 0..3
            /\ side \in Thread_at /\ None \in MaybeGrant
        BY <3>2 DEF TypeOK, Thread, Thread_at, Sides, MaybeGrant
      <4>2. again \in Thread
        BY <4>1, ThreadUpdate, Zenon
      <4>3. /\ again.at = side /\ again.caller_port = thread[t].caller_port
            /\ again.callee_port = thread[t].callee_port
        BY <4>1 DEF Thread
      <4>4. new = again
        BY <3>2
      <4> HIDE DEF new, again
      <4> QED
        BY <4>2, <4>3, <4>4 DEF Taken
    <3> QED
      BY <3>1, <3>2
  <2> HIDE DEF new
  <2>2. /\ UNCHANGED <<sessions, creates, misses>>
        /\ \/ next_port' = PortStart /\ round' = round + 1
           \/ UNCHANGED <<next_port, round>>
        /\ thread[t].at = WrapOf(side)
    BY <1>4 DEF Wrap, SetBack
  <2>3. TypeOK'
    BY <2>0, <2>1, <2>2 DEF TypeOK
  <2>4. OncePerRound' /\ BehindCounter'
    BY <2>0, <2>1, <2>2, NothingTaken DEF TypeOK
  <2>5. CounterSane'
    BY <2>0, <2>1, <2>2 DEF CounterSane, TypeOK, Sides
  <2>6. BothTaken'
    BY <2>0, <2>1, <2>2 DEF BothTaken, TypeOK, Sides, WrapOf
  <2> QED
    BY <2>3, <2>4, <2>5, <2>6 DEF IInv
<1>5. ASSUME NEW t \in Threads, Insert(t) PROVE IInv'
  <2> DEFINE new == [caller_port |-> thread[t].caller_port,
                     callee_port |-> thread[t].callee_port]
  <2> PICK s \in SessionIds : s = thread[t].id
    BY DEF TypeOK, Thread
  <2>1. /\ sessions' = [sessions EXCEPT ![s] = new]
        /\ thread' = [thread EXCEPT ![t] = Idle]
        /\ UNCHANGED <<next_port, creates, misses, round>>
    BY <1>5 DEF Insert
  <2>2. /\ \A a \in Sides : Taken(new, a) = Taken(thread[t], a)
        /\ new \in Session
    BY <1>5 DEF Taken, Session, Insert, BothTaken, TypeOK, Thread, MaybeGrant
  <2> HIDE DEF new
  <2>3. /\ \A a \in Sides : /\ Taken(sessions'[s], a) = Taken(thread[t], a)
                            /\ Taken(thread'[t], a) = None
        /\ \A r \in SessionIds \ {s} : sessions'[r] = sessions[r]
        /\ \A u \in Threads \ {t} : thread'[u] = thread[u]
    BY <2>1, <2>2, IdleType DEF TypeOK
  <2>4. TypeOK'
    BY <2>1, <2>2, IdleType DEF TypeOK
  <2>5. OncePerRound'
    BY <2>3 DEF OncePerRound
  <2>6. BehindCounter'
    BY <2>1, <2>3 DEF BehindCounter
  <2>7. CounterSane' /\ BothTaken'
    BY <2>1, IdleType DEF CounterSane, BothTaken, TypeOK
  <2> QED
    BY <2>4, <2>5, <2>6, <2>7 DEF IInv
<1>6. ASSUME NEW s \in SessionIds, remove_session(s) PROVE IInv'
  <2>1. /\ sessions' = [sessions EXCEPT ![s] = NoSession]
        /\ UNCHANGED <<next_port, thread, creates, misses, round>>
    BY <1>6 DEF remove_session
  <2>2. \A a \in Sides : Taken(NoSession, a) = None
    BY DEF NoSession, Taken
  <2>3. OncePerRound' /\ BehindCounter'
    BY <2>1, <2>2, NothingTaken DEF TypeOK
  <2> QED
    BY <2>1, <2>3 DEF IInv, TypeOK, CounterSane, BothTaken
<1>7. CASE UNCHANGED vars
  BY <1>7 DEF vars, IInv, TypeOK, OncePerRound, BehindCounter, CounterSane, BothTaken
<1> QED
  BY <1>1, <1>2, <1>3, <1>4, <1>5, <1>6, <1>7 DEF Next

(* The inductive invariant holds in every reachable state.                 *)
THEOREM Invariant == ASSUME Headroom PROVE Spec => []IInv
<1>1. Init => IInv
  <2>1. Init => TypeOK
    BY IdleType, RangeAssumption, BoundsAssumption DEF Init, TypeOK
  <2>2. ASSUME Init PROVE OncePerRound /\ BehindCounter /\ BothTaken
    <3>1. \A a \in Sides : /\ \A s \in SessionIds : Taken(sessions[s], a) = None
                           /\ \A t \in Threads : Taken(thread[t], a) = None
      BY <2>2, IdleType DEF Init, NoSession, Taken
    <3> QED
      BY <2>2, <3>1, IdleType DEF Init, OncePerRound, BehindCounter, BothTaken
  <2>3. Init => CounterSane
    BY RangeAssumption, IdleType DEF Init, CounterSane
  <2> QED
    BY <2>1, <2>2, <2>3 DEF IInv
<1>2. IInv /\ [Next]_vars => IInv'
  BY Step
<1> QED
  BY <1>1, <1>2, PTL DEF Spec

(* Every port in a session or in a thread's hands is an even port of the   *)
(* configured range.                                                       *)
THEOREM TypeCorrect == ASSUME Headroom PROVE Spec => []TypeOK
<1>1. IInv => TypeOK
  BY DEF IInv
<1> QED
  BY <1>1, Invariant, PTL

(* No interleaving of allocate_port_pair hands a port out twice in a round *)
(* of the counter.                                                         *)
THEOREM DistinctInRound == ASSUME Headroom PROVE Spec => []OncePerRound
<1>1. IInv => OncePerRound
  BY DEF IInv
<1> QED
  BY <1>1, Invariant, PTL
------------------------------------------------------------------------------
Given == {p \in Pool : p < next_port}

LEMMA RefinedStep ==
  ASSUME Headroom, IInv, [Next]_vars
  PROVE  [Rounds!Next]_Given
<1> TypeOK /\ CounterSane
  BY DEF IInv
<1> /\ next_port \in Nat /\ misses \in Nat
    /\ PortStart \in Nat /\ PortEnd \in Nat /\ Modulus \in Nat /\ PortEnd < Modulus
    /\ PortStart <= PortEnd /\ PortStart % 2 = 0
  BY RangeAssumption, BoundsAssumption DEF TypeOK
<1>1. CASE UNCHANGED next_port
  BY <1>1 DEF Given
<1>2. ASSUME NEW t \in Threads, NEW side \in Sides, Allocate(t, side)
      PROVE  [Rounds!Next]_Given
  <2>1. next_port' = next_port + 2
    BY <1>2, FetchAddIsExact DEF Allocate
  <2>2. next_port \in Pool /\ next_port \notin Given
    BY <1>2 DEF Allocate, InRange, Pool, CounterSane, Given
  <2>3. \A p \in Pool : p \in Nat /\ p # next_port + 1
    BY EvenSuccessor DEF Pool, CounterSane
  <2>4. Given' = Given \cup {next_port}
    <3>1. \A p \in Pool : p < next_port' <=> (p < next_port \/ p = next_port)
      BY <2>1, <2>3
    <3> QED
      BY <2>2, <3>1 DEF Given
  <2> QED
    BY <2>2, <2>4 DEF Rounds!Next, Rounds!Give, Given
<1>3. ASSUME NEW t \in Threads, NEW side \in Sides, Miss(t, side)
      PROVE  [Rounds!Next]_Given
  <2>1. next_port' = next_port + 2 /\ PortEnd <= next_port
    BY <1>3, FetchAddIsExact DEF Miss, InRange
  <2>2. Given' = Given
    BY <2>1 DEF Given, Pool
  <2> QED
    BY <2>2
<1>4. ASSUME NEW t \in Threads, NEW side \in Sides, Wrap(t, side),
             next_port = (thread[t].missed + 2) % Modulus, next_port' = PortStart
      PROVE  [Rounds!Next]_Given
  <2>1. /\ thread[t].missed \in Nat /\ PortEnd <= thread[t].missed
        /\ thread[t].missed + 2 <= PortEnd + 1 + 2 * misses
    <3>1. thread[t].at \in {"caller_wrap", "callee_wrap"}
      BY <1>4 DEF Wrap, WrapOf
    <3> QED
      BY <3>1 DEF CounterSane, TypeOK, Thread
  <2>2. thread[t].missed + 2 < Modulus
    BY <2>1, BoundsAssumption DEF Headroom, TypeOK
  <2>3. next_port = thread[t].missed + 2
    BY <1>4, <2>1, <2>2, NoWrapAround
  <2>4. Given = Pool /\ Given' = {}
    <3>1. \A p \in Pool : p \in Nat /\ PortStart <= p /\ p < next_port
      BY <2>1, <2>3 DEF Pool
    <3> QED
      BY <1>4, <3>1 DEF Given
  <2> QED
    BY <2>4 DEF Rounds!Next, Rounds!NextRound, Given
<1> QED
  BY <1>1, <1>2, <1>3, <1>4
  DEF Next, vars, CreateCalled, Insert, remove_session, Wrap, SetBack

(* The fetch_add and compare_exchange of all threads together implement a  *)
(* counter that gives the whole pool before it starts again.               *)
THEOREM Implements == ASSUME Headroom PROVE Spec => RoundsKept
<1>1. Init => Rounds!Init
  BY RangeAssumption DEF Init, Rounds!Init, Pool
<1>2. IInv /\ [Next]_vars => [Rounds!Next]_Given
  BY RefinedStep
<1> QED
  BY <1>1, <1>2, Invariant, PTL DEF Spec, RoundsKept, Rounds!Spec, Given
==============================================================================
