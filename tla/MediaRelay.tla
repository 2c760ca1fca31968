------------------------------ MODULE MediaRelay ------------------------------
(***************************************************************************)
(* The RTP port allocator and the session table of MediaRelayManager       *)
(* (src/media/relay.rs).                                                   *)
(*                                                                         *)
(* create_session runs on any thread of the runtime and synchronises with  *)
(* the others in its atomic operations only: a look at the table under its *)
(* lock, then for each of the two ports a fetch_add on next_port and, past *)
(* the end of the range, a compare_exchange back to its start, then the    *)
(* insertion under the lock.  Each of them is an action.                   *)
(***************************************************************************)
EXTENDS Integers

CONSTANTS
  Threads,      \* threads that may be inside create_session at once
  SessionIds,   \* session ids (Call-IDs)
  PortStart,    \* port_start
  PortEnd,      \* port_end: the first port past the range
  Modulus,      \* 2^16 in the code: the counter is a u16
  MaxCreates,   \* bound: calls of create_session that allocate
  MaxMisses     \* bound: fetches that find the range used up

(* config.rs refuses an odd start and a start past the end.                *)
ASSUME RangeAssumption ==
  /\ PortStart \in Nat /\ PortEnd \in Nat /\ Modulus \in Nat
  /\ PortStart % 2 = 0 /\ PortStart <= PortEnd
  /\ PortEnd < Modulus
ASSUME SessionIdsAssumption == SessionIds # {}
ASSUME BoundsAssumption == MaxCreates \in Nat /\ MaxMisses \in Nat

VARIABLES
  next_port,    \* the counter
  sessions,     \* the sessions by id, NoSession if none
  thread,       \* where each thread is in create_session
  creates,      \* calls of create_session that allocated so far
  misses,       \* fetches so far that found the range used up
  round         \* history: times the counter was set back to port_start

vars == <<next_port, sessions, thread, creates, misses, round>>

(* The ports of the pool.                                                  *)
Pool == {p \in PortStart..(PortEnd - 1) : p % 2 = 0}

(* A port with the round it was taken in (history: no code keeps it).      *)
Grant == [port: Pool, round: Nat]
None  == [port |-> -1, round |-> 0]
MaybeGrant == Grant \cup {None}

NoSession == [caller_port |-> None, callee_port |-> None]
Session   == [caller_port: Grant, callee_port: Grant]

Idle == [at |-> "idle", id |-> CHOOSE s \in SessionIds : TRUE, attempts |-> 0,
         missed |-> 0, caller_port |-> None, callee_port |-> None]

Thread ==
  [at: {"idle", "caller", "caller_wrap", "callee", "callee_wrap", "insert"},
   id: SessionIds, attempts: 0..3, missed: Nat,
   caller_port: MaybeGrant, callee_port: MaybeGrant]

Init ==
  /\ next_port = PortStart
  /\ sessions  = [s \in SessionIds |-> NoSession]
  /\ thread    = [t \in Threads |-> Idle]
  /\ creates = 0 /\ misses = 0 /\ round = 0
------------------------------------------------------------------------------
(* create_session finds the session, which it returns, or goes to allocate.*)
CreateCalled(t, s) ==
  /\ thread[t].at = "idle" /\ creates < MaxCreates
  /\ sessions[s] = NoSession
  /\ thread' = [thread EXCEPT ![t] = [Idle EXCEPT !.at = "caller", !.id = s]]
  /\ creates' = creates + 1
  /\ UNCHANGED <<next_port, sessions, misses, round>>

(* Variant: a load and a store, whose increment another thread overwrites. *)
FetchAdd_lossy == next_port' \in {next_port, (next_port + 2) % Modulus}

FetchAdd == next_port' = (next_port + 2) % Modulus

(* Variant: the range taken to include its end.                            *)
InRange_inclusive(port) == port <= PortEnd

InRange(port) == port < PortEnd

Sides == {"caller", "callee"}
WrapOf(side) == IF side = "caller" THEN "caller_wrap" ELSE "callee_wrap"

(* The side's port is taken; the caller's is followed by the callee's.     *)
Granted(h, side, port) ==
  LET grant == [port |-> port, round |-> round] IN
  IF side = "caller"
  THEN [h EXCEPT !.at = "callee", !.caller_port = grant, !.attempts = 0]
  ELSE [h EXCEPT !.at = "insert", !.callee_port = grant]

(* fetch_add finds a port in the range.  (The code skips an odd one, which *)
(* an even start and an even modulus leave no way to meet.)                *)
Allocate(t, side) ==
  /\ thread[t].at = side
  /\ InRange(next_port) /\ next_port % 2 = 0
  /\ FetchAdd
  /\ thread' = [thread EXCEPT ![t] = Granted(@, side, next_port)]
  /\ UNCHANGED <<sessions, creates, misses, round>>

(* fetch_add finds the range used up.                                      *)
Miss(t, side) ==
  /\ thread[t].at = side
  /\ ~InRange(next_port) /\ misses < MaxMisses
  /\ FetchAdd
  /\ thread' = [thread EXCEPT ![t] = [@ EXCEPT !.at = WrapOf(side), !.missed = next_port]]
  /\ misses' = misses + 1
  /\ UNCHANGED <<sessions, creates, round>>

(* Variant: a store where the code has a compare_exchange.                 *)
SetBack_store(expected) == next_port' = PortStart /\ round' = round + 1

(* compare_exchange(expected, port_start), its result ignored.             *)
SetBack(expected) ==
  IF next_port = expected
  THEN next_port' = PortStart /\ round' = round + 1
  ELSE UNCHANGED <<next_port, round>>

(* After the compare_exchange the loop goes on, or, the fourth time, gives *)
(* up: the session is not created and a caller port already taken is lost. *)
Wrap(t, side) ==
  /\ thread[t].at = WrapOf(side)
  /\ SetBack((thread[t].missed + 2) % Modulus)
  /\ \/ /\ thread[t].attempts < 3
        /\ thread' = [thread EXCEPT ![t] =
                        [@ EXCEPT !.at = side, !.attempts = thread[t].attempts + 1,
                                  !.missed = 0]]
     \/ /\ thread[t].attempts = 3
        /\ thread' = [thread EXCEPT ![t] = Idle]
  /\ UNCHANGED <<sessions, creates, misses>>

Insert(t) ==
  /\ thread[t].at = "insert"
  /\ sessions' = [sessions EXCEPT ![thread[t].id] =
       [caller_port |-> thread[t].caller_port, callee_port |-> thread[t].callee_port]]
  /\ thread' = [thread EXCEPT ![t] = Idle]
  /\ UNCHANGED <<next_port, creates, misses, round>>

(* The ports go nowhere: the counter alone decides who gets them next.     *)
remove_session(s) ==
  /\ sessions[s] # NoSession
  /\ sessions' = [sessions EXCEPT ![s] = NoSession]
  /\ UNCHANGED <<next_port, thread, creates, misses, round>>

Next ==
  \/ \E t \in Threads :
       \/ \E s \in SessionIds : CreateCalled(t, s)
       \/ \E side \in Sides : Allocate(t, side) \/ Miss(t, side) \/ Wrap(t, side)
       \/ Insert(t)
  \/ \E s \in SessionIds : remove_session(s)

Spec == Init /\ [][Next]_vars
------------------------------------------------------------------------------
(* The counter, wherever the races at the end of the range drive it, stays *)
(* below its modulus.  What the theorems assume of the bounds.             *)
Headroom == PortEnd + 2 * MaxMisses + 2 < Modulus

(* Type invariant: every port handed out is an even port of the range.     *)
TypeOK ==
  /\ next_port \in 0..(Modulus - 1)
  /\ sessions \in [SessionIds -> Session \cup {NoSession}]
  /\ thread \in [Threads -> Thread]
  /\ creates \in 0..MaxCreates /\ misses \in 0..MaxMisses /\ round \in Nat

(* The port a session, or a thread inside create_session, has for a side.  *)
Taken(holder, side) ==
  IF side = "caller" THEN holder.caller_port ELSE holder.callee_port

(* However allocations race, at the end of the range above all, no port is *)
(* handed out twice in one round: two holders of one port took it with     *)
(* every other port of the pool handed out in between.                     *)
OncePerRound ==
  \A a, b \in Sides :
    /\ \A s, r \in SessionIds :
         (s # r \/ a # b) /\ Taken(sessions[s], a) = Taken(sessions[r], b)
           => Taken(sessions[s], a) = None
    /\ \A t, u \in Threads :
         (t # u \/ a # b) /\ Taken(thread[t], a) = Taken(thread[u], b)
           => Taken(thread[t], a) = None
    /\ \A s \in SessionIds, t \in Threads :
         Taken(sessions[s], a) = Taken(thread[t], b) => Taken(sessions[s], a) = None

(* The fetch_add and compare_exchange of all threads together are one      *)
(* counter that gives the whole pool before it starts again.               *)
Rounds == INSTANCE PortRounds WITH given <- {p \in Pool : p < next_port}
RoundsKept == Rounds!Spec

(* Why: a port taken in this round is behind the counter, and the counter  *)
(* is only set back by a thread that found it past the end.                *)
BehindCounter ==
  \A side \in Sides :
    /\ \A s \in SessionIds :
         LET g == Taken(sessions[s], side) IN
         g # None => g.round < round \/ (g.round = round /\ g.port < next_port)
    /\ \A t \in Threads :
         LET g == Taken(thread[t], side) IN
         g # None => g.round < round \/ (g.round = round /\ g.port < next_port)

CounterSane ==
  /\ next_port % 2 = 0
  /\ PortStart <= next_port /\ next_port <= PortEnd + 1 + 2 * misses
  /\ \A t \in Threads : thread[t].at \in {"caller_wrap", "callee_wrap"} =>
       /\ PortEnd <= thread[t].missed
       /\ thread[t].missed + 2 <= PortEnd + 1 + 2 * misses

(* A thread inserts a session only with both its ports.                    *)
BothTaken ==
  \A t \in Threads :
    /\ thread[t].at \in {"callee", "callee_wrap", "insert"} => thread[t].caller_port # None
    /\ thread[t].at = "insert" => thread[t].callee_port # None

IInv == TypeOK /\ OncePerRound /\ BehindCounter /\ CounterSane /\ BothTaken

(* What config.template.toml:73-74 says of the range: it has as many ports *)
(* as the server can carry calls at once, each call its own.               *)
MaxConcurrentCalls == (PortEnd - PortStart) \div 2
Running == {s \in SessionIds : sessions[s] # NoSession}
PortsOf(s) == {sessions[s].caller_port.port, sessions[s].callee_port.port}

PortsExclusive ==
  \A s, r \in Running : s # r => PortsOf(s) \cap PortsOf(r) = {}
==============================================================================
