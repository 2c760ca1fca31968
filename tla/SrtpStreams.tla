------------------------------ MODULE SrtpStreams ------------------------------
(***************************************************************************)
(* The packets of a relay that runs: forwarding and the learning of        *)
(* addresses in the two tasks of run_relay (src/media/relay.rs), and the   *)
(* stream state of SRTP (src/media/srtp.rs) they keep.                     *)
(*                                                                         *)
(* A packet carries 16 bits of its index; the rest, the rollover counter,  *)
(* each end has to work out from what it has seen.  The counter goes into  *)
(* the authentication tag and the keystream (srtp.rs:428, 611, 667), so a  *)
(* packet opens exactly if it was estimated right.  Payloads, keys and     *)
(* headers are left out; both sides have their keys, since a side without  *)
(* drops everything (relay.rs:280, 361).  Packets that are damaged fail    *)
(* the tag, change no state, and count as lost.                            *)
(*                                                                         *)
(* How a relay starts, stops and breaks is in module CallRouter.           *)
(***************************************************************************)
EXTENDS Integers

CONSTANTS
  Streams,          \* SSRCs of one call
  SideOf,           \* SideOf[s]: the phone that sends s, "caller" or "callee"
  Firsts,           \* Firsts[s]: the sequence numbers s may start with
  Modulus,          \* of sequence numbers; 2^16 in the code
  Window,           \* how far a packet may come after newer ones
  MaxIndex          \* MaxIndex[s]: bounds the packets of s

Sides == {"caller", "callee"}

ASSUME StreamsAssumption ==
  /\ SideOf \in [Streams -> Sides]
  /\ Firsts \in [Streams -> SUBSET (0..(Modulus - 1))]
  /\ MaxIndex \in [Streams -> Nat]
ASSUME ModulusAssumption == Modulus \in Nat /\ Modulus > 0 /\ Modulus % 2 = 0
ASSUME WindowAssumption == Window \in 0..(Modulus \div 2)

None == -1
Half == Modulus \div 2
Other(side) == IF side = "caller" THEN "callee" ELSE "caller"

(* What a packet carries of its index, and what it does not.               *)
Sequence(i) == i % Modulus
Rollovers(i) == i \div Modulus

StreamState == [roc: Nat, highest_sequence: (0..(Modulus - 1)) \cup {None}]
NewStream == [roc |-> 0, highest_sequence |-> None]
Index(roc, sequence) == roc * Modulus + sequence

VARIABLES
  first, next,      \* the phones: index of the first packet of s and of the next
  remote,           \* the sides whose address is known
  handling,         \* the packet the task of each side holds
  decrypt, encrypt, \* stream_states of the two suites of the direction of s
  top,              \* history: highest index of s that was opened
  out               \* history: the last packet sent, and the index it has

vars == <<first, next, remote, handling, decrypt, encrypt, top, out>>

NoPacket == [stream |-> None, index |-> None]
Packet == [stream: Streams, index: Nat]

(* Each address is known from the SDP or not; rollover counters start at 0.*)
Init ==
  /\ first \in {f \in [Streams -> 0..(Modulus - 1)] : \A s \in Streams : f[s] \in Firsts[s]}
  /\ next = first
  /\ remote \in SUBSET Sides
  /\ handling = [side \in Sides |-> NoPacket]
  /\ decrypt = [s \in Streams |-> NewStream]
  /\ encrypt = [s \in Streams |-> NewStream]
  /\ top = [s \in Streams |-> None]
  /\ out = [of |-> NoPacket, as |-> None]
------------------------------------------------------------------------------
(* The stream state.                                                       *)

(* Variant: only sequence number 0 begins a new round.                     *)
estimate_roc_at_zero(state, sequence) ==
  IF sequence = 0 /\ state.highest_sequence >= Half THEN state.roc + 1 ELSE state.roc

(* roc.saturating_sub(1) on the way back.  The counter of 32 bits is never *)
(* near its end: that takes 2^48 packets.                                  *)
estimate_roc(state, sequence) ==
  LET highest == state.highest_sequence IN
  CASE /\ highest # None /\ highest < Half
       /\ (sequence - highest) % Modulus > Half -> IF state.roc = 0 THEN 0 ELSE state.roc - 1
    [] highest >= Half /\ highest - Half > sequence -> state.roc + 1
    [] OTHER -> state.roc

(* Variant: rollover counters are not part of the comparison.              *)
update_stream_state_by_sequence(state, sequence, roc) ==
  IF sequence > state.highest_sequence
  THEN [roc |-> roc, highest_sequence |-> sequence]
  ELSE state

(* Variant: the number expected next is kept, past the last one, too.      *)
update_stream_state_to_next(state, sequence, roc) ==
  IF \/ state.highest_sequence = None
     \/ Index(roc, sequence) >= Index(state.roc, state.highest_sequence)
  THEN [roc |-> roc, highest_sequence |-> sequence + 1]
  ELSE state

update_stream_state_after_success(state, sequence, roc) ==
  IF \/ state.highest_sequence = None
     \/ Index(roc, sequence) > Index(state.roc, state.highest_sequence)
  THEN [roc |-> roc, highest_sequence |-> sequence]
  ELSE state

(* The tag of packet i of s verifies: unprotect_rtp has the sender's ROC.  *)
Opens(s, i) == estimate_roc(decrypt[s], Sequence(i)) = Rollovers(i)

unprotect_rtp(s, i) ==
  /\ Opens(s, i)
  /\ decrypt' = [decrypt EXCEPT ![s] =
                   update_stream_state_after_success(@, Sequence(i), Rollovers(i))]
  /\ top' = [top EXCEPT ![s] = IF i > @ THEN i ELSE @]

(* Variant: the state is read and not written back.                        *)
protect_rtp_only(s, i) ==
  /\ out' = [of |-> [stream |-> s, index |-> i],
             as |-> Index(estimate_roc(encrypt[s], Sequence(i)), Sequence(i))]
  /\ UNCHANGED encrypt

protect_rtp(s, i) ==
  LET roc == estimate_roc(encrypt[s], Sequence(i)) IN
  /\ out' = [of |-> [stream |-> s, index |-> i], as |-> Index(roc, Sequence(i))]
  /\ encrypt' = [encrypt EXCEPT ![s] = update_stream_state_after_success(@, Sequence(i), roc)]
------------------------------------------------------------------------------
(* The phones and the network: packets get lost, are repeated and overtake *)
(* each other, by no more than Window packets.                             *)

PhoneSends(s) ==
  /\ next[s] <= MaxIndex[s]
  /\ next' = [next EXCEPT ![s] = @ + 1]
  /\ UNCHANGED <<first, remote, handling, decrypt, encrypt, top, out>>

UnderWay(s) == {i \in first[s]..(next[s] - 1) : i + Window >= next[s] - 1}

(* A task receives a packet; the first locks the address of its side.      *)
Receives(s, i) ==
  /\ handling[SideOf[s]] = NoPacket
  /\ i \in UnderWay(s)
  /\ handling' = [handling EXCEPT ![SideOf[s]] = [stream |-> s, index |-> i]]
  /\ remote' = remote \cup {SideOf[s]}
  /\ UNCHANGED <<first, next, decrypt, encrypt, top, out>>

Done(side) == handling' = [handling EXCEPT ![side] = NoPacket]

(* The other side's address is not known: dropped without a look.          *)
DropsUnaddressed(side) ==
  /\ handling[side] # NoPacket
  /\ Other(side) \notin remote
  /\ Done(side)
  /\ UNCHANGED <<first, next, remote, decrypt, encrypt, top, out>>

(* The tag does not verify: AuthenticationFailed.                          *)
DropsUnopened(side) ==
  /\ handling[side] # NoPacket
  /\ Other(side) \in remote
  /\ ~Opens(handling[side].stream, handling[side].index)
  /\ Done(side)
  /\ UNCHANGED <<first, next, remote, decrypt, encrypt, top, out>>

(* Opened, protected for the other phone and sent.                         *)
Forwards(side) ==
  /\ handling[side] # NoPacket
  /\ Other(side) \in remote
  /\ unprotect_rtp(handling[side].stream, handling[side].index)
  /\ protect_rtp(handling[side].stream, handling[side].index)
  /\ Done(side)
  /\ UNCHANGED <<first, next, remote>>

Next ==
  \/ \E s \in Streams : PhoneSends(s) \/ \E i \in UnderWay(s) : Receives(s, i)
  \/ \E side \in Sides : DropsUnaddressed(side) \/ DropsUnopened(side) \/ Forwards(side)

Spec == Init /\ [][Next]_vars
------------------------------------------------------------------------------
(* Type invariant.  Sequence numbers are kept as the packet has them.      *)
TypeOK ==
  /\ first \in [Streams -> 0..(Modulus - 1)]
  /\ next \in [Streams -> Nat] /\ \A s \in Streams : first[s] <= next[s]
  /\ remote \subseteq Sides
  /\ handling \in [Sides -> Packet \cup {NoPacket}]
  /\ decrypt \in [Streams -> StreamState] /\ encrypt \in [Streams -> StreamState]
  /\ top \in [Streams -> Nat \cup {None}]
  /\ out \in [of: Packet \cup {NoPacket}, as: Nat \cup {None}]

(* Both suites of a direction are where the sender is: they hold the index *)
(* of the newest packet that was opened, whatever came late or twice.  So  *)
(* the relay goes on to estimate alike when it opens and when it protects. *)
Stands(state, t) ==
  IF t = None THEN state = NewStream
  ELSE state.highest_sequence # None /\ Index(state.roc, state.highest_sequence) = t

InStep == \A s \in Streams : encrypt[s] = decrypt[s] /\ Stands(decrypt[s], top[s])

(* A packet leaves under the index it came with.  The other phone, which   *)
(* counts like the relay, can open it, and no keystream serves two packets *)
(* (srtp.rs:574, 611: the index is what makes it unique).                  *)
IndexKept == out.as = out.of.index

(* Loss does not put a stream out of step: once one packet was opened, a   *)
(* newer one opens as long as fewer than Half are missing in between, the  *)
(* first after a rollover as any other.                                    *)
NewerOpens ==
  \A s \in Streams :
    top[s] # None =>
      \A i \in first[s]..(next[s] - 1) : top[s] < i /\ i < top[s] + Half => Opens(s, i)

(* What srtp.rs:3 and 145 say the file implements: RFC 3711 takes the      *)
(* index closest to the newest one, so that a packet that comes a little   *)
(* late opens too.                                                         *)
LateOpens ==
  \A s \in Streams :
    top[s] # None =>
      \A i \in UnderWay(s) : top[s] - Half < i /\ i < top[s] => Opens(s, i)
==============================================================================
