--------------------------- MODULE SrtpStreamsProofs ---------------------------
(***************************************************************************)
(* Proofs about SrtpStreams: for any streams, start numbers, modulus and   *)
(* amount of loss and reordering, the suites of a direction stay in step   *)
(* with the sender and every packet leaves under the index it came with.   *)
(***************************************************************************)
EXTENDS SrtpStreams, TLAPS

IInv == TypeOK /\ InStep /\ IndexKept

(* An index is made of what the packet carries and what it does not.       *)
LEMMA IndexSplits ==
  ASSUME NEW i \in Nat
  PROVE  /\ Sequence(i) \in 0..(Modulus - 1)
         /\ Rollovers(i) \in Nat
         /\ Index(Rollovers(i), Sequence(i)) = i
  BY ModulusAssumption DEF Sequence, Rollovers, Index

(* After a packet a suite stands at the newer of it and what was before.   *)
LEMMA UpdateStands ==
  ASSUME NEW state \in StreamState, NEW t \in Nat \cup {None}, Stands(state, t),
         NEW i \in Nat,
         NEW new, new = update_stream_state_after_success(state, Sequence(i), Rollovers(i))
  PROVE  new \in StreamState /\ Stands(new, IF i > t THEN i ELSE t)
  <1>1. /\ Sequence(i) \in 0..(Modulus - 1) /\ Rollovers(i) \in Nat
        /\ Index(Rollovers(i), Sequence(i)) = i
    BY IndexSplits
  <1>2. [roc |-> Rollovers(i), highest_sequence |-> Sequence(i)] \in StreamState
    BY <1>1 DEF StreamState
  <1>3. CASE t = None
    <2>1. new = [roc |-> Rollovers(i), highest_sequence |-> Sequence(i)]
      BY <1>3 DEF update_stream_state_after_success, Stands, NewStream
    <2> QED
      BY <1>1, <1>2, <1>3, <2>1 DEF Stands, None
  <1>4. CASE t # None
    <2>1. state.highest_sequence # None /\ Index(state.roc, state.highest_sequence) = t
      BY <1>4 DEF Stands
    <2>2. CASE new = [roc |-> Rollovers(i), highest_sequence |-> Sequence(i)] /\ i > t
      BY <1>1, <1>2, <2>2 DEF Stands, None
    <2>3. CASE new = state /\ ~(i > t)
      BY <1>4, <2>1, <2>3 DEF Stands
    <2> QED
      BY <1>1, <2>1, <2>2, <2>3 DEF update_stream_state_after_success
  <1> QED
    BY <1>3, <1>4

(* Multiples of a positive number lie at least that number apart.          *)
LEMMA MultiplesApart ==
  ASSUME NEW m \in Nat, m > 0, NEW a \in Int, -m < a * m, a * m < 2 * m
  PROVE  a = 0 \/ a = 1
  <1>1. CASE a >= 2
    <2>1. (a - 2) * m >= 0
      BY <1>1
    <2> QED
      BY <2>1
  <1>2. CASE a <= -1
    <2>1. (-1 - a) * m >= 0
      BY <1>2
    <2> QED
      BY <2>1
  <1> QED
    BY <1>1, <1>2

(* The estimate for a packet newer than the newest, by less than Half.     *)
LEMMA EstimateOfNewer ==
  ASSUME NEW state \in StreamState, NEW t \in Nat, Stands(state, t),
         NEW i \in Nat, t < i, i < t + Half
  PROVE  estimate_roc(state, Sequence(i)) = Rollovers(i)
  <1> DEFINE r == state.roc
             h == state.highest_sequence
             k == Rollovers(i)
             q == Sequence(i)
  <1>1. /\ h \in 0..(Modulus - 1) /\ r \in Nat /\ t = r * Modulus + h
        /\ h # None
    BY DEF Stands, StreamState, Index, None
  <1>2. q \in 0..(Modulus - 1) /\ k \in Nat /\ i = k * Modulus + q
    BY IndexSplits DEF Index
  <1>3. /\ Half \in Nat /\ Modulus = 2 * Half /\ Modulus \in Nat /\ Modulus > 0
    BY ModulusAssumption DEF Half
  <1> HIDE DEF r, h, k, q
  <1>4. k - r = 0 \/ k - r = 1
    <2>1. (k - r) * Modulus = h + (i - t) - q
      BY <1>1, <1>2, <1>3
    <2> QED
      BY <1>1, <1>2, <1>3, <2>1, MultiplesApart
  <1>5. CASE k = r
    <2>1. q - h = i - t
      BY <1>1, <1>2, <1>3, <1>5
    <2>2. (q - h) % Modulus = q - h
      BY <1>1, <1>2, <1>3, <2>1
    <2>3. ~((q - h) % Modulus > Half) /\ ~(h - Half > q)
      BY <1>1, <1>2, <1>3, <2>1, <2>2
    <2> QED
      BY <1>5, <2>3 DEF estimate_roc, r, h, k, q
  <1>6. CASE k = r + 1
    <2>1. q = h + (i - t) - Modulus
      BY <1>1, <1>2, <1>3, <1>6
    <2>2. h >= Half /\ h - Half > q
      BY <1>1, <1>2, <1>3, <2>1
    <2>3. ~(h < Half)
      BY <1>1, <1>3, <2>2
    <2> QED
      BY <1>6, <2>2, <2>3 DEF estimate_roc, r, h, k, q
  <1> QED
    BY <1>1, <1>2, <1>4, <1>5, <1>6
------------------------------------------------------------------------------
(* Initially nothing was opened, and every suite is new.                   *)
LEMMA InitHolds == Init => IInv
  <1> SUFFICES ASSUME Init PROVE IInv
    OBVIOUS
  <1>1. NewStream \in StreamState
    BY DEF NewStream, StreamState
  <1>2. /\ first \in [Streams -> 0..(Modulus - 1)] /\ next = first
        /\ 0..(Modulus - 1) \subseteq Nat
    BY ModulusAssumption DEF Init
  <1>3. next \in [Streams -> Nat] /\ \A s \in Streams : first[s] <= next[s]
    <2>1. \A s \in Streams : first[s] \in Nat
      BY <1>2
    <2> QED
      BY <1>2, <2>1
  <1>4. TypeOK
    BY <1>1, <1>2, <1>3 DEF Init, TypeOK, NoPacket
  <1> QED
    BY <1>4 DEF Init, IInv, InStep, Stands, IndexKept, NoPacket

(* What the tasks and the suites have to do with an index.                 *)
LEMMA HeldPacket ==
  ASSUME TypeOK, NEW side \in Sides, handling[side] # NoPacket
  PROVE  handling[side].stream \in Streams /\ handling[side].index \in Nat
  BY DEF TypeOK, Packet

(* A packet that is opened moves both suites alike and keeps its index.    *)
LEMMA ForwardsKeeps ==
  ASSUME IInv, NEW side \in Sides, Forwards(side)
  PROVE  IInv'
  <1> DEFINE s == handling[side].stream
             i == handling[side].index
             new == update_stream_state_after_success(decrypt[s], Sequence(i), Rollovers(i))
             t == IF i > top[s] THEN i ELSE top[s]
  <1>1. TypeOK /\ s \in Streams /\ i \in Nat
    BY HeldPacket DEF Forwards, IInv
  <1>2. encrypt[s] = decrypt[s] /\ Stands(decrypt[s], top[s])
    BY <1>1 DEF IInv, InStep
  <1>3. decrypt[s] \in StreamState /\ top[s] \in Nat \cup {None}
    BY <1>1 DEF TypeOK
  <1>4. new \in StreamState /\ Stands(new, t) /\ t \in Nat \cup {None}
    BY <1>1, <1>2, <1>3, UpdateStands
  <1>5. Index(Rollovers(i), Sequence(i)) = i
    BY <1>1, IndexSplits
  <1>6. estimate_roc(decrypt[s], Sequence(i)) = Rollovers(i)
    BY DEF Forwards, unprotect_rtp, Opens
  <1>7. /\ decrypt' = [decrypt EXCEPT ![s] = new]
        /\ top' = [top EXCEPT ![s] = t]
    BY DEF Forwards, unprotect_rtp
  <1>8. /\ out' = [of |-> [stream |-> s, index |-> i], as |-> i]
        /\ encrypt' = [encrypt EXCEPT ![s] = new]
    BY <1>2, <1>5, <1>6 DEF Forwards, protect_rtp
  <1>9. /\ UNCHANGED <<first, next, remote>>
        /\ handling' = [handling EXCEPT ![side] = NoPacket]
    BY DEF Forwards, Done
  <1> HIDE DEF s, i, new, t
  <1>10. TypeOK'
    <2>1. [of |-> [stream |-> s, index |-> i], as |-> i]
            \in [of: Packet \cup {NoPacket}, as: Nat \cup {None}]
      BY <1>1 DEF Packet
    <2> QED
      BY <1>1, <1>4, <1>7, <1>8, <1>9, <2>1 DEF TypeOK
  <1>11. InStep'
    <2> SUFFICES ASSUME NEW x \in Streams
                 PROVE  encrypt'[x] = decrypt'[x] /\ Stands(decrypt'[x], top'[x])
      BY DEF InStep, Stands
    <2>1. encrypt[x] = decrypt[x] /\ Stands(decrypt[x], top[x])
      BY DEF IInv, InStep
    <2>2. /\ decrypt'[x] = IF x = s THEN new ELSE decrypt[x]
          /\ encrypt'[x] = IF x = s THEN new ELSE encrypt[x]
          /\ top'[x] = IF x = s THEN t ELSE top[x]
      BY <1>1, <1>7, <1>8 DEF TypeOK
    <2> QED
      BY <1>4, <2>1, <2>2
  <1>12. IndexKept'
    BY <1>8 DEF IndexKept
  <1> QED
    BY <1>10, <1>11, <1>12 DEF IInv

LEMMA NextKeeps == IInv /\ [Next]_vars => IInv'
  <1> SUFFICES ASSUME IInv, [Next]_vars PROVE IInv'
    OBVIOUS
  <1> USE DEF IInv
  <1>1. ASSUME NEW s \in Streams, PhoneSends(s) PROVE IInv'
    <2>1. TypeOK'
      BY <1>1 DEF PhoneSends, TypeOK
    <2> QED
      BY <1>1, <2>1 DEF PhoneSends, InStep, IndexKept
  <1>2. ASSUME NEW s \in Streams, NEW i \in UnderWay(s), Receives(s, i) PROVE IInv'
    <2>1. [stream |-> s, index |-> i] \in Packet /\ SideOf[s] \in Sides
      BY StreamsAssumption DEF UnderWay, TypeOK, Packet
    <2>2. TypeOK'
      BY <1>2, <2>1 DEF Receives, TypeOK
    <2> QED
      BY <1>2, <2>2 DEF Receives, InStep, IndexKept
  <1>3. ASSUME NEW side \in Sides, DropsUnaddressed(side) \/ DropsUnopened(side) PROVE IInv'
    <2>1. /\ UNCHANGED <<first, next, remote, decrypt, encrypt, top, out>>
          /\ handling' = [handling EXCEPT ![side] = NoPacket]
      BY <1>3 DEF DropsUnaddressed, DropsUnopened, Done
    <2>2. TypeOK'
      BY <2>1 DEF TypeOK
    <2> QED
      BY <2>1, <2>2 DEF InStep, IndexKept
  <1>4. CASE UNCHANGED vars
    BY <1>4 DEF vars, TypeOK, InStep, IndexKept
  <1> QED
    BY <1>1, <1>2, <1>3, <1>4, ForwardsKeeps DEF Next

(* The state of the relay keeps its shape, for any constants.              *)
THEOREM TypeCorrect == Spec => []TypeOK
  <1>1. IInv => TypeOK
    BY DEF IInv
  <1> QED
    BY <1>1, InitHolds, NextKeeps, PTL DEF Spec

(* Whatever is lost, repeated or reordered, the two suites of a direction  *)
(* agree and stand at the newest packet that was opened.                   *)
THEOREM SuitesAgree == Spec => []InStep
  <1>1. IInv => InStep
    BY DEF IInv
  <1> QED
    BY <1>1, InitHolds, NextKeeps, PTL DEF Spec

(* No packet leaves the relay under another index than it came with, so no *)
(* keystream serves two packets and the other phone is never put off.      *)
THEOREM IndicesKept == Spec => []IndexKept
  <1>1. IInv => IndexKept
    BY DEF IInv
  <1> QED
    BY <1>1, InitHolds, NextKeeps, PTL DEF Spec

(* A stream that was heard once survives the loss of any run of fewer than *)
(* Half packets, rollovers included.                                       *)
THEOREM SurvivesLoss == Spec => []NewerOpens
  <1>1. IInv => NewerOpens
    <2> SUFFICES ASSUME IInv, NEW s \in Streams, top[s] # None,
                        NEW i \in first[s]..(next[s] - 1), top[s] < i, i < top[s] + Half
                 PROVE  Opens(s, i)
      BY DEF NewerOpens
    <2>1. decrypt[s] \in StreamState /\ top[s] \in Nat /\ i \in Nat
      BY DEF IInv, TypeOK
    <2>2. Stands(decrypt[s], top[s])
      BY DEF IInv, InStep
    <2> QED
      BY <2>1, <2>2, EstimateOfNewer DEF Opens
  <1> QED
    BY <1>1, InitHolds, NextKeeps, PTL DEF Spec
==============================================================================
