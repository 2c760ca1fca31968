------------------------- MODULE OfflineMessagesProofs -------------------------
(***************************************************************************)
(* Theorems of OfflineMessages.  Part 1: what retain, the push and the     *)
(* put-back do to a queue.  Part 2: the account of the messages, by the    *)
(* places that hold them.  Part 3: the invariant, action by action.        *)
(* Part 4: the order of the queues, as long as deliveries to one extension *)
(* and senders with a message to store take turns.  Part 5: the mailboxes  *)
(* of Mailbox, by what each step takes out of them and puts into them.     *)
(***************************************************************************)
EXTENDS OfflineMessages, SequenceTheorems, WellFoundedInduction, TLAPS

(* A set of naturals that is not empty has a least element: what takes the *)
(* place of induction for the recursion of Retained.                       *)
LEMMA Least ==
  ASSUME NEW T \in SUBSET Nat, T # {}
  PROVE  \E x \in T : \A y \in T : x <= y
<1>1. PICK x \in T : \A y \in T : ~(<<y, x>> \in OpToRel(<, Nat))
  BY WFMin, NatLessThanWellFounded
<1>2. \A y \in T : y < x => <<y, x>> \in OpToRel(<, Nat)
  BY Zenon DEF OpToRel
<1>3. \A y \in T : ~(y < x)
  BY <1>1, <1>2, Zenon
<1> QED
  BY <1>3

(* The equation of Retained, for any length.                               *)
RetainsTo(g, queue, t, n) ==
  g = [i \in 0..n |-> IF i = 0 THEN <<>> ELSE Retain(g[i - 1], queue[i], t)]

LEMMA RetainsExists ==
  ASSUME NEW queue, NEW t, NEW n \in Nat
  PROVE  \E g : RetainsTo(g, queue, t, n)
<1> DEFINE T == {m \in Nat : ~\E g : RetainsTo(g, queue, t, m)}
<1>1. SUFFICES ASSUME T # {} PROVE FALSE
  OBVIOUS
<1>2. PICK m \in T : \A y \in T : m <= y
  BY <1>1, Least
<1>3. CASE m = 0
  <2> DEFINE g == [i \in 0..0 |-> <<>>]
  <2>1. RetainsTo(g, queue, t, 0)
    BY DEF RetainsTo
  <2> QED BY <2>1, <1>3, <1>2
<1>4. CASE m # 0
  <2>1. PICK g : RetainsTo(g, queue, t, m - 1)
    BY <1>4, <1>2
  <2> DEFINE step(f, i) == IF i = 0 THEN <<>> ELSE Retain(f[i - 1], queue[i], t)
             h == [i \in 0..m |-> step(g, i)]
  <2>2. \A i \in 0..(m - 1) : g[i] = step(g, i)
    BY <2>1, <1>4, Zenon DEF RetainsTo
  <2>3. \A i \in 0..m : h[i] = step(g, i)
    OBVIOUS
  <2>4. \A i \in 0..(m - 1) : h[i] = g[i]
    BY <2>2, <2>3, <1>4
  <2>5. h = [i \in 0..m |-> step(g, i)]
    OBVIOUS
  <2> HIDE DEF h
  <2>6. \A i \in 0..m : i # 0 => h[i - 1] = g[i - 1]
    BY <2>4, <1>4
  <2>7. \A i \in 0..m : step(g, i) = step(h, i)
    BY <2>6
  <2> HIDE DEF step
  <2>8. h = [i \in 0..m |-> step(h, i)]
    BY <2>5, <2>7, Zenon
  <2>9. RetainsTo(h, queue, t, m)
    BY <2>8 DEF RetainsTo, step
  <2> QED BY <2>9, <1>2
<1> QED BY <1>3, <1>4

LEMMA RetainedEquation ==
  ASSUME NEW queue, NEW t, Len(queue) \in Nat
  PROVE  RetainsTo(Retained(queue, t), queue, t, Len(queue))
<1>1. PICK g : RetainsTo(g, queue, t, Len(queue))
  BY RetainsExists
<1> QED
  BY <1>1 DEF Retained, RetainsTo

(* Old messages before new ones.                                           *)
Ordered(queue) ==
  \A i, j \in DOMAIN queue : i < j => queue[i].received_at <= queue[j].received_at

(* What the messages kept of the first n of a queue have to do with it.    *)
PartOf(kept, queue, n) ==
  /\ kept \in Seq(Message)
  /\ Len(kept) <= n
  /\ \A k \in DOMAIN kept : \E j \in 1..n : kept[k] = queue[j]
  /\ Distinct(queue) => Distinct(kept)
  /\ Ordered(queue) => Ordered(kept)

LEMMA RetainPart ==
  ASSUME NEW queue \in Seq(Message), NEW t, NEW n \in 1..Len(queue), NEW kept,
         PartOf(kept, queue, n - 1)
  PROVE  PartOf(Retain(kept, queue[n], t), queue, n)
<1>1. CASE Expired(queue[n], t)
  BY <1>1 DEF PartOf, Retain
<1>2. CASE ~Expired(queue[n], t)
  <2> DEFINE r == Append(kept, queue[n])
  <2>1. queue[n] \in Message /\ kept \in Seq(Message) /\ Len(kept) <= n - 1
    BY DEF PartOf
  <2>2. /\ r \in Seq(Message) /\ Len(r) = Len(kept) + 1
        /\ \A k \in DOMAIN kept : r[k] = kept[k]
        /\ r[Len(kept) + 1] = queue[n]
        /\ DOMAIN r = DOMAIN kept \cup {Len(kept) + 1}
    BY <2>1
  <2> HIDE DEF r
  <2>3. ASSUME NEW k \in DOMAIN r PROVE \E j \in 1..n : r[k] = queue[j]
    <3>1. CASE k = Len(kept) + 1
      BY <3>1, <2>2
    <3>2. CASE k \in DOMAIN kept
      <4>1. PICK j \in 1..(n - 1) : kept[k] = queue[j]
        BY <3>2 DEF PartOf
      <4>2. r[k] = queue[j] /\ j \in 1..n
        BY <4>1, <3>2, <2>2
      <4> QED BY <4>2
    <3> QED BY <3>1, <3>2, <2>2
  <2>4. ASSUME Distinct(queue) PROVE Distinct(r)
    <3>1. \A k \in DOMAIN kept : kept[k].id # queue[n].id
      BY <2>4 DEF PartOf, Distinct
    <3>2. Distinct(kept)
      BY <2>4 DEF PartOf
    <3> QED BY <3>1, <3>2, <2>2 DEF Distinct
  <2>5. Len(r) <= n
    BY <2>1, <2>2
  <2>6. ASSUME Ordered(queue) PROVE Ordered(r)
    <3>1. \A k \in DOMAIN kept : kept[k].received_at <= queue[n].received_at
      <4> TAKE k \in DOMAIN kept
      <4>1. PICK j \in 1..(n - 1) : kept[k] = queue[j]
        BY DEF PartOf
      <4>2. j \in DOMAIN queue /\ n \in DOMAIN queue /\ j < n
        BY <4>1
      <4> QED BY <4>1, <4>2, <2>6 DEF Ordered
    <3>2. Ordered(kept)
      BY <2>6 DEF PartOf
    <3>3. DOMAIN kept = 1..Len(kept) /\ Len(kept) \in Nat
      BY <2>1
    <3> QED BY <3>1, <3>2, <3>3, <2>2 DEF Ordered
  <2> QED BY <2>2, <2>3, <2>4, <2>5, <2>6, <1>2 DEF PartOf, Retain, r
<1> QED BY <1>1, <1>2

LEMMA FreshPart ==
  ASSUME NEW queue \in Seq(Message), NEW t
  PROVE  PartOf(Fresh(queue, t), queue, Len(queue))
<1> DEFINE g == Retained(queue, t)
           n == Len(queue)
<1>1. n \in Nat
  OBVIOUS
<1>2. RetainsTo(g, queue, t, n)
  BY RetainedEquation, <1>1
<1> HIDE DEF g
<1> DEFINE T == {m \in 0..n : ~PartOf(g[m], queue, m)}
<1>3. SUFFICES ASSUME T # {} PROVE FALSE
  BY <1>1 DEF Fresh, g
<1>4. PICK m \in T : \A y \in T : m <= y
  <2>1. T \in SUBSET Nat
    BY <1>1
  <2> HIDE DEF T
  <2> QED BY <1>3, <2>1, Least
<1>5. m # 0
  <2>1. SUFFICES ASSUME m = 0 PROVE PartOf(g[m], queue, m)
    OBVIOUS
  <2>2. g[0] = <<>>
    BY <1>2, <1>1 DEF RetainsTo
  <2> QED BY <2>1, <2>2 DEF PartOf, Distinct, Ordered
<1>6. m \in 1..n /\ m - 1 \in 0..n
  BY <1>5, <1>1
<1>7. PartOf(g[m - 1], queue, m - 1)
  BY <1>4, <1>6, <1>1
<1>8. g[m] = Retain(g[m - 1], queue[m], t)
  BY <1>2, <1>6 DEF RetainsTo
<1> HIDE DEF T
<1>9. PartOf(g[m], queue, m)
  BY <1>6, <1>7, <1>8, RetainPart
<1> QED BY <1>9, <1>4 DEF T

(* retain: no message is new, none is doubled, the queue does not grow,    *)
(* and what is left of it is in the order it was in.                       *)
LEMMA FreshFacts ==
  ASSUME NEW queue \in Seq(Message), NEW t
  PROVE  /\ Fresh(queue, t) \in Seq(Message)
         /\ Len(Fresh(queue, t)) <= Len(queue)
         /\ Ids(Fresh(queue, t)) \subseteq Ids(queue)
         /\ Distinct(queue) => Distinct(Fresh(queue, t))
         /\ \A k \in DOMAIN Fresh(queue, t) : \E j \in DOMAIN queue : Fresh(queue, t)[k] = queue[j]
         /\ Ordered(queue) => Ordered(Fresh(queue, t))
<1> DEFINE f == Fresh(queue, t)
<1>1. PartOf(f, queue, Len(queue))
  BY FreshPart
<1> HIDE DEF f
<1>2. DOMAIN queue = 1..Len(queue)
  OBVIOUS
<1>3. Ids(f) \subseteq Ids(queue)
  BY <1>1, <1>2 DEF PartOf, Ids
<1> QED BY <1>1, <1>2, <1>3 DEF PartOf, f

(* The push of a new message: at the cap the oldest (k = 1) makes room.    *)
Pushes(p, queue, m, k, n) ==
  /\ p \in Seq(Message) /\ DOMAIN p = 1..(n + 1) /\ Len(p) = n + 1 /\ n + 1 <= QueueCap
  /\ \A i \in 1..n : i + k \in DOMAIN queue /\ p[i] = queue[i + k]
  /\ p[n + 1] = m

LEMMA PushShape ==
  ASSUME NEW queue \in Seq(Message), Len(queue) <= QueueCap, NEW m \in Message
  PROVE  \E k \in {0, 1}, n \in Nat : Pushes(Push(queue, m), queue, m, k, n)
<1> DEFINE p == Push(queue, m)
<1> USE CapsAssumption
<1>0. QueueCap \in Nat \ {0}
  OBVIOUS
<1> DEFINE rest == IF Len(queue) >= QueueCap THEN Tail(queue) ELSE queue
<1>1. \E k \in {0, 1} :
        /\ rest \in Seq(Message) /\ Len(rest) + 1 <= QueueCap
        /\ \A i \in 1..Len(rest) : i + k \in DOMAIN queue /\ rest[i] = queue[i + k]
  <2>1. CASE Len(queue) >= QueueCap
    <3>1. /\ queue # <<>> /\ rest = Tail(queue)
          /\ Len(rest) = Len(queue) - 1 /\ rest \in Seq(Message)
      BY <2>1, <1>0
    <3>2. \A i \in 1..Len(rest) : i + 1 \in DOMAIN queue /\ rest[i] = queue[i + 1]
      BY <3>1
    <3> QED BY <3>1, <3>2, <1>0
  <2>2. CASE ~(Len(queue) >= QueueCap)
    <3>1. rest = queue
      BY <2>2
    <3>2. \A i \in 1..Len(rest) : i + 0 \in DOMAIN queue /\ rest[i] = queue[i + 0]
      BY <3>1
    <3> QED BY <3>1, <3>2, <2>2, <1>0
  <2> QED BY <2>1, <2>2
<1>2. PICK k \in {0, 1} :
        /\ rest \in Seq(Message) /\ Len(rest) + 1 <= QueueCap
        /\ \A i \in 1..Len(rest) : i + k \in DOMAIN queue /\ rest[i] = queue[i + k]
  BY <1>1
<1>3. p = Append(rest, m)
  BY DEF Push
<1> HIDE DEF rest, p
<1>4. /\ p \in Seq(Message) /\ Len(p) = Len(rest) + 1
      /\ \A i \in 1..Len(rest) : p[i] = rest[i]
      /\ p[Len(rest) + 1] = m
      /\ DOMAIN p = 1..(Len(rest) + 1) /\ Len(rest) \in Nat
  BY <1>2, <1>3
<1>5. \A i \in 1..Len(rest) : i + k \in DOMAIN queue /\ p[i] = queue[i + k]
  BY <1>2, <1>4
<1>6. Pushes(p, queue, m, k, Len(rest))
  BY <1>2, <1>4, <1>5 DEF Pushes
<1> QED BY <1>4, <1>6 DEF p

LEMMA PushFacts ==
  ASSUME NEW queue \in Seq(Message), Len(queue) <= QueueCap, NEW m \in Message,
         NEW p, p = Push(queue, m)
  PROVE  /\ p \in Seq(Message) /\ Len(p) <= QueueCap
         /\ Ids(p) \subseteq Ids(queue) \cup {m.id} /\ m.id \in Ids(p)
         /\ Distinct(queue) /\ m.id \notin Ids(queue) => Distinct(p)
         /\ \A i \in DOMAIN p : p[i] = m \/ \E j \in DOMAIN queue : p[i] = queue[j]
         /\ Ordered(queue) /\ (\A j \in DOMAIN queue : queue[j].received_at <= m.received_at)
            => Ordered(p)
<1>0. PICK k \in {0, 1}, n \in Nat : Pushes(p, queue, m, k, n)
  BY PushShape
<1>1. /\ p \in Seq(Message) /\ DOMAIN p = 1..(n + 1) /\ Len(p) = n + 1 /\ n + 1 <= QueueCap
      /\ \A i \in 1..n : i + k \in DOMAIN queue /\ p[i] = queue[i + k]
      /\ p[n + 1] = m
  BY <1>0 DEF Pushes
<1>2. \A i \in DOMAIN p : i = n + 1 \/ i \in 1..n
  BY <1>1
<1>3. Ids(p) \subseteq Ids(queue) \cup {m.id} /\ m.id \in Ids(p)
  <2>1. m.id \in Ids(p)
    BY <1>1 DEF Ids
  <2> SUFFICES ASSUME NEW i \in DOMAIN p PROVE p[i].id \in Ids(queue) \cup {m.id}
    BY <2>1 DEF Ids
  <2>2. CASE i = n + 1
    BY <1>1, <2>2
  <2>3. CASE i \in 1..n
    BY <1>1, <2>3 DEF Ids
  <2> QED BY <1>2, <2>2, <2>3
<1>4. ASSUME Distinct(queue), m.id \notin Ids(queue) PROVE Distinct(p)
  <2>1. \A i \in 1..n : p[i].id # m.id
    BY <1>4, <1>1 DEF Ids
  <2>2. SUFFICES ASSUME NEW i \in DOMAIN p, NEW j \in DOMAIN p, p[i].id = p[j].id
                 PROVE  i = j
    BY DEF Distinct
  <2>3. CASE i \in 1..n /\ j \in 1..n
    <3>1. i + k = j + k
      BY <1>1, <1>4, <2>2, <2>3 DEF Distinct
    <3> QED BY <3>1, <2>3
  <2> QED BY <2>1, <2>2, <2>3, <1>1, <1>2
<1>5. \A i \in DOMAIN p : p[i] = m \/ \E j \in DOMAIN queue : p[i] = queue[j]
  BY <1>1, <1>2
<1>6. ASSUME Ordered(queue), \A j \in DOMAIN queue : queue[j].received_at <= m.received_at
      PROVE  Ordered(p)
  <2> SUFFICES ASSUME NEW i \in DOMAIN p, NEW j \in DOMAIN p, i < j
               PROVE  p[i].received_at <= p[j].received_at
    BY DEF Ordered
  <2>1. CASE j = n + 1
    BY <1>1, <1>2, <1>6, <2>1
  <2>2. CASE i \in 1..n /\ j \in 1..n
    <3>1. i + k < j + k
      BY <2>2
    <3> QED BY <1>1, <1>6, <2>2, <3>1 DEF Ordered
  <2> QED BY <1>1, <1>2, <2>1, <2>2
<1> QED BY <1>1, <1>3, <1>4, <1>5, <1>6

(* What is left of a queue when k messages are trimmed from its front.     *)
Trims(rest, queue, k) ==
  \A i \in DOMAIN rest : i + k \in DOMAIN queue /\ rest[i] = queue[i + k]

LEMMA TrimFacts ==
  ASSUME NEW queue \in Seq(Message), NEW rest \in Seq(Message), NEW k \in Nat,
         Trims(rest, queue, k)
  PROVE  /\ Ids(rest) \subseteq Ids(queue)
         /\ \A i \in DOMAIN rest : \E j \in DOMAIN queue : rest[i] = queue[j]
         /\ Distinct(queue) => Distinct(rest)
         /\ Ordered(queue) => Ordered(rest)
<1>1. DOMAIN rest = 1..Len(rest) /\ Len(rest) \in Nat
  OBVIOUS
<1>2. \A i \in DOMAIN rest : i + k \in DOMAIN queue /\ rest[i] = queue[i + k]
  BY DEF Trims
<1>3. Ids(rest) \subseteq Ids(queue)
  BY <1>2 DEF Ids
<1>4. ASSUME Distinct(queue) PROVE Distinct(rest)
  <2> SUFFICES ASSUME NEW i \in DOMAIN rest, NEW j \in DOMAIN rest, rest[i].id = rest[j].id
               PROVE  i = j
    BY DEF Distinct
  <2>1. i + k = j + k
    BY <1>2, <1>4 DEF Distinct
  <2> QED BY <1>1, <2>1
<1>5. ASSUME Ordered(queue) PROVE Ordered(rest)
  <2> SUFFICES ASSUME NEW i \in DOMAIN rest, NEW j \in DOMAIN rest, i < j
               PROVE  rest[i].received_at <= rest[j].received_at
    BY DEF Ordered
  <2>1. i + k < j + k
    BY <1>1
  <2> QED BY <1>2, <1>5, <2>1 DEF Ordered
<1> QED BY <1>2, <1>3, <1>4, <1>5

(* One queue behind another.                                               *)
FromEither(c, queue, pending) ==
  \A i \in DOMAIN c : \/ \E j \in DOMAIN queue : c[i] = queue[j]
                     \/ \E j \in DOMAIN pending : c[i] = pending[j]

LEMMA BehindFacts ==
  ASSUME NEW queue \in Seq(Message), NEW pending \in Seq(Message),
         NEW c, c = pending \o queue
  PROVE  /\ c \in Seq(Message) /\ Len(c) \in Nat /\ DOMAIN c = 1..Len(c)
         /\ FromEither(c, queue, pending)
         /\ Ids(c) \subseteq Ids(queue) \cup Ids(pending)
         /\ Distinct(queue) /\ Distinct(pending) /\ Ids(queue) \cap Ids(pending) = {}
            => Distinct(c)
         /\ /\ Ordered(queue) /\ Ordered(pending)
            /\ \A i \in DOMAIN pending, j \in DOMAIN queue :
                 pending[i].received_at <= queue[j].received_at
            => Ordered(c)
<1> DEFINE a == Len(pending)
           b == Len(queue)
<1>1. /\ c \in Seq(Message) /\ Len(c) = a + b /\ a \in Nat /\ b \in Nat
      /\ \A i \in 1..a : c[i] = pending[i]
      /\ \A i \in (a + 1)..(a + b) : c[i] = queue[i - a] /\ i - a \in 1..b
      /\ DOMAIN c = 1..(a + b) /\ DOMAIN queue = 1..b /\ DOMAIN pending = 1..a
  OBVIOUS
<1> HIDE DEF a, b
<1>2. \A i \in DOMAIN c : i \in 1..a \/ i \in (a + 1)..(a + b)
  BY <1>1
<1>3. /\ \A i \in 1..a : c[i].id \in Ids(pending)
      /\ \A i \in (a + 1)..(a + b) : c[i].id \in Ids(queue)
  BY <1>1 DEF Ids
<1>4. Ids(c) \subseteq Ids(queue) \cup Ids(pending)
  <2> SUFFICES ASSUME NEW i \in DOMAIN c PROVE c[i].id \in Ids(queue) \cup Ids(pending)
    BY DEF Ids
  <2> QED BY <1>2, <1>3
<1>5. ASSUME Distinct(queue), Distinct(pending), Ids(queue) \cap Ids(pending) = {}
      PROVE  Distinct(c)
  <2> SUFFICES ASSUME NEW i \in DOMAIN c, NEW j \in DOMAIN c, c[i].id = c[j].id
               PROVE  i = j
    BY DEF Distinct
  <2>1. CASE i \in 1..a /\ j \in 1..a
    BY <2>1, <1>1, <1>5 DEF Distinct
  <2>2. CASE i \in (a + 1)..(a + b) /\ j \in (a + 1)..(a + b)
    <3>1. /\ c[i] = queue[i - a] /\ i - a \in DOMAIN queue
          /\ c[j] = queue[j - a] /\ j - a \in DOMAIN queue
      BY <2>2, <1>1
    <3>2. i - a = j - a
      BY <3>1, <1>5 DEF Distinct
    <3> QED BY <3>2, <1>1, <2>2
  <2> QED BY <2>1, <2>2, <1>2, <1>3, <1>5
<1>6. ASSUME Ordered(queue), Ordered(pending),
             \A i \in DOMAIN pending, j \in DOMAIN queue :
               pending[i].received_at <= queue[j].received_at
      PROVE  Ordered(c)
  <2> SUFFICES ASSUME NEW i \in DOMAIN c, NEW j \in DOMAIN c, i < j
               PROVE  c[i].received_at <= c[j].received_at
    BY DEF Ordered
  <2>1. CASE i \in 1..a /\ j \in 1..a
    BY <2>1, <1>1, <1>6 DEF Ordered
  <2>2. CASE i \in 1..a /\ j \in (a + 1)..(a + b)
    BY <2>2, <1>1, <1>6
  <2>3. CASE i \in (a + 1)..(a + b) /\ j \in (a + 1)..(a + b)
    <3>1. /\ c[i] = queue[i - a] /\ i - a \in DOMAIN queue
          /\ c[j] = queue[j - a] /\ j - a \in DOMAIN queue
      BY <2>3, <1>1
    <3>2. i - a < j - a
      BY <2>3, <1>1
    <3> QED BY <3>1, <3>2, <1>6 DEF Ordered
  <2>4. ~(i \in (a + 1)..(a + b) /\ j \in 1..a)
    BY <1>1
  <2> QED BY <2>1, <2>2, <2>3, <2>4, <1>2
<1>7. FromEither(c, queue, pending)
  BY <1>1, <1>2 DEF FromEither
<1>8. Len(c) \in Nat /\ DOMAIN c = 1..Len(c)
  BY <1>1
<1> QED BY <1>1, <1>4, <1>5, <1>6, <1>7, <1>8

(* The put-back: what is trimmed is trimmed from the front.                *)
LEMMA MergeFacts ==
  ASSUME NEW queue \in Seq(Message), NEW pending \in Seq(Message),
         NEW r, r = merge_back(queue, pending)
  PROVE  /\ r \in Seq(Message) /\ Len(r) <= QueueCap
         /\ Ids(r) \subseteq Ids(queue) \cup Ids(pending)
         /\ Distinct(queue) /\ Distinct(pending) /\ Ids(queue) \cap Ids(pending) = {}
            => Distinct(r)
         /\ FromEither(r, queue, pending)
         /\ /\ Ordered(queue) /\ Ordered(pending)
            /\ \A i \in DOMAIN pending, j \in DOMAIN queue :
                 pending[i].received_at <= queue[j].received_at
            => Ordered(r)
<1>0. QueueCap \in Nat \ {0}
  BY CapsAssumption
<1> DEFINE c == pending \o queue
<1>1. r = IF Len(c) > QueueCap THEN SubSeq(c, Len(c) - QueueCap + 1, Len(c)) ELSE c
  BY DEF merge_back, Newest
<1>2. c \in Seq(Message) /\ Len(c) \in Nat /\ DOMAIN c = 1..Len(c)
  BY BehindFacts
<1> HIDE DEF c
<1>3. \E k \in Nat : r \in Seq(Message) /\ Len(r) <= QueueCap /\ Trims(r, c, k)
  <2>1. CASE Len(c) > QueueCap
    <3> DEFINE k == Len(c) - QueueCap
    <3>1. k \in Nat /\ k + 1 \in 1..Len(c) /\ r = SubSeq(c, k + 1, Len(c))
      BY <2>1, <1>0, <1>1, <1>2
    <3>2. /\ r \in Seq(Message) /\ Len(r) = QueueCap
          /\ \A i \in 1..Len(r) : r[i] = c[i + k]
      BY <3>1, <1>2, <1>0, <2>1
    <3>3. \A i \in 1..Len(r) : i + k \in 1..Len(c)
      BY <3>1, <3>2, <1>0, <1>2
    <3>4. Len(r) <= QueueCap /\ DOMAIN r = 1..Len(r)
      BY <3>2, <1>0
    <3>5. k \in Nat
      BY <3>1
    <3> HIDE DEF k
    <3>6. Trims(r, c, k)
      BY <3>2, <3>3, <3>4, <1>2 DEF Trims
    <3> QED BY <3>2, <3>4, <3>5, <3>6
  <2>2. CASE ~(Len(c) > QueueCap)
    <3>1. r = c
      BY <2>2, <1>1
    <3>2. Trims(r, c, 0)
      BY <3>1, <1>2 DEF Trims
    <3> QED BY <3>1, <3>2, <2>2, <1>0, <1>2
  <2> QED BY <2>1, <2>2
<1>4. PICK k \in Nat : r \in Seq(Message) /\ Len(r) <= QueueCap /\ Trims(r, c, k)
  BY <1>3
<1>5. /\ Ids(r) \subseteq Ids(c)
      /\ \A i \in DOMAIN r : \E j \in DOMAIN c : r[i] = c[j]
      /\ Distinct(c) => Distinct(r)
      /\ Ordered(c) => Ordered(r)
  BY <1>2, <1>4, TrimFacts
<1>6. c = pending \o queue
  BY DEF c
<1>7. FromEither(c, queue, pending)
  BY <1>6, BehindFacts
<1>8. FromEither(r, queue, pending)
  <2> USE DEF FromEither
  <2> TAKE i \in DOMAIN r
  <2>1. PICK l \in DOMAIN c : r[i] = c[l]
    BY <1>5
  <2> QED BY <1>7, <2>1
<1>9. /\ Ids(r) \subseteq Ids(queue) \cup Ids(pending)
      /\ Distinct(queue) /\ Distinct(pending) /\ Ids(queue) \cap Ids(pending) = {}
         => Distinct(r)
  BY <1>5, <1>6, BehindFacts
<1>10. /\ Ordered(queue) /\ Ordered(pending)
       /\ \A i \in DOMAIN pending, j \in DOMAIN queue :
            pending[i].received_at <= queue[j].received_at
       => Ordered(r)
  BY <1>5, <1>6, BehindFacts
<1> QED BY <1>4, <1>8, <1>9, <1>10

(* The first message of a task goes out.                                   *)
LEMMA TailFacts ==
  ASSUME NEW queue \in Seq(Message), queue # <<>>
  PROVE  /\ Head(queue) \in Message /\ Head(queue).id \in Ids(queue)
         /\ Tail(queue) \in Seq(Message)
         /\ Tail(queue) = <<>> <=> Len(queue) = 1
         /\ Len(queue) = 1 => Ids(queue) = {Head(queue).id}
         /\ Ids(queue) \subseteq Ids(Tail(queue)) \cup {Head(queue).id}
         /\ Ids(Tail(queue)) \subseteq Ids(queue)
         /\ Distinct(queue) => Distinct(Tail(queue)) /\ Head(queue).id \notin Ids(Tail(queue))
         /\ \A i \in DOMAIN Tail(queue) : \E j \in DOMAIN queue : Tail(queue)[i] = queue[j]
         /\ Ordered(queue) => Ordered(Tail(queue))
<1> DEFINE r == Tail(queue)
<1>1. /\ r \in Seq(Message) /\ Len(r) = Len(queue) - 1 /\ Len(queue) \in Nat \ {0}
      /\ DOMAIN r = 1..(Len(queue) - 1) /\ DOMAIN queue = 1..Len(queue)
      /\ Head(queue) = queue[1] /\ queue[1] \in Message
  OBVIOUS
<1>2. \A i \in DOMAIN r : i + 1 \in DOMAIN queue /\ r[i] = queue[i + 1]
  OBVIOUS
<1>3. \A i \in DOMAIN queue : i = 1 \/ (i - 1 \in DOMAIN r /\ queue[i] = r[i - 1])
  BY <1>1, <1>2
<1>4. r = <<>> <=> Len(queue) = 1
  BY <1>1
<1> HIDE DEF r
<1>5. Head(queue).id \in Ids(queue) /\ Ids(r) \subseteq Ids(queue)
  BY <1>1, <1>2 DEF Ids
<1>6. Ids(queue) \subseteq Ids(r) \cup {Head(queue).id}
  BY <1>1, <1>3 DEF Ids
<1>7. Len(queue) = 1 => Ids(queue) = {Head(queue).id}
  BY <1>1 DEF Ids
<1>8. ASSUME Distinct(queue) PROVE Distinct(r) /\ Head(queue).id \notin Ids(r)
  <2>1. ASSUME NEW i \in DOMAIN r, NEW j \in DOMAIN r, r[i].id = r[j].id PROVE i = j
    <3>1. i + 1 = j + 1
      BY <1>8, <1>2, <2>1 DEF Distinct
    <3> QED BY <3>1, <1>1
  <2>2. ASSUME NEW i \in DOMAIN r PROVE r[i].id # queue[1].id
    <3>1. i + 1 # 1 /\ 1 \in DOMAIN queue
      BY <1>1
    <3> QED BY <1>8, <1>2, <3>1 DEF Distinct
  <2> QED BY <2>1, <2>2, <1>1 DEF Distinct, Ids
<1>9. /\ \A i \in DOMAIN r : \E j \in DOMAIN queue : r[i] = queue[j]
      /\ Ordered(queue) => Ordered(r)
  BY <1>1, <1>2, TrimFacts DEF Trims
<1> QED BY <1>1, <1>4, <1>5, <1>6, <1>7, <1>8, <1>9 DEF r
------------------------------------------------------------------------------
(* Types.                                                                  *)

TypeInv == TypeOK /\ TasksLoaded

LEMMA HandlerBusy ==
  ASSUME TypeOK, NEW s \in Senders, handler[s].at # "idle"
  PROVE  /\ handler[s] \in [at: {"send", "rate", "store"}, id: MessageIds,
                            to: Recipients, now: Times]
         /\ handler[s].at \in {"send", "rate", "store"} /\ handler[s].id \in MessageIds
         /\ handler[s].to \in Recipients /\ handler[s].now \in Times
<1>1. handler[s] \in {IdleHandler} \cup
       [at: {"send", "rate", "store"}, id: MessageIds, to: Recipients, now: Times]
  BY DEF TypeOK
<1>2. IdleHandler.at = "idle"
  BY DEF IdleHandler
<1> QED BY <1>1, <1>2

LEMMA DeliveryBusy ==
  ASSUME TypeOK, NEW d \in Deliverers
  PROVE  /\ delivery[d].pending \in Seq(Message)
         /\ delivery[d].at # "idle" =>
              /\ delivery[d].ext \in Recipients
              /\ delivery[d] \in [at: {"take", "sink", "send", "putback"}, ext: Recipients,
                                  pending: Seq(Message)]
<1>1. delivery[d] \in {IdleDelivery} \cup
       [at: {"take", "sink", "send", "putback"}, ext: Recipients, pending: Seq(Message)]
  BY DEF TypeOK
<1>2. IdleDelivery.at = "idle" /\ IdleDelivery.pending \in Seq(Message)
  BY DEF IdleDelivery
<1> QED BY <1>1, <1>2

LEMMA PruneFacts ==
  ASSUME TypeOK, NEW t
  PROVE  /\ prune_expired(offline, t) \in [Recipients -> Seq(Message)]
         /\ \A e \in Recipients :
              /\ prune_expired(offline, t)[e] = Fresh(offline[e], t)
              /\ Len(prune_expired(offline, t)[e]) <= QueueCap
<1>1. ASSUME NEW e \in Recipients
      PROVE  Fresh(offline[e], t) \in Seq(Message) /\ Len(Fresh(offline[e], t)) <= QueueCap
  <2>1. offline[e] \in Seq(Message) /\ Len(offline[e]) <= QueueCap
    BY DEF TypeOK
  <2>2. Fresh(offline[e], t) \in Seq(Message) /\ Len(Fresh(offline[e], t)) <= Len(offline[e])
    BY <2>1, FreshFacts
  <2>3. QueueCap \in Nat
    BY CapsAssumption
  <2> QED BY <2>1, <2>2, <2>3
<1> QED BY <1>1 DEF prune_expired

LEMMA IdsTyped ==
  ASSUME NEW queue \in Seq(Message) PROVE Ids(queue) \subseteq MessageIds
<1>1. \A i \in DOMAIN queue : queue[i] \in Message
  OBVIOUS
<1>2. \A m \in Message : m.id \in MessageIds
  BY DEF Message
<1> QED BY <1>1, <1>2 DEF Ids

LEMMA AllIdsTyped ==
  ASSUME TypeOK PROVE AllIds(offline) \subseteq MessageIds
<1>1. \A e \in Recipients : Ids(offline[e]) \subseteq MessageIds
  BY IdsTyped DEF TypeOK
<1> QED BY <1>1 DEF AllIds

(* What StoreDone stores: typed, within the cap.                           *)
LEMMA StoreFacts ==
  ASSUME TypeOK, NEW s \in Senders, handler[s].at = "store"
  PROVE  LET map == prune_expired(offline, handler[s].now)
             m   == [id |-> handler[s].id, from_ext |-> s, received_at |-> handler[s].now]
             new == [map EXCEPT ![handler[s].to] = Push(@, m)]
         IN  /\ m \in Message
             /\ new \in [Recipients -> Seq(Message)]
             /\ \A e \in Recipients : Len(new[e]) <= QueueCap
             /\ new[handler[s].to] = Push(map[handler[s].to], m)
             /\ \A e \in Recipients \ {handler[s].to} : new[e] = map[e]
<1> DEFINE map == prune_expired(offline, handler[s].now)
           m   == [id |-> handler[s].id, from_ext |-> s, received_at |-> handler[s].now]
           e   == handler[s].to
           new == [map EXCEPT ![e] = Push(@, m)]
<1>1. m \in Message /\ e \in Recipients
  BY HandlerBusy DEF Message
<1>2. map \in [Recipients -> Seq(Message)] /\ \A f \in Recipients : Len(map[f]) <= QueueCap
  BY PruneFacts
<1> HIDE DEF map, m
<1>3. Push(map[e], m) \in Seq(Message) /\ Len(Push(map[e], m)) <= QueueCap
  BY <1>1, <1>2, PushFacts
<1>4. /\ new \in [Recipients -> Seq(Message)]
      /\ new[e] = Push(map[e], m)
      /\ \A f \in Recipients \ {e} : new[f] = map[f]
  BY <1>1, <1>2, <1>3
<1> HIDE DEF new
<1>5. \A f \in Recipients : Len(new[f]) <= QueueCap
  BY <1>2, <1>3, <1>4
<1> QED BY <1>1, <1>4, <1>5 DEF map, m, new

(* Handlers.                                                               *)
LEMMA TypeHandler ==
  ASSUME TypeInv, NEW s \in Senders,
         HandlerStep(s) \/ \E e \in Recipients : MessageArrives(s, e)
  PROVE  TypeInv'
<1> DEFINE Busy == [at: {"send", "rate", "store"}, id: MessageIds, to: Recipients, now: Times]
<1>0. {MaxMessages, MaxTime, MaxFaults, RateLimit} \subseteq Nat
  BY CapsAssumption
<1>1. /\ TypeOK /\ TasksLoaded
      /\ handler \in [Senders -> {IdleHandler} \cup Busy]
      /\ now \in Times /\ 0 \in Times
      /\ MaxMessages \in Nat /\ MaxTime \in Nat /\ MaxFaults \in Nat /\ RateLimit \in Nat
  <2>1. MaxMessages \in Nat /\ MaxTime \in Nat /\ MaxFaults \in Nat /\ RateLimit \in Nat
    BY <1>0
  <2>2. TypeOK /\ TasksLoaded
    BY DEF TypeInv
  <2>3. handler \in [Senders -> {IdleHandler} \cup Busy] /\ now \in Times
    BY <2>2 DEF TypeOK
  <2>4. 0 \in Times
    BY <2>1 DEF Times
  <2> QED BY <2>1, <2>2, <2>3, <2>4
<1>2. [handler EXCEPT ![s] = IdleHandler] \in [Senders -> {IdleHandler} \cup Busy]
  BY <1>1
<1>3. \A h \in Busy : [handler EXCEPT ![s] = h] \in [Senders -> {IdleHandler} \cup Busy]
  BY <1>1
<1>4. handler[s].at # "idle" => handler[s] \in Busy /\ handler[s].id \in MessageIds
  BY <1>1, HandlerBusy
<1>5. rates[s] \in [window_start: Times, count: -1..RateLimit]
  BY <1>1 DEF TypeOK
<1>6. CASE \E e \in Recipients : MessageArrives(s, e)
  <2>1. PICK e \in Recipients : MessageArrives(s, e)
    BY <1>6
  <2>2. nMessages + 1 \in MessageIds /\ nMessages + 1 \in 0..MaxMessages
    BY <2>1, <1>1 DEF MessageArrives, TypeOK, MessageIds
  <2>3. [at |-> IF e \in connected THEN "send" ELSE "rate",
         id |-> nMessages + 1, to |-> e, now |-> 0] \in Busy
    BY <2>2, <1>1
  <2>4. handler' \in [Senders -> {IdleHandler} \cup Busy]
    BY <2>1, <2>3, <1>3 DEF MessageArrives
  <2> QED BY <2>1, <2>2, <2>4, <1>1 DEF MessageArrives, TypeInv, TypeOK, TasksLoaded, history
<1>7. CASE MessageForwarded(s)
  BY <1>7, <1>1, <1>2, <1>4 DEF MessageForwarded, Answer200, TypeInv, TypeOK, TasksLoaded
<1>8. CASE MessageUndeliverable(s)
  <2>1. [handler[s] EXCEPT !.at = "rate"] \in Busy
    BY <1>8, <1>4 DEF MessageUndeliverable
  <2>2. handler' \in [Senders -> {IdleHandler} \cup Busy]
    BY <2>1, <1>3, <1>8 DEF MessageUndeliverable
  <2>3. nFaults' \in 0..MaxFaults
    BY <1>8, <1>1 DEF MessageUndeliverable, TypeOK
  <2> QED
    BY <2>2, <2>3, <1>8, <1>1 DEF MessageUndeliverable, TypeInv, TypeOK, TasksLoaded, history
<1>9. CASE RateLimited(s)
  BY <1>9, <1>1, <1>2 DEF RateLimited, Answer503, TypeInv, TypeOK, TasksLoaded, history
<1>10. CASE RateAllowed(s)
  <2>1. [handler[s] EXCEPT !.at = "store", !.now = now] \in Busy
    BY <1>10, <1>4, <1>1 DEF RateAllowed
  <2>2. handler' \in [Senders -> {IdleHandler} \cup Busy]
    BY <2>1, <1>3, <1>10 DEF RateAllowed
  <2>3. /\ RateWindowOf(s) \in [window_start: Times, count: -1..RateLimit]
        /\ RateWindowOf(s).count \in 0..(RateLimit - 1)
    BY <1>10, <1>1, <1>5 DEF RateAllowed, RateWindowOf
  <2>4. [RateWindowOf(s) EXCEPT !.count = @ + 1] \in [window_start: Times, count: -1..RateLimit]
    BY <2>3, <1>1
  <2>5. rates' \in [Senders -> [window_start: Times, count: -1..RateLimit]]
    BY <2>4, <1>10, <1>1 DEF RateAllowed, TypeOK
  <2> QED BY <2>2, <2>5, <1>10, <1>1 DEF RateAllowed, TypeInv, TypeOK, TasksLoaded, history
<1>11. CASE StoreRefused(s)
  <2>1. /\ offline' \in [Recipients -> Seq(Message)]
        /\ \A e \in Recipients : Len(offline'[e]) <= QueueCap
    BY <1>11, <1>1, PruneFacts DEF StoreRefused
  <2>2. dropped' \subseteq MessageIds
    BY <1>11, <1>1, AllIdsTyped DEF StoreRefused, TypeOK
  <2> QED
    BY <2>1, <2>2, <1>11, <1>1, <1>2 DEF StoreRefused, Answer503, TypeInv, TypeOK, TasksLoaded
<1>12. CASE StoreDone(s)
  <2>1. /\ offline' \in [Recipients -> Seq(Message)]
        /\ \A e \in Recipients : Len(offline'[e]) <= QueueCap
    BY <1>12, <1>1, StoreFacts DEF StoreDone
  <2>2. dropped' \subseteq MessageIds
    BY <1>12, <1>1, AllIdsTyped DEF StoreDone, TypeOK
  <2>3. handler[s].id \in MessageIds
    BY <1>12, <1>4 DEF StoreDone
  <2>4. accepted' \subseteq MessageIds /\ handler' \in [Senders -> {IdleHandler} \cup Busy]
    BY <2>3, <1>12, <1>1, <1>2 DEF StoreDone, Answer200, TypeOK
  <2>5. UNCHANGED <<now, rates, connected, delivery, nMessages, nFaults, sent>>
    BY <1>12 DEF StoreDone
  <2> QED
    BY <2>1, <2>2, <2>4, <2>5, <1>1 DEF TypeInv, TypeOK, TasksLoaded
<1> QED
  BY <1>6, <1>7, <1>8, <1>9, <1>10, <1>11, <1>12 DEF HandlerStep

(* Deliveries.                                                             *)
LEMMA TypeDelivery ==
  ASSUME TypeInv, NEW d \in Deliverers,
         DeliveryStep(d) \/ \E e \in Recipients : Register(e, d)
  PROVE  TypeInv'
<1> DEFINE Busy == [at: {"take", "sink", "send", "putback"}, ext: Recipients,
                    pending: Seq(Message)]
           Ready(t) == t.pending = <<>> <=> t.at \in {"idle", "take"}
<1>1. /\ TypeOK /\ TasksLoaded
      /\ delivery \in [Deliverers -> {IdleDelivery} \cup Busy]
      /\ delivery[d].pending \in Seq(Message)
      /\ {MaxMessages, MaxTime, MaxFaults} \subseteq Nat
      /\ \A e \in Recipients : offline[e] \in Seq(Message) /\ Len(offline[e]) <= QueueCap
  BY CapsAssumption, DeliveryBusy DEF TypeInv, TypeOK
<1>2. delivery[d].at # "idle" => delivery[d] \in Busy /\ delivery[d].ext \in Recipients
  BY <1>1, DeliveryBusy
<1>3. \A t \in {IdleDelivery} \cup Busy : Ready(t) /\ delivery' = [delivery EXCEPT ![d] = t] =>
        delivery' \in [Deliverers -> {IdleDelivery} \cup Busy] /\ TasksLoaded'
  BY <1>1 DEF TasksLoaded
<1>4. Ready(IdleDelivery)
  BY DEF IdleDelivery
<1>5. delivery[d].at \in {"sink", "send", "putback"} => delivery[d].pending # <<>>
  BY <1>1 DEF TasksLoaded
<1>6. CASE \E e \in Recipients : Register(e, d)
  <2>1. PICK e \in Recipients : Register(e, d)
    BY <1>6
  <2> DEFINE t == [at |-> "take", ext |-> e, pending |-> <<>>]
  <2>2. t \in Busy /\ Ready(t) /\ delivery' = [delivery EXCEPT ![d] = t]
    BY <2>1 DEF Register
  <2>3. delivery' \in [Deliverers -> {IdleDelivery} \cup Busy] /\ TasksLoaded'
    BY <2>2, <1>3
  <2> QED BY <2>1, <2>3, <1>1 DEF Register, TypeInv, TypeOK, history
<1>7. CASE DeliveryTakes(d)
  <2> DEFINE e == delivery[d].ext
             fresh == Fresh(offline[e], now)
             t == IF fresh = <<>> THEN IdleDelivery
                  ELSE [delivery[d] EXCEPT !.at = "sink", !.pending = fresh]
  <2>1. e \in Recipients /\ delivery[d] \in Busy
    BY <1>7, <1>2 DEF DeliveryTakes
  <2>2. fresh \in Seq(Message)
    BY <2>1, <1>1, FreshFacts
  <2>3. delivery' = [delivery EXCEPT ![d] = t]
    BY <1>7 DEF DeliveryTakes
  <2> HIDE DEF fresh
  <2>4. t \in {IdleDelivery} \cup Busy /\ Ready(t)
    BY <2>1, <2>2, <1>4
  <2>5. delivery' \in [Deliverers -> {IdleDelivery} \cup Busy] /\ TasksLoaded'
    <3> HIDE DEF t
    <3> QED BY <2>3, <2>4, <1>3
  <2>6. offline' = [offline EXCEPT ![e] = <<>>]
    BY <1>7 DEF DeliveryTakes, Remaining
  <2>7. /\ offline' \in [Recipients -> Seq(Message)]
        /\ \A f \in Recipients : Len(offline'[f]) <= QueueCap
    <3>1. Len(<<>>) <= QueueCap /\ offline \in [Recipients -> Seq(Message)]
      BY <1>1, CapsAssumption DEF TypeOK
    <3> QED BY <3>1, <2>1, <2>6, <1>1
  <2>8. dropped' \subseteq MessageIds
    BY <1>7, <2>1, <1>1, IdsTyped DEF DeliveryTakes, TypeOK
  <2>9. UNCHANGED <<now, rates, connected, handler, nMessages, nFaults, accepted, sent>>
    BY <1>7 DEF DeliveryTakes
  <2> QED BY <2>5, <2>7, <2>8, <2>9, <1>1 DEF TypeInv, TypeOK
<1>8. CASE DeliveryFindsSink(d)
  <2> DEFINE t == [delivery[d] EXCEPT !.at = IF delivery[d].ext \in connected
                                             THEN "send" ELSE "putback"]
  <2>1. delivery[d] \in Busy /\ delivery[d].pending # <<>>
    BY <1>8, <1>2, <1>5 DEF DeliveryFindsSink
  <2>2. t \in Busy /\ Ready(t) /\ delivery' = [delivery EXCEPT ![d] = t]
    BY <1>8, <2>1 DEF DeliveryFindsSink
  <2>3. delivery' \in [Deliverers -> {IdleDelivery} \cup Busy] /\ TasksLoaded'
    <3> HIDE DEF t
    <3> QED BY <2>2, <1>3
  <2> QED BY <1>8, <2>3, <1>1 DEF DeliveryFindsSink, TypeInv, TypeOK, history
<1>9. CASE DeliverySends(d)
  <2> DEFINE q == delivery[d].pending
             t == IF Len(q) = 1 THEN IdleDelivery ELSE [delivery[d] EXCEPT !.pending = Tail(q)]
  <2>1. delivery[d] \in Busy /\ q # <<>> /\ delivery[d].at = "send"
    BY <1>9, <1>2, <1>5 DEF DeliverySends
  <2>2. /\ Head(q) \in Message /\ Tail(q) \in Seq(Message)
        /\ Tail(q) = <<>> <=> Len(q) = 1
    BY <2>1, <1>1, TailFacts
  <2>3. delivery' = [delivery EXCEPT ![d] = t] /\ sent' = sent \cup {Head(q).id}
    BY <1>9 DEF DeliverySends
  <2>4. t \in {IdleDelivery} \cup Busy /\ Ready(t)
    BY <2>1, <2>2, <1>4
  <2>5. delivery' \in [Deliverers -> {IdleDelivery} \cup Busy] /\ TasksLoaded'
    <3> HIDE DEF t
    <3> QED BY <2>3, <2>4, <1>3
  <2>6. sent' \subseteq MessageIds
    BY <2>2, <2>3, <1>1 DEF TypeOK, Message
  <2>7. UNCHANGED <<now, offline, rates, connected, handler, nMessages, nFaults, accepted, dropped>>
    BY <1>9 DEF DeliverySends
  <2> QED BY <2>5, <2>6, <2>7, <1>1 DEF TypeInv, TypeOK
<1>10. CASE DeliverySendFails(d)
  <2> DEFINE t == [delivery[d] EXCEPT !.at = "putback", !.pending = delivery[d].pending]
  <2>1. delivery[d] \in Busy /\ delivery[d].pending # <<>>
    BY <1>10, <1>2, <1>5 DEF DeliverySendFails
  <2>2. t \in Busy /\ Ready(t) /\ delivery' = [delivery EXCEPT ![d] = t]
    BY <1>10, <2>1 DEF DeliverySendFails, Unsent
  <2>3. delivery' \in [Deliverers -> {IdleDelivery} \cup Busy] /\ TasksLoaded'
    <3> HIDE DEF t
    <3> QED BY <2>2, <1>3
  <2>4. nFaults' \in 0..MaxFaults
    BY <1>10, <1>1 DEF DeliverySendFails, TypeOK
  <2> QED BY <1>10, <2>3, <2>4, <1>1 DEF DeliverySendFails, TypeInv, TypeOK, history
<1>11. CASE DeliveryPutsBack(d)
  <2> DEFINE e == delivery[d].ext
             merged == merge_back(offline[e], delivery[d].pending)
  <2>1. e \in Recipients
    BY <1>11, <1>2 DEF DeliveryPutsBack
  <2>2. merged \in Seq(Message) /\ Len(merged) <= QueueCap
    BY <2>1, <1>1, MergeFacts
  <2>3. /\ offline' = [offline EXCEPT ![e] = merged]
        /\ delivery' = [delivery EXCEPT ![d] = IdleDelivery]
        /\ dropped' = dropped \cup ((Ids(offline[e]) \cup Ids(delivery[d].pending)) \ Ids(merged))
    BY <1>11 DEF DeliveryPutsBack
  <2> HIDE DEF merged
  <2>4. /\ offline' \in [Recipients -> Seq(Message)]
        /\ \A f \in Recipients : Len(offline'[f]) <= QueueCap
    BY <2>1, <2>2, <2>3, <1>1 DEF TypeOK
  <2>5. dropped' \subseteq MessageIds
    <3>1. Ids(offline[e]) \subseteq MessageIds /\ Ids(delivery[d].pending) \subseteq MessageIds
      BY <2>1, <1>1, IdsTyped
    <3> QED BY <3>1, <2>3, <1>1 DEF TypeOK
  <2>6. delivery' \in [Deliverers -> {IdleDelivery} \cup Busy] /\ TasksLoaded'
    BY <2>3, <1>3, <1>4
  <2>7. UNCHANGED <<now, rates, connected, handler, nMessages, nFaults, accepted, sent>>
    BY <1>11 DEF DeliveryPutsBack
  <2> QED BY <2>4, <2>5, <2>6, <2>7, <1>1 DEF TypeInv, TypeOK
<1> QED
  BY <1>6, <1>7, <1>8, <1>9, <1>10, <1>11 DEF DeliveryStep

LEMMA TypeStep == TypeInv /\ [Next]_vars => TypeInv'
<1> SUFFICES ASSUME TypeInv, [Next]_vars PROVE TypeInv'
  OBVIOUS
<1>1. {MaxMessages, MaxTime, MaxFaults} \subseteq Nat
  BY CapsAssumption
<1>2. CASE \E e \in Recipients : Disconnect(e)
  BY <1>1, <1>2 DEF Disconnect, TypeInv, TypeOK, TasksLoaded, history
<1>3. CASE Tick
  BY <1>1, <1>3 DEF Tick, TypeInv, TypeOK, TasksLoaded, Times, history
<1>4. CASE UNCHANGED vars
  BY <1>4 DEF vars, TypeInv, TypeOK, TasksLoaded
<1> QED
  BY <1>2, <1>3, <1>4, TypeHandler, TypeDelivery DEF Next

LEMMA TypeInit == Init => TypeInv
<1> SUFFICES ASSUME Init PROVE TypeInv
  OBVIOUS
<1>1. {MaxMessages, MaxTime, MaxFaults, QueueCap, RateLimit} \subseteq Nat
  BY CapsAssumption
<1>2. IdleDelivery.at = "idle" /\ IdleDelivery.pending = <<>>
  BY DEF IdleDelivery
<1>3. TasksLoaded
  BY <1>2 DEF Init, TasksLoaded
<1>4. offline \in [Recipients -> Seq(Message)] /\ \A e \in Recipients : Len(offline[e]) <= QueueCap
  BY <1>1 DEF Init
<1>5. rates \in [Senders -> [window_start: Times, count: -1..RateLimit]]
  BY <1>1 DEF Init, NoWindow, Times
<1> QED BY <1>1, <1>3, <1>4, <1>5 DEF Init, TypeInv, TypeOK, Times

(* Every queue keeps to its cap and every table to its type, whatever the  *)
(* handlers and the deliveries do to them in turn.                         *)
THEOREM TypeCorrect == Spec => []TypeOK
<1>1. Spec => []TypeInv
  BY TypeInit, TypeStep, PTL DEF Spec
<1> QED BY <1>1, PTL DEF TypeInv
------------------------------------------------------------------------------
(* The account.  A message is held at one place: a queue, a delivery task  *)
(* or the hand of a handler.                                               *)

QueueOf(e) == <<"queue", e>>
TaskOf(d) == <<"task", d>>
HandOf(s) == <<"hand", s>>

Kept == {QueueOf(e) : e \in Recipients} \cup {TaskOf(d) : d \in Deliverers}
Places == Kept \cup {HandOf(s) : s \in Senders}

Held(off, del, han) ==
  [p \in Places |->
     IF p[1] = "queue" THEN Ids(off[p[2]])
     ELSE IF p[1] = "task" THEN Ids(del[p[2]].pending)
     ELSE IF han[p[2]].at = "idle" THEN {} ELSE {han[p[2]].id}]

KeptIn(H) == UNION {H[p] : p \in Kept}

Balanced(H, acc, snt, drp, n) ==
  /\ \A p, q \in Places : p # q => H[p] \cap H[q] = {}
  /\ \A p \in Places : H[p] \cap (snt \cup drp) = {}
  /\ snt \cap drp = {}
  /\ \A p \in Places : H[p] \subseteq 1..n
  /\ snt \cup drp \subseteq 1..n
  /\ acc \subseteq snt \cup drp \cup KeptIn(H)

NoneDouble(off, del) ==
  /\ \A e \in Recipients : Distinct(off[e])
  /\ \A d \in Deliverers : Distinct(del[d].pending)

LEMMA PlaceFacts ==
  /\ \A e \in Recipients : QueueOf(e) \in Kept
  /\ \A d \in Deliverers : TaskOf(d) \in Kept
  /\ \A s \in Senders : HandOf(s) \in Places
  /\ Kept \subseteq Places
  /\ \A e, f \in Recipients : QueueOf(e) = QueueOf(f) => e = f
  /\ \A c, d \in Deliverers : TaskOf(c) = TaskOf(d) => c = d
  /\ \A r, s \in Senders : HandOf(r) = HandOf(s) => r = s
  /\ \A e \in Recipients, d \in Deliverers : QueueOf(e) # TaskOf(d)
  /\ \A e \in Recipients, s \in Senders : QueueOf(e) # HandOf(s)
  /\ \A d \in Deliverers, s \in Senders : TaskOf(d) # HandOf(s)
  /\ \A p \in Kept : \/ \E e \in Recipients : p = QueueOf(e)
                     \/ \E d \in Deliverers : p = TaskOf(d)
  /\ \A p \in Places : p \in Kept \/ \E s \in Senders : p = HandOf(s)
BY DEF Kept, Places, QueueOf, TaskOf, HandOf

LEMMA HeldAt ==
  ASSUME NEW off, NEW del, NEW han
  PROVE  /\ \A e \in Recipients : Held(off, del, han)[QueueOf(e)] = Ids(off[e])
         /\ \A d \in Deliverers : Held(off, del, han)[TaskOf(d)] = Ids(del[d].pending)
         /\ \A s \in Senders :
              /\ han[s].at = "idle" => Held(off, del, han)[HandOf(s)] = {}
              /\ han[s].at # "idle" => Held(off, del, han)[HandOf(s)] = {han[s].id}
BY DEF Held, Kept, Places, QueueOf, TaskOf, HandOf

LEMMA KeptMeans ==
  Waiting = KeptIn(Held(offline, delivery, handler))
<1> DEFINE H == Held(offline, delivery, handler)
<1>1. \A x : x \in Waiting <=> \/ \E e \in Recipients : x \in H[QueueOf(e)]
                               \/ \E d \in Deliverers : x \in H[TaskOf(d)]
  BY HeldAt DEF Waiting, AllIds
<1>2. \A x : x \in KeptIn(H) <=> \/ \E e \in Recipients : x \in H[QueueOf(e)]
                                 \/ \E d \in Deliverers : x \in H[TaskOf(d)]
  <2> HIDE DEF H
  <2> QED BY PlaceFacts DEF KeptIn
<1> QED BY <1>1, <1>2

LEMMA AccountMeans ==
  NothingLost /\ NothingTwice /\ HandsApart /\ NumbersUsed
    <=> /\ Balanced(Held(offline, delivery, handler), accepted, sent, dropped, nMessages)
        /\ NoneDouble(offline, delivery)
<1> DEFINE H == Held(offline, delivery, handler)
<1>1. /\ \A e \in Recipients : H[QueueOf(e)] = Ids(offline[e])
      /\ \A d \in Deliverers : H[TaskOf(d)] = Ids(delivery[d].pending)
      /\ \A s \in Senders : H[HandOf(s)] = InHand(s)
  <2>1. ASSUME NEW s \in Senders PROVE H[HandOf(s)] = InHand(s)
    <3>1. CASE handler[s].at = "idle"
      BY <3>1, HeldAt DEF InHand
    <3>2. CASE handler[s].at # "idle"
      BY <3>2, HeldAt DEF InHand
    <3> QED BY <3>1, <3>2
  <2> QED BY <2>1, HeldAt
<1>2. Waiting = KeptIn(H)
  BY KeptMeans
<1> HIDE DEF H
<1>3. ASSUME NothingLost, NothingTwice, HandsApart, NumbersUsed
      PROVE  Balanced(H, accepted, sent, dropped, nMessages) /\ NoneDouble(offline, delivery)
  <2>1. \A p \in Kept : H[p] \subseteq Waiting
    BY <1>2 DEF KeptIn
  <2>2. \A p, q \in Kept : p # q => H[p] \cap H[q] = {}
    <3>1. \A e, f \in Recipients : e # f => H[QueueOf(e)] \cap H[QueueOf(f)] = {}
      BY <1>1, <1>3 DEF NothingTwice
    <3>2. \A c, d \in Deliverers : c # d => H[TaskOf(c)] \cap H[TaskOf(d)] = {}
      BY <1>1, <1>3 DEF NothingTwice
    <3>3. \A e \in Recipients, d \in Deliverers : H[QueueOf(e)] \cap H[TaskOf(d)] = {}
      BY <1>1, <1>3 DEF NothingTwice
    <3> QED BY <3>1, <3>2, <3>3, PlaceFacts
  <2>3. \A p \in Kept, s \in Senders : H[p] \cap H[HandOf(s)] = {}
    BY <1>1, <1>3, <2>1 DEF HandsApart
  <2>4. \A r, s \in Senders : r # s => H[HandOf(r)] \cap H[HandOf(s)] = {}
    BY <1>1, <1>3 DEF HandsApart
  <2>5. \A p, q \in Places : p # q => H[p] \cap H[q] = {}
    BY <2>2, <2>3, <2>4, PlaceFacts
  <2>6. \A p \in Places : H[p] \cap (sent \cup dropped) = {}
    BY <1>1, <1>3, <2>1, PlaceFacts DEF NothingTwice, HandsApart
  <2>7. \A p \in Places : H[p] \subseteq 1..nMessages
    BY <1>1, <1>3, <2>1, PlaceFacts DEF NumbersUsed
  <2>8. accepted \subseteq sent \cup dropped \cup KeptIn(H)
    BY <1>2, <1>3 DEF NothingLost
  <2> QED BY <2>5, <2>6, <2>7, <2>8, <1>3 DEF Balanced, NoneDouble, NothingTwice, NumbersUsed
<1>4. ASSUME Balanced(H, accepted, sent, dropped, nMessages), NoneDouble(offline, delivery)
      PROVE  NothingLost /\ NothingTwice /\ HandsApart /\ NumbersUsed
  <2>1. NothingLost
    BY <1>2, <1>4 DEF NothingLost, Balanced
  <2>2. /\ \A p, q \in Places : p # q => H[p] \cap H[q] = {}
        /\ \A p \in Places : H[p] \cap (sent \cup dropped) = {}
        /\ \A p \in Places : H[p] \subseteq 1..nMessages
        /\ sent \cap dropped = {} /\ sent \cup dropped \subseteq 1..nMessages
    BY <1>4 DEF Balanced
  <2>3. Waiting \cap (sent \cup dropped) = {} /\ Waiting \subseteq 1..nMessages
    BY <1>2, <2>2, PlaceFacts DEF KeptIn
  <2>4. NothingTwice
    <3>1. \A e, f \in Recipients : e # f => Ids(offline[e]) \cap Ids(offline[f]) = {}
      BY <1>1, <2>2, PlaceFacts
    <3>2. \A c, d \in Deliverers :
            c # d => Ids(delivery[c].pending) \cap Ids(delivery[d].pending) = {}
      BY <1>1, <2>2, PlaceFacts
    <3>3. \A e \in Recipients, d \in Deliverers :
            Ids(offline[e]) \cap Ids(delivery[d].pending) = {}
      BY <1>1, <2>2, PlaceFacts
    <3> QED BY <3>1, <3>2, <3>3, <2>2, <2>3, <1>4 DEF NothingTwice, NoneDouble
  <2>5. HandsApart
    <3>1. ASSUME NEW s \in Senders PROVE InHand(s) \cap Waiting = {}
      <4>1. \A p \in Kept : H[p] \cap H[HandOf(s)] = {}
        BY <2>2, PlaceFacts
      <4> QED BY <4>1, <1>1, <1>2 DEF KeptIn
    <3>2. \A s \in Senders : InHand(s) \cap (sent \cup dropped) = {}
      BY <1>1, <2>2, PlaceFacts
    <3>3. \A r, s \in Senders : r # s => InHand(r) \cap InHand(s) = {}
      BY <1>1, <2>2, PlaceFacts
    <3> QED BY <3>1, <3>2, <3>3 DEF HandsApart
  <2>6. NumbersUsed
    <3>1. \A s \in Senders : InHand(s) \subseteq 1..nMessages
      BY <1>1, <2>2, PlaceFacts
    <3> QED BY <3>1, <2>2, <2>3 DEF NumbersUsed
  <2> QED BY <2>1, <2>4, <2>5, <2>6
<1> QED BY <1>3, <1>4 DEF H

(* What every step does: messages stay where they are, go from one place   *)
(* to one other, or leave for good.                                        *)
Moves(H, G, acc, snt, drp, acc2, snt2, drp2, from, to) ==
  /\ \A p \in Places : p # to => G[p] \subseteq H[p]
  /\ G[to] \subseteq H[to] \cup H[from]
  /\ from # to => G[from] \cap G[to] = {}
  /\ snt \subseteq snt2 /\ drp \subseteq drp2
  /\ (snt2 \ snt) \cap (drp2 \ drp) = {}
  /\ \A x \in (snt2 \ snt) \cup (drp2 \ drp) :
       (\E p \in Places : x \in H[p] /\ x \notin G[p]) /\ x \notin G[to]
  /\ \A p \in Kept : H[p] \subseteq snt2 \cup drp2 \cup KeptIn(G)
  /\ acc2 \subseteq acc \cup snt2 \cup drp2 \cup KeptIn(G)

LEMMA Transfer ==
  ASSUME NEW H, NEW G, NEW acc, NEW snt, NEW drp, NEW acc2, NEW snt2, NEW drp2, NEW n,
         NEW from \in Places, NEW to \in Places,
         Balanced(H, acc, snt, drp, n),
         Moves(H, G, acc, snt, drp, acc2, snt2, drp2, from, to)
  PROVE  Balanced(G, acc2, snt2, drp2, n)
<1> USE DEF Moves
<1>1. /\ \A p, q \in Places : p # q => H[p] \cap H[q] = {}
      /\ \A p \in Places : H[p] \cap (snt \cup drp) = {}
      /\ snt \cap drp = {}
      /\ \A p \in Places : H[p] \subseteq 1..n
      /\ snt \cup drp \subseteq 1..n
      /\ acc \subseteq snt \cup drp \cup KeptIn(H)
  BY DEF Balanced
<1>2. \A p, q \in Places : p # q => G[p] \cap G[q] = {}
  <2>1. SUFFICES ASSUME NEW p \in Places, NEW q \in Places, p # q PROVE G[p] \cap G[q] = {}
    OBVIOUS
  <2>2. CASE p # to /\ q # to
    BY <2>1, <2>2, <1>1
  <2>3. ASSUME NEW r \in Places, r # to PROVE G[r] \cap G[to] = {}
    <3>1. CASE r = from
      BY <2>3, <3>1
    <3>2. CASE r # from
      BY <2>3, <3>2, <1>1
    <3> QED BY <3>1, <3>2
  <2> QED BY <2>1, <2>2, <2>3
<1>3. \A p \in Places : \A x \in G[p] : \E q \in Places : x \in H[q]
  OBVIOUS
<1>4. \A p \in Places : G[p] \cap (snt2 \cup drp2) = {}
  <2>1. SUFFICES ASSUME NEW p \in Places, NEW x \in G[p], x \in snt2 \cup drp2 PROVE FALSE
    OBVIOUS
  <2>2. x \notin snt \cup drp
    BY <1>1, <1>3, <2>1
  <2>3. PICK q \in Places : x \in H[q] /\ x \notin G[q] /\ x \notin G[to]
    BY <2>1, <2>2
  <2>4. p # to /\ x \in H[p]
    BY <2>1, <2>3
  <2> QED BY <2>1, <2>3, <2>4, <1>1
<1>5. snt2 \cap drp2 = {}
  <2>1. SUFFICES ASSUME NEW x \in snt2, x \in drp2 PROVE FALSE
    OBVIOUS
  <2>2. x \in snt \/ x \in drp
    BY <2>1
  <2>3. \A p \in Places : x \notin H[p]
    BY <2>2, <1>1
  <2> QED BY <2>1, <2>2, <2>3, <1>1
<1>6. \A p \in Places : G[p] \subseteq 1..n
  BY <1>1, <1>3
<1>7. snt2 \cup drp2 \subseteq 1..n
  BY <1>1
<1>8. acc2 \subseteq snt2 \cup drp2 \cup KeptIn(G)
  <2>1. KeptIn(H) \subseteq snt2 \cup drp2 \cup KeptIn(G)
    BY DEF KeptIn
  <2> QED BY <2>1, <1>1
<1> QED BY <1>2, <1>4, <1>5, <1>6, <1>7, <1>8 DEF Balanced
------------------------------------------------------------------------------
(* The account, action by action.                                          *)

AccountInv ==
  /\ Balanced(Held(offline, delivery, handler), accepted, sent, dropped, nMessages)
  /\ NoneDouble(offline, delivery)

(* Places whose content a step leaves alone.                               *)
LEMMA HeldStays ==
  ASSUME NEW off, NEW del, NEW han, NEW off2, NEW del2, NEW han2
  PROVE  /\ \A e \in Recipients : off2[e] = off[e] =>
              Held(off2, del2, han2)[QueueOf(e)] = Held(off, del, han)[QueueOf(e)]
         /\ \A d \in Deliverers : del2[d].pending = del[d].pending =>
              Held(off2, del2, han2)[TaskOf(d)] = Held(off, del, han)[TaskOf(d)]
         /\ \A s \in Senders : han2[s] = han[s] =>
              Held(off2, del2, han2)[HandOf(s)] = Held(off, del, han)[HandOf(s)]
<1>1. ASSUME NEW s \in Senders, han2[s] = han[s]
      PROVE  Held(off2, del2, han2)[HandOf(s)] = Held(off, del, han)[HandOf(s)]
  <2> DEFINE H == Held(off, del, han)[HandOf(s)]
             G == Held(off2, del2, han2)[HandOf(s)]
  <2>1. /\ han[s].at = "idle" => H = {}
        /\ han[s].at # "idle" => H = {han[s].id}
    BY HeldAt
  <2>2. /\ han2[s].at = "idle" => G = {}
        /\ han2[s].at # "idle" => G = {han2[s].id}
    BY HeldAt
  <2> HIDE DEF G, H
  <2>3. G = H
    BY <1>1, <2>1, <2>2
  <2> QED BY <2>3 DEF G, H
<1> QED BY <1>1, HeldAt

(* A step that moves no message.                                           *)
LEMMA AccountSame ==
  ASSUME AccountInv, offline' = offline,
         \A d \in Deliverers : delivery'[d].pending = delivery[d].pending,
         \A s \in Senders :
           \/ handler'[s] = handler[s]
           \/ handler'[s].at = "idle"
           \/ handler'[s].at # "idle" /\ handler[s].at # "idle" /\ handler'[s].id = handler[s].id,
         UNCHANGED <<nMessages, accepted, sent, dropped>>
  PROVE  AccountInv'
<1> DEFINE H == Held(offline, delivery, handler)
           G == Held(offline', delivery', handler')
<1>1. \A p \in Kept : G[p] = H[p]
  <2>1. \A e \in Recipients : G[QueueOf(e)] = H[QueueOf(e)]
    BY HeldAt
  <2>2. \A d \in Deliverers : G[TaskOf(d)] = H[TaskOf(d)]
    BY HeldAt
  <2> HIDE DEF G, H
  <2> QED BY <2>1, <2>2, PlaceFacts
<1>2. \A s \in Senders : G[HandOf(s)] \subseteq H[HandOf(s)]
  <2>1. SUFFICES ASSUME NEW s \in Senders PROVE G[HandOf(s)] \subseteq H[HandOf(s)]
    OBVIOUS
  <2>6. /\ handler'[s].at = "idle" => G[HandOf(s)] = {}
        /\ handler'[s].at # "idle" => G[HandOf(s)] = {handler'[s].id}
    BY HeldAt
  <2>2. /\ handler[s].at = "idle" => H[HandOf(s)] = {}
        /\ handler[s].at # "idle" => H[HandOf(s)] = {handler[s].id}
    BY HeldAt
  <2> HIDE DEF G, H
  <2>3. CASE handler'[s].at = "idle"
    BY <2>6, <2>3
  <2>4. CASE handler'[s].at # "idle" /\ handler[s].at # "idle" /\ handler'[s].id = handler[s].id
    BY <2>6, <2>2, <2>4
  <2>5. CASE handler'[s] = handler[s]
    BY <2>6, <2>2, <2>5
  <2> QED BY <2>3, <2>4, <2>5
<1>3. Balanced(H, accepted, sent, dropped, nMessages)
  BY DEF AccountInv
<1>4. NoneDouble(offline', delivery')
  BY DEF AccountInv, NoneDouble
<1> HIDE DEF G, H
<1>5. \A p \in Places : G[p] \subseteq H[p]
  BY <1>1, <1>2, PlaceFacts
<1>6. KeptIn(G) = KeptIn(H)
  BY <1>1 DEF KeptIn
<1>7. Balanced(G, accepted, sent, dropped, nMessages)
  BY <1>3, <1>5, <1>6 DEF Balanced
<1> QED BY <1>4, <1>7 DEF AccountInv, G

(* A new message is in one hand.                                           *)
LEMMA AccountArrives ==
  ASSUME AccountInv, TypeInv, NEW s \in Senders, NEW e \in Recipients, MessageArrives(s, e)
  PROVE  AccountInv'
<1> DEFINE H == Held(offline, delivery, handler)
           G == Held(offline', delivery', handler')
           m == nMessages + 1
<1>1. nMessages \in Nat /\ handler \in [Senders -> {IdleHandler} \cup
        [at: {"send", "rate", "store"}, id: MessageIds, to: Recipients, now: Times]]
  BY CapsAssumption DEF TypeInv, TypeOK
<1>2. /\ handler'[s].at # "idle" /\ handler'[s].id = m
      /\ \A r \in Senders : r # s => handler'[r] = handler[r]
  BY <1>1 DEF MessageArrives
<1>3. UNCHANGED <<offline, delivery, accepted, sent, dropped>> /\ nMessages' = m
  BY DEF MessageArrives, history
<1>4. \A p \in Kept : G[p] = H[p]
  <2>1. \A f \in Recipients : G[QueueOf(f)] = H[QueueOf(f)]
    BY <1>3, HeldAt
  <2>2. \A d \in Deliverers : G[TaskOf(d)] = H[TaskOf(d)]
    BY <1>3, HeldAt
  <2> HIDE DEF G, H
  <2> QED BY <2>1, <2>2, PlaceFacts
<1>5. \A r \in Senders : r # s => G[HandOf(r)] = H[HandOf(r)]
  BY <1>2, HeldStays
<1>6. G[HandOf(s)] = {m}
  BY <1>2, HeldAt
<1>7. Balanced(H, accepted, sent, dropped, nMessages)
  BY DEF AccountInv
<1>8. NoneDouble(offline', delivery')
  BY <1>3 DEF AccountInv, NoneDouble
<1> HIDE DEF G, H
<1>9. \A p \in Places : p # HandOf(s) => G[p] = H[p]
  BY <1>4, <1>5, PlaceFacts
<1>10. KeptIn(G) = KeptIn(H)
  BY <1>4 DEF KeptIn
<1>11. m \notin 1..nMessages /\ m \in 1..m /\ 1..nMessages \subseteq 1..m
  BY <1>1
<1>12. Balanced(G, accepted, sent, dropped, m)
  <2>1. \A p \in Places : m \notin H[p]
    BY <1>7, <1>11 DEF Balanced
  <2>2. \A p, q \in Places : p # q => G[p] \cap G[q] = {}
    BY <1>6, <1>7, <1>9, <2>1 DEF Balanced
  <2>3. \A p \in Places : G[p] \cap (sent \cup dropped) = {} /\ G[p] \subseteq 1..m
    BY <1>6, <1>7, <1>9, <1>11 DEF Balanced
  <2> QED BY <1>7, <1>10, <1>11, <2>2, <2>3 DEF Balanced
<1> QED BY <1>3, <1>8, <1>12 DEF AccountInv, G

LEMMA InKept ==
  ASSUME NEW G, NEW p \in Kept, NEW x \in G[p] PROVE x \in KeptIn(G)
BY DEF KeptIn

(* The message in hand goes out.                                           *)
LEMMA AccountForwarded ==
  ASSUME AccountInv, TypeInv, NEW s \in Senders, MessageForwarded(s)
  PROVE  AccountInv'
<1> DEFINE H == Held(offline, delivery, handler)
           G == Held(offline', delivery', handler')
           x == handler[s].id
<1>1. /\ handler[s].at # "idle" /\ handler'[s].at = "idle"
      /\ \A r \in Senders : r # s => handler'[r] = handler[r]
      /\ UNCHANGED <<offline, delivery, nMessages, dropped>>
      /\ sent' = sent \cup {x} /\ accepted' = accepted \cup {x}
  BY DEF MessageForwarded, Answer200, TypeInv, TypeOK, IdleHandler
<1>2. \A p \in Kept : G[p] = H[p]
  <2>1. \A f \in Recipients : G[QueueOf(f)] = H[QueueOf(f)]
    BY <1>1, HeldAt
  <2>2. \A d \in Deliverers : G[TaskOf(d)] = H[TaskOf(d)]
    BY <1>1, HeldAt
  <2> HIDE DEF G, H
  <2> QED BY <2>1, <2>2, PlaceFacts
<1>3. \A r \in Senders : r # s => G[HandOf(r)] = H[HandOf(r)]
  BY <1>1, HeldStays
<1>4. G[HandOf(s)] = {} /\ H[HandOf(s)] = {x}
  BY <1>1, HeldAt
<1>5. Balanced(H, accepted, sent, dropped, nMessages)
  BY DEF AccountInv
<1>6. NoneDouble(offline', delivery')
  BY <1>1 DEF AccountInv, NoneDouble
<1> HIDE DEF G, H, x
<1>7. HandOf(s) \in Places
  BY PlaceFacts
<1>8. \A p \in Places : p # HandOf(s) => G[p] \subseteq H[p]
  BY <1>2, <1>3, PlaceFacts
<1>9. \A p \in Kept : H[p] \subseteq sent' \cup dropped' \cup KeptIn(G)
  BY <1>2 DEF KeptIn
<1>10. \A y \in (sent' \ sent) \cup (dropped' \ dropped) :
         (\E p \in Places : y \in H[p] /\ y \notin G[p]) /\ y \notin G[HandOf(s)]
  BY <1>1, <1>4, <1>7
<1>11. Moves(H, G, accepted, sent, dropped, accepted', sent', dropped', HandOf(s), HandOf(s))
  BY <1>1, <1>4, <1>8, <1>9, <1>10 DEF Moves
<1>12. Balanced(G, accepted', sent', dropped', nMessages)
  BY <1>5, <1>7, <1>11, Transfer
<1> QED BY <1>1, <1>6, <1>12 DEF AccountInv, G

LEMMA AllIdsAt ==
  ASSUME NEW map, NEW x
  PROVE  x \in AllIds(map) <=> \E e \in Recipients : x \in Ids(map[e])
BY DEF AllIds

(* Pruned queues hold what they held, or less.                             *)
LEMMA PrunedIds ==
  ASSUME TypeOK, NEW t, NEW e \in Recipients
  PROVE  /\ Ids(prune_expired(offline, t)[e]) \subseteq Ids(offline[e])
         /\ Distinct(offline[e]) => Distinct(prune_expired(offline, t)[e])
<1>1. offline[e] \in Seq(Message)
  BY DEF TypeOK
<1>2. prune_expired(offline, t)[e] = Fresh(offline[e], t)
  BY PruneFacts
<1> QED BY <1>1, <1>2, FreshFacts

(* The message in hand is refused, and what has expired is dropped.        *)
LEMMA AccountRefused ==
  ASSUME AccountInv, TypeInv, NEW s \in Senders, StoreRefused(s)
  PROVE  AccountInv'
<1> DEFINE H == Held(offline, delivery, handler)
           G == Held(offline', delivery', handler')
<1>1. /\ handler'[s].at = "idle"
      /\ \A r \in Senders : r # s => handler'[r] = handler[r]
      /\ UNCHANGED <<delivery, nMessages, accepted, sent>>
      /\ offline' = prune_expired(offline, handler[s].now)
      /\ dropped' = dropped \cup (AllIds(offline) \ AllIds(offline'))
  BY DEF StoreRefused, Answer503, TypeInv, TypeOK, IdleHandler
<1>2. \A e \in Recipients :
        /\ Ids(offline'[e]) \subseteq Ids(offline[e])
        /\ Distinct(offline[e]) => Distinct(offline'[e])
  BY <1>1, PrunedIds DEF TypeInv
<1>3. /\ \A e \in Recipients : G[QueueOf(e)] = Ids(offline'[e])
      /\ \A e \in Recipients : H[QueueOf(e)] = Ids(offline[e])
      /\ \A d \in Deliverers : G[TaskOf(d)] = H[TaskOf(d)]
  BY <1>1, HeldAt
<1>4. \A r \in Senders : r # s => G[HandOf(r)] = H[HandOf(r)]
  BY <1>1, HeldStays
<1>5. G[HandOf(s)] = {}
  BY <1>1, HeldAt
<1>6. Balanced(H, accepted, sent, dropped, nMessages)
  BY DEF AccountInv
<1>7. NoneDouble(offline', delivery')
  BY <1>1, <1>2 DEF AccountInv, NoneDouble
<1> HIDE DEF G, H
<1>8. HandOf(s) \in Places
  BY PlaceFacts
<1>9. \A p \in Places : p # HandOf(s) => G[p] \subseteq H[p]
  BY <1>2, <1>3, <1>4, PlaceFacts
<1>10. \A p \in Kept : H[p] \subseteq sent' \cup dropped' \cup KeptIn(G)
  <2>1. SUFFICES ASSUME NEW p \in Kept, NEW x \in H[p], x \notin dropped'
                 PROVE  x \in KeptIn(G)
    OBVIOUS
  <2>2. CASE \E e \in Recipients : p = QueueOf(e)
    <3>1. x \in AllIds(offline)
      BY <2>1, <2>2, <1>3, AllIdsAt
    <3>2. PICK f \in Recipients : x \in Ids(offline'[f])
      BY <3>1, <2>1, <1>1, AllIdsAt
    <3> QED BY <3>2, <1>3, PlaceFacts, InKept
  <2>3. CASE \E d \in Deliverers : p = TaskOf(d)
    BY <2>1, <2>3, <1>3, InKept
  <2> QED BY <2>2, <2>3, PlaceFacts
<1>11. \A x \in (sent' \ sent) \cup (dropped' \ dropped) :
         (\E p \in Places : x \in H[p] /\ x \notin G[p]) /\ x \notin G[HandOf(s)]
  <2>1. SUFFICES ASSUME NEW x, x \in AllIds(offline), x \notin AllIds(offline')
                 PROVE  \E p \in Places : x \in H[p] /\ x \notin G[p]
    BY <1>1, <1>5
  <2>2. PICK e \in Recipients : x \in Ids(offline[e])
    BY <2>1, AllIdsAt
  <2>3. x \notin Ids(offline'[e])
    BY <2>1, AllIdsAt
  <2> QED BY <2>2, <2>3, <1>3, PlaceFacts
<1>12. /\ G[HandOf(s)] \subseteq H[HandOf(s)] \cup H[HandOf(s)]
       /\ sent \subseteq sent' /\ dropped \subseteq dropped'
       /\ (sent' \ sent) \cap (dropped' \ dropped) = {}
       /\ accepted' \subseteq accepted \cup sent' \cup dropped' \cup KeptIn(G)
  BY <1>1, <1>5
<1>13. Moves(H, G, accepted, sent, dropped, accepted', sent', dropped', HandOf(s), HandOf(s))
  BY <1>9, <1>10, <1>11, <1>12 DEF Moves
<1>14. Balanced(G, accepted', sent', dropped', nMessages)
  BY <1>6, <1>8, <1>13, Transfer
<1> QED BY <1>1, <1>7, <1>14 DEF AccountInv, G

(* The message in hand is stored; what has expired, and the message it     *)
(* pushes out, are dropped.                                                *)
LEMMA AccountStored ==
  ASSUME AccountInv, TypeInv, NEW s \in Senders, StoreDone(s)
  PROVE  AccountInv'
<1> DEFINE H == Held(offline, delivery, handler)
           G == Held(offline', delivery', handler')
           x == handler[s].id
           e == handler[s].to
           map == prune_expired(offline, handler[s].now)
           m == [id |-> handler[s].id, from_ext |-> s, received_at |-> handler[s].now]
<1>1. /\ handler'[s].at = "idle" /\ handler[s].at # "idle"
      /\ \A r \in Senders : r # s => handler'[r] = handler[r]
      /\ UNCHANGED <<delivery, nMessages, sent>>
      /\ offline' = [map EXCEPT ![e] = Push(@, m)]
      /\ dropped' = dropped \cup (AllIds(offline) \ AllIds(offline'))
      /\ accepted' = accepted \cup {x}
  BY DEF StoreDone, Answer200, TypeInv, TypeOK, IdleHandler
<1>2. e \in Recipients /\ m \in Message /\ m.id = x
  BY <1>1, HandlerBusy, StoreFacts DEF StoreDone, TypeInv
<1>3. /\ offline'[e] = Push(map[e], m)
      /\ \A f \in Recipients : f # e => offline'[f] = map[f]
  BY <1>1, StoreFacts DEF StoreDone, TypeInv
<1>4. \A f \in Recipients :
        /\ Ids(map[f]) \subseteq Ids(offline[f])
        /\ Distinct(offline[f]) => Distinct(map[f])
        /\ map[f] \in Seq(Message) /\ Len(map[f]) <= QueueCap
  BY PrunedIds, PruneFacts DEF TypeInv
<1>5. /\ \A f \in Recipients : G[QueueOf(f)] = Ids(offline'[f])
      /\ \A f \in Recipients : H[QueueOf(f)] = Ids(offline[f])
      /\ \A d \in Deliverers : G[TaskOf(d)] = H[TaskOf(d)]
  <2>1. delivery' = delivery
    BY <1>1
  <2> HIDE DEF map, m
  <2> QED BY <2>1, HeldAt
<1>6. \A r \in Senders : r # s => G[HandOf(r)] = H[HandOf(r)]
  BY <1>1, HeldStays
<1>7. G[HandOf(s)] = {} /\ H[HandOf(s)] = {x}
  BY <1>1, HeldAt
<1>8. Balanced(H, accepted, sent, dropped, nMessages) /\ NoneDouble(offline, delivery)
  BY DEF AccountInv
<1> HIDE DEF G, H, map, m, x, e
<1>9. HandOf(s) \in Places /\ QueueOf(e) \in Places /\ QueueOf(e) # HandOf(s)
  BY <1>2, PlaceFacts
<1>10. x \notin Ids(map[e])
  <2>1. H[QueueOf(e)] \cap H[HandOf(s)] = {}
    BY <1>8, <1>9 DEF Balanced
  <2> QED BY <2>1, <1>2, <1>4, <1>5, <1>7
<1>11. /\ Ids(offline'[e]) \subseteq Ids(map[e]) \cup {x}
       /\ x \in Ids(offline'[e])
       /\ Distinct(map[e]) => Distinct(offline'[e])
  BY <1>2, <1>3, <1>4, <1>10, PushFacts
<1>12. NoneDouble(offline', delivery')
  BY <1>1, <1>2, <1>3, <1>4, <1>8, <1>11 DEF NoneDouble
<1>13. \A p \in Places : p # QueueOf(e) => G[p] \subseteq H[p]
  <2>1. \A f \in Recipients : f # e => G[QueueOf(f)] \subseteq H[QueueOf(f)]
    BY <1>3, <1>4, <1>5
  <2> QED BY <2>1, <1>5, <1>6, <1>7, PlaceFacts
<1>14. G[QueueOf(e)] \subseteq H[QueueOf(e)] \cup H[HandOf(s)]
  BY <1>2, <1>4, <1>5, <1>7, <1>11
<1>15. \A p \in Kept : H[p] \subseteq sent' \cup dropped' \cup KeptIn(G)
  <2>1. SUFFICES ASSUME NEW p \in Kept, NEW y \in H[p], y \notin dropped'
                 PROVE  y \in KeptIn(G)
    OBVIOUS
  <2>2. CASE \E f \in Recipients : p = QueueOf(f)
    <3>1. y \in AllIds(offline)
      BY <2>1, <2>2, <1>5, AllIdsAt
    <3>2. PICK f \in Recipients : y \in Ids(offline'[f])
      BY <3>1, <2>1, <1>1, AllIdsAt
    <3> QED BY <3>2, <1>5, PlaceFacts, InKept
  <2>3. CASE \E d \in Deliverers : p = TaskOf(d)
    BY <2>1, <2>3, <1>5, InKept
  <2> QED BY <2>2, <2>3, PlaceFacts
<1>16. \A y \in (sent' \ sent) \cup (dropped' \ dropped) :
         (\E p \in Places : y \in H[p] /\ y \notin G[p]) /\ y \notin G[QueueOf(e)]
  <2>1. SUFFICES ASSUME NEW y, y \in AllIds(offline), y \notin AllIds(offline')
                 PROVE  (\E p \in Places : y \in H[p] /\ y \notin G[p]) /\ y \notin G[QueueOf(e)]
    BY <1>1
  <2>2. PICK f \in Recipients : y \in Ids(offline[f])
    BY <2>1, AllIdsAt
  <2>3. \A g \in Recipients : y \notin Ids(offline'[g])
    BY <2>1, AllIdsAt
  <2> QED BY <2>2, <2>3, <1>2, <1>5, PlaceFacts
<1>17. /\ sent \subseteq sent' /\ dropped \subseteq dropped'
       /\ (sent' \ sent) \cap (dropped' \ dropped) = {}
       /\ G[HandOf(s)] \cap G[QueueOf(e)] = {}
  BY <1>1, <1>7
<1>18. accepted' \subseteq accepted \cup sent' \cup dropped' \cup KeptIn(G)
  <2>1. x \in KeptIn(G)
    BY <1>2, <1>5, <1>11, PlaceFacts, InKept
  <2> QED BY <2>1, <1>1
<1>19. Moves(H, G, accepted, sent, dropped, accepted', sent', dropped', HandOf(s), QueueOf(e))
  BY <1>13, <1>14, <1>15, <1>16, <1>17, <1>18 DEF Moves
<1>20. Balanced(G, accepted', sent', dropped', nMessages)
  BY <1>8, <1>9, <1>19, Transfer
<1> QED BY <1>1, <1>12, <1>20 DEF AccountInv, G

(* The queue goes over to the task, all but what has expired.              *)
LEMMA AccountTakes ==
  ASSUME AccountInv, TypeInv, NEW d \in Deliverers, DeliveryTakes(d)
  PROVE  AccountInv'
<1> DEFINE H == Held(offline, delivery, handler)
           G == Held(offline', delivery', handler')
           e == delivery[d].ext
           fresh == Fresh(offline[e], now)
<1>1. /\ e \in Recipients
      /\ delivery \in [Deliverers -> {IdleDelivery} \cup
           [at: {"take", "sink", "send", "putback"}, ext: Recipients, pending: Seq(Message)]]
      /\ delivery[d].pending = <<>>
      /\ delivery[d] \in [at: {"take", "sink", "send", "putback"}, ext: Recipients,
                          pending: Seq(Message)]
      /\ offline \in [Recipients -> Seq(Message)]
  BY DeliveryBusy DEF DeliveryTakes, TypeInv, TypeOK, TasksLoaded
<1>2. /\ fresh \in Seq(Message) /\ Ids(fresh) \subseteq Ids(offline[e])
      /\ Distinct(offline[e]) => Distinct(fresh)
  BY <1>1, FreshFacts
<1>3. /\ delivery'[d].pending = fresh
      /\ \A c \in Deliverers : c # d => delivery'[c] = delivery[c]
  <2> HIDE DEF fresh
  <2>1. delivery'[d] = IF fresh = <<>> THEN IdleDelivery
                       ELSE [delivery[d] EXCEPT !.at = "sink", !.pending = fresh]
    BY <1>1 DEF DeliveryTakes, fresh
  <2>2. delivery'[d].pending = fresh
    BY <2>1, <1>1 DEF IdleDelivery
  <2> QED BY <2>2, <1>1 DEF DeliveryTakes
<1>4. /\ offline'[e] = <<>>
      /\ \A f \in Recipients : f # e => offline'[f] = offline[f]
      /\ UNCHANGED <<handler, nMessages, accepted, sent>>
      /\ dropped' = dropped \cup (Ids(offline[e]) \ Ids(fresh))
  BY <1>1 DEF DeliveryTakes, Remaining
<1>5. /\ \A f \in Recipients : G[QueueOf(f)] = Ids(offline'[f])
      /\ \A f \in Recipients : H[QueueOf(f)] = Ids(offline[f])
      /\ \A c \in Deliverers : G[TaskOf(c)] = Ids(delivery'[c].pending)
      /\ \A c \in Deliverers : H[TaskOf(c)] = Ids(delivery[c].pending)
      /\ \A s \in Senders : G[HandOf(s)] = H[HandOf(s)]
  BY <1>4, HeldAt, HeldStays
<1>6. Balanced(H, accepted, sent, dropped, nMessages) /\ NoneDouble(offline, delivery)
  BY DEF AccountInv
<1>7. Ids(<<>>) = {} /\ Distinct(<<>>)
  BY DEF Ids, Distinct
<1> HIDE DEF G, H, e, fresh
<1>8. NoneDouble(offline', delivery')
  BY <1>1, <1>2, <1>3, <1>4, <1>6, <1>7 DEF NoneDouble
<1>9. TaskOf(d) \in Places /\ QueueOf(e) \in Places /\ QueueOf(e) # TaskOf(d)
  BY <1>1, PlaceFacts
<1>10. G[TaskOf(d)] = Ids(fresh) /\ H[TaskOf(d)] = {} /\ G[QueueOf(e)] = {}
  BY <1>1, <1>3, <1>4, <1>5, <1>7
<1>11. \A p \in Places : p # TaskOf(d) => G[p] \subseteq H[p]
  BY <1>3, <1>4, <1>5, <1>10, PlaceFacts
<1>12. \A p \in Kept : H[p] \subseteq sent' \cup dropped' \cup KeptIn(G)
  <2>1. ASSUME NEW f \in Recipients
        PROVE  H[QueueOf(f)] \subseteq dropped' \cup KeptIn(G)
    <3>1. CASE f = e
      <4>1. Ids(fresh) \subseteq KeptIn(G)
        BY <1>10, PlaceFacts, InKept
      <4> QED BY <3>1, <4>1, <1>4, <1>5
    <3>2. CASE f # e
      BY <3>2, <1>4, <1>5, PlaceFacts, InKept
    <3> QED BY <3>1, <3>2
  <2>2. ASSUME NEW c \in Deliverers
        PROVE  H[TaskOf(c)] \subseteq KeptIn(G)
    <3>1. CASE c = d
      BY <3>1, <1>10
    <3>2. CASE c # d
      BY <3>2, <1>3, <1>5, PlaceFacts, InKept
    <3> QED BY <3>1, <3>2
  <2> QED BY <2>1, <2>2, PlaceFacts
<1>13. \A y \in (sent' \ sent) \cup (dropped' \ dropped) :
         (\E p \in Places : y \in H[p] /\ y \notin G[p]) /\ y \notin G[TaskOf(d)]
  <2>1. \A y \in dropped' \ dropped : y \in H[QueueOf(e)] /\ y \notin Ids(fresh)
    BY <1>1, <1>4, <1>5
  <2> QED BY <2>1, <1>4, <1>9, <1>10
<1>14. /\ G[TaskOf(d)] \subseteq H[TaskOf(d)] \cup H[QueueOf(e)]
       /\ G[QueueOf(e)] \cap G[TaskOf(d)] = {}
       /\ sent \subseteq sent' /\ dropped \subseteq dropped'
       /\ (sent' \ sent) \cap (dropped' \ dropped) = {}
       /\ accepted' \subseteq accepted \cup sent' \cup dropped' \cup KeptIn(G)
  BY <1>1, <1>2, <1>4, <1>5, <1>10
<1>15. Moves(H, G, accepted, sent, dropped, accepted', sent', dropped', QueueOf(e), TaskOf(d))
  BY <1>11, <1>12, <1>13, <1>14 DEF Moves
<1>16. Balanced(G, accepted', sent', dropped', nMessages)
  BY <1>6, <1>9, <1>15, Transfer
<1> QED BY <1>4, <1>8, <1>16 DEF AccountInv, G

(* The first message of a task goes out.                                   *)
LEMMA AccountSends ==
  ASSUME AccountInv, TypeInv, NEW d \in Deliverers, DeliverySends(d)
  PROVE  AccountInv'
<1> DEFINE H == Held(offline, delivery, handler)
           G == Held(offline', delivery', handler')
           q == delivery[d].pending
           x == Head(q).id
<1>1. /\ delivery \in [Deliverers -> {IdleDelivery} \cup
           [at: {"take", "sink", "send", "putback"}, ext: Recipients, pending: Seq(Message)]]
      /\ q \in Seq(Message) /\ q # <<>>
      /\ delivery[d] \in [at: {"take", "sink", "send", "putback"}, ext: Recipients,
                          pending: Seq(Message)]
  BY DeliveryBusy DEF DeliverySends, TypeInv, TypeOK, TasksLoaded
<1>2. /\ Tail(q) = <<>> <=> Len(q) = 1
      /\ x \in Ids(q) /\ Ids(q) \subseteq Ids(Tail(q)) \cup {x}
      /\ Ids(Tail(q)) \subseteq Ids(q)
      /\ Distinct(q) => Distinct(Tail(q)) /\ x \notin Ids(Tail(q))
  BY <1>1, TailFacts
<1>3. /\ delivery'[d].pending = Tail(q)
      /\ \A c \in Deliverers : c # d => delivery'[c] = delivery[c]
  <2>1. delivery'[d] = IF Len(q) = 1 THEN IdleDelivery
                       ELSE [delivery[d] EXCEPT !.pending = Tail(q)]
    BY <1>1 DEF DeliverySends
  <2>2. delivery'[d].pending = Tail(q)
    BY <2>1, <1>1, <1>2 DEF IdleDelivery
  <2> QED BY <2>2, <1>1 DEF DeliverySends
<1>4. /\ UNCHANGED <<offline, handler, nMessages, accepted, dropped>>
      /\ sent' = sent \cup {x}
  BY DEF DeliverySends
<1>5. /\ \A f \in Recipients : G[QueueOf(f)] = H[QueueOf(f)]
      /\ \A c \in Deliverers : G[TaskOf(c)] = Ids(delivery'[c].pending)
      /\ \A c \in Deliverers : H[TaskOf(c)] = Ids(delivery[c].pending)
      /\ \A s \in Senders : G[HandOf(s)] = H[HandOf(s)]
  BY <1>4, HeldAt, HeldStays
<1>6. Balanced(H, accepted, sent, dropped, nMessages) /\ NoneDouble(offline, delivery)
  BY DEF AccountInv
<1> HIDE DEF G, H, x
<1>7. NoneDouble(offline', delivery')
  BY <1>2, <1>3, <1>4, <1>6 DEF NoneDouble
<1>8. TaskOf(d) \in Places /\ TaskOf(d) \in Kept
  BY PlaceFacts
<1>9. Distinct(q)
  BY <1>6 DEF NoneDouble
<1>10. G[TaskOf(d)] = Ids(Tail(q)) /\ H[TaskOf(d)] = Ids(q)
  BY <1>3, <1>5
<1>11. \A p \in Places : p # TaskOf(d) => G[p] = H[p]
  BY <1>3, <1>5, PlaceFacts
<1>12. \A p \in Kept : H[p] \subseteq sent' \cup dropped' \cup KeptIn(G)
  <2>1. \A p \in Kept : p # TaskOf(d) => H[p] \subseteq KeptIn(G)
    BY <1>11, PlaceFacts, InKept
  <2>2. Ids(Tail(q)) \subseteq KeptIn(G)
    BY <1>8, <1>10, InKept
  <2> HIDE DEF q
  <2> QED BY <2>1, <2>2, <1>2, <1>4, <1>10
<1> HIDE DEF q
<1>13. Moves(H, G, accepted, sent, dropped, accepted', sent', dropped', TaskOf(d), TaskOf(d))
  BY <1>2, <1>4, <1>8, <1>9, <1>10, <1>11, <1>12 DEF Moves
<1>14. Balanced(G, accepted', sent', dropped', nMessages)
  BY <1>6, <1>8, <1>13, Transfer
<1> QED BY <1>4, <1>7, <1>14 DEF AccountInv, G

(* A task gives back to the queue what it could not send.                  *)
LEMMA AccountPutsBack ==
  ASSUME AccountInv, TypeInv, NEW d \in Deliverers, DeliveryPutsBack(d)
  PROVE  AccountInv'
<1> DEFINE H == Held(offline, delivery, handler)
           G == Held(offline', delivery', handler')
           e == delivery[d].ext
           q == delivery[d].pending
           merged == merge_back(offline[e], q)
<1>1. /\ e \in Recipients /\ q \in Seq(Message)
      /\ delivery \in [Deliverers -> {IdleDelivery} \cup
           [at: {"take", "sink", "send", "putback"}, ext: Recipients, pending: Seq(Message)]]
      /\ offline \in [Recipients -> Seq(Message)]
  BY DeliveryBusy DEF DeliveryPutsBack, TypeInv, TypeOK
<1>2. /\ Ids(merged) \subseteq Ids(offline[e]) \cup Ids(q)
      /\ Distinct(offline[e]) /\ Distinct(q) /\ Ids(offline[e]) \cap Ids(q) = {}
         => Distinct(merged)
  <2>1. offline[e] \in Seq(Message) /\ q \in Seq(Message)
    BY <1>1
  <2>2. merged = merge_back(offline[e], q)
    OBVIOUS
  <2> HIDE DEF merged, e, q
  <2> QED BY <2>1, <2>2, MergeFacts
<1>3. /\ delivery'[d].pending = <<>>
      /\ \A c \in Deliverers : c # d => delivery'[c] = delivery[c]
  BY <1>1 DEF DeliveryPutsBack, IdleDelivery
<1>4. /\ offline'[e] = merged
      /\ \A f \in Recipients : f # e => offline'[f] = offline[f]
      /\ UNCHANGED <<handler, nMessages, accepted, sent>>
      /\ dropped' = dropped \cup ((Ids(offline[e]) \cup Ids(q)) \ Ids(merged))
  BY <1>1 DEF DeliveryPutsBack
<1>5. /\ \A f \in Recipients : G[QueueOf(f)] = Ids(offline'[f])
      /\ \A f \in Recipients : H[QueueOf(f)] = Ids(offline[f])
      /\ \A c \in Deliverers : G[TaskOf(c)] = Ids(delivery'[c].pending)
      /\ \A c \in Deliverers : H[TaskOf(c)] = Ids(delivery[c].pending)
      /\ \A s \in Senders : G[HandOf(s)] = H[HandOf(s)]
  BY <1>4, HeldAt, HeldStays
<1>6. Balanced(H, accepted, sent, dropped, nMessages) /\ NoneDouble(offline, delivery)
  BY DEF AccountInv
<1>7. Ids(<<>>) = {} /\ Distinct(<<>>)
  BY DEF Ids, Distinct
<1> HIDE DEF G, H, e, merged
<1>8. TaskOf(d) \in Places /\ QueueOf(e) \in Places /\ QueueOf(e) # TaskOf(d) /\ QueueOf(e) \in Kept
  BY <1>1, PlaceFacts
<1>9. G[QueueOf(e)] = Ids(merged) /\ H[QueueOf(e)] = Ids(offline[e])
      /\ G[TaskOf(d)] = {} /\ H[TaskOf(d)] = Ids(q)
  BY <1>1, <1>3, <1>4, <1>5, <1>7
<1>10. NoneDouble(offline', delivery')
  <2>1. Ids(offline[e]) \cap Ids(q) = {}
    BY <1>6, <1>8, <1>9 DEF Balanced
  <2>2. Distinct(merged)
    BY <2>1, <1>1, <1>2, <1>6 DEF NoneDouble
  <2> QED BY <2>2, <1>3, <1>4, <1>6, <1>7 DEF NoneDouble
<1> HIDE DEF q
<1>11. \A p \in Places : p # TaskOf(d) /\ p # QueueOf(e) => G[p] = H[p]
  BY <1>3, <1>4, <1>5, PlaceFacts
<1>12. \A p \in Kept : H[p] \subseteq sent' \cup dropped' \cup KeptIn(G)
  <2>1. \A p \in Kept : p # TaskOf(d) /\ p # QueueOf(e) => H[p] \subseteq KeptIn(G)
    BY <1>11, PlaceFacts, InKept
  <2>2. Ids(merged) \subseteq KeptIn(G)
    BY <1>8, <1>9, InKept
  <2> QED BY <2>1, <2>2, <1>4, <1>9
<1>13. \A y \in (sent' \ sent) \cup (dropped' \ dropped) :
         (\E p \in Places : y \in H[p] /\ y \notin G[p]) /\ y \notin G[QueueOf(e)]
  <2>1. \A y \in dropped' \ dropped :
          (y \in H[QueueOf(e)] \/ y \in H[TaskOf(d)]) /\ y \notin Ids(merged)
    BY <1>4, <1>9
  <2> QED BY <2>1, <1>4, <1>8, <1>9
<1>14. Moves(H, G, accepted, sent, dropped, accepted', sent', dropped', TaskOf(d), QueueOf(e))
  <2>1. \A p \in Places : p # QueueOf(e) => G[p] \subseteq H[p]
    BY <1>9, <1>11
  <2> QED BY <2>1, <1>2, <1>4, <1>9, <1>12, <1>13 DEF Moves
<1>15. Balanced(G, accepted', sent', dropped', nMessages)
  BY <1>6, <1>8, <1>14, Transfer
<1> QED BY <1>4, <1>10, <1>15 DEF AccountInv, G

(* The steps that move no message.                                         *)
LEMMA AccountRests ==
  ASSUME AccountInv, TypeInv,
         \/ \E s \in Senders : MessageUndeliverable(s) \/ RateLimited(s) \/ RateAllowed(s)
         \/ \E d \in Deliverers :
              \/ DeliveryFindsSink(d) \/ DeliverySendFails(d)
              \/ \E e \in Recipients : Register(e, d)
         \/ \E e \in Recipients : Disconnect(e)
         \/ Tick
         \/ UNCHANGED vars
  PROVE  AccountInv'
<1>1. /\ handler \in [Senders -> {IdleHandler} \cup
           [at: {"send", "rate", "store"}, id: MessageIds, to: Recipients, now: Times]]
      /\ delivery \in [Deliverers -> {IdleDelivery} \cup
           [at: {"take", "sink", "send", "putback"}, ext: Recipients, pending: Seq(Message)]]
      /\ \A d \in Deliverers : delivery[d].at = "idle" => delivery[d].pending = <<>>
  BY DEF TypeInv, TypeOK, TasksLoaded
<1>2. ASSUME NEW s \in Senders, MessageUndeliverable(s) \/ RateLimited(s) \/ RateAllowed(s)
      PROVE  AccountInv'
  <2>1. /\ UNCHANGED <<offline, delivery, nMessages, accepted, sent, dropped>>
        /\ \A r \in Senders : r # s => handler'[r] = handler[r]
    BY <1>1, <1>2 DEF MessageUndeliverable, RateLimited, RateAllowed, Answer503, history
  <2>2. handler[s].at # "idle"
    BY <1>2 DEF MessageUndeliverable, RateLimited, RateAllowed
  <2>3. handler[s] \in [at: {"send", "rate", "store"}, id: MessageIds, to: Recipients, now: Times]
    BY <1>1, <2>2 DEF IdleHandler
  <2>4. handler'[s].at = "idle" \/ (handler'[s].at # "idle" /\ handler'[s].id = handler[s].id)
    <3>1. CASE MessageUndeliverable(s)
      BY <3>1, <1>1, <2>3 DEF MessageUndeliverable
    <3>2. CASE RateLimited(s)
      BY <3>2, <1>1 DEF RateLimited, Answer503, IdleHandler
    <3>3. CASE RateAllowed(s)
      BY <3>3, <1>1, <2>3 DEF RateAllowed
    <3> QED BY <1>2, <3>1, <3>2, <3>3
  <2>5. \A r \in Senders :
          \/ handler'[r] = handler[r]
          \/ handler'[r].at = "idle"
          \/ handler'[r].at # "idle" /\ handler[r].at # "idle" /\ handler'[r].id = handler[r].id
    BY <2>1, <2>2, <2>4
  <2>6. \A d \in Deliverers : delivery'[d].pending = delivery[d].pending
    BY <2>1
  <2> QED BY <2>1, <2>5, <2>6, AccountSame
<1>3. ASSUME NEW d \in Deliverers,
             \/ DeliveryFindsSink(d) \/ DeliverySendFails(d)
             \/ \E e \in Recipients : Register(e, d)
      PROVE  AccountInv'
  <2>1. UNCHANGED <<offline, handler, nMessages, accepted, sent, dropped>>
    BY <1>3 DEF DeliveryFindsSink, DeliverySendFails, Register, history
  <2>2. \A c \in Deliverers : c # d => delivery'[c] = delivery[c]
    BY <1>1, <1>3 DEF DeliveryFindsSink, DeliverySendFails, Register
  <2>3. delivery'[d].pending = delivery[d].pending
    <3>1. CASE DeliveryFindsSink(d)
      BY <3>1, <1>1 DEF DeliveryFindsSink
    <3>2. CASE DeliverySendFails(d)
      <4>1. delivery[d] \in [at: {"take", "sink", "send", "putback"}, ext: Recipients,
                             pending: Seq(Message)]
        BY <3>2, DeliveryBusy DEF DeliverySendFails, TypeInv
      <4> QED BY <3>2, <4>1, <1>1 DEF DeliverySendFails, Unsent
    <3>3. CASE \E e \in Recipients : Register(e, d)
      BY <3>3, <1>1 DEF Register
    <3> QED BY <1>3, <3>1, <3>2, <3>3
  <2>4. \A c \in Deliverers : delivery'[c].pending = delivery[c].pending
    BY <2>2, <2>3
  <2> QED BY <2>1, <2>4, AccountSame
<1>4. ASSUME (\E e \in Recipients : Disconnect(e)) \/ Tick \/ UNCHANGED vars
      PROVE  AccountInv'
  <2>1. UNCHANGED <<offline, delivery, handler, nMessages, accepted, sent, dropped>>
    BY <1>4 DEF Disconnect, Tick, vars, history
  <2> QED BY <2>1 DEF AccountInv
<1> QED BY <1>2, <1>3, <1>4

LEMMA AccountInit == Init => AccountInv
<1> SUFFICES ASSUME Init PROVE AccountInv
  OBVIOUS
<1> DEFINE H == Held(offline, delivery, handler)
<1>1. /\ \A e \in Recipients : offline[e] = <<>>
      /\ \A d \in Deliverers : delivery[d].pending = <<>>
      /\ \A s \in Senders : handler[s].at = "idle"
      /\ nMessages = 0 /\ accepted = {} /\ sent = {} /\ dropped = {}
  BY DEF Init, IdleDelivery, IdleHandler
<1>2. Ids(<<>>) = {} /\ Distinct(<<>>)
  BY DEF Ids, Distinct
<1>3. /\ \A e \in Recipients : H[QueueOf(e)] = {}
      /\ \A d \in Deliverers : H[TaskOf(d)] = {}
      /\ \A s \in Senders : H[HandOf(s)] = {}
  BY <1>1, <1>2, HeldAt
<1>4. NoneDouble(offline, delivery)
  BY <1>1, <1>2 DEF NoneDouble
<1> HIDE DEF H
<1>5. \A p \in Places : H[p] = {}
  BY <1>3, PlaceFacts
<1>6. Balanced(H, accepted, sent, dropped, nMessages)
  BY <1>1, <1>5 DEF Balanced
<1> QED BY <1>4, <1>6 DEF AccountInv, H

LEMMA AccountStep == AccountInv /\ TypeInv /\ [Next]_vars => AccountInv'
<1> SUFFICES ASSUME AccountInv, TypeInv, [Next]_vars PROVE AccountInv'
  OBVIOUS
<1>1. ASSUME NEW s \in Senders, HandlerStep(s) \/ \E e \in Recipients : MessageArrives(s, e)
      PROVE  AccountInv'
  BY <1>1, AccountArrives, AccountForwarded, AccountRefused, AccountStored, AccountRests
     DEF HandlerStep
<1>2. ASSUME NEW d \in Deliverers, DeliveryStep(d) \/ \E e \in Recipients : Register(e, d)
      PROVE  AccountInv'
  BY <1>2, AccountTakes, AccountSends, AccountPutsBack, AccountRests DEF DeliveryStep
<1>3. ASSUME (\E e \in Recipients : Disconnect(e)) \/ Tick \/ UNCHANGED vars
      PROVE  AccountInv'
  BY <1>3, AccountRests
<1> QED BY <1>1, <1>2, <1>3 DEF Next

(* The invariant the two properties need.                                  *)
THEOREM Invariant == Spec => []IInv
<1>1. Init => TypeInv /\ AccountInv
  BY TypeInit, AccountInit
<1>2. TypeInv /\ AccountInv /\ [Next]_vars => (TypeInv /\ AccountInv)'
  BY TypeStep, AccountStep
<1>3. Spec => [](TypeInv /\ AccountInv)
  BY <1>1, <1>2, PTL DEF Spec
<1>4. TypeInv /\ AccountInv => IInv
  BY AccountMeans DEF TypeInv, AccountInv, IInv
<1> QED BY <1>3, <1>4, PTL

(* No message that was answered 200 is lost, however deliveries, arrivals, *)
(* failures and put-backs follow one another.                              *)
THEOREM AllAccounted == Spec => []NothingLost
<1>1. IInv => NothingLost
  BY DEF IInv
<1> QED BY <1>1, Invariant, PTL

(* No message goes out twice, nor one that was dropped.                    *)
THEOREM OnceOnly == Spec => []NothingTwice
<1>1. IInv => NothingTwice
  BY DEF IInv
<1> QED BY <1>1, Invariant, PTL
------------------------------------------------------------------------------
(* The order of the queues.                                                *)

Before(queue, later) ==
  \A i \in DOMAIN queue, j \in DOMAIN later : queue[i].received_at <= later[j].received_at

Until(queue, t) == \A i \in DOMAIN queue : queue[i].received_at <= t

KeptUntil(map, tasks, t) ==
  /\ \A e \in Recipients : Until(map[e], t)
  /\ \A d \in Deliverers : Until(tasks[d].pending, t)

(* What keeps QueuesOrdered: what a task has taken goes before all that is *)
(* in the queue, and nothing kept is newer than the time a handler has     *)
(* read for the message it is about to store.                              *)
OrderInv ==
  /\ \A e \in Recipients : Ordered(offline[e])
  /\ \A d \in Deliverers : Ordered(delivery[d].pending)
  /\ \A d \in Deliverers :
       delivery[d].pending # <<>> => Before(delivery[d].pending, offline[delivery[d].ext])
  /\ KeptUntil(offline, delivery, now)
  /\ \A s \in Senders : handler[s].at = "store" =>
       handler[s].now <= now /\ KeptUntil(offline, delivery, handler[s].now)

(* Two tasks that hold messages hold them for two extensions, and two      *)
(* handlers about to store have read the same time.  Without the first a   *)
(* put-back goes in front of another's older messages; without the second  *)
(* the handler that read the clock first may store last.                   *)
InTurn ==
  /\ \A c, d \in Deliverers :
       c # d /\ delivery[c].pending # <<>> /\ delivery[d].pending # <<>>
       => delivery[c].ext # delivery[d].ext
  /\ \A r, s \in Senders :
       handler[r].at = "store" /\ handler[s].at = "store" => handler[r].now = handler[s].now

(* What a step must see to; what it adds is not older than lo.             *)
KeepsOrder(lo) ==
  /\ now <= now' /\ lo <= now
  /\ \A s \in Senders : handler'[s].at = "store" =>
       \/ handler'[s].now = now
       \/ handler[s].at = "store" /\ handler'[s].now = handler[s].now /\ lo <= handler[s].now
  /\ \A e \in Recipients : Ordered(offline'[e])
  /\ \A d \in Deliverers : Ordered(delivery'[d].pending)
  /\ \A d \in Deliverers :
       delivery'[d].pending # <<>> => Before(delivery'[d].pending, offline'[delivery'[d].ext])
  /\ \A t \in Times :
       lo <= t /\ KeptUntil(offline, delivery, t) => KeptUntil(offline', delivery', t)

Dated(queue) == queue \in Seq(Message) /\ \A i \in DOMAIN queue : queue[i].received_at \in Nat

LEMMA SeqDated == \A queue \in Seq(Message) : Dated(queue)
<1> TAKE queue \in Seq(Message)
<1> SUFFICES ASSUME NEW i \in DOMAIN queue PROVE queue[i].received_at \in Nat
  BY DEF Dated
<1>1. queue[i] \in Message
  OBVIOUS
<1> QED BY <1>1 DEF Message, Times

LEMMA KeptDated ==
  TypeOK => /\ now \in Nat /\ now \in Times
            /\ \A e \in Recipients : Dated(offline[e])
            /\ \A d \in Deliverers : Dated(delivery[d].pending)
<1> SUFFICES ASSUME TypeOK
             PROVE  /\ now \in Nat /\ now \in Times
                    /\ \A e \in Recipients : Dated(offline[e])
                    /\ \A d \in Deliverers : Dated(delivery[d].pending)
  OBVIOUS
<1>1. now \in Nat /\ now \in Times
  BY DEF TypeOK, Times
<1>2. \A e \in Recipients : offline[e] \in Seq(Message)
  BY DEF TypeOK
<1>3. \A d \in Deliverers : delivery[d].pending \in Seq(Message)
  BY DeliveryBusy
<1> QED BY <1>1, <1>2, <1>3, SeqDated

LEMMA KeptLater ==
  ASSUME NEW map, NEW tasks, NEW t \in Nat, NEW u \in Nat, t <= u,
         \A e \in Recipients : Dated(map[e]),
         \A d \in Deliverers : Dated(tasks[d].pending),
         KeptUntil(map, tasks, t)
  PROVE  KeptUntil(map, tasks, u)
<1>1. ASSUME NEW queue, Dated(queue), Until(queue, t) PROVE Until(queue, u)
  BY <1>1 DEF Dated, Until
<1> QED BY <1>1 DEF KeptUntil

LEMMA OrderMoves ==
  ASSUME TypeOK, TypeOK', OrderInv, NEW lo \in Nat, KeepsOrder(lo)
  PROVE  OrderInv'
<1>1. now \in Times /\ now' \in Times /\ now \in Int /\ now' \in Int /\ now <= now' /\ lo <= now
  BY DEF TypeOK, Times, KeepsOrder
<1>2. KeptUntil(offline', delivery', now)
  BY <1>1 DEF KeepsOrder, OrderInv
<1>3. KeptUntil(offline', delivery', now')
  <2>1. /\ \A e \in Recipients : Dated(offline'[e])
        /\ \A d \in Deliverers : Dated(delivery'[d].pending)
    <3>1. TypeOK' => (/\ now \in Nat /\ now \in Times
                      /\ \A e \in Recipients : Dated(offline[e])
                      /\ \A d \in Deliverers : Dated(delivery[d].pending))'
      BY KeptDated, PTL
    <3> QED BY <3>1
  <2> QED BY <1>1, <1>2, <2>1, KeptLater
<1>4. ASSUME NEW s \in Senders, handler'[s].at = "store"
      PROVE  handler'[s].now <= now' /\ KeptUntil(offline', delivery', handler'[s].now)
  <2>1. CASE handler'[s].now = now
    BY <2>1, <1>1, <1>2
  <2>2. CASE handler[s].at = "store" /\ handler'[s].now = handler[s].now /\ lo <= handler[s].now
    <3>1. handler[s].now \in Times /\ handler[s].now \in Int
      BY <2>2, HandlerBusy DEF Times
    <3>2. handler[s].now <= now /\ KeptUntil(offline, delivery, handler[s].now)
      BY <2>2 DEF OrderInv
    <3>3. KeptUntil(offline', delivery', handler[s].now)
      BY <2>2, <3>1, <3>2 DEF KeepsOrder
    <3> QED BY <2>2, <3>1, <3>2, <3>3, <1>1
  <2> QED BY <1>4, <2>1, <2>2 DEF KeepsOrder
<1> QED BY <1>3, <1>4 DEF OrderInv, KeepsOrder

(* The steps that leave every message where it is.                         *)
LEMMA OrderStays ==
  ASSUME TypeOK, TypeOK', OrderInv, offline' = offline, now <= now',
         \A d \in Deliverers :
           /\ delivery'[d].pending = delivery[d].pending
           /\ delivery[d].pending # <<>> => delivery'[d].ext = delivery[d].ext,
         \A s \in Senders : handler'[s].at = "store" =>
           \/ handler'[s].now = now
           \/ handler'[s] = handler[s]
  PROVE  OrderInv'
<1>1. \A t \in Times :
        0 <= t /\ KeptUntil(offline, delivery, t) => KeptUntil(offline', delivery', t)
  BY DEF KeptUntil
<1>2. now \in Nat
  BY KeptDated
<1>3. \A s \in Senders : handler'[s].at = "store" =>
        \/ handler'[s].now = now
        \/ handler[s].at = "store" /\ handler'[s].now = handler[s].now /\ 0 <= handler[s].now
  BY HandlerBusy DEF Times
<1>4. KeepsOrder(0)
  BY <1>1, <1>2, <1>3 DEF KeepsOrder, OrderInv
<1> QED BY <1>4, OrderMoves

LEMMA OrderRests ==
  ASSUME TypeInv, TypeInv', OrderInv,
         \/ \E s \in Senders :
              \/ MessageForwarded(s) \/ MessageUndeliverable(s) \/ RateLimited(s) \/ RateAllowed(s)
              \/ \E e \in Recipients : MessageArrives(s, e)
         \/ \E d \in Deliverers :
              \/ DeliveryFindsSink(d) \/ DeliverySendFails(d)
              \/ \E e \in Recipients : Register(e, d)
         \/ \E e \in Recipients : Disconnect(e)
         \/ Tick
         \/ UNCHANGED vars
  PROVE  OrderInv'
<1>1. /\ handler \in [Senders -> {IdleHandler} \cup
           [at: {"send", "rate", "store"}, id: MessageIds, to: Recipients, now: Times]]
      /\ delivery \in [Deliverers -> {IdleDelivery} \cup
           [at: {"take", "sink", "send", "putback"}, ext: Recipients, pending: Seq(Message)]]
      /\ \A d \in Deliverers : delivery[d].at = "idle" => delivery[d].pending = <<>>
      /\ TypeOK /\ TypeOK' /\ now \in Nat
  BY KeptDated DEF TypeInv, TypeOK, TasksLoaded
<1>2. ASSUME NEW s \in Senders,
             \/ MessageForwarded(s) \/ MessageUndeliverable(s) \/ RateLimited(s) \/ RateAllowed(s)
             \/ \E e \in Recipients : MessageArrives(s, e)
      PROVE  OrderInv'
  <2>1. /\ UNCHANGED <<offline, delivery, now>>
        /\ \A r \in Senders : r # s => handler'[r] = handler[r]
    BY <1>1, <1>2 DEF MessageForwarded, MessageUndeliverable, RateLimited, RateAllowed,
                      MessageArrives, Answer200, Answer503, history
  <2>2. handler'[s].at = "store" => handler'[s].now = now
    <3>1. CASE RateAllowed(s)
      <4>1. handler[s] \in [at: {"send", "rate", "store"}, id: MessageIds, to: Recipients, now: Times]
        BY <3>1, <1>1, HandlerBusy DEF RateAllowed
      <4> QED BY <3>1, <4>1, <1>1 DEF RateAllowed
    <3>2. CASE MessageUndeliverable(s)
      <4>1. handler[s] \in [at: {"send", "rate", "store"}, id: MessageIds, to: Recipients, now: Times]
        BY <3>2, <1>1, HandlerBusy DEF MessageUndeliverable
      <4> QED BY <3>2, <4>1, <1>1 DEF MessageUndeliverable
    <3>3. CASE MessageForwarded(s) \/ RateLimited(s)
      BY <3>3, <1>1 DEF MessageForwarded, RateLimited, Answer200, Answer503, IdleHandler
    <3>4. CASE \E e \in Recipients : MessageArrives(s, e)
      BY <3>4, <1>1 DEF MessageArrives
    <3> QED BY <1>2, <3>1, <3>2, <3>3, <3>4
  <2>3. \A r \in Senders : handler'[r].at = "store" =>
          handler'[r].now = now \/ handler'[r] = handler[r]
    BY <2>1, <2>2
  <2>4. now <= now'
    BY <2>1, <1>1
  <2> QED BY <1>1, <2>1, <2>3, <2>4, OrderStays
<1>3. ASSUME NEW d \in Deliverers,
             \/ DeliveryFindsSink(d) \/ DeliverySendFails(d)
             \/ \E e \in Recipients : Register(e, d)
      PROVE  OrderInv'
  <2>1. UNCHANGED <<offline, handler, now>>
    BY <1>3 DEF DeliveryFindsSink, DeliverySendFails, Register, history
  <2>2. \A c \in Deliverers : c # d => delivery'[c] = delivery[c]
    BY <1>1, <1>3 DEF DeliveryFindsSink, DeliverySendFails, Register
  <2>3. /\ delivery'[d].pending = delivery[d].pending
        /\ delivery[d].pending # <<>> => delivery'[d].ext = delivery[d].ext
    <3>1. CASE DeliveryFindsSink(d) \/ DeliverySendFails(d)
      <4>1. delivery[d] \in [at: {"take", "sink", "send", "putback"}, ext: Recipients,
                             pending: Seq(Message)]
        BY <3>1, <1>1, DeliveryBusy DEF DeliveryFindsSink, DeliverySendFails
      <4>2. CASE DeliveryFindsSink(d)
        BY <4>1, <4>2, <1>1 DEF DeliveryFindsSink
      <4>3. CASE DeliverySendFails(d)
        BY <4>1, <4>3, <1>1 DEF DeliverySendFails, Unsent
      <4> QED BY <3>1, <4>2, <4>3
    <3>2. CASE \E e \in Recipients : Register(e, d)
      BY <3>2, <1>1 DEF Register
    <3> QED BY <1>3, <3>1, <3>2
  <2>4. now <= now'
    BY <2>1, <1>1
  <2>5. \A c \in Deliverers :
           /\ delivery'[c].pending = delivery[c].pending
           /\ delivery[c].pending # <<>> => delivery'[c].ext = delivery[c].ext
    BY <2>2, <2>3
  <2> QED BY <1>1, <2>1, <2>4, <2>5, OrderStays
<1>4. ASSUME (\E e \in Recipients : Disconnect(e)) \/ Tick \/ UNCHANGED vars
      PROVE  OrderInv'
  <2>1. UNCHANGED <<offline, delivery, handler>> /\ now <= now'
    BY <1>1, <1>4 DEF Disconnect, Tick, vars, history
  <2>2. \A c \in Deliverers :
          /\ delivery'[c].pending = delivery[c].pending
          /\ delivery[c].pending # <<>> => delivery'[c].ext = delivery[c].ext
    BY <2>1
  <2>3. \A r \in Senders : handler'[r].at = "store" =>
          handler'[r].now = now \/ handler'[r] = handler[r]
    BY <2>1
  <2> QED BY <1>1, <2>1, <2>2, <2>3, OrderStays
<1> QED BY <1>2, <1>3, <1>4

(* What is kept of a queue is no newer than the queue.                     *)
LEMMA UntilFrom ==
  ASSUME NEW p, NEW queue, NEW t, Until(queue, t),
         \A i \in DOMAIN p : \E j \in DOMAIN queue : p[i] = queue[j]
  PROVE  Until(p, t)
<1> SUFFICES ASSUME NEW i \in DOMAIN p PROVE p[i].received_at <= t
  BY DEF Until
<1>1. PICK j \in DOMAIN queue : p[i] = queue[j]
  OBVIOUS
<1> QED BY <1>1 DEF Until

LEMMA FreshOrder ==
  ASSUME TypeInv, OrderInv, NEW e \in Recipients, NEW t
  PROVE  /\ Fresh(offline[e], t) \in Seq(Message)
         /\ Ordered(Fresh(offline[e], t))
         /\ \A u : Until(offline[e], u) => Until(Fresh(offline[e], t), u)
         /\ \A queue : Before(queue, offline[e]) => Before(queue, Fresh(offline[e], t))
<1>1. offline[e] \in Seq(Message) /\ Ordered(offline[e])
  BY DEF TypeInv, TypeOK, OrderInv
<1> DEFINE f == Fresh(offline[e], t)
<1>2. /\ f \in Seq(Message) /\ Ordered(f)
      /\ \A i \in DOMAIN f : \E j \in DOMAIN offline[e] : f[i] = offline[e][j]
  BY <1>1, FreshFacts
<1> HIDE DEF f
<1>3. \A u : Until(offline[e], u) => Until(f, u)
  BY <1>2, UntilFrom
<1>4. \A queue : Before(queue, offline[e]) => Before(queue, f)
  <2> SUFFICES ASSUME NEW queue, Before(queue, offline[e]), NEW h \in DOMAIN queue, NEW i \in DOMAIN f
               PROVE  queue[h].received_at <= f[i].received_at
    BY DEF Before
  <2>1. PICK j \in DOMAIN offline[e] : f[i] = offline[e][j]
    BY <1>2
  <2> QED BY <2>1 DEF Before
<1> QED BY <1>2, <1>3, <1>4 DEF f

LEMMA OrderRefused ==
  ASSUME TypeInv, TypeInv', OrderInv, NEW s \in Senders, StoreRefused(s)
  PROVE  OrderInv'
<1>1. /\ offline' = prune_expired(offline, handler[s].now)
      /\ delivery' = delivery /\ now' = now
      /\ handler' = [handler EXCEPT ![s] = IdleHandler]
  BY DEF StoreRefused, Answer503
<1>2. \A e \in Recipients : offline'[e] = Fresh(offline[e], handler[s].now)
  BY <1>1 DEF prune_expired
<1>3. \A r \in Senders : handler'[r].at = "store" => handler'[r] = handler[r]
  BY <1>1 DEF TypeInv, TypeOK, IdleHandler
<1>4. now \in Nat /\ TypeOK /\ TypeOK'
  BY KeptDated DEF TypeInv
<1>5. \A r \in Senders : handler'[r].at = "store" =>
        handler[r].at = "store" /\ handler'[r].now = handler[r].now /\ 0 <= handler[r].now
  BY <1>3, <1>4, HandlerBusy DEF Times
<1>6. \A e \in Recipients : Ordered(offline'[e])
  BY <1>2, FreshOrder
<1>7. ASSUME NEW d \in Deliverers, delivery'[d].pending # <<>>
      PROVE  Before(delivery'[d].pending, offline'[delivery'[d].ext])
  <2>1. delivery[d].at # "idle"
    BY <1>1, <1>7 DEF TypeInv, TasksLoaded
  <2>2. delivery[d].ext \in Recipients
    BY <2>1, <1>4, DeliveryBusy
  <2>3. Before(delivery[d].pending, offline[delivery[d].ext])
    BY <1>1, <1>7 DEF OrderInv
  <2>4. Before(delivery[d].pending, offline'[delivery[d].ext])
    BY <2>2, <2>3, <1>2, FreshOrder
  <2> QED BY <2>4, <1>1
<1>8. ASSUME NEW t \in Times, KeptUntil(offline, delivery, t)
      PROVE  KeptUntil(offline', delivery', t)
  BY <1>1, <1>2, <1>8, FreshOrder DEF KeptUntil
<1>9. KeepsOrder(0)
  BY <1>1, <1>4, <1>5, <1>6, <1>7, <1>8 DEF KeepsOrder, OrderInv
<1> QED BY <1>4, <1>9, OrderMoves

(* A new message goes to the end of a queue.                               *)
LEMMA OrderStored ==
  ASSUME TypeInv, TypeInv', OrderInv, InTurn, NEW s \in Senders, StoreDone(s)
  PROVE  OrderInv'
<1> DEFINE lo  == handler[s].now
           e   == handler[s].to
           map == prune_expired(offline, lo)
           m   == [id |-> handler[s].id, from_ext |-> s, received_at |-> lo]
<1>1. /\ offline' = [map EXCEPT ![e] = Push(@, m)]
      /\ delivery' = delivery /\ now' = now
      /\ handler' = [handler EXCEPT ![s] = IdleHandler]
      /\ handler[s].at = "store"
  BY DEF StoreDone, Answer200
<1>2. TypeOK /\ TypeOK' /\ now \in Nat
  BY KeptDated DEF TypeInv
<1>3. /\ e \in Recipients /\ lo \in Times /\ lo \in Nat /\ m \in Message /\ m.received_at = lo
  BY <1>1, <1>2, HandlerBusy DEF Message, Times
<1>4. \A f \in Recipients : map[f] = Fresh(offline[f], lo)
  BY DEF prune_expired
<1>5. /\ map[e] \in Seq(Message) /\ Len(map[e]) <= QueueCap
  BY <1>2, <1>3, PruneFacts
<1>6. /\ offline'[e] = Push(map[e], m)
      /\ \A f \in Recipients : f # e => offline'[f] = map[f]
  BY <1>1, <1>3 DEF prune_expired
<1>7. lo <= now /\ KeptUntil(offline, delivery, lo)
  BY <1>1 DEF OrderInv
<1>8. \A r \in Senders : handler'[r].at = "store" =>
        handler[r].at = "store" /\ handler'[r].now = handler[r].now /\ lo <= handler[r].now
  <2>1. \A r \in Senders : handler'[r].at = "store" => handler'[r] = handler[r]
    BY <1>1 DEF TypeInv, TypeOK, IdleHandler
  <2>2. \A r \in Senders : handler[r].at = "store" => handler[r].now = lo
    BY <1>1 DEF InTurn
  <2> QED BY <2>1, <2>2, <1>3
<1> HIDE DEF lo, map, m
<1>9. Until(map[e], lo)
  BY <1>3, <1>4, <1>7, FreshOrder DEF KeptUntil
<1> DEFINE p == Push(map[e], m)
<1>10. /\ Ordered(p)
       /\ \A i \in DOMAIN p : p[i] = m \/ \E j \in DOMAIN map[e] : p[i] = map[e][j]
  <2>1. Ordered(map[e])
    BY <1>3, <1>4, FreshOrder
  <2>2. \A j \in DOMAIN map[e] : map[e][j].received_at <= m.received_at
    BY <1>3, <1>9 DEF Until
  <2>3. p = Push(map[e], m)
    OBVIOUS
  <2> HIDE DEF p, e
  <2>4. Ordered(p)
    BY <2>1, <2>2, <2>3, <1>3, <1>5, PushFacts
  <2>5. \A i \in DOMAIN p : p[i] = m \/ \E j \in DOMAIN map[e] : p[i] = map[e][j]
    BY <2>3, <1>3, <1>5, PushFacts
  <2> QED BY <2>4, <2>5
<1>11. offline'[e] = p
  BY <1>6
<1> HIDE DEF p
<1>12. \A f \in Recipients : Ordered(offline'[f])
  BY <1>4, <1>6, <1>10, <1>11, FreshOrder
<1>13. ASSUME NEW t \in Times, lo <= t, KeptUntil(offline, delivery, t)
       PROVE  KeptUntil(offline', delivery', t)
  <2>1. \A f \in Recipients : Until(map[f], t)
    BY <1>4, <1>13, FreshOrder DEF KeptUntil
  <2>2. Until(p, t)
    <3> SUFFICES ASSUME NEW i \in DOMAIN p PROVE p[i].received_at <= t
      BY DEF Until
    <3>1. CASE p[i] = m
      BY <3>1, <1>3, <1>13
    <3>2. ASSUME NEW j \in DOMAIN map[e], p[i] = map[e][j] PROVE p[i].received_at <= t
      BY <3>2, <2>1, <1>3 DEF Until
    <3> QED BY <3>1, <3>2, <1>10
  <2> QED BY <2>1, <2>2, <1>1, <1>6, <1>11, <1>13 DEF KeptUntil
<1>14. ASSUME NEW d \in Deliverers, delivery'[d].pending # <<>>
       PROVE  Before(delivery'[d].pending, offline'[delivery'[d].ext])
  <2>1. delivery[d].at # "idle"
    BY <1>1, <1>14 DEF TypeInv, TasksLoaded
  <2>2. delivery[d].ext \in Recipients
    BY <2>1, <1>2, DeliveryBusy
  <2>3. Before(delivery[d].pending, offline[delivery[d].ext])
    BY <1>1, <1>14 DEF OrderInv
  <2>4. Before(delivery[d].pending, map[delivery[d].ext])
    BY <2>2, <2>3, <1>4, FreshOrder
  <2>5. CASE delivery[d].ext = e
    <3> SUFFICES ASSUME NEW h \in DOMAIN delivery[d].pending, NEW i \in DOMAIN p
                 PROVE  delivery[d].pending[h].received_at <= p[i].received_at
      BY <2>5, <1>1, <1>11 DEF Before
    <3>1. CASE p[i] = m
      BY <3>1, <1>3, <1>7 DEF KeptUntil, Until
    <3>2. ASSUME NEW j \in DOMAIN map[e], p[i] = map[e][j]
          PROVE  delivery[d].pending[h].received_at <= p[i].received_at
      BY <3>2, <2>4, <2>5 DEF Before
    <3> QED BY <3>1, <3>2, <1>10
  <2>6. CASE delivery[d].ext # e
    BY <2>6, <2>2, <2>4, <1>1, <1>6
  <2> QED BY <2>5, <2>6
<1>15. KeepsOrder(lo)
  <2>1. now <= now' /\ lo <= now
    BY <1>1, <1>2, <1>7
  <2>2. \A d \in Deliverers : Ordered(delivery'[d].pending)
    BY <1>1 DEF OrderInv
  <2> QED BY <2>1, <2>2, <1>8, <1>12, <1>13, <1>14 DEF KeepsOrder
<1> QED BY <1>2, <1>3, <1>15, OrderMoves

(* What the steps of one task have in common: the others keep what they    *)
(* hold, and no handler moves.                                             *)
OneTask(d) ==
  /\ delivery \in [Deliverers -> {IdleDelivery} \cup
       [at: {"take", "sink", "send", "putback"}, ext: Recipients, pending: Seq(Message)]]
  /\ \A c \in Deliverers : c # d => delivery'[c] = delivery[c]
  /\ \A s \in Senders : handler'[s].at = "store" =>
       handler[s].at = "store" /\ handler'[s].now = handler[s].now /\ 0 <= handler[s].now
  /\ now <= now' /\ 0 <= now

LEMMA TaskAlone ==
  ASSUME TypeInv, NEW d \in Deliverers,
         DeliveryTakes(d) \/ DeliverySends(d) \/ DeliveryPutsBack(d)
  PROVE  /\ OneTask(d)
         /\ delivery[d].ext \in Recipients /\ Dated(delivery[d].pending)
         /\ delivery[d] \in [at: {"take", "sink", "send", "putback"}, ext: Recipients,
                             pending: Seq(Message)]
<1>1. /\ delivery \in [Deliverers -> {IdleDelivery} \cup
           [at: {"take", "sink", "send", "putback"}, ext: Recipients, pending: Seq(Message)]]
      /\ TypeOK /\ now \in Nat
  BY KeptDated DEF TypeInv, TypeOK
<1>2. UNCHANGED <<handler, now>> /\ delivery[d].at # "idle"
  BY DEF DeliveryTakes, DeliverySends, DeliveryPutsBack
<1>3. \A c \in Deliverers : c # d => delivery'[c] = delivery[c]
  BY <1>1 DEF DeliveryTakes, DeliverySends, DeliveryPutsBack
<1>4. \A s \in Senders : handler'[s].at = "store" =>
        handler[s].at = "store" /\ handler'[s].now = handler[s].now /\ 0 <= handler[s].now
  BY <1>1, <1>2, HandlerBusy DEF Times
<1>5. now <= now' /\ 0 <= now
  BY <1>1, <1>2
<1>6. OneTask(d)
  BY <1>1, <1>3, <1>4, <1>5 DEF OneTask
<1> QED BY <1>1, <1>2, <1>6, DeliveryBusy, KeptDated

(* A task takes a whole queue: nothing is left for it to go before.        *)
LEMMA OrderTakes ==
  ASSUME TypeInv, TypeInv', OrderInv, NEW d \in Deliverers, DeliveryTakes(d)
  PROVE  OrderInv'
<1> DEFINE e == delivery[d].ext
           fresh == Fresh(offline[e], now)
<1>1. OneTask(d) /\ e \in Recipients
  BY TaskAlone
<1>2. delivery[d] \in [at: {"take", "sink", "send", "putback"}, ext: Recipients,
                        pending: Seq(Message)]
  BY TaskAlone
<1>3. /\ offline'[e] = <<>>
      /\ \A f \in Recipients : f # e => offline'[f] = offline[f]
  BY <1>1 DEF DeliveryTakes, Remaining, TypeInv, TypeOK
<1>4. delivery'[d] = IF fresh = <<>> THEN IdleDelivery
                     ELSE [delivery[d] EXCEPT !.at = "sink", !.pending = fresh]
  BY <1>1 DEF DeliveryTakes, OneTask
<1> HIDE DEF fresh
<1>5. delivery'[d].pending = fresh /\ (fresh # <<>> => delivery'[d].ext = e)
  BY <1>2, <1>4 DEF IdleDelivery
<1>6. Ordered(<<>>) /\ (\A q : Before(q, <<>>)) /\ (\A t : Until(<<>>, t))
  BY DEF Ordered, Before, Until
<1>7. Ordered(fresh) /\ \A t : Until(offline[e], t) => Until(fresh, t)
  BY <1>1, FreshOrder DEF fresh
<1> HIDE DEF e
<1>8. \A f \in Recipients : Ordered(offline'[f])
  BY <1>3, <1>6 DEF OrderInv
<1>9. \A c \in Deliverers : Ordered(delivery'[c].pending)
  BY <1>1, <1>5, <1>7 DEF OrderInv, OneTask
<1>10. ASSUME NEW c \in Deliverers, delivery'[c].pending # <<>>
       PROVE  Before(delivery'[c].pending, offline'[delivery'[c].ext])
  <2>1. CASE c = d
    BY <2>1, <1>3, <1>5, <1>6, <1>10
  <2>2. CASE c # d
    <3>1. delivery'[c] = delivery[c]
      BY <2>2, <1>1 DEF OneTask
    <3>2. delivery[c].ext \in Recipients
      BY <3>1, <1>10, DeliveryBusy DEF TypeInv, TasksLoaded
    <3>3. Before(delivery[c].pending, offline[delivery[c].ext])
      BY <3>1, <1>10 DEF OrderInv
    <3> QED BY <3>1, <3>2, <3>3, <1>3, <1>6
  <2> QED BY <2>1, <2>2
<1>11. ASSUME NEW t \in Times, KeptUntil(offline, delivery, t)
       PROVE  KeptUntil(offline', delivery', t)
  BY <1>1, <1>3, <1>5, <1>6, <1>7, <1>11 DEF KeptUntil, OneTask
<1>12. KeepsOrder(0)
  BY <1>1, <1>8, <1>9, <1>10, <1>11 DEF KeepsOrder, OneTask
<1> QED BY <1>12, OrderMoves DEF TypeInv

(* The first of what a task holds goes out.                                *)
LEMMA OrderSends ==
  ASSUME TypeInv, TypeInv', OrderInv, NEW d \in Deliverers, DeliverySends(d)
  PROVE  OrderInv'
<1> DEFINE q == delivery[d].pending
           rest == delivery'[d].pending
<1>1. /\ OneTask(d) /\ q \in Seq(Message) /\ delivery[d].ext \in Recipients
      /\ offline' = offline
  BY TaskAlone DEF Dated, DeliverySends
<1>2. delivery[d] \in [at: {"take", "sink", "send", "putback"}, ext: Recipients,
                        pending: Seq(Message)]
  BY TaskAlone
<1>3. q # <<>>
  BY DEF DeliverySends, TypeInv, TasksLoaded
<1>4. delivery'[d] = IF Len(q) = 1 THEN IdleDelivery ELSE [delivery[d] EXCEPT !.pending = Tail(q)]
  BY <1>1 DEF DeliverySends, OneTask
<1>5. rest \in {<<>>, Tail(q)} /\ (rest # <<>> => delivery'[d].ext = delivery[d].ext)
  BY <1>2, <1>4 DEF IdleDelivery
<1>6. Ordered(q)
  BY DEF OrderInv
<1> HIDE DEF q, rest
<1>7. /\ \A i \in DOMAIN rest : \E j \in DOMAIN q : rest[i] = q[j]
      /\ Ordered(rest)
  <2>1. CASE rest = <<>>
    BY <2>1 DEF Ordered
  <2>2. CASE rest = Tail(q)
    BY <2>2, <1>1, <1>3, <1>6, TailFacts
  <2> QED BY <2>1, <2>2, <1>5
<1>8. \A c \in Deliverers : Ordered(delivery'[c].pending)
  BY <1>1, <1>7 DEF OrderInv, OneTask, rest
<1>9. ASSUME NEW c \in Deliverers, delivery'[c].pending # <<>>
      PROVE  Before(delivery'[c].pending, offline'[delivery'[c].ext])
  <2>1. CASE c = d
    <3>1. Before(q, offline[delivery[d].ext])
      BY <1>3 DEF OrderInv, q
    <3>2. Before(rest, offline[delivery[d].ext])
      <4> SUFFICES ASSUME NEW i \in DOMAIN rest, NEW h \in DOMAIN offline[delivery[d].ext]
                   PROVE  rest[i].received_at <= offline[delivery[d].ext][h].received_at
        BY DEF Before
      <4>1. PICK j \in DOMAIN q : rest[i] = q[j]
        BY <1>7
      <4> QED BY <3>1, <4>1 DEF Before
    <3> QED BY <3>2, <2>1, <1>1, <1>5, <1>9 DEF rest
  <2>2. CASE c # d
    <3>1. delivery'[c] = delivery[c]
      BY <2>2, <1>1 DEF OneTask
    <3> QED BY <3>1, <1>1, <1>9 DEF OrderInv
  <2> QED BY <2>1, <2>2
<1>10. ASSUME NEW t \in Times, KeptUntil(offline, delivery, t)
       PROVE  KeptUntil(offline', delivery', t)
  <2>1. Until(q, t)
    BY <1>10 DEF KeptUntil, q
  <2>2. Until(rest, t)
    BY <2>1, <1>7, UntilFrom
  <2> QED BY <2>2, <1>1, <1>10 DEF KeptUntil, OneTask, rest
<1>11. KeepsOrder(0)
  BY <1>1, <1>8, <1>9, <1>10 DEF KeepsOrder, OneTask, OrderInv
<1> QED BY <1>11, OrderMoves DEF TypeInv

(* A task puts back what it could not send, in front of the queue.         *)
LEMMA OrderPutsBack ==
  ASSUME TypeInv, TypeInv', OrderInv, InTurn, NEW d \in Deliverers, DeliveryPutsBack(d)
  PROVE  OrderInv'
<1> DEFINE e == delivery[d].ext
           q == delivery[d].pending
           merged == merge_back(offline[e], q)
<1>1. /\ OneTask(d) /\ q \in Seq(Message) /\ e \in Recipients
      /\ offline[e] \in Seq(Message)
  BY TaskAlone DEF Dated, TypeInv, TypeOK
<1>2. /\ offline'[e] = merged
      /\ \A f \in Recipients : f # e => offline'[f] = offline[f]
  BY <1>1 DEF DeliveryPutsBack, TypeInv, TypeOK
<1>3. delivery'[d].pending = <<>>
  BY <1>1 DEF DeliveryPutsBack, OneTask, IdleDelivery
<1>4. q # <<>>
  BY DEF DeliveryPutsBack, TypeInv, TasksLoaded
<1>5. Before(q, offline[e]) /\ Ordered(q) /\ Ordered(offline[e])
  BY <1>1, <1>4 DEF OrderInv
<1>6. \A c \in Deliverers : c # d /\ delivery[c].pending # <<>> => delivery[c].ext # e
  BY <1>4 DEF InTurn
<1>7. merged = merge_back(offline[e], q)
  OBVIOUS
<1>8. ASSUME NEW t, KeptUntil(offline, delivery, t) PROVE Until(offline[e], t) /\ Until(q, t)
  BY <1>1, <1>8 DEF KeptUntil
<1> HIDE DEF merged, e, q
<1>9. Ordered(merged)
  BY <1>1, <1>5, <1>7, MergeFacts DEF Before
<1>10. FromEither(merged, offline[e], q)
  BY <1>1, <1>7, MergeFacts
<1>11. \A f \in Recipients : Ordered(offline'[f])
  BY <1>2, <1>9 DEF OrderInv
<1>12. \A c \in Deliverers : Ordered(delivery'[c].pending)
  BY <1>1, <1>3 DEF OrderInv, OneTask, Ordered
<1>13. ASSUME NEW c \in Deliverers, delivery'[c].pending # <<>>
       PROVE  Before(delivery'[c].pending, offline'[delivery'[c].ext])
  <2>1. c # d
    BY <1>3, <1>13
  <2>2. delivery'[c] = delivery[c]
    BY <2>1, <1>1 DEF OneTask
  <2>3. delivery[c].ext \in Recipients /\ delivery[c].ext # e
    BY <2>1, <2>2, <1>6, <1>13, DeliveryBusy DEF TypeInv, TasksLoaded
  <2>4. Before(delivery[c].pending, offline[delivery[c].ext])
    BY <2>2, <1>13 DEF OrderInv
  <2> QED BY <2>2, <2>3, <2>4, <1>2
<1>14. ASSUME NEW t \in Times, KeptUntil(offline, delivery, t)
       PROVE  KeptUntil(offline', delivery', t)
  <2>1. Until(merged, t)
    BY <1>8, <1>10, <1>14 DEF Until, FromEither
  <2>2. Until(<<>>, t)
    BY DEF Until
  <2> QED BY <2>1, <2>2, <1>1, <1>2, <1>3, <1>14 DEF KeptUntil, OneTask
<1>15. KeepsOrder(0)
  BY <1>1, <1>11, <1>12, <1>13, <1>14 DEF KeepsOrder, OneTask
<1> QED BY <1>15, OrderMoves DEF TypeInv

LEMMA OrderStep == TypeInv /\ TypeInv' /\ OrderInv /\ InTurn /\ [Next]_vars => OrderInv'
<1> SUFFICES ASSUME TypeInv, TypeInv', OrderInv, InTurn, [Next]_vars PROVE OrderInv'
  OBVIOUS
<1>1. ASSUME NEW s \in Senders, HandlerStep(s) \/ \E e \in Recipients : MessageArrives(s, e)
      PROVE  OrderInv'
  BY <1>1, OrderRefused, OrderStored, OrderRests DEF HandlerStep
<1>2. ASSUME NEW d \in Deliverers, DeliveryStep(d) \/ \E e \in Recipients : Register(e, d)
      PROVE  OrderInv'
  BY <1>2, OrderTakes, OrderSends, OrderPutsBack, OrderRests DEF DeliveryStep
<1>3. ASSUME (\E e \in Recipients : Disconnect(e)) \/ Tick \/ UNCHANGED vars
      PROVE  OrderInv'
  BY <1>3, OrderRests
<1> QED BY <1>1, <1>2, <1>3 DEF Next

LEMMA OrderInit == Init => OrderInv
<1> SUFFICES ASSUME Init PROVE OrderInv
  OBVIOUS
<1>1. /\ \A e \in Recipients : offline[e] = <<>>
      /\ \A d \in Deliverers : delivery[d].pending = <<>>
      /\ \A s \in Senders : handler[s].at = "idle"
  BY DEF Init, IdleDelivery, IdleHandler
<1>2. Ordered(<<>>) /\ \A t : Until(<<>>, t)
  BY DEF Ordered, Until
<1> QED BY <1>1, <1>2 DEF OrderInv, KeptUntil

(* Old messages stay before new ones in every queue for as long as tasks   *)
(* and handlers take turns, whatever fails, expires, is trimmed and is put *)
(* back in between: what merge_back's comment (message.rs:88-90) is after. *)
THEOREM OrderInTurn == Spec /\ []InTurn => []QueuesOrdered
<1>1. OrderInv => QueuesOrdered
  BY DEF OrderInv, QueuesOrdered, Ordered
<1>2. Init => TypeInv /\ OrderInv
  BY TypeInit, OrderInit
<1>3. TypeInv /\ OrderInv /\ InTurn /\ [Next]_vars => (TypeInv /\ OrderInv)'
  BY TypeStep, OrderStep
<1> QED BY <1>1, <1>2, <1>3, PTL DEF Spec
------------------------------------------------------------------------------
(* Part 5.  The mailboxes, as functions of the queues and the tasks.       *)
Loaded(tasks, d, e) == tasks[d].at # "idle" /\ tasks[d].ext = e

BoxOf(map, tasks, e) ==
  Ids(map[e]) \cup UNION {Ids(tasks[d].pending) : d \in {c \in Deliverers : Loaded(tasks, c, e)}}

LEMMA BoxOfAt ==
  ASSUME NEW map, NEW tasks, NEW e, NEW x
  PROVE  x \in BoxOf(map, tasks, e) <=>
           \/ x \in Ids(map[e])
           \/ \E d \in Deliverers : Loaded(tasks, d, e) /\ x \in Ids(tasks[d].pending)
BY DEF BoxOf

Boxes == [e \in Recipients |-> InBox(e)]

LEMMA BoxesAt ==
  /\ \A e \in Recipients : Boxes[e] = BoxOf(offline, delivery, e)
  /\ \A e \in Recipients : Boxes'[e] = BoxOf(offline', delivery', e)
BY DEF Boxes, InBox, BoxOf, Delivering, Loaded

(* What is in a box waits.                                                 *)
LEMMA BoxWaits ==
  ASSUME NEW e \in Recipients, NEW x \in Boxes[e] PROVE x \in Waiting
BY BoxesAt, BoxOfAt DEF Waiting, AllIds

(* No message waits in two places.                                         *)
Apart ==
  /\ \A e, f \in Recipients : \A x \in Ids(offline[e]) : x \in Ids(offline[f]) => e = f
  /\ \A c, d \in Deliverers : \A x \in Ids(delivery[c].pending) :
       x \in Ids(delivery[d].pending) => c = d
  /\ \A e \in Recipients, d \in Deliverers :
       \A x \in Ids(offline[e]) : x \notin Ids(delivery[d].pending)

LEMMA ApartHolds == NothingTwice => Apart
<1> SUFFICES ASSUME NothingTwice PROVE Apart
  OBVIOUS
<1>1. \A e, f \in Recipients : e # f => Ids(offline[e]) \cap Ids(offline[f]) = {}
  BY DEF NothingTwice
<1>2. \A c, d \in Deliverers :
        c # d => Ids(delivery[c].pending) \cap Ids(delivery[d].pending) = {}
  BY DEF NothingTwice
<1>3. \A e \in Recipients, d \in Deliverers :
        Ids(offline[e]) \cap Ids(delivery[d].pending) = {}
  BY DEF NothingTwice
<1> QED BY <1>1, <1>2, <1>3 DEF Apart

(* Every box keeps what it held but for the messages that are gone, and    *)
(* one box gets those that are new.                                        *)
Becomes(map, tasks, gone, e, new) ==
  \A f \in Recipients : \A x :
    x \in BoxOf(map, tasks, f) <=>
      \/ x \in BoxOf(offline, delivery, f) /\ x \notin gone
      \/ f = e /\ x \in new

(* A queue gets new messages, and room is made in any of them.             *)
LEMMA QueuesMove ==
  ASSUME Apart, NEW map, NEW e, NEW new, NEW gone,
         gone = AllIds(offline) \ AllIds(map),
         \A f \in Recipients : \A x \in Ids(map[f]) :
           x \in Ids(offline[f]) \/ (f = e /\ x \in new),
         \A x \in new : e \in Recipients => x \in Ids(map[e]),
         new \cap AllIds(offline) = {}
  PROVE  Becomes(map, delivery, gone, e, new)
<1> SUFFICES ASSUME NEW f \in Recipients, NEW x
             PROVE  x \in BoxOf(map, delivery, f) <=>
                      \/ x \in BoxOf(offline, delivery, f) /\ x \notin gone
                      \/ f = e /\ x \in new
  BY DEF Becomes
<1> DEFINE carried == \E d \in Deliverers : Loaded(delivery, d, f) /\ x \in Ids(delivery[d].pending)
<1>1. x \in BoxOf(map, delivery, f) <=> x \in Ids(map[f]) \/ carried
  BY BoxOfAt
<1>2. x \in BoxOf(offline, delivery, f) <=> x \in Ids(offline[f]) \/ carried
  BY BoxOfAt
<1>3. carried => x \notin AllIds(offline)
  BY AllIdsAt DEF Apart
<1>4. x \in Ids(offline[f]) => x \in AllIds(offline)
  BY AllIdsAt
<1>5. x \in Ids(map[f]) => x \in AllIds(map)
  BY AllIdsAt
<1>6. x \in Ids(offline[f]) /\ x \in AllIds(map) => x \in Ids(map[f])
  <2> SUFFICES ASSUME x \in Ids(offline[f]), x \in AllIds(map) PROVE x \in Ids(map[f])
    OBVIOUS
  <2>1. PICK g \in Recipients : x \in Ids(map[g])
    BY AllIdsAt
  <2>2. x \notin new
    BY <1>4
  <2>3. x \in Ids(offline[g])
    BY <2>1, <2>2
  <2>4. g = f
    BY <2>3 DEF Apart
  <2> QED BY <2>1, <2>4
<1> HIDE DEF carried
<1> QED BY <1>1, <1>2, <1>3, <1>4, <1>5, <1>6

(* A task and the queue of its extension are left with less.               *)
LEMMA TaskMoves ==
  ASSUME Apart, NEW map, NEW tasks, NEW d \in Deliverers, NEW e \in Recipients,
         NEW kept, NEW gone,
         Loaded(delivery, d, e),
         \A f \in Recipients : f # e => map[f] = offline[f],
         \A c \in Deliverers : c # d => tasks[c] = delivery[c],
         \A f \in Recipients : f # e => ~Loaded(tasks, d, f),
         \A x : x \in kept <=>
           x \in Ids(map[e]) \/ (Loaded(tasks, d, e) /\ x \in Ids(tasks[d].pending)),
         kept \subseteq Ids(offline[e]) \cup Ids(delivery[d].pending),
         gone = (Ids(offline[e]) \cup Ids(delivery[d].pending)) \ kept
  PROVE  Becomes(map, tasks, gone, e, {})
<1> SUFFICES ASSUME NEW f \in Recipients, NEW x
             PROVE  x \in BoxOf(map, tasks, f) <=>
                      x \in BoxOf(offline, delivery, f) /\ x \notin gone
  BY DEF Becomes
<1> DEFINE carried == \E c \in Deliverers \ {d} :
                        Loaded(delivery, c, f) /\ x \in Ids(delivery[c].pending)
           mine(t) == Loaded(t, d, f) /\ x \in Ids(t[d].pending)
<1>1. x \in BoxOf(map, tasks, f) <=> x \in Ids(map[f]) \/ carried \/ mine(tasks)
  <2>1. \A c \in Deliverers : c # d => (Loaded(tasks, c, f) <=> Loaded(delivery, c, f))
    BY DEF Loaded
  <2> QED BY <2>1, BoxOfAt
<1>2. x \in BoxOf(offline, delivery, f) <=> x \in Ids(offline[f]) \/ carried \/ mine(delivery)
  BY BoxOfAt
<1>3. carried => x \notin gone
  BY DEF Apart
<1>4. CASE f = e
  BY <1>1, <1>2, <1>3, <1>4
<1>5. CASE f # e
  <2>1. ~mine(tasks) /\ ~mine(delivery)
    BY <1>5 DEF Loaded
  <2>2. x \in Ids(offline[f]) => x \notin gone
    BY <1>5 DEF Apart
  <2> QED BY <1>1, <1>2, <1>3, <1>5, <2>1, <2>2
<1> QED BY <1>4, <1>5

KeptBoxes(gone, e, m) ==
  [f \in Recipients |-> (Boxes[f] \ gone) \cup IF f = e THEN {m} ELSE {}]

LEMMA BoxesKeep ==
  ASSUME NEW gone, NEW e, NEW m, Becomes(offline', delivery', gone, e, {m})
  PROVE  Boxes' = KeptBoxes(gone, e, m)
<1>1. ASSUME NEW f \in Recipients
      PROVE  Boxes'[f] = (Boxes[f] \ gone) \cup IF f = e THEN {m} ELSE {}
  <2>1. \A x : x \in Boxes'[f] <=> (x \in Boxes[f] /\ x \notin gone) \/ (f = e /\ x \in {m})
    BY BoxesAt DEF Becomes
  <2> QED BY <2>1
<1>2. Boxes' = [f \in Recipients |-> Boxes'[f]]
  BY DEF Boxes
<1> QED BY <1>1, <1>2 DEF KeptBoxes

LEMMA BoxesDiscard ==
  ASSUME NEW gone, NEW e, Becomes(offline', delivery', gone, e, {})
  PROVE  Boxes' = [f \in Recipients |-> Boxes[f] \ gone]
<1>1. ASSUME NEW f \in Recipients PROVE Boxes'[f] = Boxes[f] \ gone
  <2>1. \A x : x \in Boxes'[f] <=> x \in Boxes[f] /\ x \notin gone
    BY BoxesAt DEF Becomes
  <2> QED BY <2>1
<1>2. Boxes' = [f \in Recipients |-> Boxes'[f]]
  BY DEF Boxes
<1> QED BY <1>1, <1>2

(* The boxes are the same when queues, extensions and messages of the      *)
(* tasks are; a task without messages may come and go.                     *)
LEMMA BoxesRest ==
  ASSUME offline' = offline,
         \A d \in Deliverers :
           \/ /\ delivery'[d].pending = delivery[d].pending
              /\ \A e \in Recipients : Loaded(delivery', d, e) <=> Loaded(delivery, d, e)
           \/ Ids(delivery'[d].pending) = {} /\ Ids(delivery[d].pending) = {}
  PROVE  Boxes' = Boxes
<1>1. ASSUME NEW f \in Recipients PROVE Boxes'[f] = Boxes[f]
  <2>1. \A x : x \in BoxOf(offline', delivery', f) <=> x \in BoxOf(offline, delivery, f)
    BY BoxOfAt
  <2>2. \A x : x \in Boxes'[f] <=> x \in Boxes[f]
    BY <2>1, BoxesAt
  <2> QED BY <2>2
<1>2. Boxes' = [f \in Recipients |-> Boxes'[f]] /\ Boxes = [f \in Recipients |-> Boxes[f]]
  BY DEF Boxes
<1> QED BY <1>1, <1>2

Boxed == UNION {Boxes[e] : e \in Recipients}

(* The actions of Mailbox, in those terms.                                 *)
LEMMA MailMeans ==
  /\ Mail!vars = <<Boxes, accepted, sent, dropped>>
  /\ \A m : Mail!New(m) <=> m \notin Boxed \cup sent \cup dropped
  /\ \A m : Mail!Forward(m) <=>
       /\ Mail!New(m)
       /\ sent' = sent \cup {m} /\ accepted' = accepted \cup {m}
       /\ Boxes' = Boxes /\ dropped' = dropped
  /\ \A e, m, gone : Mail!Keep(e, m, gone) <=>
       /\ Mail!New(m) /\ gone \subseteq Boxed
       /\ Boxes' = KeptBoxes(gone, e, m)
       /\ accepted' = accepted \cup {m} /\ dropped' = dropped \cup gone /\ sent' = sent
  /\ \A e, m : Mail!HandOver(e, m) <=>
       /\ m \in Boxes[e]
       /\ Boxes' = [Boxes EXCEPT ![e] = @ \ {m}]
       /\ sent' = sent \cup {m} /\ accepted' = accepted /\ dropped' = dropped
  /\ \A gone : Mail!Discard(gone) <=>
       /\ gone \subseteq Boxed
       /\ Boxes' = [f \in Recipients |-> Boxes[f] \ gone]
       /\ dropped' = dropped \cup gone /\ accepted' = accepted /\ sent' = sent
<1>1. Mail!vars = <<Boxes, accepted, sent, dropped>>
  BY DEF Mail!vars, Boxes
<1>2. \A m : Mail!New(m) <=> m \notin Boxed \cup sent \cup dropped
  BY DEF Mail!New, Mail!Boxed, Boxed, Boxes
<1>3. \A m : Mail!Forward(m) <=>
        /\ Mail!New(m)
        /\ sent' = sent \cup {m} /\ accepted' = accepted \cup {m}
        /\ Boxes' = Boxes /\ dropped' = dropped
  BY DEF Mail!Forward, Boxes
<1>4. \A e, m, gone : Mail!Keep(e, m, gone) <=>
        /\ Mail!New(m) /\ gone \subseteq Boxed
        /\ Boxes' = KeptBoxes(gone, e, m)
        /\ accepted' = accepted \cup {m} /\ dropped' = dropped \cup gone /\ sent' = sent
  BY DEF Mail!Keep, Mail!Boxed, Boxed, Boxes, KeptBoxes
<1>5. \A e, m : Mail!HandOver(e, m) <=>
        /\ m \in Boxes[e]
        /\ Boxes' = [Boxes EXCEPT ![e] = @ \ {m}]
        /\ sent' = sent \cup {m} /\ accepted' = accepted /\ dropped' = dropped
  BY DEF Mail!HandOver, Boxes
<1>6. \A gone : Mail!Discard(gone) <=>
        /\ gone \subseteq Boxed
        /\ Boxes' = [f \in Recipients |-> Boxes[f] \ gone]
        /\ dropped' = dropped \cup gone /\ accepted' = accepted /\ sent' = sent
  BY DEF Mail!Discard, Mail!Boxed, Boxed, Boxes
<1> QED BY <1>1, <1>2, <1>3, <1>4, <1>5, <1>6

(* A message a handler has in hand is in no box, sent or dropped.          *)
LEMMA HandNew ==
  ASSUME IInv, NEW s \in Senders, handler[s].at # "idle"
  PROVE  /\ handler[s].id \in MessageIds
         /\ handler[s].id \notin Waiting
         /\ Mail!New(handler[s].id)
<1>1. handler[s].id \in MessageIds
  BY HandlerBusy DEF IInv
<1>2. handler[s].id \notin Waiting \cup sent \cup dropped
  BY DEF IInv, HandsApart, InHand
<1>3. handler[s].id \notin Boxed
  BY <1>2, BoxWaits DEF Boxed
<1> QED BY <1>1, <1>2, <1>3, MailMeans

LEMMA MailForwarded ==
  ASSUME IInv, NEW s \in Senders, MessageForwarded(s)
  PROVE  Mail!Next
<1> DEFINE m == handler[s].id
<1>1. /\ UNCHANGED <<offline, delivery, dropped>>
      /\ sent' = sent \cup {m} /\ accepted' = accepted \cup {m} /\ handler[s].at # "idle"
  BY DEF MessageForwarded, Answer200
<1>2. m \in MessageIds /\ Mail!New(m)
  BY <1>1, HandNew
<1>3. Boxes' = Boxes
  BY <1>1, BoxesRest
<1> HIDE DEF m
<1>4. Mail!Forward(m)
  BY <1>1, <1>2, <1>3, MailMeans
<1> QED BY <1>2, <1>4 DEF Mail!Next

(* What leaves the queues was in a box.                                    *)
LEMMA QueuesBoxed == AllIds(offline) \subseteq Boxed
BY AllIdsAt, BoxesAt, BoxOfAt DEF Boxed

LEMMA MailRefused ==
  ASSUME IInv, NEW s \in Senders, StoreRefused(s)
  PROVE  Mail!Next
<1> DEFINE gone == AllIds(offline) \ AllIds(offline')
<1>1. /\ UNCHANGED <<delivery, accepted, sent>>
      /\ offline' = prune_expired(offline, handler[s].now)
      /\ dropped' = dropped \cup gone
  BY DEF StoreRefused
<1>2. \A f \in Recipients : \A x \in Ids(offline'[f]) : x \in Ids(offline[f])
  BY <1>1, PrunedIds DEF IInv
<1>3. Becomes(offline', delivery, gone, s, {})
  BY <1>2, ApartHolds, QueuesMove DEF IInv
<1>4. gone \subseteq Boxed
  BY QueuesBoxed
<1> HIDE DEF gone
<1>5. Boxes' = [f \in Recipients |-> Boxes[f] \ gone]
  BY <1>1, <1>3, BoxesDiscard
<1>6. Mail!Discard(gone)
  BY <1>1, <1>4, <1>5, MailMeans
<1>7. gone \in SUBSET Mail!Boxed
  BY <1>6 DEF Mail!Discard
<1> QED BY <1>6, <1>7 DEF Mail!Next

LEMMA MailStored ==
  ASSUME IInv, NEW s \in Senders, StoreDone(s)
  PROVE  Mail!Next
<1> DEFINE gone == AllIds(offline) \ AllIds(offline')
           x == handler[s].id
           e == handler[s].to
           map == prune_expired(offline, handler[s].now)
           m == [id |-> handler[s].id, from_ext |-> s, received_at |-> handler[s].now]
<1>1. /\ UNCHANGED <<delivery, sent>> /\ handler[s].at # "idle"
      /\ offline' = [map EXCEPT ![e] = Push(@, m)]
      /\ dropped' = dropped \cup gone
      /\ accepted' = accepted \cup {x}
  BY DEF StoreDone, Answer200
<1>2. e \in Recipients /\ m \in Message /\ m.id = x
  BY <1>1, HandlerBusy, StoreFacts DEF StoreDone, IInv
<1>3. /\ offline'[e] = Push(map[e], m)
      /\ \A f \in Recipients : f # e => offline'[f] = map[f]
  BY <1>1, StoreFacts DEF StoreDone, IInv
<1>4. \A f \in Recipients :
        /\ Ids(map[f]) \subseteq Ids(offline[f])
        /\ map[f] \in Seq(Message) /\ Len(map[f]) <= QueueCap
  BY PrunedIds, PruneFacts DEF IInv
<1>5. /\ x \in MessageIds /\ Mail!New(x) /\ x \notin Waiting
  BY <1>1, HandNew
<1>6. gone \subseteq Boxed
  BY QueuesBoxed
<1>7. gone = AllIds(offline) \ AllIds(offline')
  OBVIOUS
<1> HIDE DEF gone, map, m, x, e
<1>8. Ids(offline'[e]) \subseteq Ids(map[e]) \cup {x} /\ x \in Ids(offline'[e])
  BY <1>2, <1>3, <1>4, PushFacts
<1>9. Becomes(offline', delivery, gone, e, {x})
  <2> DEFINE new == {x}
  <2>1. \A f \in Recipients : \A y \in Ids(offline'[f]) :
          y \in Ids(offline[f]) \/ (f = e /\ y \in new)
    BY <1>3, <1>4, <1>8
  <2>2. new \cap AllIds(offline) = {}
    BY <1>5 DEF Waiting
  <2>3. \A y \in new : e \in Recipients => y \in Ids(offline'[e])
    BY <1>8
  <2>4. Apart
    BY ApartHolds DEF IInv
  <2> HIDE DEF new
  <2>5. Becomes(offline', delivery, gone, e, new)
    BY <1>7, <2>1, <2>2, <2>3, <2>4, QueuesMove
  <2> QED BY <2>5 DEF new
<1>10. Boxes' = KeptBoxes(gone, e, x)
  <2>1. Becomes(offline', delivery', gone, e, {x})
    <3>1. delivery' = delivery
      BY <1>1
    <3> QED BY <1>9, <3>1, Zenon DEF Becomes
  <2> QED BY <2>1, BoxesKeep
<1>11. Mail!Keep(e, x, gone)
  BY <1>1, <1>5, <1>6, <1>10, MailMeans
<1>12. gone \in SUBSET Mail!Boxed
  BY <1>11 DEF Mail!Keep
<1> QED BY <1>2, <1>5, <1>11, <1>12 DEF Mail!Next

(* A task has the messages of its extension: they are in that box.         *)
LEMMA TaskBoxed ==
  ASSUME NEW d \in Deliverers, NEW e \in Recipients, Loaded(delivery, d, e)
  PROVE  Ids(offline[e]) \cup Ids(delivery[d].pending) \subseteq Boxed \cap Boxes[e]
BY BoxesAt, BoxOfAt DEF Boxed

LEMMA MailTakes ==
  ASSUME IInv, NEW d \in Deliverers, DeliveryTakes(d)
  PROVE  Mail!Next
<1> DEFINE e == delivery[d].ext
           fresh == Fresh(offline[e], now)
           gone == Ids(offline[e]) \ Ids(fresh)
<1>1. /\ e \in Recipients /\ delivery[d].at # "idle" /\ delivery[d].pending = <<>>
      /\ delivery \in [Deliverers -> {IdleDelivery} \cup
           [at: {"take", "sink", "send", "putback"}, ext: Recipients, pending: Seq(Message)]]
      /\ delivery[d] \in [at: {"take", "sink", "send", "putback"}, ext: Recipients,
                          pending: Seq(Message)]
      /\ offline \in [Recipients -> Seq(Message)]
  BY DeliveryBusy DEF DeliveryTakes, IInv, TypeOK, TasksLoaded
<1>2. Ids(fresh) \subseteq Ids(offline[e])
  BY <1>1, FreshFacts
<1>3. /\ \A c \in Deliverers : c # d => delivery'[c] = delivery[c]
      /\ delivery'[d] = IF fresh = <<>> THEN IdleDelivery
                        ELSE [delivery[d] EXCEPT !.at = "sink", !.pending = fresh]
  BY <1>1 DEF DeliveryTakes
<1>4. /\ offline'[e] = <<>>
      /\ \A f \in Recipients : f # e => offline'[f] = offline[f]
      /\ UNCHANGED <<accepted, sent>>
      /\ dropped' = dropped \cup gone
  BY <1>1 DEF DeliveryTakes, Remaining
<1>5. Ids(<<>>) = {}
  BY DEF Ids
<1>6. Loaded(delivery, d, e)
  BY <1>1 DEF Loaded
<1> HIDE DEF e, fresh
<1>7. \A f \in Recipients : f # e => ~Loaded(delivery', d, f)
  BY <1>1, <1>3, <1>6 DEF Loaded, IdleDelivery
<1>8. \A x : x \in Ids(fresh) <=>
        x \in Ids(offline'[e]) \/ (Loaded(delivery', d, e) /\ x \in Ids(delivery'[d].pending))
  <2>1. CASE fresh = <<>>
    BY <2>1, <1>3, <1>4, <1>5 DEF IdleDelivery
  <2>2. CASE fresh # <<>>
    <3>1. Loaded(delivery', d, e) /\ delivery'[d].pending = fresh
      BY <2>2, <1>1, <1>3, <1>6 DEF Loaded
    <3> QED BY <3>1, <1>4, <1>5
  <2> QED BY <2>1, <2>2
<1>9. gone = (Ids(offline[e]) \cup Ids(delivery[d].pending)) \ Ids(fresh)
  BY <1>1, <1>5
<1>10. gone \subseteq Boxed
  BY <1>1, <1>6, TaskBoxed
<1> HIDE DEF gone
<1>11. Apart
  BY ApartHolds DEF IInv
<1>12. Becomes(offline', delivery', gone, e, {})
  BY <1>1, <1>2, <1>3, <1>4, <1>6, <1>7, <1>8, <1>9, <1>11, TaskMoves
<1>13. Boxes' = [f \in Recipients |-> Boxes[f] \ gone]
  BY <1>12, BoxesDiscard
<1>14. Mail!Discard(gone)
  BY <1>4, <1>10, <1>13, MailMeans
<1>15. gone \in SUBSET Mail!Boxed
  BY <1>14 DEF Mail!Discard
<1> QED BY <1>14, <1>15 DEF Mail!Next

LEMMA MailPutsBack ==
  ASSUME IInv, NEW d \in Deliverers, DeliveryPutsBack(d)
  PROVE  Mail!Next
<1> DEFINE e == delivery[d].ext
           q == delivery[d].pending
           merged == merge_back(offline[e], q)
           gone == (Ids(offline[e]) \cup Ids(q)) \ Ids(merged)
<1>1. /\ e \in Recipients /\ q \in Seq(Message) /\ delivery[d].at # "idle"
      /\ delivery \in [Deliverers -> {IdleDelivery} \cup
           [at: {"take", "sink", "send", "putback"}, ext: Recipients, pending: Seq(Message)]]
      /\ offline \in [Recipients -> Seq(Message)]
  BY DeliveryBusy DEF DeliveryPutsBack, IInv, TypeOK
<1>2. Ids(merged) \subseteq Ids(offline[e]) \cup Ids(q)
  <2>1. offline[e] \in Seq(Message) /\ q \in Seq(Message)
    BY <1>1
  <2>2. merged = merge_back(offline[e], q)
    OBVIOUS
  <2> HIDE DEF merged, e, q
  <2> QED BY <2>1, <2>2, MergeFacts
<1>3. /\ \A c \in Deliverers : c # d => delivery'[c] = delivery[c]
      /\ delivery'[d] = IdleDelivery
  BY <1>1 DEF DeliveryPutsBack
<1>4. /\ offline'[e] = merged
      /\ \A f \in Recipients : f # e => offline'[f] = offline[f]
      /\ UNCHANGED <<accepted, sent>>
      /\ dropped' = dropped \cup gone
  BY <1>1 DEF DeliveryPutsBack
<1>5. \A f \in Recipients : ~Loaded(delivery', d, f)
  BY <1>3 DEF Loaded, IdleDelivery
<1>6. Loaded(delivery, d, e)
  BY <1>1 DEF Loaded
<1>7. gone \subseteq Boxed
  BY <1>1, <1>6, TaskBoxed
<1>8. gone = (Ids(offline[e]) \cup Ids(delivery[d].pending)) \ Ids(merged)
  OBVIOUS
<1> HIDE DEF gone, merged, e
<1>9. Apart
  BY ApartHolds DEF IInv
<1>10. \A x : x \in Ids(merged) <=>
         x \in Ids(offline'[e]) \/ (Loaded(delivery', d, e) /\ x \in Ids(delivery'[d].pending))
  BY <1>1, <1>4, <1>5
<1>11. Becomes(offline', delivery', gone, e, {})
  BY <1>1, <1>2, <1>3, <1>4, <1>5, <1>6, <1>8, <1>9, <1>10, TaskMoves
<1>12. Boxes' = [f \in Recipients |-> Boxes[f] \ gone]
  BY <1>11, BoxesDiscard
<1>13. Mail!Discard(gone)
  BY <1>4, <1>7, <1>12, MailMeans
<1>14. gone \in SUBSET Mail!Boxed
  BY <1>13 DEF Mail!Discard
<1> QED BY <1>13, <1>14 DEF Mail!Next

LEMMA MailSends ==
  ASSUME IInv, NEW d \in Deliverers, DeliverySends(d)
  PROVE  Mail!Next
<1> DEFINE e == delivery[d].ext
           q == delivery[d].pending
           m == Head(q).id
           kept == Ids(offline[e]) \cup Ids(Tail(q))
<1>1. /\ e \in Recipients /\ q \in Seq(Message) /\ q # <<>> /\ delivery[d].at # "idle"
      /\ delivery \in [Deliverers -> {IdleDelivery} \cup
           [at: {"take", "sink", "send", "putback"}, ext: Recipients, pending: Seq(Message)]]
      /\ delivery[d] \in [at: {"take", "sink", "send", "putback"}, ext: Recipients,
                          pending: Seq(Message)]
  BY DeliveryBusy DEF DeliverySends, IInv, TypeOK, TasksLoaded
<1>2. /\ Distinct(q) /\ Apart
  BY ApartHolds DEF IInv, NothingTwice
<1>3. /\ Tail(q) = <<>> <=> Len(q) = 1
      /\ m \in Ids(q) /\ Ids(q) \subseteq Ids(Tail(q)) \cup {m}
      /\ Ids(Tail(q)) \subseteq Ids(q) /\ m \notin Ids(Tail(q))
      /\ m \in MessageIds
  BY <1>1, <1>2, TailFacts, IdsTyped
<1>4. /\ \A c \in Deliverers : c # d => delivery'[c] = delivery[c]
      /\ delivery'[d] = IF Len(q) = 1 THEN IdleDelivery
                        ELSE [delivery[d] EXCEPT !.pending = Tail(q)]
  BY <1>1 DEF DeliverySends
<1>5. UNCHANGED <<offline, accepted, dropped>> /\ sent' = sent \cup {m}
  BY DEF DeliverySends
<1>6. Loaded(delivery, d, e)
  BY <1>1 DEF Loaded
<1>7. Ids(<<>>) = {}
  BY DEF Ids
<1> HIDE DEF e, m
<1>8. \A f \in Recipients : f # e => ~Loaded(delivery', d, f)
  BY <1>1, <1>4, <1>6 DEF Loaded, IdleDelivery
<1>9. \A x : x \in kept <=>
        x \in Ids(offline'[e]) \/ (Loaded(delivery', d, e) /\ x \in Ids(delivery'[d].pending))
  <2>1. CASE Len(q) = 1
    <3>1. Tail(q) = <<>> /\ delivery'[d] = IdleDelivery
      BY <2>1, <1>3, <1>4
    <3>2. ~Loaded(delivery', d, e)
      BY <3>1 DEF Loaded, IdleDelivery
    <3> HIDE DEF q
    <3> QED BY <3>1, <3>2, <1>5, <1>7
  <2>2. CASE Len(q) # 1
    <3>1. Loaded(delivery', d, e) /\ delivery'[d].pending = Tail(q)
      BY <2>2, <1>1, <1>4, <1>6 DEF Loaded
    <3> QED BY <3>1, <1>5
  <2> QED BY <2>1, <2>2
<1>10. m \notin Ids(offline[e])
  BY <1>1, <1>2, <1>3 DEF Apart
<1>11. {m} = (Ids(offline[e]) \cup Ids(q)) \ kept /\ kept \subseteq Ids(offline[e]) \cup Ids(q)
  <2> HIDE DEF q
  <2> QED BY <1>3, <1>10
<1> HIDE DEF kept
<1>12. Becomes(offline', delivery', {m}, e, {})
  BY <1>1, <1>2, <1>4, <1>5, <1>6, <1>8, <1>9, <1>11, TaskMoves
<1>13. m \in Boxes[e]
  BY <1>1, <1>3, <1>6, TaskBoxed
<1> HIDE DEF q
<1>14. \A f \in Recipients : f # e => m \notin Boxes[f]
  <2> SUFFICES ASSUME NEW f \in Recipients, f # e, m \in Boxes[f] PROVE FALSE
    OBVIOUS
  <2>1. m \in Ids(offline[f]) \/ \E c \in Deliverers : Loaded(delivery, c, f) /\ m \in Ids(delivery[c].pending)
    BY BoxesAt, BoxOfAt
  <2>2. m \in Ids(delivery[d].pending)
    BY <1>3 DEF q
  <2> QED BY <2>1, <2>2, <1>2, <1>6 DEF Apart, Loaded
<1>15. Boxes' = [Boxes EXCEPT ![e] = @ \ {m}]
  <2>1. Boxes' = [f \in Recipients |-> Boxes[f] \ {m}]
    BY <1>12, BoxesDiscard
  <2>2. Boxes = [f \in Recipients |-> Boxes[f]]
    BY DEF Boxes
  <2>3. \A f \in Recipients : f # e => Boxes[f] \ {m} = Boxes[f]
    BY <1>14
  <2> QED BY <2>1, <2>2, <2>3, <1>1
<1>16. Mail!HandOver(e, m)
  BY <1>5, <1>13, <1>15, MailMeans
<1> QED BY <1>1, <1>3, <1>16 DEF Mail!Next

Rests ==
  /\ offline' = offline
  /\ UNCHANGED <<accepted, sent, dropped>>
  /\ \A d \in Deliverers :
       \/ /\ delivery'[d].pending = delivery[d].pending
          /\ \A e \in Recipients : Loaded(delivery', d, e) <=> Loaded(delivery, d, e)
       \/ Ids(delivery'[d].pending) = {} /\ Ids(delivery[d].pending) = {}

LEMMA RestsStutter == Rests => UNCHANGED Mail!vars
<1>1. Rests => Boxes' = Boxes
  BY BoxesRest DEF Rests
<1>2. Mail!vars = <<Boxes, accepted, sent, dropped>>
  BY MailMeans
<1>3. Mail!vars' = <<Boxes', accepted', sent', dropped'>>
  BY DEF Mail!vars, Boxes
<1> QED BY <1>1, <1>2, <1>3 DEF Rests

(* The steps that no sender and no recipient notices.                      *)
LEMMA MailRests ==
  ASSUME IInv,
         \/ \E s \in Senders :
              \/ MessageUndeliverable(s) \/ RateLimited(s) \/ RateAllowed(s)
              \/ \E e \in Recipients : MessageArrives(s, e)
         \/ \E d \in Deliverers :
              \/ DeliveryFindsSink(d) \/ DeliverySendFails(d)
              \/ \E e \in Recipients : Register(e, d)
         \/ \E e \in Recipients : Disconnect(e)
         \/ Tick
         \/ UNCHANGED vars
  PROVE  UNCHANGED Mail!vars
<1> SUFFICES Rests
  BY RestsStutter
<1>1. CASE \/ \E s \in Senders :
                \/ MessageUndeliverable(s) \/ RateLimited(s) \/ RateAllowed(s)
                \/ \E e \in Recipients : MessageArrives(s, e)
           \/ \E e \in Recipients : Disconnect(e)
           \/ Tick
           \/ UNCHANGED vars
  <2>1. UNCHANGED <<offline, delivery, accepted, sent, dropped>>
    BY <1>1 DEF MessageUndeliverable, RateLimited, RateAllowed, MessageArrives, Disconnect, Tick,
                vars, history
  <2> QED BY <2>1 DEF Rests
<1>2. ASSUME NEW d \in Deliverers,
             \/ DeliveryFindsSink(d) \/ DeliverySendFails(d)
             \/ \E e \in Recipients : Register(e, d)
      PROVE  Rests
  <2>1. UNCHANGED <<offline, accepted, sent, dropped>>
    BY <1>2 DEF DeliveryFindsSink, DeliverySendFails, Register, history
  <2>2. /\ delivery \in [Deliverers -> {IdleDelivery} \cup
             [at: {"take", "sink", "send", "putback"}, ext: Recipients, pending: Seq(Message)]]
        /\ delivery[d].at = "idle" => delivery[d].pending = <<>>
    BY DEF IInv, TypeOK, TasksLoaded
  <2>3. \A c \in Deliverers : c # d => delivery'[c] = delivery[c]
    BY <1>2, <2>2 DEF DeliveryFindsSink, DeliverySendFails, Register
  <2>4. \A c \in Deliverers : c # d =>
          /\ delivery'[c].pending = delivery[c].pending
          /\ \A e \in Recipients : Loaded(delivery', c, e) <=> Loaded(delivery, c, e)
    BY <2>3 DEF Loaded
  <2>5. CASE DeliveryFindsSink(d) \/ DeliverySendFails(d)
    <3>1. delivery[d] \in [at: {"take", "sink", "send", "putback"}, ext: Recipients,
                           pending: Seq(Message)]
      BY <2>5, DeliveryBusy DEF DeliveryFindsSink, DeliverySendFails, IInv
    <3>2. /\ delivery'[d].pending = delivery[d].pending
          /\ delivery'[d].ext = delivery[d].ext
          /\ delivery[d].at # "idle" /\ delivery'[d].at # "idle"
      <4>1. CASE DeliveryFindsSink(d)
        BY <4>1, <3>1, <2>2 DEF DeliveryFindsSink
      <4>2. CASE DeliverySendFails(d)
        BY <4>2, <3>1, <2>2 DEF DeliverySendFails, Unsent
      <4> QED BY <2>5, <4>1, <4>2
    <3> QED BY <3>2, <2>1, <2>4 DEF Loaded, Rests
  <2>6. CASE \E e \in Recipients : Register(e, d)
    <3>1. delivery'[d].pending = <<>> /\ delivery[d].pending = <<>>
      BY <2>6, <2>2 DEF Register
    <3>2. Ids(<<>>) = {}
      BY DEF Ids
    <3> QED BY <3>1, <3>2, <2>1, <2>4 DEF Rests
  <2> QED BY <1>2, <2>5, <2>6
<1> QED BY <1>1, <1>2

LEMMA MailStep == IInv /\ [Next]_vars => [Mail!Next]_(Mail!vars)
<1> SUFFICES ASSUME IInv, [Next]_vars PROVE Mail!Next \/ UNCHANGED Mail!vars
  OBVIOUS
<1>1. ASSUME NEW s \in Senders, HandlerStep(s) \/ \E e \in Recipients : MessageArrives(s, e)
      PROVE  Mail!Next \/ UNCHANGED Mail!vars
  BY <1>1, MailForwarded, MailRefused, MailStored, MailRests DEF HandlerStep
<1>2. ASSUME NEW d \in Deliverers, DeliveryStep(d) \/ \E e \in Recipients : Register(e, d)
      PROVE  Mail!Next \/ UNCHANGED Mail!vars
  BY <1>2, MailTakes, MailSends, MailPutsBack, MailRests DEF DeliveryStep
<1>3. ASSUME (\E e \in Recipients : Disconnect(e)) \/ Tick \/ UNCHANGED vars
      PROVE  Mail!Next \/ UNCHANGED Mail!vars
  BY <1>3, MailRests
<1> QED BY <1>1, <1>2, <1>3 DEF Next

LEMMA MailInit == Init => Mail!Init
<1> SUFFICES ASSUME Init PROVE Mail!Init
  OBVIOUS
<1>1. /\ \A e \in Recipients : offline[e] = <<>>
      /\ \A d \in Deliverers : delivery[d].pending = <<>>
      /\ accepted = {} /\ sent = {} /\ dropped = {}
  BY DEF Init, IdleDelivery
<1>2. Ids(<<>>) = {}
  BY DEF Ids
<1>3. \A e \in Recipients : InBox(e) = {}
  BY <1>1, <1>2 DEF InBox
<1> QED BY <1>1, <1>3 DEF Mail!Init

(* The locks, tasks, put-backs and prunings of message.rs implement a      *)
(* mailbox for each extension: a message waits for its own recipient only, *)
(* leaves the box once, and the step that answers the sender 200 is the    *)
(* one that hands the message over or puts it into the box.                *)
THEOREM ImplementsMailbox == Spec => KeepsMail
<1>1. Init => Mail!Init
  BY MailInit
<1>2. IInv /\ [Next]_vars => [Mail!Next]_(Mail!vars)
  BY MailStep
<1> QED
  BY <1>1, <1>2, Invariant, PTL DEF Spec, KeepsMail, Mail!Spec
==============================================================================
