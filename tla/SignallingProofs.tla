--------------------------- MODULE SignallingProofs ---------------------------
(***************************************************************************)
(* Theorems of Signalling.  Part 1: the bytes of what a client says, item  *)
(* by item.  Part 2: what frame_sip_message makes of any first part of     *)
(* them.  Part 3: what a client means to be heard.  Part 4: the invariant, *)
(* action by action.                                                       *)
(***************************************************************************)
EXTENDS Signalling, FiniteSetTheorems, WellFoundedInduction, TLAPS

(* A set of naturals that is not empty has a least element: what takes the *)
(* place of induction for the recursion of BytesFrom.                      *)
LEMMA Least ==
  ASSUME NEW T \in SUBSET Nat, T # {}
  PROVE  \E x \in T : \A y \in T : x <= y
<1>1. PICK x \in T : \A y \in T : ~(<<y, x>> \in OpToRel(<, Nat))
  BY WFMin, NatLessThanWellFounded
<1>2. \A y \in T : y < x => <<y, x>> \in OpToRel(<, Nat)
  BY Zenon DEF OpToRel
<1>3. \A y \in T : ~(y < x)
  BY <1>1, <1>2, Zenon
<1> QED
  BY <1>3

LEMMA MinIs ==
  ASSUME NEW S \in SUBSET Int, NEW x \in S, \A y \in S : x <= y
  PROVE  Min(S) = x
<1> DEFINE m == Min(S)
<1>1. m \in S /\ \A y \in S : m <= y
  BY DEF Min
<1> HIDE DEF m
<1>2. m \in Int /\ x \in Int /\ m <= x /\ x <= m
  BY <1>1
<1> QED BY <1>2 DEF m

LEMMA MaxIs ==
  ASSUME NEW S \in SUBSET Int, NEW x \in S, \A y \in S : x >= y
  PROVE  Max(S) = x
<1> DEFINE m == Max(S)
<1>1. m \in S /\ \A y \in S : m >= y
  BY DEF Max
<1> HIDE DEF m
<1>2. m \in Int /\ x \in Int /\ m >= x /\ x >= m
  BY <1>1
<1> QED BY <1>2 DEF m

LEMMA Concat ==
  ASSUME NEW S, NEW a \in Seq(S), NEW b \in Seq(S), NEW c, c = a \o b
  PROVE  /\ c \in Seq(S) /\ Len(c) = Len(a) + Len(b)
         /\ \A i \in 1..Len(a) : c[i] = a[i]
         /\ \A i \in 1..Len(b) : c[Len(a) + i] = b[i]
<1>1. c \in Seq(S) /\ Len(c) = Len(a) + Len(b) /\ Len(a) \in Nat /\ Len(b) \in Nat
  OBVIOUS
<1>2. \A i \in 1..Len(a) : c[i] = a[i]
  OBVIOUS
<1>3. \A i \in 1..Len(b) : c[Len(a) + i] = b[i]
  OBVIOUS
<1> QED BY <1>1, <1>2, <1>3
------------------------------------------------------------------------------
(* The bytes of one item.                                                  *)

Symbols == [of: Nat, lengths: SUBSET Int, crlf: BOOLEAN]

LEMMA ItemFacts ==
  ASSUME NEW m \in Items
  PROVE  /\ m.kind \in Kinds /\ m.body \in Nat /\ m.lengths \in SUBSET Int
         /\ m # Ping => m.kind # "ping"
         /\ m.lengths = {m.body} \/ (m.lengths = {} /\ m.body = 0) \/ Malformed(m)
<1>1. m \in [kind: Kinds, lengths: SUBSET (Nat \cup {-1}), body: Nat]
  BY DEF Items
<1>2. m.kind \in Kinds /\ m.body \in Nat /\ m.lengths \in SUBSET (Nat \cup {-1})
  BY <1>1
<1>3. m.lengths \in SUBSET Int
  BY <1>2
<1> QED BY <1>2, <1>3 DEF Items

LEMMA CrlfFacts ==
  /\ Crlf \in Symbols /\ Crlf.lengths = {}
  /\ \A i \in Nat, ls \in SUBSET Int :
       Headers(i, ls) \in Symbols /\ Headers(i, ls) # Crlf /\ Headers(i, ls).lengths = ls
       /\ Headers(i, ls).of = i
<1>1. Crlf \in Symbols /\ Crlf.lengths = {} /\ Crlf.crlf = TRUE
  BY DEF Crlf, Symbols
<1>2. ASSUME NEW i \in Nat, NEW ls \in SUBSET Int
      PROVE  /\ Headers(i, ls) \in Symbols /\ Headers(i, ls).crlf = FALSE
             /\ Headers(i, ls).lengths = ls /\ Headers(i, ls).of = i
  BY DEF Headers, Symbols
<1>3. ASSUME NEW i \in Nat, NEW ls \in SUBSET Int PROVE Headers(i, ls) # Crlf
  BY <1>1, <1>2
<1> QED BY <1>1, <1>2, <1>3

LEMMA BytesFacts ==
  ASSUME NEW i \in Nat, NEW m \in Items, NEW s, s = Bytes(i, m)
  PROVE  /\ s \in Seq(Symbols)
         /\ m = Ping => Len(s) = 1 /\ s[1] = Crlf
         /\ m # Ping => Len(s) = 2 + m.body /\ s[1] = Headers(i, m.lengths) /\ s[2] = Crlf
<1>1. CASE m = Ping
  BY <1>1, CrlfFacts DEF Bytes
<1>2. CASE m # Ping
  <2> DEFINE front == <<Headers(i, m.lengths), Crlf>>
             n == m.body
             body == Body(n)
  <2>1. m.lengths \in SUBSET Int /\ n \in Nat
    BY ItemFacts
  <2>2. front \in Seq(Symbols) /\ Len(front) = 2 /\ front[1] = Headers(i, m.lengths) /\ front[2] = Crlf
    BY <2>1, CrlfFacts
  <2>3. body \in Seq(Symbols) /\ Len(body) = n
    <3> DEFINE at(j) == IF j % 2 = 1 THEN Headers(0, {}) ELSE Crlf
    <3>1. \A j \in 1..n : at(j) \in Symbols
      BY CrlfFacts
    <3>2. body = [j \in 1..n |-> at(j)]
      BY DEF Body
    <3> HIDE DEF at, n, body
    <3>3. body \in [1..n -> Symbols]
      BY <3>1, <3>2
    <3> QED BY <3>3, <2>1
  <2>4. s = front \o body
    BY <1>2 DEF Bytes
  <2> HIDE DEF front, body, n
  <2>5. /\ s \in Seq(Symbols) /\ Len(s) = Len(front) + Len(body)
        /\ \A j \in 1..Len(front) : s[j] = front[j]
    <3>1. front \in Seq(Symbols) /\ body \in Seq(Symbols)
      BY <2>2, <2>3
    <3> QED BY <3>1, <2>4, Concat
  <2>6. Len(s) = 2 + n /\ s[1] = front[1] /\ s[2] = front[2]
    BY <2>1, <2>2, <2>3, <2>5
  <2> QED BY <2>2, <2>5, <2>6, <1>2 DEF n
<1> QED BY <1>1, <1>2
------------------------------------------------------------------------------
(* The equation of BytesFrom.                                              *)

FromOf(g, items, low) ==
  g = [p \in low..(Len(items) + 1) |->
         IF p > Len(items) THEN <<>> ELSE Bytes(p, items[p]) \o g[p + 1]]

LEMMA FromExists ==
  ASSUME NEW items, NEW n \in Nat, n = Len(items), NEW k \in 0..n
  PROVE  \E g : FromOf(g, items, n + 1 - k)
<1> DEFINE T == {j \in 0..n : ~\E g : FromOf(g, items, n + 1 - j)}
<1>1. SUFFICES ASSUME T # {} PROVE FALSE
  OBVIOUS
<1>2. PICK j \in T : \A y \in T : j <= y
  <2>1. T \in SUBSET Nat
    OBVIOUS
  <2> HIDE DEF T
  <2> QED BY <1>1, <2>1, Least
<1>3. CASE j = 0
  <2> DEFINE g == [p \in (n + 1)..(n + 1) |-> <<>>]
  <2>1. \A p \in (n + 1)..(n + 1) : p > n
    OBVIOUS
  <2>2. g = [p \in (n + 1)..(n + 1) |-> IF p > n THEN <<>> ELSE Bytes(p, items[p]) \o g[p + 1]]
    BY <2>1
  <2> HIDE DEF g
  <2>3. FromOf(g, items, n + 1 - 0)
    BY <2>2 DEF FromOf
  <2> QED BY <2>3, <1>3, <1>2
<1>4. CASE j # 0
  <2>1. PICK g : FromOf(g, items, n + 1 - (j - 1))
    BY <1>4, <1>2
  <2> DEFINE low == n + 1 - j
             step(f, p) == IF p > n THEN <<>> ELSE Bytes(p, items[p]) \o f[p + 1]
             h == [p \in low..(n + 1) |-> step(g, p)]
  <2>2. n + 1 - (j - 1) = low + 1 /\ low \in 1..n
    BY <1>4
  <2>3. g = [p \in (low + 1)..(n + 1) |-> step(g, p)]
    BY <2>1, <2>2 DEF FromOf
  <2> HIDE DEF low, step
  <2>4. \A p \in (low + 1)..(n + 1) : h[p] = g[p]
    <3> TAKE p \in (low + 1)..(n + 1)
    <3>1. p \in low..(n + 1)
      BY <2>2
    <3>2. h[p] = step(g, p)
      BY <3>1
    <3>3. g[p] = step(g, p)
      BY <2>3
    <3> QED BY <3>2, <3>3
  <2>5. h = [p \in low..(n + 1) |-> step(g, p)]
    OBVIOUS
  <2> HIDE DEF h
  <2>6. \A p \in low..(n + 1) : p > n \/ h[p + 1] = g[p + 1]
    BY <2>2, <2>4
  <2>7. \A p \in low..(n + 1) : step(g, p) = step(h, p)
    BY <2>6 DEF step
  <2>8. h = [p \in low..(n + 1) |-> step(h, p)]
    BY <2>5, <2>7, Zenon
  <2>9. FromOf(h, items, low)
    BY <2>8 DEF FromOf, step
  <2> QED BY <2>9, <1>2 DEF low
<1> QED BY <1>3, <1>4

LEMMA FromEquation ==
  ASSUME NEW items, Len(items) \in Nat
  PROVE  FromOf(BytesFrom(items), items, 1)
<1>1. Len(items) \in 0..Len(items) /\ Len(items) + 1 - Len(items) = 1
  OBVIOUS
<1>2. PICK g : FromOf(g, items, 1)
  BY <1>1, FromExists
<1> QED BY <1>2 DEF BytesFrom, FromOf

LEMMA FromSteps ==
  ASSUME NEW items \in Seq(Items)
  PROVE  /\ BytesFrom(items)[Len(items) + 1] = <<>>
         /\ \A p \in 1..Len(items) :
              BytesFrom(items)[p] = Bytes(p, items[p]) \o BytesFrom(items)[p + 1]
<1> DEFINE n == Len(items)
           from == BytesFrom(items)
           step(p) == IF p > n THEN <<>> ELSE Bytes(p, items[p]) \o from[p + 1]
<1>1. n \in Nat
  OBVIOUS
<1>2. from = [p \in 1..(n + 1) |-> step(p)]
  BY <1>1, FromEquation DEF FromOf
<1> HIDE DEF n, from, step
<1>3. \A p \in 1..(n + 1) : from[p] = step(p)
  BY <1>2
<1>4. from[n + 1] = step(n + 1) /\ n + 1 > n
  BY <1>1, <1>3
<1>5. \A p \in 1..n : from[p] = step(p) /\ ~(p > n)
  BY <1>1, <1>3
<1> QED BY <1>4, <1>5 DEF n, from, step

LEMMA FromSeq ==
  ASSUME NEW items \in Seq(Items)
  PROVE  \A p \in 1..(Len(items) + 1) : BytesFrom(items)[p] \in Seq(Symbols)
<1> DEFINE n == Len(items)
           from == BytesFrom(items)
<1>1. n \in Nat /\ \A p \in 1..n : items[p] \in Items
  OBVIOUS
<1>2. from[n + 1] = <<>> /\ \A p \in 1..n : from[p] = Bytes(p, items[p]) \o from[p + 1]
  BY FromSteps
<1> HIDE DEF n, from
<1> DEFINE T == {k \in 0..n : from[n + 1 - k] \notin Seq(Symbols)}
<1>3. T = {}
  <2>1. SUFFICES ASSUME T # {} PROVE FALSE
    OBVIOUS
  <2>2. PICK k \in T : \A y \in T : k <= y
    <3>1. T \in SUBSET Nat
      BY <1>1
    <3> HIDE DEF T
    <3> QED BY <2>1, <3>1, Least
  <2>3. k \in 0..n /\ from[n + 1 - k] \notin Seq(Symbols)
    BY <2>2
  <2>4. CASE k = 0
    <3>1. n + 1 - k = n + 1 /\ <<>> \in Seq(Symbols)
      BY <2>4, <1>1
    <3> QED BY <3>1, <2>3, <1>2
  <2>5. CASE k # 0
    <3> DEFINE p == n + 1 - k
    <3>1. p \in 1..n /\ k - 1 \in 0..n /\ k - 1 < k /\ n + 1 - (k - 1) = p + 1
      BY <2>3, <2>5, <1>1
    <3>2. from[p + 1] \in Seq(Symbols)
      <4> HIDE DEF T
      <4>1. k - 1 \notin T
        BY <2>2, <2>3, <3>1
      <4> QED BY <4>1, <3>1 DEF T
    <3>3. Bytes(p, items[p]) \in Seq(Symbols)
      BY <3>1, <1>1, BytesFacts
    <3>4. from[p] = Bytes(p, items[p]) \o from[p + 1]
      BY <3>1, <1>2
    <3> HIDE DEF p
    <3>5. from[p] \in Seq(Symbols)
      BY <3>2, <3>3, <3>4, Concat
    <3> QED BY <3>5, <2>3 DEF p
  <2> QED BY <2>4, <2>5
<1>4. ASSUME NEW p \in 1..(n + 1) PROVE from[p] \in Seq(Symbols)
  <2>1. n + 1 - p \in 0..n /\ n + 1 - (n + 1 - p) = p
    BY <1>1
  <2>2. from[n + 1 - (n + 1 - p)] \in Seq(Symbols)
    BY <1>3, <2>1
  <2> QED BY <2>1, <2>2
<1> QED BY <1>4 DEF n, from

(* g is what is left of f behind its first k symbols.                      *)
Behind(f, g, k) ==
  /\ f \in Seq(Symbols) /\ g \in Seq(Symbols)
  /\ Len(f) = k + Len(g)
  /\ \A i \in 1..Len(g) : f[k + i] = g[i]

LEMMA FromItem ==
  ASSUME NEW items \in Seq(Items), NEW p \in 1..Len(items), NEW f, f = BytesFrom(items)[p]
  PROVE  /\ items[p] \in Items /\ p + 1 \in 1..(Len(items) + 1)
         /\ items[p] = Ping => f[1] = Crlf /\ Behind(f, BytesFrom(items)[p + 1], 1)
         /\ items[p] # Ping =>
              /\ f[1] = Headers(p, items[p].lengths) /\ f[2] = Crlf
              /\ Behind(f, BytesFrom(items)[p + 1], 2 + items[p].body)
<1> DEFINE m == items[p]
           b == Bytes(p, m)
           g == BytesFrom(items)[p + 1]
<1>1. m \in Items /\ p \in Nat /\ p + 1 \in 1..(Len(items) + 1)
  OBVIOUS
<1>2. /\ b \in Seq(Symbols)
      /\ m = Ping => Len(b) = 1 /\ b[1] = Crlf
      /\ m # Ping => Len(b) = 2 + m.body /\ b[1] = Headers(p, m.lengths) /\ b[2] = Crlf
  BY <1>1, BytesFacts
<1>3. g \in Seq(Symbols) /\ f = b \o g
  BY <1>1, FromSteps, FromSeq
<1>4. m.body \in Nat
  BY <1>1, ItemFacts
<1> HIDE DEF b, g, m
<1>5. /\ f \in Seq(Symbols) /\ Len(f) = Len(b) + Len(g)
      /\ \A i \in 1..Len(b) : f[i] = b[i]
      /\ \A i \in 1..Len(g) : f[Len(b) + i] = g[i]
  BY <1>2, <1>3, Concat
<1>6. Behind(f, g, Len(b))
  BY <1>3, <1>5 DEF Behind
<1>7. CASE m = Ping
  <2>0. Len(b) = 1
    BY <1>2, <1>7, Zenon
  <2>1. Len(b) = 1 /\ 1 \in 1..Len(b)
    BY <2>0
  <2> QED BY <2>1, <1>1, <1>2, <1>5, <1>6, <1>7 DEF m, g
<1>8. CASE m # Ping
  <2>1. Len(b) = 2 + m.body /\ 1 \in 1..Len(b) /\ 2 \in 1..Len(b)
    BY <1>2, <1>4, <1>8
  <2> QED BY <2>1, <1>1, <1>2, <1>5, <1>6, <1>8 DEF m, g
<1> QED BY <1>7, <1>8
------------------------------------------------------------------------------
(* Framing.                                                                *)

Prefix(b, f) ==
  /\ b \in Seq(Symbols) /\ f \in Seq(Symbols) /\ Len(b) <= Len(f)
  /\ \A i \in 1..Len(b) : b[i] = f[i]

(* The headers of f end with its symbol h, and declare ls.                 *)
HeadersTo(f, h, ls) ==
  /\ h \in {2, 3} /\ h <= Len(f) /\ f[h] = Crlf
  /\ \A i \in 2..(h - 1) : f[i] # Crlf
  /\ UNION {f[i].lengths : i \in 1..h} = ls

LEMMA NoHeaders ==
  ASSUME NEW b \in Seq(Symbols), \A i \in 2..Len(b) : b[i] # Crlf
  PROVE  frame_sip_message(b) = Incomplete
<1>1. HeaderEnds(b) = {}
  BY DEF HeaderEnds
<1> QED BY <1>1 DEF frame_sip_message

LEMMA HeadersFound ==
  ASSUME NEW b, NEW f, NEW h, NEW ls, HeadersTo(f, h, ls), Prefix(b, f)
  PROVE  /\ Len(b) < h => frame_sip_message(b) = Incomplete
         /\ Len(b) >= h => /\ HeaderEnds(b) # {} /\ HeaderEnd(b) = h
                           /\ DeclaredLengths(b) = ls
<1>1. /\ h \in {2, 3} /\ Len(b) \in Nat /\ b \in Seq(Symbols)
      /\ \A i \in 1..Len(b) : b[i] = f[i]
  BY DEF HeadersTo, Prefix
<1>2. ASSUME Len(b) < h PROVE frame_sip_message(b) = Incomplete
  <2>1. \A i \in 2..Len(b) : b[i] = f[i] /\ i \in 2..(h - 1)
    BY <1>1, <1>2
  <2>2. \A i \in 2..Len(b) : b[i] # Crlf
    BY <2>1 DEF HeadersTo
  <2> QED BY <2>2, <1>1, NoHeaders
<1>3. ASSUME Len(b) >= h
      PROVE  HeaderEnds(b) # {} /\ HeaderEnd(b) = h /\ DeclaredLengths(b) = ls
  <2>1. \A i \in 1..h : b[i] = f[i]
    BY <1>1, <1>3
  <2>2. h \in HeaderEnds(b)
    BY <1>1, <1>3, <2>1 DEF HeaderEnds, HeadersTo
  <2>3. \A i \in HeaderEnds(b) : h <= i
    <3> SUFFICES ASSUME NEW i \in HeaderEnds(b), i < h PROVE FALSE
      BY <1>1 DEF HeaderEnds
    <3>1. i \in 2..(h - 1) /\ i \in 1..h /\ b[i] = Crlf
      BY <1>1 DEF HeaderEnds
    <3> QED BY <3>1, <2>1 DEF HeadersTo
  <2>4. HeaderEnds(b) \in SUBSET Int
    BY DEF HeaderEnds
  <2>5. HeaderEnd(b) = h
    BY <2>2, <2>3, <2>4, MinIs DEF HeaderEnd
  <2>6. {b[i].lengths : i \in 1..h} = {f[i].lengths : i \in 1..h}
    BY <2>1
  <2>7. DeclaredLengths(b) = ls
    BY <2>5, <2>6 DEF DeclaredLengths, HeadersTo
  <2> QED BY <2>2, <2>5, <2>7
<1> QED BY <1>2, <1>3

Complete(n) == [is |-> "complete", length |-> n]

LEMMA Results ==
  /\ \A n : Complete(n).is = "complete" /\ Complete(n).length = n
  /\ Incomplete.is # "complete" /\ Invalid.is # "complete" /\ Invalid # Incomplete
  /\ \A n : Complete(n) # Incomplete /\ Complete(n) # Invalid
<1>1. \A n : Complete(n).is = "complete" /\ Complete(n).length = n
  BY DEF Complete
<1>2. Incomplete.is = "incomplete" /\ Invalid.is = "invalid"
  BY DEF Incomplete, Invalid
<1> QED BY <1>1, <1>2

(* What is made of any first part of f, whose headers are those of m.      *)
LEMMA Frames ==
  ASSUME NEW b, NEW f, NEW h, NEW m \in Items, HeadersTo(f, h, m.lengths), Prefix(b, f)
  PROVE  /\ Len(b) < h => frame_sip_message(b) = Incomplete
         /\ Len(b) >= h /\ Malformed(m) => frame_sip_message(b) = Invalid
         /\ Len(b) >= h /\ ~Malformed(m) /\ Len(b) < h + m.body
            => frame_sip_message(b) = Incomplete
         /\ Len(b) >= h /\ ~Malformed(m) /\ Len(b) >= h + m.body
            => frame_sip_message(b) = Complete(h + m.body)
<1> DEFINE ls == m.lengths
           l == IF ls = {} THEN 0 ELSE CHOOSE x \in ls : TRUE
<1>1. /\ Len(b) < h => frame_sip_message(b) = Incomplete
      /\ Len(b) >= h => HeaderEnds(b) # {} /\ HeaderEnd(b) = h /\ DeclaredLengths(b) = ls
  BY HeadersFound
<1>2. ASSUME ~Malformed(m) PROVE l = m.body
  <2>1. ls = {m.body} \/ (ls = {} /\ m.body = 0)
    BY <1>2, ItemFacts
  <2> QED BY <2>1
<1>3. Malformed(m) <=> Cardinality(ls) > 1 \/ -1 \in ls
  BY DEF Malformed
<1> HIDE DEF ls
<1>4. ASSUME Len(b) >= h
      PROVE  frame_sip_message(b) =
               IF Malformed(m) THEN Invalid
               ELSE IF Len(b) >= h + l THEN Complete(h + l) ELSE Incomplete
  BY <1>1, <1>3, <1>4 DEF frame_sip_message, Complete
<1>5. m.body \in Nat /\ h \in Nat /\ Len(b) \in Nat
  BY ItemFacts DEF HeadersTo, Prefix
<1> HIDE DEF l
<1> QED BY <1>1, <1>2, <1>4, <1>5
------------------------------------------------------------------------------
(* What is cut out of the bytes at an item.                                *)

(* At item p the headers of item k end with symbol h of what is there, and *)
(* what follows its body is item q: a message alone, a message behind a    *)
(* lone CRLF, or two CRLFs.                                                *)
Unit(items, p, k, h, q) ==
  /\ {p, k} \subseteq 1..Len(items) /\ q = k + 1
  /\ \/ k = p /\ h = 2 /\ items[p] # Ping
     \/ k = p + 1 /\ h = 3 /\ items[p] = Ping /\ items[k] # Ping
     \/ k = p + 1 /\ h = 2 /\ items[p] = Ping /\ items[k] = Ping

OnlyPings(items, p) == \A i \in p..Len(items) : items[i] = Ping

LEMMA PingFacts ==
  /\ Ping.lengths = {} /\ Ping.body = 0 /\ Ping \in Items /\ ~Malformed(Ping)
<1>1. Ping.lengths = {} /\ Ping.body = 0 /\ Ping.kind = "ping"
  BY DEF Ping
<1>2. ~Malformed(Ping)
  BY <1>1, FS_EmptySet DEF Malformed
<1>3. Ping \in [kind: Kinds, lengths: SUBSET (Nat \cup {-1}), body: Nat]
  BY DEF Ping, Kinds
<1> QED BY <1>1, <1>2, <1>3 DEF Items

LEMMA BehindTwice ==
  ASSUME NEW f, NEW g, NEW e, NEW k \in Nat, NEW l \in Nat, Behind(f, g, k), Behind(g, e, l)
  PROVE  Behind(f, e, k + l)
<1>1. /\ f \in Seq(Symbols) /\ g \in Seq(Symbols) /\ e \in Seq(Symbols)
      /\ Len(f) = k + Len(g) /\ Len(g) = l + Len(e)
      /\ Len(e) \in Nat /\ Len(g) \in Nat
  BY DEF Behind
<1>2. ASSUME NEW i \in 1..Len(e) PROVE f[k + l + i] = e[i]
  <2>1. l + i \in 1..Len(g) /\ g[l + i] = e[i]
    BY <1>1 DEF Behind
  <2>2. f[k + (l + i)] = g[l + i]
    BY <2>1 DEF Behind
  <2>3. k + (l + i) = k + l + i
    BY <1>1
  <2> QED BY <2>1, <2>2, <2>3
<1>3. Len(f) = k + l + Len(e)
  BY <1>1
<1> QED BY <1>1, <1>2, <1>3 DEF Behind

LEMMA UnitShape ==
  ASSUME NEW items \in Seq(Items), NEW p, NEW k, NEW h, NEW q, Unit(items, p, k, h, q),
         NEW f, f = BytesFrom(items)[p]
  PROVE  /\ p \in 1..Len(items) /\ k \in 1..Len(items) /\ q \in 1..(Len(items) + 1)
         /\ items[k] \in Items /\ HeadersTo(f, h, items[k].lengths)
         /\ Behind(f, BytesFrom(items)[q], h + items[k].body)
         /\ f[1] = IF items[p] = Ping THEN Crlf ELSE Headers(p, items[p].lengths)
<1> DEFINE from == BytesFrom(items)
           m == items[k]
<1>1. /\ p \in 1..Len(items) /\ k \in 1..Len(items) /\ q = k + 1 /\ q \in 1..(Len(items) + 1)
      /\ m \in Items /\ p \in Nat /\ k \in Nat
  BY DEF Unit
<1>2. m.body \in Nat /\ m.lengths \in SUBSET Int
  BY <1>1, ItemFacts
<1>3. /\ f \in Seq(Symbols)
      /\ \A j \in 1..Len(items) : from[j + 1] \in Seq(Symbols)
  BY <1>1, FromSeq
<1>4. CASE k = p /\ h = 2 /\ items[p] # Ping
  <2>1. f[1] = Headers(p, m.lengths) /\ f[2] = Crlf /\ Behind(f, from[q], 2 + m.body)
    BY <1>1, <1>4, FromItem
  <2>2. 2 <= Len(f)
    BY <2>1, <1>2 DEF Behind
  <2>3. UNION {f[i].lengths : i \in 1..2} = m.lengths
    <3>1. f[1].lengths = m.lengths /\ f[2].lengths = {}
      BY <2>1, <1>1, <1>2, CrlfFacts
    <3>2. \A i \in 1..2 : i = 1 \/ i = 2
      OBVIOUS
    <3>3. 1 \in 1..2 /\ 2 \in 1..2
      OBVIOUS
    <3> QED BY <3>1, <3>2, <3>3
  <2>4. HeadersTo(f, 2, m.lengths)
    BY <2>1, <2>2, <2>3 DEF HeadersTo
  <2> QED BY <2>1, <2>4, <1>1, <1>4
<1>5. CASE k = p + 1 /\ items[p] = Ping
  <2> DEFINE g == from[k]
  <2>1. f[1] = Crlf /\ Behind(f, g, 1)
    BY <1>1, <1>5, FromItem
  <2>2. g \in Seq(Symbols)
    BY <1>1, <1>3, <1>5
  <2>3. CASE h = 3 /\ m # Ping
    <3>1. g[1] = Headers(k, m.lengths) /\ g[2] = Crlf /\ Behind(g, from[q], 2 + m.body)
      BY <1>1, <2>3, FromItem
    <3> HIDE DEF g
    <3>2. Len(g) \in Nat /\ 2 <= Len(g) /\ Len(f) = 1 + Len(g)
      <4>1. Len(g) = 2 + m.body + Len(from[q]) /\ Len(from[q]) \in Nat
        BY <3>1 DEF Behind
      <4>2. Len(f) = 1 + Len(g)
        BY <2>1 DEF Behind
      <4> QED BY <4>1, <4>2, <1>2
    <3>3. f[1 + 1] = g[1] /\ f[1 + 2] = g[2]
      <4>1. 1 \in 1..Len(g) /\ 2 \in 1..Len(g)
        BY <3>2
      <4> QED BY <4>1, <2>1 DEF Behind
    <3>4. f[2] = Headers(k, m.lengths) /\ f[3] = Crlf /\ 3 <= Len(f)
      BY <3>1, <3>2, <3>3
    <3>5. Behind(f, from[q], 3 + m.body)
      <4>1. 2 + m.body \in Nat /\ 1 + (2 + m.body) = 3 + m.body
        BY <1>2
      <4> QED BY <2>1, <3>1, <4>1, BehindTwice
    <3>6. UNION {f[i].lengths : i \in 1..3} = m.lengths
      <4>1. f[2].lengths = m.lengths /\ f[1].lengths = {} /\ f[3].lengths = {}
        BY <2>1, <3>4, <1>1, <1>2, CrlfFacts
      <4>2. \A i \in 1..3 : i = 1 \/ i = 2 \/ i = 3
        OBVIOUS
      <4>3. 2 \in 1..3
        OBVIOUS
      <4> QED BY <4>1, <4>2, <4>3
    <3>7. f[2] # Crlf
      <4>1. Headers(k, m.lengths) # Crlf
        BY <1>1, <1>2, CrlfFacts
      <4> QED BY <4>1, <3>4
    <3>8. HeadersTo(f, 3, m.lengths)
      BY <3>4, <3>6, <3>7 DEF HeadersTo
    <3> QED BY <2>1, <2>3, <3>5, <3>8, <1>1, <1>5
  <2>4. CASE h = 2 /\ m = Ping
    <3>1. g[1] = Crlf /\ Behind(g, from[q], 1)
      BY <1>1, <2>4, FromItem
    <3> HIDE DEF g
    <3>2. Len(g) \in Nat /\ 1 <= Len(g) /\ Len(f) = 1 + Len(g)
      <4>1. Len(g) = 1 + Len(from[q]) /\ Len(from[q]) \in Nat
        BY <3>1 DEF Behind
      <4>2. Len(f) = 1 + Len(g)
        BY <2>1 DEF Behind
      <4> QED BY <4>1, <4>2
    <3>3. f[1 + 1] = g[1]
      <4>1. 1 \in 1..Len(g)
        BY <3>2
      <4> QED BY <4>1, <2>1 DEF Behind
    <3>4. f[2] = Crlf /\ 2 <= Len(f)
      BY <3>1, <3>2, <3>3
    <3>5. Behind(f, from[q], 1 + 1)
      BY <2>1, <3>1, BehindTwice
    <3>6. m.lengths = {} /\ m.body = 0
      BY <2>4, PingFacts
    <3>7. UNION {f[i].lengths : i \in 1..2} = m.lengths
      <4>1. f[1].lengths = {} /\ f[2].lengths = {}
        BY <2>1, <3>4, CrlfFacts
      <4>2. \A i \in 1..2 : i = 1 \/ i = 2
        OBVIOUS
      <4> QED BY <4>1, <4>2, <3>6
    <3>8. HeadersTo(f, 2, m.lengths)
      BY <3>4, <3>7 DEF HeadersTo
    <3>9. 1 + 1 = 2 + m.body
      BY <3>6
    <3> QED BY <2>1, <2>4, <3>5, <3>8, <3>9, <1>1, <1>5
  <2> QED BY <2>3, <2>4, <1>5 DEF Unit
<1> QED BY <1>4, <1>5 DEF Unit

(* There is something to cut, or at most one CRLF is left.                 *)
LEMMA UnitOrEnd ==
  ASSUME NEW items \in Seq(Items), NEW p \in 1..(Len(items) + 1)
  PROVE  \/ \E k, h, q : Unit(items, p, k, h, q)
         \/ OnlyPings(items, p) /\ Len(BytesFrom(items)[p]) <= 1
<1>0. Len(items) \in Nat
  OBVIOUS
<1>1. CASE p = Len(items) + 1
  <2>1. OnlyPings(items, p)
    BY <1>0, <1>1 DEF OnlyPings
  <2>2. Len(BytesFrom(items)[p]) <= 1
    <3>1. BytesFrom(items)[p] = <<>>
      BY <1>1, FromSteps
    <3> QED BY <3>1
  <2> QED BY <2>1, <2>2
<1>2. CASE p \in 1..Len(items) /\ items[p] # Ping
  <2>1. Unit(items, p, p, 2, p + 1)
    BY <1>2 DEF Unit
  <2> QED BY <2>1
<1>3. CASE p \in 1..Len(items) /\ items[p] = Ping /\ p + 1 \in 1..Len(items)
  <2>1. Unit(items, p, p + 1, 3, p + 2) \/ Unit(items, p, p + 1, 2, p + 2)
    BY <1>3 DEF Unit
  <2> QED BY <2>1
<1>4. CASE p \in 1..Len(items) /\ items[p] = Ping /\ p + 1 \notin 1..Len(items)
  <2>1. p = Len(items)
    BY <1>0, <1>4
  <2>2. OnlyPings(items, p)
    BY <1>0, <1>4, <2>1 DEF OnlyPings
  <2>3. Behind(BytesFrom(items)[p], BytesFrom(items)[p + 1], 1)
    BY <1>4, FromItem
  <2>4. Len(BytesFrom(items)[p]) = 1
    <3>1. BytesFrom(items)[p + 1] = <<>>
      BY <2>1, FromSteps
    <3> QED BY <2>3, <3>1 DEF Behind
  <2> QED BY <2>2, <2>4
<1> QED BY <1>0, <1>1, <1>2, <1>3, <1>4
------------------------------------------------------------------------------
(* What is meant to be heard.                                              *)

LEMMA PingsFirst ==
  ASSUME NEW items
  PROVE  PingsBefore(items, 1) = 0
<1> DEFINE S == {0} \cup {j \in 1..(1 - 1) : IsMessage(items, j)}
<1>1. S = {0}
  OBVIOUS
<1> HIDE DEF S
<1>2. Max(S) = 0
  BY <1>1, MaxIs
<1> QED BY <1>2 DEF PingsBefore, S

LEMMA PingsNext ==
  ASSUME NEW items, NEW p \in Nat \ {0}
  PROVE  /\ PingsBefore(items, p) \in Nat
         /\ IsMessage(items, p) => PingsBefore(items, p + 1) = 0
         /\ ~IsMessage(items, p) => PingsBefore(items, p + 1) = PingsBefore(items, p) + 1
<1> DEFINE S(i) == {0} \cup {j \in 1..(i - 1) : IsMessage(items, j)}
<1>1. \A i \in Nat \ {0} : PingsBefore(items, i) = i - 1 - Max(S(i))
  BY DEF PingsBefore
<1>2. /\ S(p) \in SUBSET Int /\ S(p + 1) \in SUBSET Int /\ 0 \in S(p)
      /\ \A x \in S(p) : x \in 0..(p - 1)
      /\ \A x \in S(p + 1) : x \in 0..p
      /\ IsMessage(items, p) => p \in S(p + 1)
      /\ ~IsMessage(items, p) => S(p + 1) = S(p)
  <2>1. (p + 1) - 1 = p
    OBVIOUS
  <2>2. \A j \in 1..p : j = p \/ j \in 1..(p - 1)
    OBVIOUS
  <2> QED BY <2>1, <2>2
<1> HIDE DEF S
<1>3. Max(S(p)) \in 0..(p - 1)
  <2> DEFINE T == {k \in 0..p : p - k \in S(p)}
  <2>1. p \in T
    BY <1>2
  <2>2. PICK k \in T : \A y \in T : k <= y
    <3>1. T \in SUBSET Nat /\ T # {}
      BY <2>1
    <3> HIDE DEF T
    <3> QED BY <3>1, Least
  <2>3. \A x \in S(p) : p - k >= x
    <3> TAKE x \in S(p)
    <3>1. x \in 0..(p - 1) /\ p - (p - x) = x
      BY <1>2
    <3>2. p - x \in T /\ k \in 0..p
      BY <3>1
    <3> HIDE DEF T
    <3>3. k <= p - x
      BY <2>2, <3>2
    <3> QED BY <3>1, <3>2, <3>3
  <2>4. p - k \in S(p)
    BY <2>2
  <2>5. Max(S(p)) = p - k
    BY <2>3, <2>4, <1>2, MaxIs
  <2> QED BY <2>4, <2>5, <1>2
<1>4. PingsBefore(items, p) = p - 1 - Max(S(p)) /\ PingsBefore(items, p + 1) = p - Max(S(p + 1))
  <2>1. PingsBefore(items, p + 1) = (p + 1) - 1 - Max(S(p + 1))
    BY <1>1
  <2>2. (p + 1) - 1 = p
    OBVIOUS
  <2> QED BY <1>1, <2>1, <2>2
<1>5. ASSUME IsMessage(items, p) PROVE PingsBefore(items, p + 1) = 0
  <2>1. Max(S(p + 1)) = p
    BY <1>2, <1>5, MaxIs
  <2> QED BY <2>1, <1>4
<1>6. ASSUME ~IsMessage(items, p) PROVE PingsBefore(items, p + 1) = PingsBefore(items, p) + 1
  <2>1. Max(S(p + 1)) = Max(S(p))
    BY <1>2, <1>6
  <2> QED BY <2>1, <1>3, <1>4
<1> QED BY <1>3, <1>4, <1>5, <1>6

(* Framing has come to item p: what is before it is dealt with, nothing of *)
(* it was malformed, and no CRLF waits to be joined.                       *)
UpTo(items, p) ==
  /\ p \in 1..(Len(items) + 1)
  /\ PingsBefore(items, p) % 2 = 0
  /\ \A j \in 1..(p - 1) : ~Malformed(items[j])

MeantBefore(items, p) == {i \in Meant(items) : i < p}

(* A message with what is joined to it is long enough to be cut out.       *)
LEMMA UnitSize ==
  ASSUME NEW items \in Seq(Items), NEW p, NEW k, NEW h, NEW q, Unit(items, p, k, h, q),
         UpTo(items, p), items[k] # Ping
  PROVE  PingsBefore(items, k) % 2 = h - 2 /\ IsMessage(items, k)
<1>1. p \in Nat \ {0} /\ PingsBefore(items, p) % 2 = 0
  BY DEF Unit, UpTo
<1>2. CASE k = p /\ h = 2
  BY <1>1, <1>2 DEF IsMessage
<1>3. CASE k = p + 1 /\ h = 3 /\ items[p] = Ping
  <2>1. PingsBefore(items, p) \in Nat /\ PingsBefore(items, k) = PingsBefore(items, p) + 1
    BY <1>1, <1>3, PingsNext DEF IsMessage
  <2> QED BY <2>1, <1>1, <1>3 DEF IsMessage
<1> QED BY <1>2, <1>3 DEF Unit

(* What is cut out whole is heard if it starts with a message, and framing *)
(* has come to the next item.                                              *)
LEMMA UnitDone ==
  ASSUME NEW items \in Seq(Items), NEW p, NEW k, NEW h, NEW q, Unit(items, p, k, h, q),
         UpTo(items, p), ~Malformed(items[k])
  PROVE  /\ UpTo(items, q)
         /\ MeantBefore(items, q) =
              MeantBefore(items, p) \cup (IF items[p] = Ping THEN {} ELSE {p})
<1>1. /\ p \in 1..Len(items) /\ k \in 1..Len(items) /\ q = k + 1 /\ q \in 1..(Len(items) + 1)
      /\ p \in Nat \ {0} /\ k \in Nat \ {0} /\ k \in {p, p + 1}
      /\ PingsBefore(items, p) % 2 = 0 /\ PingsBefore(items, p) \in Nat
  BY PingsNext DEF Unit, UpTo
<1>2. \A j \in 1..(p - 1) : ~Malformed(items[j])
  BY DEF UpTo
<1>3. CASE k = p /\ items[p] # Ping
  <2>1. PingsBefore(items, q) = 0
    BY <1>1, <1>3, PingsNext DEF IsMessage
  <2>2. \A j \in 1..(q - 1) : ~Malformed(items[j])
    <3>1. \A j \in 1..(q - 1) : j = p \/ j \in 1..(p - 1)
      BY <1>1, <1>3
    <3> QED BY <3>1, <1>2, <1>3
  <2>3. UpTo(items, q)
    BY <2>1, <2>2, <1>1 DEF UpTo
  <2>4. p \in Meant(items)
    <3>1. DOMAIN items = 1..Len(items) /\ q - 1 = p
      BY <1>1, <1>3
    <3> QED BY <3>1, <2>2, <1>1, <1>3 DEF Meant, IsMessage, Lost
  <2>5. \A i \in Meant(items) : i < q <=> i < p \/ i = p
    BY <1>1, <1>3 DEF Meant
  <2> QED BY <2>3, <2>4, <2>5, <1>1, <1>3 DEF MeantBefore
<1>4. CASE k = p + 1 /\ items[p] = Ping
  <2>1. PingsBefore(items, k) = PingsBefore(items, p) + 1
    BY <1>1, <1>4, PingsNext DEF IsMessage
  <2>2. PingsBefore(items, k) % 2 = 1
    BY <2>1, <1>1
  <2>3. PingsBefore(items, q) % 2 = 0
    <3>1. CASE IsMessage(items, k)
      BY <3>1, <1>1, PingsNext
    <3>2. CASE ~IsMessage(items, k)
      <4>1. PingsBefore(items, q) = PingsBefore(items, p) + 2
        BY <3>2, <2>1, <1>1, PingsNext
      <4> QED BY <4>1, <1>1
    <3> QED BY <3>1, <3>2
  <2>4. \A j \in 1..(q - 1) : ~Malformed(items[j])
    <3>1. \A j \in 1..(q - 1) : j = k \/ j = p \/ j \in 1..(p - 1)
      BY <1>1, <1>4
    <3> QED BY <3>1, <1>2, <1>4, PingFacts
  <2>5. UpTo(items, q)
    BY <2>3, <2>4, <1>1 DEF UpTo
  <2>6. p \notin Meant(items) /\ k \notin Meant(items)
    BY <2>2, <1>4 DEF Meant, Lost, IsMessage
  <2>7. \A i \in Meant(items) : i < q <=> i < p \/ i = p \/ i = k
    BY <1>1, <1>4 DEF Meant
  <2> QED BY <2>5, <2>6, <2>7, <1>4 DEF MeantBefore
<1> QED BY <1>3, <1>4 DEF Unit

LEMMA UnitMalformed ==
  ASSUME NEW items \in Seq(Items), NEW p, NEW k, NEW h, NEW q, Unit(items, p, k, h, q),
         Malformed(items[k])
  PROVE  Meant(items) = MeantBefore(items, p)
<1>1. /\ p \in 1..Len(items) /\ k \in 1..Len(items) /\ p \in Nat \ {0}
      /\ k = p \/ (k = p + 1 /\ items[p] = Ping)
  BY DEF Unit
<1>2. ASSUME NEW i \in Meant(items) PROVE i < p
  <2>1. i \in Nat /\ i # k /\ ~(k \in 1..i) /\ (items[i] # Ping)
    BY <1>2 DEF Meant, IsMessage
  <2> QED BY <2>1, <1>1
<1> QED BY <1>2 DEF MeantBefore

LEMMA EndReached ==
  ASSUME NEW items \in Seq(Items), NEW p \in 1..(Len(items) + 1), OnlyPings(items, p)
  PROVE  Meant(items) = MeantBefore(items, p)
<1>1. ASSUME NEW i \in Meant(items) PROVE i < p
  <2>1. i \in 1..Len(items) /\ items[i] # Ping
    BY <1>1 DEF Meant, IsMessage
  <2> QED BY <2>1 DEF OnlyPings
<1> QED BY <1>1 DEF MeantBefore
------------------------------------------------------------------------------
(* What is to be said of one connection, and the steps that keep it.       *)

(* The buffer and what is on the way are the bytes f, all of them as long  *)
(* as the client has not gone away.                                        *)
Aligned(b, w, f, whole) ==
  /\ Prefix(b, f) /\ w \in Seq(Symbols)
  /\ Len(b) + Len(w) <= Len(f) /\ (whole => Len(b) + Len(w) = Len(f))
  /\ \A i \in 1..Len(w) : w[i] = f[Len(b) + i]

(* Framing has come to p, what is meant to be heard before p was heard,    *)
(* and what is left are the bytes from p on.                               *)
CameTo(items, cl, b, w, at, h, p) ==
  /\ UpTo(items, p) /\ Increasing(h) /\ Range(h) = MeantBefore(items, p)
  /\ at # "ended" => Aligned(b, w, BytesFrom(items)[p], cl = "open")

Caused(items, h) ==
  Range(h) = Meant(items) \/ \E i \in DOMAIN items : TooLong(items, i)

Sound(items, cl, b, w, at, h) ==
  /\ b \in Seq(Symbols) /\ w \in Seq(Symbols) /\ h \in Seq(Nat)
  /\ Len(b) <= BufferCap + ReadSize
  /\ at = "read" => Len(b) <= BufferCap /\ frame_sip_message(b) = Incomplete
  /\ \E p : CameTo(items, cl, b, w, at, h, p)
  /\ at = "ended" /\ cl = "open" => Caused(items, h)

(* What a first part of the bytes from p on is to framing: too little, a   *)
(* malformed message, or an item or two to take out.                       *)
Waits(items, p, b) ==
  /\ frame_sip_message(b) = Incomplete
  /\ \/ OnlyPings(items, p) /\ Len(b) <= 1
     \/ \E k, h, q : Unit(items, p, k, h, q) /\ Len(b) < h + items[k].body

Breaks(items, p, b) ==
  /\ frame_sip_message(b) = Invalid
  /\ \E k, h, q : Unit(items, p, k, h, q) /\ Malformed(items[k])

Cuts(items, p, b, k, h, q) ==
  /\ Unit(items, p, k, h, q) /\ ~Malformed(items[k])
  /\ h + items[k].body <= Len(b)
  /\ frame_sip_message(b) = Complete(h + items[k].body)

LEMMA Framing ==
  ASSUME NEW items \in Seq(Items), NEW p \in 1..(Len(items) + 1), NEW b,
         Prefix(b, BytesFrom(items)[p])
  PROVE  \/ Waits(items, p, b) \/ Breaks(items, p, b)
         \/ \E k, h, q : Cuts(items, p, b, k, h, q)
<1> DEFINE f == BytesFrom(items)[p]
<1>1. b \in Seq(Symbols) /\ Len(b) \in Nat /\ Len(b) <= Len(f)
  BY DEF Prefix
<1>2. CASE OnlyPings(items, p) /\ Len(f) <= 1
  <2>1. Len(b) <= 1
    <3>1. f \in Seq(Symbols)
      BY FromSeq
    <3> HIDE DEF f
    <3> QED BY <3>1, <1>1, <1>2
  <2>2. frame_sip_message(b) = Incomplete
    BY <1>1, <2>1, NoHeaders
  <2> QED BY <1>2, <2>1, <2>2 DEF Waits
<1>3. ASSUME NEW k, NEW h, NEW q, Unit(items, p, k, h, q)
      PROVE  \/ Waits(items, p, b) \/ Breaks(items, p, b) \/ Cuts(items, p, b, k, h, q)
  <2> DEFINE m == items[k]
  <2>0. m \in Items /\ HeadersTo(f, h, m.lengths)
    BY <1>3, UnitShape
  <2>1. m \in Items /\ HeadersTo(f, h, m.lengths) /\ h \in {2, 3}
    BY <2>0 DEF HeadersTo
  <2>2. m.body \in Nat
    BY <2>1, ItemFacts
  <2> HIDE DEF f, m
  <2>3. Prefix(b, f)
    BY DEF f
  <2>4. /\ Len(b) < h => frame_sip_message(b) = Incomplete
        /\ Len(b) >= h /\ Malformed(m) => frame_sip_message(b) = Invalid
        /\ Len(b) >= h /\ ~Malformed(m) /\ Len(b) < h + m.body
           => frame_sip_message(b) = Incomplete
        /\ Len(b) >= h /\ ~Malformed(m) /\ Len(b) >= h + m.body
           => frame_sip_message(b) = Complete(h + m.body)
    BY <2>1, <2>3, Frames
  <2>5. CASE frame_sip_message(b) = Incomplete /\ Len(b) < h + m.body
    BY <2>5, <1>3 DEF Waits, m
  <2>6. CASE frame_sip_message(b) = Invalid /\ Malformed(m)
    BY <2>6, <1>3 DEF Breaks, m
  <2>7. CASE /\ frame_sip_message(b) = Complete(h + m.body) /\ ~Malformed(m)
             /\ h + m.body <= Len(b)
    BY <2>7, <1>3 DEF Cuts, m
  <2> QED BY <2>1, <2>2, <2>4, <2>5, <2>6, <2>7, <1>1
<1> QED BY <1>2, <1>3, UnitOrEnd

(* r is what is left of b without its first n symbols.                     *)
Left(r, b, n) == r = SubSeq(b, n + 1, Len(b))

LEMMA AlignedDrops ==
  ASSUME NEW b, NEW w, NEW f, NEW g, NEW whole, NEW n \in Nat,
         Aligned(b, w, f, whole), Behind(f, g, n), n <= Len(b),
         NEW r, Left(r, b, n)
  PROVE  Aligned(r, w, g, whole) /\ r \in Seq(Symbols) /\ Len(r) = Len(b) - n
<1>1. /\ b \in Seq(Symbols) /\ w \in Seq(Symbols) /\ g \in Seq(Symbols)
      /\ Len(b) \in Nat /\ Len(w) \in Nat /\ Len(g) \in Nat /\ Len(f) = n + Len(g)
      /\ \A i \in 1..Len(b) : b[i] = f[i]
      /\ \A i \in 1..Len(w) : w[i] = f[Len(b) + i]
      /\ \A i \in 1..Len(g) : f[n + i] = g[i]
      /\ Len(b) + Len(w) <= Len(f) /\ (whole => Len(b) + Len(w) = Len(f))
  BY DEF Aligned, Behind, Prefix
<1>2. /\ r \in Seq(Symbols) /\ Len(r) = Len(b) - n
      /\ \A i \in 1..Len(r) : r[i] = b[n + i]
  BY <1>1 DEF Left
<1>3. Len(r) + Len(w) <= Len(g) /\ (whole => Len(r) + Len(w) = Len(g)) /\ Len(r) <= Len(g)
  BY <1>1, <1>2
<1>4. ASSUME NEW i \in 1..Len(r) PROVE r[i] = g[i]
  <2>1. n + i \in 1..Len(b) /\ i \in 1..Len(g)
    BY <1>1, <1>2, <1>3
  <2> QED BY <2>1, <1>1, <1>2
<1>5. ASSUME NEW i \in 1..Len(w) PROVE w[i] = g[Len(r) + i]
  <2>0. Len(r) \in Nat /\ Len(r) = Len(b) - n /\ Len(r) + Len(w) <= Len(g)
    BY <1>2, <1>3
  <2>9. Len(b) \in Nat /\ Len(w) \in Nat /\ Len(g) \in Nat
    BY <1>1
  <2>1. Len(r) + i \in 1..Len(g) /\ n + (Len(r) + i) = Len(b) + i
    BY <2>0, <2>9
  <2>2. f[n + (Len(r) + i)] = g[Len(r) + i]
    BY <2>1, <1>1
  <2> QED BY <2>1, <2>2, <1>1
<1>6. Prefix(r, g)
  BY <1>1, <1>2, <1>3, <1>4 DEF Prefix
<1> QED BY <1>1, <1>2, <1>3, <1>5, <1>6 DEF Aligned

LEMMA SoundInit ==
  ASSUME NEW items \in Seq(Items)
  PROVE  Sound(items, "open", <<>>, BytesOf(items), "read", <<>>)
<1> DEFINE w == BytesOf(items)
<1>1. w \in Seq(Symbols) /\ w = BytesFrom(items)[1]
  BY FromSeq DEF BytesOf
<1> HIDE DEF w
<1>2. Aligned(<<>>, w, w, TRUE)
  BY <1>1 DEF Aligned, Prefix
<1>3. UpTo(items, 1)
  BY PingsFirst DEF UpTo
<1>4. Increasing(<<>>) /\ Range(<<>>) = MeantBefore(items, 1)
  BY DEF Increasing, Range, MeantBefore, Meant
<1>5. frame_sip_message(<<>>) = Incomplete
  <2>1. <<>> \in Seq(Symbols) /\ \A i \in 2..Len(<<>>) : FALSE
    OBVIOUS
  <2> QED BY <2>1, NoHeaders
<1>6. CameTo(items, "open", <<>>, w, "read", <<>>, 1)
  BY <1>1, <1>2, <1>3, <1>4 DEF CameTo
<1> QED BY <1>1, <1>5, <1>6, SizeAssumption DEF Sound, w

(* The client goes away.                                                   *)
LEMMA SoundCloses ==
  ASSUME NEW items, NEW b, NEW w, NEW at, NEW h, Sound(items, "open", b, w, at, h),
         NEW n \in 0..Len(w), NEW v, v = SubSeq(w, 1, n)
  PROVE  Sound(items, "gone", b, v, at, h) /\ v \in Seq(Symbols)
<1>1. w \in Seq(Symbols) /\ Len(w) \in Nat
  BY DEF Sound
<1>2. v \in Seq(Symbols) /\ Len(v) = n /\ Len(v) <= Len(w) /\ \A i \in 1..Len(v) : v[i] = w[i]
  BY <1>1
<1>3. ASSUME NEW f, Aligned(b, w, f, TRUE) PROVE Aligned(b, v, f, FALSE)
  <2>1. Len(b) \in Nat /\ Len(v) \in Nat /\ Len(b) + Len(w) <= Len(f) /\ Len(b) + Len(w) = Len(f)
    BY <1>2, <1>3 DEF Aligned, Prefix
  <2>2. Len(b) + Len(v) <= Len(f)
    BY <2>1, <1>1, <1>2
  <2>3. \A i \in 1..Len(v) : i \in 1..Len(w)
    BY <2>1, <1>1, <1>2
  <2> QED BY <2>2, <2>3, <1>2, <1>3 DEF Aligned
<1>4. PICK p : CameTo(items, "open", b, w, at, h, p)
  BY DEF Sound
<1>5. CameTo(items, "gone", b, v, at, h, p)
  BY <1>3, <1>4 DEF CameTo
<1> QED BY <1>2, <1>5 DEF Sound

(* Bytes arrive.                                                           *)
LEMMA SoundReads ==
  ASSUME NEW items, NEW cl, NEW b, NEW w, NEW h, Sound(items, cl, b, w, "read", h),
         NEW n \in 1..ReadSize, n <= Len(w),
         NEW c, c = b \o SubSeq(w, 1, n), NEW v, v = SubSeq(w, n + 1, Len(w))
  PROVE  Sound(items, cl, c, v, "frame", h) /\ c \in Seq(Symbols) /\ v \in Seq(Symbols)
<1> DEFINE x == SubSeq(w, 1, n)
<1>1. /\ b \in Seq(Symbols) /\ w \in Seq(Symbols) /\ Len(b) \in Nat /\ Len(w) \in Nat
      /\ Len(b) <= BufferCap /\ n \in Nat
  BY SizeAssumption DEF Sound
<1>2. x \in Seq(Symbols) /\ Len(x) = n /\ \A i \in 1..Len(x) : x[i] = w[i]
  BY <1>1
<1>3. v \in Seq(Symbols) /\ Len(v) = Len(w) - n /\ \A i \in 1..Len(v) : v[i] = w[n + i]
  BY <1>1
<1> HIDE DEF x
<1>4. /\ c \in Seq(Symbols) /\ Len(c) = Len(b) + Len(x)
      /\ \A i \in 1..Len(b) : c[i] = b[i]
      /\ \A i \in 1..Len(x) : c[Len(b) + i] = x[i]
  <2>1. c = b \o x
    BY DEF x
  <2> QED BY <2>1, <1>1, <1>2, Concat
<1>5. ASSUME NEW f, NEW whole, Aligned(b, w, f, whole) PROVE Aligned(c, v, f, whole)
  <2>1. /\ \A i \in 1..Len(b) : b[i] = f[i]
        /\ \A i \in 1..Len(w) : w[i] = f[Len(b) + i]
        /\ Len(b) + Len(w) <= Len(f) /\ (whole => Len(b) + Len(w) = Len(f))
    BY <1>5 DEF Aligned, Prefix
  <2>0. Len(c) = Len(b) + n /\ Len(v) = Len(w) - n
    BY <1>2, <1>3, <1>4
  <2>7. /\ Len(c) + Len(v) = Len(b) + Len(w) /\ Len(c) \in Nat /\ Len(v) \in Nat
        /\ \A l \in Nat : Len(b) + Len(w) <= l => Len(c) <= l
    <3> DEFINE lb == Len(b)
               lw == Len(w)
               lc == Len(c)
               lv == Len(v)
    <3>1. lb \in Nat /\ lw \in Nat /\ n \in Nat /\ n <= lw /\ lc = lb + n /\ lv = lw - n
      BY <2>0, <1>1
    <3> HIDE DEF lb, lw, lc, lv
    <3>2. lc + lv = lb + lw /\ lc \in Nat /\ lv \in Nat /\ \A l \in Nat : lb + lw <= l => lc <= l
      BY <3>1
    <3> QED BY <3>2 DEF lb, lw, lc, lv
  <2>2. Len(c) = Len(b) + n /\ Len(c) + Len(v) = Len(b) + Len(w) /\ Len(c) \in Nat /\ Len(v) \in Nat
    BY <2>0, <2>7
  <2>3. ASSUME NEW i \in 1..Len(c) PROVE c[i] = f[i]
    <3>1. CASE i <= Len(b)
      <4>1. i \in 1..Len(b)
        BY <3>1, <1>1, <2>2
      <4> QED BY <4>1, <1>4, <2>1
    <3>2. CASE ~(i <= Len(b))
      <4>1. i - Len(b) \in 1..Len(x) /\ i - Len(b) \in 1..Len(w) /\ Len(b) + (i - Len(b)) = i
        BY <3>2, <1>1, <1>2, <2>2
      <4>2. c[Len(b) + (i - Len(b))] = w[i - Len(b)]
        BY <4>1, <1>2, <1>4
      <4>3. w[i - Len(b)] = f[Len(b) + (i - Len(b))]
        BY <4>1, <2>1
      <4> QED BY <4>1, <4>2, <4>3
    <3> QED BY <3>1, <3>2
  <2>4. ASSUME NEW i \in 1..Len(v) PROVE v[i] = f[Len(c) + i]
    <3>1. n + i \in 1..Len(w) /\ Len(b) + (n + i) = Len(c) + i
      BY <1>1, <1>3, <2>2
    <3>2. w[n + i] = f[Len(b) + (n + i)]
      BY <3>1, <2>1
    <3> QED BY <3>1, <3>2, <1>3
  <2>5. Len(c) <= Len(f)
    <3>1. f \in Seq(Symbols)
      BY <1>5 DEF Aligned, Prefix
    <3>2. Len(f) \in Nat
      BY <3>1
    <3> QED BY <2>1, <2>7, <3>2, Zenon
  <2>6. f \in Seq(Symbols)
    BY <1>5 DEF Aligned, Prefix
  <2> QED BY <2>1, <2>2, <2>3, <2>4, <2>5, <2>6, <1>3, <1>4 DEF Aligned, Prefix
<1>6. PICK p : CameTo(items, cl, b, w, "read", h, p)
  BY DEF Sound
<1>7. CameTo(items, cl, c, v, "frame", h, p)
  BY <1>5, <1>6 DEF CameTo
<1>8. Len(c) <= BufferCap + ReadSize
  BY <1>1, <1>2, <1>4, SizeAssumption
<1> QED BY <1>3, <1>4, <1>7, <1>8 DEF Sound

(* A task that has sent goes on; nothing changes for its connection.       *)
LEMMA SoundGoesOn ==
  ASSUME NEW items, NEW cl, NEW b, NEW w, NEW at, NEW h, Sound(items, cl, b, w, at, h),
         at # "ended", NEW to \in {"send", "frame"}
  PROVE  Sound(items, cl, b, w, to, h)
<1>1. PICK p : CameTo(items, cl, b, w, at, h, p)
  BY DEF Sound
<1>2. CameTo(items, cl, b, w, to, h, p)
  BY <1>1 DEF CameTo
<1> QED BY <1>2 DEF Sound

(* A connection ends, for a reason if the client is there.                 *)
LEMMA SoundEnds ==
  ASSUME NEW items, NEW cl, NEW b, NEW w, NEW at, NEW h, Sound(items, cl, b, w, at, h),
         cl = "open" => Caused(items, h)
  PROVE  Sound(items, cl, b, w, "ended", h)
<1>1. PICK p : CameTo(items, cl, b, w, at, h, p)
  BY DEF Sound
<1>2. CameTo(items, cl, b, w, "ended", h, p)
  BY <1>1 DEF CameTo
<1> QED BY <1>2 DEF Sound

(* Nothing more arrives: what the client said is all handled, or it is     *)
(* gone.                                                                   *)
LEMMA SoundReadEnds ==
  ASSUME NEW items \in Seq(Items), NEW cl, NEW b, NEW h,
         Sound(items, cl, b, <<>>, "read", h)
  PROVE  Sound(items, cl, b, <<>>, "ended", h)
<1>1. ASSUME cl = "open" PROVE Caused(items, h)
  <2>1. PICK p : CameTo(items, cl, b, <<>>, "read", h, p)
    BY DEF Sound
  <2> DEFINE f == BytesFrom(items)[p]
  <2>2. p \in 1..(Len(items) + 1) /\ Range(h) = MeantBefore(items, p)
    BY <2>1 DEF CameTo, UpTo
  <2>3. Aligned(b, <<>>, f, TRUE)
    BY <2>1, <1>1 DEF CameTo
  <2>4. frame_sip_message(b) = Incomplete /\ b \in Seq(Symbols)
    BY DEF Sound
  <2>5. Prefix(b, f) /\ Len(b) = Len(f)
    <3>1. Prefix(b, f) /\ Len(b) + Len(<<>>) = Len(f)
      BY <2>3 DEF Aligned
    <3>2. f \in Seq(Symbols)
      BY <3>1 DEF Prefix
    <3> HIDE DEF f
    <3> QED BY <3>1, <3>2, <2>4
  <2>6. Waits(items, p, b)
    <3>1. ~Breaks(items, p, b) /\ \A k, x, q : ~Cuts(items, p, b, k, x, q)
      BY <2>4, Results DEF Breaks, Cuts
    <3> QED BY <3>1, <2>2, <2>5, Framing
  <2>7. OnlyPings(items, p)
    <3> SUFFICES ASSUME NEW k, NEW x, NEW q, Unit(items, p, k, x, q),
                        Len(b) < x + items[k].body
                 PROVE  FALSE
      BY <2>6 DEF Waits
    <3>1. /\ items[k] \in Items /\ HeadersTo(f, x, items[k].lengths)
          /\ Behind(f, BytesFrom(items)[q], x + items[k].body)
      BY UnitShape
    <3>2. items[k].body \in Nat /\ x \in Nat
      BY <3>1, ItemFacts DEF HeadersTo
    <3> DEFINE g == BytesFrom(items)[q]
               lg == Len(g)
               lb == Len(b)
               body == items[k].body
    <3>3. lb = x + body + lg
      BY <3>1, <2>5 DEF Behind
    <3>4. lg \in Nat /\ body \in Nat /\ lb < x + body
      BY <3>1, <3>2 DEF Behind
    <3> HIDE DEF lg, lb, body
    <3> QED BY <3>2, <3>3, <3>4
  <2> QED BY <2>2, <2>7, EndReached DEF Caused
<1> QED BY <1>1, SoundEnds

(* There is not enough: the task reads on, or has read more than the cap.  *)
LEMMA SoundNothing ==
  ASSUME NEW items \in Seq(Items), NEW cl, NEW b, NEW w, NEW h,
         Sound(items, cl, b, w, "frame", h), frame_sip_message(b) = Incomplete
  PROVE  /\ Len(b) > BufferCap => Sound(items, cl, b, w, "ended", h)
         /\ ~(Len(b) > BufferCap) => Sound(items, cl, b, w, "read", h)
<1>1. PICK p : CameTo(items, cl, b, w, "frame", h, p)
  BY DEF Sound
<1>2. p \in 1..(Len(items) + 1) /\ UpTo(items, p) /\ Prefix(b, BytesFrom(items)[p])
  BY <1>1 DEF CameTo, UpTo, Aligned
<1>3. BufferCap \in Nat \ {0} /\ Len(b) \in Nat
  BY SizeAssumption DEF Sound
<1>4. ASSUME Len(b) > BufferCap PROVE Sound(items, cl, b, w, "ended", h)
  <2>1. Waits(items, p, b)
    <3>1. ~Breaks(items, p, b) /\ \A k, x, q : ~Cuts(items, p, b, k, x, q)
      BY Results DEF Breaks, Cuts
    <3> QED BY <3>1, <1>2, Framing
  <2>2. PICK k, x, q : Unit(items, p, k, x, q) /\ Len(b) < x + items[k].body
    <3>1. ~(Len(b) <= 1)
      BY <1>3, <1>4
    <3> QED BY <2>1, <3>1 DEF Waits
  <2>3. k \in DOMAIN items /\ items[k] \in Items /\ x \in {2, 3} /\ k \in 1..Len(items)
    BY <2>2 DEF Unit
  <2>4. items[k] # Ping
    <3> SUFFICES ASSUME items[k] = Ping PROVE FALSE
      OBVIOUS
    <3>1. x = 2 /\ items[k].body = 0
      BY <2>2, PingFacts DEF Unit
    <3>2. Len(b) < 2 + 0
      BY <2>2, <3>1
    <3> QED BY <3>2, <1>3, <1>4
  <2>5. PingsBefore(items, k) % 2 = x - 2 /\ IsMessage(items, k)
    BY <2>2, <2>4, <1>2, UnitSize
  <2>6. TooLong(items, k)
    <3> DEFINE body == items[k].body
               odd == PingsBefore(items, k) % 2
               lb == Len(b)
    <3>1. body \in Nat /\ odd = x - 2 /\ lb < x + body /\ lb > BufferCap /\ lb \in Nat
      BY <2>2, <2>3, <2>5, <1>3, <1>4, ItemFacts
    <3>2. 2 + body + odd > BufferCap
      <4> HIDE DEF body, odd, lb
      <4> QED BY <3>1, <2>3, <1>3
    <3> QED BY <3>2, <2>5 DEF TooLong
  <2> QED BY <2>3, <2>6, SoundEnds DEF Caused
<1>5. ASSUME ~(Len(b) > BufferCap) PROVE Sound(items, cl, b, w, "read", h)
  <2>1. Len(b) <= BufferCap
    BY <1>3, <1>5
  <2>2. CameTo(items, cl, b, w, "read", h, p)
    BY <1>1 DEF CameTo
  <2> QED BY <2>1, <2>2 DEF Sound
<1> QED BY <1>4, <1>5

(* A malformed message ends the connection: nothing behind it is meant to  *)
(* be heard.                                                               *)
LEMMA SoundRefuses ==
  ASSUME NEW items \in Seq(Items), NEW cl, NEW b, NEW w, NEW h,
         Sound(items, cl, b, w, "frame", h), frame_sip_message(b) = Invalid
  PROVE  Sound(items, cl, b, w, "ended", h)
<1>1. PICK p : CameTo(items, cl, b, w, "frame", h, p)
  BY DEF Sound
<1>2. /\ p \in 1..(Len(items) + 1) /\ Prefix(b, BytesFrom(items)[p])
      /\ Range(h) = MeantBefore(items, p)
  BY <1>1 DEF CameTo, UpTo, Aligned
<1>3. Breaks(items, p, b)
  <2>1. ~Waits(items, p, b) /\ \A k, x, q : ~Cuts(items, p, b, k, x, q)
    BY Results DEF Waits, Cuts
  <2> QED BY <2>1, <1>2, Framing
<1>4. PICK k, x, q : Unit(items, p, k, x, q) /\ Malformed(items[k])
  BY <1>3 DEF Breaks
<1>5. Caused(items, h)
  BY <1>2, <1>4, UnitMalformed DEF Caused
<1> QED BY <1>5, SoundEnds

(* What is left when the unit at p was cut out, and what it started with.  *)
CutOff(items, cl, b, w, p, q, r) ==
  /\ r \in Seq(Symbols) /\ Len(r) <= Len(b)
  /\ Aligned(r, w, BytesFrom(items)[q], cl = "open")
  /\ p \in 1..Len(items) /\ items[p] \in Items
  /\ b[1] = IF items[p] = Ping THEN Crlf ELSE Headers(p, items[p].lengths)
  /\ UpTo(items, q)
  /\ MeantBefore(items, q) =
       MeantBefore(items, p) \cup (IF items[p] = Ping THEN {} ELSE {p})

LEMMA CutsMove ==
  ASSUME NEW items \in Seq(Items), NEW cl, NEW b, NEW w, NEW hd, NEW p,
         CameTo(items, cl, b, w, "frame", hd, p),
         NEW k, NEW h, NEW q, Cuts(items, p, b, k, h, q),
         NEW r, Left(r, b, frame_sip_message(b).length)
  PROVE  CutOff(items, cl, b, w, p, q, r)
<1> DEFINE from == BytesFrom(items)[p]
           rest == BytesFrom(items)[q]
           size == h + items[k].body
           there == cl = "open"
<1>1. /\ Unit(items, p, k, h, q) /\ ~Malformed(items[k]) /\ size <= Len(b)
      /\ frame_sip_message(b) = Complete(size)
  BY DEF Cuts
<1>2. /\ p \in 1..Len(items) /\ items[k] \in Items /\ HeadersTo(from, h, items[k].lengths)
      /\ Behind(from, rest, size)
      /\ from[1] = IF items[p] = Ping THEN Crlf ELSE Headers(p, items[p].lengths)
  BY <1>1, UnitShape
<1>3. UpTo(items, p) /\ Aligned(b, w, from, there)
  BY DEF CameTo
<1>4. size \in Nat /\ size >= 1
  <2>1. h \in {2, 3} /\ items[k].body \in Nat
    BY <1>2, ItemFacts DEF HeadersTo
  <2> QED BY <2>1
<1>5. Left(r, b, size)
  BY <1>1, Results
<1>6. b \in Seq(Symbols) /\ Len(b) \in Nat /\ \A i \in 1..Len(b) : b[i] = from[i]
  BY <1>3 DEF Aligned, Prefix
<1> HIDE DEF from, rest, size, there
<1>7. Aligned(r, w, rest, there) /\ r \in Seq(Symbols) /\ Len(r) = Len(b) - size
  <2>1. Aligned(b, w, from, there) /\ Behind(from, rest, size) /\ size <= Len(b) /\ size \in Nat
    BY <1>1, <1>2, <1>3, <1>4
  <2> QED BY <2>1, <1>5, AlignedDrops
<1>8. b[1] = from[1]
  <2>1. 1 \in 1..Len(b)
    BY <1>1, <1>4, <1>6
  <2> QED BY <2>1, <1>6
<1>9. Len(r) <= Len(b)
  <2> DEFINE lr == Len(r)
             lb == Len(b)
  <2>1. lr = lb - size /\ size \in Nat /\ lb \in Nat
    BY <1>4, <1>5, <1>6, <1>7
  <2> HIDE DEF lr, lb
  <2>2. lr <= lb
    BY <2>1, <1>4
  <2> QED BY <2>2 DEF lr, lb
<1>10. /\ UpTo(items, q)
       /\ MeantBefore(items, q) =
            MeantBefore(items, p) \cup (IF items[p] = Ping THEN {} ELSE {p})
  BY <1>1, <1>3, UnitDone
<1>11. items[p] \in Items
  BY <1>2
<1> QED BY <1>2, <1>7, <1>8, <1>9, <1>10, <1>11 DEF from, rest, there, CutOff

LEMMA CutsThere ==
  ASSUME NEW items \in Seq(Items), NEW cl, NEW b, NEW w, NEW hd,
         Sound(items, cl, b, w, "frame", hd), frame_sip_message(b).is = "complete"
  PROVE  \E p, k, h, q : CameTo(items, cl, b, w, "frame", hd, p) /\ Cuts(items, p, b, k, h, q)
<1>1. PICK p : CameTo(items, cl, b, w, "frame", hd, p)
  BY DEF Sound
<1>2. p \in 1..(Len(items) + 1) /\ Prefix(b, BytesFrom(items)[p])
  BY <1>1 DEF CameTo, UpTo, Aligned
<1>3. ~Waits(items, p, b) /\ ~Breaks(items, p, b)
  BY Results DEF Waits, Breaks
<1> QED BY <1>1, <1>2, <1>3, Framing

(* A blank message is taken out: two CRLFs, or one before a message.       *)
LEMMA SoundIgnores ==
  ASSUME NEW items \in Seq(Items), NEW cl, NEW b, NEW w, NEW hd,
         Sound(items, cl, b, w, "frame", hd), frame_sip_message(b).is = "complete",
         b[1] = Crlf,
         NEW r, Left(r, b, frame_sip_message(b).length)
  PROVE  Sound(items, cl, r, w, "frame", hd) /\ r \in Seq(Symbols)
<1>1. PICK p, k, h, q :
        CameTo(items, cl, b, w, "frame", hd, p) /\ Cuts(items, p, b, k, h, q)
  BY CutsThere
<1>2. /\ r \in Seq(Symbols) /\ Len(r) <= Len(b)
      /\ Aligned(r, w, BytesFrom(items)[q], cl = "open")
      /\ p \in 1..Len(items) /\ items[p] \in Items
      /\ b[1] = IF items[p] = Ping THEN Crlf ELSE Headers(p, items[p].lengths)
      /\ UpTo(items, q)
      /\ MeantBefore(items, q) =
           MeantBefore(items, p) \cup (IF items[p] = Ping THEN {} ELSE {p})
  <2>1. CutOff(items, cl, b, w, p, q, r)
    BY <1>1, CutsMove
  <2> QED BY <2>1 DEF CutOff
<1>3. items[p] = Ping
  <2>1. p \in Nat /\ items[p].lengths \in SUBSET Int
    BY <1>2, ItemFacts
  <2>2. Headers(p, items[p].lengths) # Crlf
    BY <2>1, CrlfFacts
  <2> QED BY <2>2, <1>2
<1>4. CameTo(items, cl, r, w, "frame", hd, q)
  BY <1>1, <1>2, <1>3 DEF CameTo
<1>5. Len(r) <= BufferCap + ReadSize /\ w \in Seq(Symbols) /\ hd \in Seq(Nat)
  <2>1. Len(b) <= BufferCap + ReadSize /\ b \in Seq(Symbols) /\ w \in Seq(Symbols) /\ hd \in Seq(Nat)
    BY DEF Sound
  <2> DEFINE lr == Len(r)
             lb == Len(b)
  <2>2. lr <= lb /\ lr \in Nat /\ lb \in Nat /\ lb <= BufferCap + ReadSize
    BY <2>1, <1>2
  <2> HIDE DEF lr, lb
  <2>3. lr <= BufferCap + ReadSize
    BY <2>2, SizeAssumption
  <2> QED BY <2>1, <2>3 DEF lr
<1> QED BY <1>2, <1>4, <1>5 DEF Sound

LEMMA IncreasingMore ==
  ASSUME NEW h \in Seq(Nat), NEW p \in Nat, Increasing(h), \A i \in Range(h) : i < p,
         NEW g, g = Append(h, p)
  PROVE  g \in Seq(Nat) /\ Increasing(g) /\ Range(g) = Range(h) \cup {p}
<1>1. /\ g \in Seq(Nat) /\ Len(g) = Len(h) + 1 /\ Len(h) \in Nat
      /\ g[Len(h) + 1] = p /\ \A i \in 1..Len(h) : g[i] = h[i]
  OBVIOUS
<1>2. DOMAIN g = 1..(Len(h) + 1) /\ DOMAIN h = 1..Len(h)
  BY <1>1
<1>3. Range(g) = Range(h) \cup {p}
  BY <1>1, <1>2 DEF Range
<1>4. ASSUME NEW i \in DOMAIN g, NEW j \in DOMAIN g, i < j PROVE g[i] < g[j]
  <2>1. i \in 1..Len(h)
    BY <1>1, <1>2, <1>4
  <2>2. g[i] = h[i] /\ h[i] \in Range(h)
    BY <2>1, <1>1, <1>2 DEF Range
  <2>3. CASE j \in 1..Len(h)
    BY <2>1, <2>2, <2>3, <1>1, <1>2, <1>4 DEF Increasing
  <2>4. CASE j = Len(h) + 1
    BY <2>2, <2>4, <1>1
  <2> QED BY <2>3, <2>4, <1>1, <1>2
<1> QED BY <1>1, <1>3, <1>4 DEF Increasing

HandledNext(items, cl, r, w, to, g, i) ==
  /\ Sound(items, cl, r, w, to, g) /\ r \in Seq(Symbols) /\ g \in Seq(Nat)
  /\ i \in 1..Len(items) /\ items[i].kind \in Kinds \ {"ping"}

(* A message is taken out and handled: the next one that was meant.        *)
LEMMA SoundHandles ==
  ASSUME NEW items \in Seq(Items), NEW cl, NEW b, NEW w, NEW hd,
         Sound(items, cl, b, w, "frame", hd), frame_sip_message(b).is = "complete",
         b[1] # Crlf,
         NEW r, Left(r, b, frame_sip_message(b).length),
         NEW to \in {"send", "frame"}, NEW g, g = Append(hd, b[1].of)
  PROVE  HandledNext(items, cl, r, w, to, g, b[1].of)
<1>1. PICK p, k, h, q :
        CameTo(items, cl, b, w, "frame", hd, p) /\ Cuts(items, p, b, k, h, q)
  BY CutsThere
<1>2. /\ r \in Seq(Symbols) /\ Len(r) <= Len(b)
      /\ Aligned(r, w, BytesFrom(items)[q], cl = "open")
      /\ p \in 1..Len(items) /\ items[p] \in Items
      /\ b[1] = IF items[p] = Ping THEN Crlf ELSE Headers(p, items[p].lengths)
      /\ UpTo(items, q)
      /\ MeantBefore(items, q) =
           MeantBefore(items, p) \cup (IF items[p] = Ping THEN {} ELSE {p})
  <2>1. CutOff(items, cl, b, w, p, q, r)
    BY <1>1, CutsMove
  <2> QED BY <2>1 DEF CutOff
<1>3. items[p] # Ping /\ b[1].of = p /\ p \in Nat
  <2>1. p \in Nat /\ items[p].lengths \in SUBSET Int
    BY <1>2, ItemFacts
  <2>2. Headers(p, items[p].lengths).of = p
    BY <2>1, CrlfFacts
  <2> QED BY <2>1, <2>2, <1>2
<1>4. hd \in Seq(Nat) /\ Increasing(hd) /\ Range(hd) = MeantBefore(items, p)
  BY <1>1 DEF Sound, CameTo
<1>5. g \in Seq(Nat) /\ Increasing(g) /\ Range(g) = Range(hd) \cup {p}
  <2>1. \A i \in Range(hd) : i < p
    BY <1>4 DEF MeantBefore
  <2> QED BY <2>1, <1>3, <1>4, IncreasingMore
<1>6. CameTo(items, cl, r, w, to, g, q)
  BY <1>1, <1>2, <1>3, <1>4, <1>5 DEF CameTo
<1>7. Len(r) <= BufferCap + ReadSize /\ w \in Seq(Symbols)
  <2>1. Len(b) <= BufferCap + ReadSize /\ b \in Seq(Symbols) /\ w \in Seq(Symbols)
    BY DEF Sound
  <2> DEFINE lr == Len(r)
             lb == Len(b)
  <2>2. lr <= lb /\ lr \in Nat /\ lb \in Nat /\ lb <= BufferCap + ReadSize
    BY <2>1, <1>2
  <2> HIDE DEF lr, lb
  <2>3. lr <= BufferCap + ReadSize
    BY <2>2, SizeAssumption
  <2> QED BY <2>1, <2>3 DEF lr
<1>8. Sound(items, cl, r, w, to, g)
  BY <1>2, <1>5, <1>6, <1>7 DEF Sound
<1>9. items[p].kind \in Kinds \ {"ping"}
  BY <1>2, <1>3, ItemFacts
<1> QED BY <1>2, <1>3, <1>5, <1>8, <1>9 DEF HandledNext
------------------------------------------------------------------------------
(* The invariant.                                                          *)

ReaderStates ==
  [at: {"read", "frame", "send", "ended"}, todo: Seq(Clients), registers: BOOLEAN]

Kept ==
  /\ backlog \in [Clients -> Nat] /\ delivering \in [Clients -> Nat]
  /\ \A c \in Clients : backlog[c] + delivering[c] <= Backlog[c]

Connected ==
  /\ said \in [Clients -> Seq(Items)] /\ client \in [Clients -> {"open", "gone"}]
  /\ wire \in [Clients -> Seq(Symbols)] /\ buffer \in [Clients -> Seq(Symbols)]
  /\ reader \in [Clients -> ReaderStates] /\ heard \in [Clients -> Seq(Nat)]

Queued ==
  /\ chan \in [Clients -> 0..ChannelSize]
  /\ writer \in [Clients -> {"waits", "writes", "gone"}]
  /\ udp \in Seq(Clients)

SoundAt(c) == Sound(said[c], client[c], buffer[c], wire[c], reader[c].at, heard[c])

AllSound == \A c \in Clients : SoundAt(c)

IInv == Connected /\ Queued /\ Kept /\ AllSound

(* Nothing happens to the connections of other clients.                    *)
OthersStay(c) ==
  \A d \in Clients \ {c} :
    /\ client'[d] = client[d] /\ buffer'[d] = buffer[d] /\ wire'[d] = wire[d]
    /\ reader'[d].at = reader[d].at /\ heard'[d] = heard[d]

LEMMA OneMoves ==
  ASSUME AllSound, NEW c \in Clients, said' = said, OthersStay(c),
         Sound(said[c], client'[c], buffer'[c], wire'[c], reader'[c].at, heard'[c])
  PROVE  AllSound'
<1> SUFFICES ASSUME NEW d \in Clients
             PROVE  Sound(said'[d], client'[d], buffer'[d], wire'[d], reader'[d].at, heard'[d])
  BY DEF AllSound, SoundAt
<1>1. CASE d = c
  BY <1>1
<1>2. CASE d # c
  <2>1. Sound(said[d], client[d], buffer[d], wire[d], reader[d].at, heard[d])
    BY DEF AllSound, SoundAt
  <2>2. /\ client'[d] = client[d] /\ buffer'[d] = buffer[d] /\ wire'[d] = wire[d]
        /\ reader'[d].at = reader[d].at /\ heard'[d] = heard[d]
    BY <1>2 DEF OthersStay
  <2> QED BY <2>1, <2>2
<1> QED BY <1>1, <1>2

LEMMA NoneMove ==
  ASSUME AllSound, said' = said, client' = client, buffer' = buffer, wire' = wire,
         reader' = reader, heard' = heard
  PROVE  AllSound'
BY DEF AllSound, SoundAt

LEMMA GoesFacts ==
  ASSUME Connected, NEW c \in Clients, NEW at \in {"read", "frame", "ended"}, Goes(c, at)
  PROVE  /\ reader' \in [Clients -> ReaderStates] /\ reader'[c].at = at
         /\ \A d \in Clients \ {c} : reader'[d] = reader[d]
<1> DEFINE s == [Idle EXCEPT !.at = at]
<1>1. Idle \in ReaderStates
  <2>1. <<>> \in Seq(Clients)
    OBVIOUS
  <2> QED BY <2>1 DEF Idle, ReaderStates
<1>3. s \in ReaderStates /\ s.at = at
  BY <1>1 DEF ReaderStates
<1>2. reader' = [reader EXCEPT ![c] = s] /\ reader \in [Clients -> ReaderStates]
  BY DEF Goes, Connected
<1> HIDE DEF s
<1> QED BY <1>3, <1>2

LEMMA LeavesFacts ==
  ASSUME Connected, Queued, NEW c \in Clients, Leaves(c)
  PROVE  /\ reader' \in [Clients -> ReaderStates] /\ reader'[c].at = "ended"
         /\ \A d \in Clients \ {c} : reader'[d] = reader[d]
         /\ chan' \in [Clients -> 0..ChannelSize]
         /\ writer' \in [Clients -> {"waits", "writes", "gone"}]
<1>1. Goes(c, "ended")
  BY DEF Leaves
<1>2. 0 \in 0..ChannelSize
  BY SizeAssumption
<1>3. /\ chan' \in [Clients -> 0..ChannelSize]
      /\ writer' \in [Clients -> {"waits", "writes", "gone"}]
  BY <1>2 DEF Leaves, Queued
<1> QED BY <1>1, <1>3, GoesFacts

LEMMA GoesOnFacts ==
  ASSUME Connected, Kept, NEW c \in Clients, NEW todo \in Seq(Clients),
         NEW registers \in BOOLEAN, GoesOn(c, todo, registers)
  PROVE  /\ reader' \in [Clients -> ReaderStates] /\ reader'[c].at \in {"send", "frame"}
         /\ \A d \in Clients \ {c} : reader'[d] = reader[d]
         /\ Kept'
<1>1. CASE todo # <<>>
  <2> DEFINE s == [at |-> "send", todo |-> todo, registers |-> registers]
  <2>1. s \in ReaderStates /\ s.at = "send"
    BY DEF ReaderStates
  <2>2. /\ reader' = [reader EXCEPT ![c] = s] /\ reader \in [Clients -> ReaderStates]
        /\ UNCHANGED <<backlog, delivering>>
    BY <1>1 DEF GoesOn, Connected
  <2> HIDE DEF s
  <2>3. Kept'
    BY <2>2 DEF Kept
  <2> QED BY <2>1, <2>2, <2>3
<1>2. CASE todo = <<>>
  <2>1. /\ Goes(c, "frame")
        /\ delivering' = [delivering EXCEPT ![c] = @ + IF registers THEN backlog[c] ELSE 0]
        /\ backlog' = [backlog EXCEPT ![c] = IF registers THEN 0 ELSE @]
    BY <1>2 DEF GoesOn
  <2>2. /\ backlog \in [Clients -> Nat] /\ delivering \in [Clients -> Nat]
        /\ \A d \in Clients : backlog[d] + delivering[d] <= Backlog[d]
    BY DEF Kept
  <2>3. CASE registers
    <3>1. /\ delivering' = [delivering EXCEPT ![c] = delivering[c] + backlog[c]]
          /\ backlog' = [backlog EXCEPT ![c] = 0]
      BY <2>1, <2>3
    <3>2. delivering' \in [Clients -> Nat] /\ backlog' \in [Clients -> Nat]
      BY <2>2, <3>1
    <3>3. \A d \in Clients : backlog'[d] + delivering'[d] = backlog[d] + delivering[d]
      BY <2>2, <3>1
    <3> QED BY <2>1, <2>2, <3>2, <3>3, GoesFacts DEF Kept
  <2>4. CASE ~registers
    <3>1. /\ delivering' = [delivering EXCEPT ![c] = delivering[c] + 0]
          /\ backlog' = [backlog EXCEPT ![c] = backlog[c]]
      BY <2>1, <2>4
    <3>2. delivering' = delivering /\ backlog' = backlog
      BY <2>2, <3>1
    <3>3. Kept'
      BY <3>2 DEF Kept
    <3> QED BY <2>1, <3>3, GoesFacts
  <2> QED BY <2>3, <2>4
<1> QED BY <1>1, <1>2

(* Nothing is sent into a full channel.                                    *)
LEMMA SendFacts ==
  ASSUME chan \in [Clients -> 0..ChannelSize], NEW d \in Clients, Send(d)
  PROVE  chan' \in [Clients -> 0..ChannelSize]
<1>1. CASE UNCHANGED chan
  BY <1>1
<1>2. CASE chan[d] < ChannelSize /\ chan' = [chan EXCEPT ![d] = @ + 1]
  <2>1. chan[d] + 1 \in 0..ChannelSize
    BY <1>2, SizeAssumption
  <2> QED BY <1>2, <2>1
<1> QED BY <1>1, <1>2 DEF Send, HasRoom

LEMMA RouteTypes ==
  ASSUME NEW c \in Clients \cup {Udp}, NEW kind \in Kinds \ {"ping"},
         NEW todo \in Routes(c, kind)
  PROVE  todo \in Seq(Clients)
<1> DEFINE others == {<<>>} \cup {<<d>> : d \in Clients \ {c}}
           own == IF c = Udp THEN <<>> ELSE <<c>>
<1>1. own \in Seq(Clients)
  OBVIOUS
<1>2. \A o \in others : o \in Seq(Clients)
  <2>1. \A d \in Clients : <<d>> \in Seq(Clients)
    OBVIOUS
  <2>2. <<>> \in Seq(Clients)
    OBVIOUS
  <2>3. \A o \in others : o = <<>> \/ \E d \in Clients : o = <<d>>
    BY Zenon
  <2> HIDE DEF others
  <2> QED BY <2>1, <2>2, <2>3, Zenon
<1>3. \/ todo = own \/ todo \in others \/ (\E o \in others : todo = o \o own)
      \/ \E o \in others : todo = o \o own \o own
  BY DEF Routes, Kinds
<1> HIDE DEF own, others
<1>4. \A o \in Seq(Clients) : o \o own \in Seq(Clients)
  BY <1>1
<1> QED BY <1>1, <1>2, <1>3, <1>4
------------------------------------------------------------------------------
(* The actions.                                                            *)

LEMMA InitSound ==
  ASSUME Init
  PROVE  IInv
<1>1. said \in [Clients -> Seq(Items)]
  BY ScriptsAssumption DEF Init
<1>2. ASSUME NEW c \in Clients
      PROVE  BytesOf(said[c]) \in Seq(Symbols)
  <2>1. said[c] \in Seq(Items)
    BY <1>1
  <2>2. Sound(said[c], "open", <<>>, BytesOf(said[c]), "read", <<>>)
    BY <2>1, SoundInit
  <2> QED BY <2>2 DEF Sound
<1>3. Idle \in ReaderStates /\ Idle.at = "read"
  <2>1. <<>> \in Seq(Clients)
    OBVIOUS
  <2> QED BY <2>1 DEF Idle, ReaderStates
<1>4. Connected
  <2>1. wire = [c \in Clients |-> BytesOf(said[c])]
    BY DEF Init
  <2>2. wire \in [Clients -> Seq(Symbols)]
    BY <2>1, <1>2
  <2>3. client \in [Clients -> {"open", "gone"}] /\ reader \in [Clients -> ReaderStates]
    BY <1>3 DEF Init
  <2>4. <<>> \in Seq(Symbols) /\ <<>> \in Seq(Nat)
    OBVIOUS
  <2>5. buffer \in [Clients -> Seq(Symbols)] /\ heard \in [Clients -> Seq(Nat)]
    BY <2>4 DEF Init
  <2> QED BY <1>1, <2>2, <2>3, <2>5 DEF Connected
<1>5. Queued
  <2>1. 0 \in 0..ChannelSize
    BY SizeAssumption
  <2>2. udp \in Seq(Clients)
    BY DEF Init
  <2> QED BY <2>1, <2>2 DEF Init, Queued
<1>6. Kept
  BY ClientsAssumption DEF Init, Kept
<1>7. ASSUME NEW c \in Clients PROVE SoundAt(c)
  <2>1. /\ client[c] = "open" /\ buffer[c] = <<>> /\ wire[c] = BytesOf(said[c])
        /\ reader[c].at = "read" /\ heard[c] = <<>>
    BY <1>3 DEF Init
  <2>2. Sound(said[c], "open", <<>>, BytesOf(said[c]), "read", <<>>)
    BY <1>1, SoundInit
  <2> QED BY <2>1, <2>2 DEF SoundAt
<1> QED BY <1>4, <1>5, <1>6, <1>7 DEF IInv, AllSound

LEMMA ClosesSound ==
  ASSUME IInv, NEW c \in Clients, Closes(c)
  PROVE  IInv'
<1>1. PICK n \in 0..Len(wire[c]) : wire' = [wire EXCEPT ![c] = SubSeq(wire[c], 1, n)]
  BY DEF Closes
<1>2. /\ client[c] = "open" /\ client' = [client EXCEPT ![c] = "gone"]
      /\ UNCHANGED <<said, buffer, reader, chan, writer, backlog, delivering, udp, heard>>
  BY DEF Closes
<1>3. Connected /\ Queued /\ Kept /\ AllSound
  BY DEF IInv
<1> DEFINE v == SubSeq(wire[c], 1, n)
<1>4. Sound(said[c], "open", buffer[c], wire[c], reader[c].at, heard[c])
  BY <1>2, <1>3 DEF AllSound, SoundAt
<1>5. v = SubSeq(wire[c], 1, n)
  OBVIOUS
<1> HIDE DEF v
<1>6. Sound(said[c], "gone", buffer[c], v, reader[c].at, heard[c]) /\ v \in Seq(Symbols)
  BY <1>4, <1>5, SoundCloses
<1>7. wire' = [wire EXCEPT ![c] = v]
  BY <1>1, <1>5
<1>8. client'[c] = "gone" /\ wire'[c] = v
  BY <1>2, <1>3, <1>7 DEF Connected
<1>9. OthersStay(c)
  BY <1>2, <1>3, <1>7 DEF OthersStay, Connected
<1>10. AllSound'
  <2>1. Sound(said[c], client'[c], buffer'[c], wire'[c], reader'[c].at, heard'[c])
    BY <1>2, <1>6, <1>8
  <2> QED BY <2>1, <1>2, <1>3, <1>9, OneMoves
<1>11. Connected'
  BY <1>2, <1>3, <1>6, <1>7 DEF Connected
<1>12. Queued' /\ Kept'
  BY <1>2, <1>3 DEF Queued, Kept
<1> QED BY <1>10, <1>11, <1>12 DEF IInv

LEMMA ReadsSound ==
  ASSUME IInv, NEW c \in Clients, Reads(c)
  PROVE  IInv'
<1>1. PICK n \in 1..ReadSize :
        /\ n <= Len(wire[c])
        /\ buffer' = [buffer EXCEPT ![c] = buffer[c] \o SubSeq(wire[c], 1, n)]
        /\ wire' = [wire EXCEPT ![c] = SubSeq(wire[c], n + 1, Len(wire[c]))]
  BY DEF Reads
<1>2. /\ reader[c].at = "read" /\ Goes(c, "frame")
      /\ UNCHANGED <<said, client, chan, writer, backlog, delivering, udp, heard>>
  BY DEF Reads
<1>3. Connected /\ Queued /\ Kept /\ AllSound
  BY DEF IInv
<1> DEFINE b == buffer[c] \o SubSeq(wire[c], 1, n)
           v == SubSeq(wire[c], n + 1, Len(wire[c]))
<1>4. Sound(said[c], client[c], buffer[c], wire[c], "read", heard[c])
  BY <1>2, <1>3 DEF AllSound, SoundAt
<1>5. b = buffer[c] \o SubSeq(wire[c], 1, n) /\ v = SubSeq(wire[c], n + 1, Len(wire[c]))
  OBVIOUS
<1> HIDE DEF b, v
<1>6. /\ Sound(said[c], client[c], b, v, "frame", heard[c])
      /\ b \in Seq(Symbols) /\ v \in Seq(Symbols)
  BY <1>1, <1>4, <1>5, SoundReads
<1>7. buffer' = [buffer EXCEPT ![c] = b] /\ wire' = [wire EXCEPT ![c] = v]
  BY <1>1, <1>5
<1>8. buffer'[c] = b /\ wire'[c] = v
  BY <1>3, <1>7 DEF Connected
<1>9. /\ reader' \in [Clients -> ReaderStates] /\ reader'[c].at = "frame"
      /\ \A d \in Clients \ {c} : reader'[d] = reader[d]
  BY <1>2, <1>3, GoesFacts
<1>10. OthersStay(c)
  BY <1>2, <1>3, <1>7, <1>9 DEF OthersStay, Connected
<1>11. AllSound'
  <2>1. Sound(said[c], client'[c], buffer'[c], wire'[c], reader'[c].at, heard'[c])
    BY <1>2, <1>6, <1>8, <1>9
  <2> QED BY <2>1, <1>2, <1>3, <1>10, OneMoves
<1>12. Connected'
  BY <1>2, <1>3, <1>6, <1>7, <1>9 DEF Connected
<1>13. Queued' /\ Kept'
  BY <1>2, <1>3 DEF Queued, Kept
<1> QED BY <1>11, <1>12, <1>13 DEF IInv

(* Only the task of the connection moves, and what it has heard stays.     *)
LEMMA ReaderMoves ==
  ASSUME IInv, NEW c \in Clients,
         UNCHANGED <<said, client, wire, buffer, heard>>,
         reader' \in [Clients -> ReaderStates],
         \A d \in Clients \ {c} : reader'[d] = reader[d],
         Sound(said[c], client[c], buffer[c], wire[c], reader'[c].at, heard[c])
  PROVE  Connected' /\ AllSound'
<1>1. Connected /\ AllSound
  BY DEF IInv
<1>2. OthersStay(c)
  BY DEF OthersStay
<1>3. AllSound'
  BY <1>1, <1>2, OneMoves
<1> QED BY <1>1, <1>3 DEF Connected

LEMMA ReadEndsSound ==
  ASSUME IInv, NEW c \in Clients, ReadEnds(c)
  PROVE  IInv'
<1>1. /\ reader[c].at = "read" /\ wire[c] = <<>> /\ Leaves(c)
      /\ UNCHANGED <<said, client, wire, buffer, backlog, delivering, udp, heard>>
  BY DEF ReadEnds
<1>2. Connected /\ Queued /\ Kept /\ AllSound
  BY DEF IInv
<1>3. said[c] \in Seq(Items) /\ Sound(said[c], client[c], buffer[c], <<>>, "read", heard[c])
  BY <1>1, <1>2 DEF AllSound, SoundAt, Connected
<1>4. Sound(said[c], client[c], buffer[c], wire[c], "ended", heard[c])
  BY <1>1, <1>3, SoundReadEnds
<1>5. /\ reader' \in [Clients -> ReaderStates] /\ reader'[c].at = "ended"
      /\ \A d \in Clients \ {c} : reader'[d] = reader[d]
      /\ chan' \in [Clients -> 0..ChannelSize]
      /\ writer' \in [Clients -> {"waits", "writes", "gone"}]
  BY <1>1, <1>2, LeavesFacts
<1>6. Connected' /\ AllSound'
  BY <1>1, <1>4, <1>5, ReaderMoves
<1>7. Queued' /\ Kept'
  BY <1>1, <1>2, <1>5 DEF Queued, Kept
<1> QED BY <1>6, <1>7 DEF IInv

LEMMA IgnoresSound ==
  ASSUME IInv, NEW c \in Clients, Ignores(c)
  PROVE  IInv'
<1>1. /\ reader[c].at = "frame" /\ frame_sip_message(buffer[c]).is = "complete"
      /\ buffer[c][1] = Crlf
      /\ UNCHANGED <<said, client, wire, reader, chan, writer, backlog, delivering, udp, heard>>
  BY DEF Ignores, Framed
<1> DEFINE b == SubSeq(buffer[c], frame_sip_message(buffer[c]).length + 1, Len(buffer[c]))
<1>2. buffer' = [buffer EXCEPT ![c] = b]
  BY DEF Ignores, Drains, Framed
<1>3. Connected /\ Queued /\ Kept /\ AllSound
  BY DEF IInv
<1>4. /\ said[c] \in Seq(Items)
      /\ Sound(said[c], client[c], buffer[c], wire[c], "frame", heard[c])
  BY <1>1, <1>3 DEF AllSound, SoundAt, Connected
<1>5. Left(b, buffer[c], frame_sip_message(buffer[c]).length)
  BY DEF Left
<1> HIDE DEF b
<1>6. Sound(said[c], client[c], b, wire[c], "frame", heard[c]) /\ b \in Seq(Symbols)
  BY <1>1, <1>4, <1>5, SoundIgnores
<1>7. buffer'[c] = b
  BY <1>2, <1>3 DEF Connected
<1>8. OthersStay(c)
  BY <1>1, <1>2, <1>3 DEF OthersStay, Connected
<1>9. AllSound'
  <2>1. Sound(said[c], client'[c], buffer'[c], wire'[c], reader'[c].at, heard'[c])
    BY <1>1, <1>6, <1>7
  <2> QED BY <2>1, <1>1, <1>3, <1>8, OneMoves
<1>10. Connected'
  BY <1>1, <1>2, <1>3, <1>6 DEF Connected
<1>11. Queued' /\ Kept'
  BY <1>1, <1>3 DEF Queued, Kept
<1> QED BY <1>9, <1>10, <1>11 DEF IInv

LEMMA HandlesSound ==
  ASSUME IInv, NEW c \in Clients, Handles(c)
  PROVE  IInv'
<1>1. /\ reader[c].at = "frame" /\ frame_sip_message(buffer[c]).is = "complete"
      /\ buffer[c][1] # Crlf
      /\ UNCHANGED <<said, client, wire, chan, writer, udp>>
  BY DEF Handles, Framed
<1> DEFINE b == SubSeq(buffer[c], frame_sip_message(buffer[c]).length + 1, Len(buffer[c]))
           i == buffer[c][1].of
           g == Append(heard[c], i)
<1>2. buffer' = [buffer EXCEPT ![c] = b] /\ heard' = [heard EXCEPT ![c] = g]
  BY DEF Handles, Drains, Framed
<1>3. Connected /\ Queued /\ Kept /\ AllSound
  BY DEF IInv
<1>4. /\ said[c] \in Seq(Items)
      /\ Sound(said[c], client[c], buffer[c], wire[c], "frame", heard[c])
  BY <1>1, <1>3 DEF AllSound, SoundAt, Connected
<1>5. /\ Left(b, buffer[c], frame_sip_message(buffer[c]).length)
      /\ g = Append(heard[c], buffer[c][1].of)
  BY DEF Left
<1>6. PICK todo \in Routes(c, KindOf(c, i)), accepted \in BOOLEAN :
        GoesOn(c, todo, accepted /\ KindOf(c, i) = "register")
  BY DEF Handles
<1>7. PICK registers \in BOOLEAN : GoesOn(c, todo, registers)
  BY <1>6
<1> HIDE DEF b, g
<1>8. /\ \A to \in {"send", "frame"} : Sound(said[c], client[c], b, wire[c], to, g)
      /\ b \in Seq(Symbols) /\ g \in Seq(Nat)
      /\ i \in 1..Len(said[c]) /\ said[c][i].kind \in Kinds \ {"ping"}
  <2>1. ASSUME NEW to \in {"send", "frame"}
        PROVE  /\ Sound(said[c], client[c], b, wire[c], to, g)
               /\ b \in Seq(Symbols) /\ g \in Seq(Nat)
               /\ i \in 1..Len(said[c]) /\ said[c][i].kind \in Kinds \ {"ping"}
    <3>1. HandledNext(said[c], client[c], b, wire[c], to, g, buffer[c][1].of)
      BY <1>1, <1>4, <1>5, SoundHandles
    <3> QED BY <3>1 DEF HandledNext
  <2> QED BY <2>1
<1>9. todo \in Seq(Clients)
  <2>1. KindOf(c, i) \in Kinds \ {"ping"}
    <3>1. i # 0
      BY <1>8
    <3> QED BY <1>8, <3>1 DEF KindOf
  <2>2. c \in Clients \cup {Udp}
    OBVIOUS
  <2> HIDE DEF i
  <2> QED BY <1>6, <2>1, <2>2, RouteTypes
<1>10. /\ reader' \in [Clients -> ReaderStates] /\ reader'[c].at \in {"send", "frame"}
       /\ \A d \in Clients \ {c} : reader'[d] = reader[d]
       /\ Kept'
  BY <1>3, <1>7, <1>9, GoesOnFacts
<1> HIDE DEF i
<1>11. buffer'[c] = b /\ heard'[c] = g
  BY <1>2, <1>3 DEF Connected
<1>12. OthersStay(c)
  BY <1>1, <1>2, <1>3, <1>10 DEF OthersStay, Connected
<1>13. AllSound'
  <2>1. Sound(said[c], client'[c], buffer'[c], wire'[c], reader'[c].at, heard'[c])
    BY <1>1, <1>8, <1>10, <1>11
  <2> QED BY <2>1, <1>1, <1>3, <1>12, OneMoves
<1>14. Connected'
  BY <1>1, <1>2, <1>3, <1>8, <1>10 DEF Connected
<1>15. Queued'
  BY <1>1, <1>3 DEF Queued
<1> QED BY <1>10, <1>13, <1>14, <1>15 DEF IInv

LEMMA FramesNothingSound ==
  ASSUME IInv, NEW c \in Clients, FramesNothing(c)
  PROVE  IInv'
<1>1. /\ reader[c].at = "frame" /\ frame_sip_message(buffer[c]) = Incomplete
      /\ UNCHANGED <<said, client, wire, buffer, backlog, delivering, udp, heard>>
  BY DEF FramesNothing, Framed
<1>2. Connected /\ Queued /\ Kept /\ AllSound
  BY DEF IInv
<1>3. said[c] \in Seq(Items) /\ Sound(said[c], client[c], buffer[c], wire[c], "frame", heard[c])
  BY <1>1, <1>2 DEF AllSound, SoundAt, Connected
<1>4. /\ Len(buffer[c]) > BufferCap =>
           Sound(said[c], client[c], buffer[c], wire[c], "ended", heard[c])
      /\ ~(Len(buffer[c]) > BufferCap) =>
           Sound(said[c], client[c], buffer[c], wire[c], "read", heard[c])
  BY <1>1, <1>3, SoundNothing
<1>5. CASE Len(buffer[c]) > BufferCap
  <2>1. Leaves(c)
    BY <1>5 DEF FramesNothing
  <2>2. /\ reader' \in [Clients -> ReaderStates] /\ reader'[c].at = "ended"
        /\ \A d \in Clients \ {c} : reader'[d] = reader[d]
        /\ chan' \in [Clients -> 0..ChannelSize]
        /\ writer' \in [Clients -> {"waits", "writes", "gone"}]
    BY <2>1, <1>2, LeavesFacts
  <2>3. Connected' /\ AllSound'
    BY <1>1, <1>4, <1>5, <2>2, ReaderMoves
  <2>4. Queued' /\ Kept'
    BY <1>1, <1>2, <2>2 DEF Queued, Kept
  <2> QED BY <2>3, <2>4 DEF IInv
<1>6. CASE ~(Len(buffer[c]) > BufferCap)
  <2>1. Goes(c, "read") /\ UNCHANGED <<chan, writer>>
    BY <1>6 DEF FramesNothing
  <2>2. /\ reader' \in [Clients -> ReaderStates] /\ reader'[c].at = "read"
        /\ \A d \in Clients \ {c} : reader'[d] = reader[d]
    BY <2>1, <1>2, GoesFacts
  <2>3. Connected' /\ AllSound'
    BY <1>1, <1>4, <1>6, <2>2, ReaderMoves
  <2>4. Queued' /\ Kept'
    BY <1>1, <1>2, <2>1 DEF Queued, Kept
  <2> QED BY <2>3, <2>4 DEF IInv
<1> QED BY <1>5, <1>6

LEMMA RefusesSound ==
  ASSUME IInv, NEW c \in Clients, Refuses(c)
  PROVE  IInv'
<1>1. /\ reader[c].at = "frame" /\ frame_sip_message(buffer[c]) = Invalid /\ Leaves(c)
      /\ UNCHANGED <<said, client, wire, buffer, backlog, delivering, udp, heard>>
  BY DEF Refuses, Framed
<1>2. Connected /\ Queued /\ Kept /\ AllSound
  BY DEF IInv
<1>3. said[c] \in Seq(Items) /\ Sound(said[c], client[c], buffer[c], wire[c], "frame", heard[c])
  BY <1>1, <1>2 DEF AllSound, SoundAt, Connected
<1>4. Sound(said[c], client[c], buffer[c], wire[c], "ended", heard[c])
  BY <1>1, <1>3, SoundRefuses
<1>5. /\ reader' \in [Clients -> ReaderStates] /\ reader'[c].at = "ended"
      /\ \A d \in Clients \ {c} : reader'[d] = reader[d]
      /\ chan' \in [Clients -> 0..ChannelSize]
      /\ writer' \in [Clients -> {"waits", "writes", "gone"}]
  BY <1>1, <1>2, LeavesFacts
<1>6. Connected' /\ AllSound'
  BY <1>1, <1>4, <1>5, ReaderMoves
<1>7. Queued' /\ Kept'
  BY <1>1, <1>2, <1>5 DEF Queued, Kept
<1> QED BY <1>6, <1>7 DEF IInv

LEMMA SendsSound ==
  ASSUME IInv, NEW c \in Clients, Sends(c)
  PROVE  IInv'
<1> DEFINE todo == reader[c].todo
           registers == reader[c].registers
<1>1. /\ reader[c].at = "send" /\ todo # <<>> /\ Send(Head(todo))
      /\ GoesOn(c, Tail(todo), registers)
      /\ UNCHANGED <<said, client, wire, buffer, writer, udp, heard>>
  BY DEF Sends
<1>2. Connected /\ Queued /\ Kept /\ AllSound
  BY DEF IInv
<1>3. todo \in Seq(Clients) /\ registers \in BOOLEAN
  BY <1>2 DEF Connected, ReaderStates
<1>4. Sound(said[c], client[c], buffer[c], wire[c], "send", heard[c])
  BY <1>1, <1>2 DEF AllSound, SoundAt
<1> HIDE DEF todo, registers
<1>5. Head(todo) \in Clients /\ Tail(todo) \in Seq(Clients)
  BY <1>1, <1>3
<1>6. /\ reader' \in [Clients -> ReaderStates] /\ reader'[c].at \in {"send", "frame"}
      /\ \A d \in Clients \ {c} : reader'[d] = reader[d]
      /\ Kept'
  BY <1>1, <1>2, <1>3, <1>5, GoesOnFacts
<1>7. chan' \in [Clients -> 0..ChannelSize]
  BY <1>1, <1>2, <1>5, SendFacts DEF Queued
<1>8. Sound(said[c], client[c], buffer[c], wire[c], reader'[c].at, heard[c])
  BY <1>4, <1>6, SoundGoesOn
<1>9. Connected' /\ AllSound'
  BY <1>1, <1>6, <1>8, ReaderMoves
<1>10. Queued'
  BY <1>1, <1>2, <1>7 DEF Queued
<1> QED BY <1>6, <1>9, <1>10 DEF IInv

(* Steps that concern no reader.                                           *)
LEMMA ReadersStay ==
  ASSUME IInv, UNCHANGED <<said, client, wire, buffer, reader, heard>>
  PROVE  Connected' /\ AllSound'
<1>1. Connected /\ AllSound
  BY DEF IInv
<1> QED BY <1>1, NoneMove DEF Connected

LEMMA TakesSound ==
  ASSUME IInv, NEW c \in Clients, Takes(c)
  PROVE  IInv'
<1>1. /\ chan[c] > 0 /\ chan' = [chan EXCEPT ![c] = @ - 1]
      /\ writer' = [writer EXCEPT ![c] = "writes"]
      /\ UNCHANGED <<said, client, wire, buffer, reader, backlog, delivering, udp, heard>>
  BY DEF Takes
<1>2. Queued /\ Kept
  BY DEF IInv
<1>3. chan[c] - 1 \in 0..ChannelSize
  BY <1>1, <1>2, SizeAssumption DEF Queued
<1>4. Queued' /\ Kept'
  BY <1>1, <1>2, <1>3 DEF Queued, Kept
<1>5. Connected' /\ AllSound'
  BY <1>1, ReadersStay
<1> QED BY <1>4, <1>5 DEF IInv

LEMMA WritesSound ==
  ASSUME IInv, NEW c \in Clients, Writes(c)
  PROVE  IInv'
<1>1. UNCHANGED <<said, client, wire, buffer, reader, backlog, delivering, udp, heard>>
  BY DEF Writes
<1>2. Queued /\ Kept
  BY DEF IInv
<1>3. 0 \in 0..ChannelSize
  BY SizeAssumption
<1>4. ASSUME writer' = [writer EXCEPT ![c] = "waits"] /\ UNCHANGED chan PROVE Queued'
  BY <1>1, <1>2, <1>4 DEF Queued
<1>5. ASSUME writer' = [writer EXCEPT ![c] = "gone"] /\ chan' = [chan EXCEPT ![c] = 0]
      PROVE  Queued'
  BY <1>1, <1>2, <1>3, <1>5 DEF Queued
<1>6. Queued'
  BY <1>4, <1>5 DEF Writes
<1>7. Kept'
  BY <1>1, <1>2 DEF Kept
<1>8. Connected' /\ AllSound'
  BY <1>1, ReadersStay
<1> QED BY <1>6, <1>7, <1>8 DEF IInv

LEMMA DeliversSound ==
  ASSUME IInv, NEW c \in Clients, Delivers(c)
  PROVE  IInv'
<1>1. /\ delivering[c] > 0 /\ Send(c)
      /\ UNCHANGED <<said, client, wire, buffer, reader, writer, udp, heard>>
  BY DEF Delivers
<1>2. Queued /\ Kept
  BY DEF IInv
<1>3. /\ backlog \in [Clients -> Nat] /\ delivering \in [Clients -> Nat]
      /\ \A d \in Clients : backlog[d] + delivering[d] <= Backlog[d]
  BY <1>2 DEF Kept
<1>4. ASSUME writer[c] = "gone" PROVE Kept'
  <2>1. /\ delivering' = [delivering EXCEPT ![c] = 0]
        /\ backlog' = [backlog EXCEPT ![c] = backlog[c] + delivering[c]]
    BY <1>4 DEF Delivers
  <2>2. delivering' \in [Clients -> Nat] /\ backlog' \in [Clients -> Nat]
    BY <1>3, <2>1
  <2>3. \A d \in Clients : backlog'[d] + delivering'[d] = backlog[d] + delivering[d]
    BY <1>3, <2>1
  <2> QED BY <1>3, <2>2, <2>3 DEF Kept
<1>5. ASSUME writer[c] # "gone" PROVE Kept'
  <2>1. delivering' = [delivering EXCEPT ![c] = delivering[c] - 1] /\ UNCHANGED backlog
    BY <1>5 DEF Delivers
  <2>2. delivering' \in [Clients -> Nat] /\ backlog' \in [Clients -> Nat]
    BY <1>1, <1>3, <2>1
  <2>3. ASSUME NEW d \in Clients
        PROVE  backlog'[d] = backlog[d] /\ delivering'[d] <= delivering[d] /\ Backlog[d] \in Nat
    <3>1. backlog'[d] = backlog[d] /\ Backlog[d] \in Nat
      BY <2>1, ClientsAssumption
    <3>2. delivering'[d] = delivering[d] \/ delivering'[d] = delivering[d] - 1
      BY <1>3, <2>1
    <3>3. delivering[d] \in Nat /\ delivering'[d] \in Nat
      BY <1>3, <2>2
    <3> QED BY <3>1, <3>2, <3>3
  <2>4. \A d \in Clients : backlog'[d] + delivering'[d] <= Backlog[d]
    BY <1>3, <2>2, <2>3
  <2> QED BY <2>2, <2>4 DEF Kept
<1>6. Queued'
  <2>1. chan' \in [Clients -> 0..ChannelSize]
    BY <1>1, <1>2, SendFacts DEF Queued
  <2> QED BY <1>1, <1>2, <2>1 DEF Queued
<1>7. Connected' /\ AllSound'
  BY <1>1, ReadersStay
<1> QED BY <1>4, <1>5, <1>6, <1>7 DEF IInv

LEMMA ReceivesSound ==
  ASSUME IInv, Receives
  PROVE  IInv'
<1>1. UNCHANGED <<said, client, wire, buffer, reader, chan, writer, backlog, delivering, heard>>
  BY DEF Receives
<1>2. PICK kind \in Kinds \ {"ping"} : udp' \in Routes(Udp, kind)
  BY DEF Receives
<1>3. Queued /\ Kept
  BY DEF IInv
<1>4. udp' \in Seq(Clients)
  <2>1. Udp \in Clients \cup {Udp}
    OBVIOUS
  <2> QED BY <1>2, <2>1, RouteTypes
<1>5. Queued' /\ Kept'
  BY <1>1, <1>3, <1>4 DEF Queued, Kept
<1>6. Connected' /\ AllSound'
  BY <1>1, ReadersStay
<1> QED BY <1>5, <1>6 DEF IInv

LEMMA ForwardsSound ==
  ASSUME IInv, Forwards
  PROVE  IInv'
<1>1. /\ udp # <<>> /\ Send(Head(udp)) /\ udp' = Tail(udp)
      /\ UNCHANGED <<said, client, wire, buffer, reader, writer, backlog, delivering, heard>>
  BY DEF Forwards
<1>2. Queued /\ Kept
  BY DEF IInv
<1>3. Head(udp) \in Clients /\ udp' \in Seq(Clients)
  <2>1. udp \in Seq(Clients)
    BY <1>2 DEF Queued
  <2> QED BY <1>1, <2>1
<1>4. chan' \in [Clients -> 0..ChannelSize]
  BY <1>1, <1>2, <1>3, SendFacts DEF Queued
<1>5. Queued' /\ Kept'
  BY <1>1, <1>2, <1>3, <1>4 DEF Queued, Kept
<1>6. Connected' /\ AllSound'
  BY <1>1, ReadersStay
<1> QED BY <1>5, <1>6 DEF IInv

LEMMA StepSound ==
  IInv /\ [Next]_vars => IInv'
<1> SUFFICES ASSUME IInv, [Next]_vars PROVE IInv'
  OBVIOUS
<1>1. CASE UNCHANGED vars
  <2>1. UNCHANGED <<said, client, wire, buffer, reader, heard>>
    BY <1>1 DEF vars
  <2>2. Queued' /\ Kept'
    BY <1>1 DEF IInv, Queued, Kept, vars
  <2> QED BY <2>1, <2>2, ReadersStay DEF IInv
<1>2. ASSUME NEW c \in Clients, ReaderStep(c) PROVE IInv'
  BY <1>2, IgnoresSound, HandlesSound, FramesNothingSound, RefusesSound DEF ReaderStep
<1>3. ASSUME NEW c \in Clients, WriterStep(c) PROVE IInv'
  BY <1>3, TakesSound, WritesSound DEF WriterStep
<1>4. ASSUME NEW c \in Clients,
             Closes(c) \/ Reads(c) \/ ReadEnds(c) \/ Sends(c) \/ Delivers(c)
      PROVE  IInv'
  BY <1>4, ClosesSound, ReadsSound, ReadEndsSound, SendsSound, DeliversSound
<1> QED BY <1>1, <1>2, <1>3, <1>4, ReceivesSound, ForwardsSound DEF Next

LEMMA Invariance ==
  Spec => []IInv
<1>1. Init => IInv
  BY InitSound
<1>2. IInv /\ [Next]_vars => IInv'
  BY StepSound
<1> QED BY <1>1, <1>2, PTL DEF Spec
------------------------------------------------------------------------------
(* Theorems.                                                               *)

(* However many clients there are and whatever they say, no send waits     *)
(* behind a full channel and puts one more into it (transport.rs), no      *)
(* buffer grows beyond the cap and one read (handle_connection), and no    *)
(* kept message is counted twice when deliveries start and put back.       *)
THEOREM TypeCorrect ==
  Spec => []TypeOK
<1>1. ASSUME IInv PROVE TypeOK
  <2>1. Connected /\ Queued /\ Kept /\ AllSound
    BY <1>1 DEF IInv
  <2>2. ASSUME NEW c \in Clients
        PROVE  /\ Len(buffer[c]) <= BufferCap + ReadSize
               /\ reader[c].at \in {"read", "frame", "send", "ended"}
               /\ Range(reader[c].todo) \subseteq Clients
    <3>1. Len(buffer[c]) <= BufferCap + ReadSize
      BY <2>1 DEF AllSound, SoundAt, Sound
    <3>2. reader[c].at \in {"read", "frame", "send", "ended"} /\ reader[c].todo \in Seq(Clients)
      BY <2>1 DEF Connected, ReaderStates
    <3> QED BY <3>1, <3>2 DEF Range
  <2>3. \A c \in Clients : delivering[c] \in Nat /\ backlog[c] + delivering[c] <= Backlog[c]
    BY <2>1 DEF Kept
  <2>4. client \in [Clients -> {"open", "gone"}]
    BY <2>1 DEF Connected
  <2>5. /\ chan \in [Clients -> 0..ChannelSize]
        /\ writer \in [Clients -> {"waits", "writes", "gone"}]
        /\ Range(udp) \subseteq Clients
    BY <2>1 DEF Queued, Range
  <2> QED BY <2>2, <2>3, <2>4, <2>5 DEF TypeOK
<1> QED BY <1>1, Invariance, PTL

(* Whatever a client says, of whatever length, and however its bytes are   *)
(* cut into reads: frame_sip_message finds its messages and nothing else.  *)
(* Every message that is meant is handled once and in turn, no body is     *)
(* taken for a request, and nothing behind a malformed message is handled. *)
THEOREM HeardRight ==
  Spec => []HeardInOrder
<1>1. ASSUME IInv, NEW c \in Clients
      PROVE  /\ Increasing(heard[c])
             /\ Range(heard[c]) \subseteq Meant(said[c])
             /\ \A i \in Meant(said[c]), k \in Range(heard[c]) : i < k => i \in Range(heard[c])
  <2>1. PICK p : CameTo(said[c], client[c], buffer[c], wire[c], reader[c].at, heard[c], p)
    BY <1>1 DEF IInv, AllSound, SoundAt, Sound
  <2>2. Increasing(heard[c]) /\ Range(heard[c]) = MeantBefore(said[c], p) /\ p \in Nat
    BY <2>1 DEF CameTo, UpTo
  <2>3. \A i \in Meant(said[c]) : i \in Nat
    <3>1. said[c] \in Seq(Items)
      BY <1>1 DEF IInv, Connected
    <3> QED BY <3>1 DEF Meant
  <2>4. \A i \in Meant(said[c]), k \in Range(heard[c]) : i < k => i \in Range(heard[c])
    BY <2>2, <2>3 DEF MeantBefore
  <2> QED BY <2>2, <2>4 DEF MeantBefore
<1>2. IInv => HeardInOrder
  BY <1>1 DEF HeardInOrder
<1> QED BY <1>2, Invariance, PTL

(* The cap of handle_connection ends a connection for one message that is  *)
(* too long, never for many that arrive at once: a client that is still    *)
(* there is cut off only for that, behind a malformed message, or when all *)
(* it said was handled.                                                    *)
THEOREM EndedForCause ==
  Spec => []EndsForCause
<1>1. IInv => EndsForCause
  BY DEF IInv, AllSound, SoundAt, Sound, Caused, EndsForCause, HeardAll
<1> QED BY <1>1, Invariance, PTL
==============================================================================
