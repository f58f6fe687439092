--------------------------- MODULE FramingProofs ---------------------------
(***************************************************************************)
(* What is proved of Framing, for every buffer size, every set of          *)
(* characters and every length of a run: no index leaves its buffer, and   *)
(* the data file holds exactly the lines, or datagrams, that the           *)
(* characters amount to.                                                   *)
(*                                                                         *)
(* Positions come into the sets of the reference in order; so what a       *)
(* character adds is added at the end (InOrderAppend), and what was there  *)
(* stays as it was.  The inductive invariant says of each port what of its *)
(* characters is in the buffer.                                            *)
(***************************************************************************)
EXTENDS Framing, RingLemmas, FiniteSetTheorems

-----------------------------------------------------------------------------
(***************************************************************************)
(* Sets of positions, in order.                                            *)
(***************************************************************************)
Rank(S, n) == Cardinality({m \in S : m <= n})
Ranked(S, i) == {n \in S : Rank(S, n) = i}

\* The set is finite and its positions are 1 to k.
LEMMA PositionsFinite ==
  ASSUME NEW k \in Nat, NEW S, \A m \in S : m \in 1..k
  PROVE  IsFiniteSet(S) /\ Cardinality(S) \in Nat
<1>1. IsFiniteSet(1..k)
  BY FS_Interval
<1>2. S \in SUBSET (1..k)
  OBVIOUS
<1>3. IsFiniteSet(S)
  BY <1>1, <1>2, FS_Subset
<1> QED BY <1>3, FS_CardinalityType

\* The largest position of a set.
LEMMA NewestIs ==
  ASSUME NEW S, \A n \in S : n \in Nat, NEW m \in S, \A n \in S : n <= m
  PROVE  Newest(S) = m
<1>1. \A j \in S : (\A n \in S : n <= j) => j = m
  OBVIOUS
<1> QED BY <1>1 DEF Newest

\* A set of positions that is not empty has a largest one.
LEMMA Largest ==
  ASSUME NEW k \in Nat, NEW S, \A m \in S : m \in 0..k, S # {}
  PROVE  \E m \in S : \A n \in S : n <= m
<1> DEFINE T == {i \in 0..k : k - i \in S}
<1>1. T \subseteq Nat /\ T # {}
  <2>1. PICK m \in S : TRUE
    OBVIOUS
  <2>2. m \in 0..k
    BY <2>1
  <2>3. k - m \in 0..k /\ k - (k - m) = m
    BY <2>2
  <2>4. k - m \in T
    BY <2>1, <2>3
  <2> QED BY <2>4
<1>2. PICK i \in T : \A j \in T : i <= j
  BY <1>1, Least
<1>3. \A n \in S : k - n \in T
  <2> TAKE n \in S
  <2>1. k - n \in 0..k /\ k - (k - n) = n
    OBVIOUS
  <2> QED BY <2>1
<1>4. \A n \in S : n <= k - i
  BY <1>2, <1>3
<1> QED BY <1>2, <1>4

\* The last position before another one.
LEMMA LastBeforeIs ==
  ASSUME NEW k \in Nat, NEW S, \A m \in S : m \in 1..k, NEW n \in Nat
  PROVE  /\ LastBefore(S, n) \in {0} \cup {m \in S : m < n}
         /\ \A m \in S : m < n => m <= LastBefore(S, n)
<1> DEFINE T == {0} \cup {m \in S : m < n}
<1>1. (\A m \in T : m \in 0..k) /\ T # {}
  OBVIOUS
<1> HIDE DEF T
<1>2. PICK m \in T : \A j \in T : j <= m
  BY <1>1, Largest
<1>3. Newest(T) = m
  BY <1>1, <1>2, NewestIs
<1>4. LastBefore(S, n) = m
  BY <1>3 DEF LastBefore, T
<1> QED BY <1>2, <1>4 DEF T

\* It does not depend on the positions that come later.
LEMMA LastBeforeKept ==
  ASSUME NEW S, NEW n, NEW T, NEW j, {m \in T : m < j} = {m \in S : m < n}
  PROVE  LastBefore(T, j) = LastBefore(S, n)
BY DEF LastBefore

\* The newest position is the last one before the next.
LEMMA LastBeforeNew ==
  ASSUME NEW k \in Nat, NEW S, \A m \in S : m \in 1..k, k \in S
  PROVE  LastBefore(S, k + 1) = k
<1> DEFINE b == LastBefore(S, k + 1)
<1>1. k + 1 \in Nat
  OBVIOUS
<1>2. b \in {0} \cup {m \in S : m < k + 1} /\ \A m \in S : m < k + 1 => m <= b
  BY <1>1, LastBeforeIs
<1> HIDE DEF b
<1>3. k <= b /\ b \in 0..k
  BY <1>2
<1> QED BY <1>3 DEF b

-----------------------------------------------------------------------------
LEMMA RankNat ==
  ASSUME NEW S, IsFiniteSet(S), NEW n
  PROVE  Rank(S, n) \in Nat
<1>1. {m \in S : m <= n} \in SUBSET S
  OBVIOUS
<1>2. IsFiniteSet({m \in S : m <= n})
  BY <1>1, FS_Subset
<1> QED BY <1>2, FS_CardinalityType DEF Rank

\* A new last position: one more, and the others keep their places.
LEMMA RankKept ==
  ASSUME NEW k \in Nat, NEW S, \A m \in S : m \in 1..k, NEW q \in Nat, q > k
  PROVE  /\ Cardinality(S \cup {q}) = Cardinality(S) + 1
         /\ \A n \in S : Rank(S \cup {q}, n) = Rank(S, n)
         /\ Rank(S \cup {q}, q) = Cardinality(S) + 1
         /\ \A n \in S : Rank(S, n) <= Cardinality(S)
<1>1. IsFiniteSet(S) /\ Cardinality(S) \in Nat
  BY PositionsFinite
<1> q \notin S
  OBVIOUS
<1>2. Cardinality(S \cup {q}) = Cardinality(S) + 1
  BY <1>1, FS_AddElement
<1>3. ASSUME NEW n \in S
      PROVE  Rank(S \cup {q}, n) = Rank(S, n) /\ Rank(S, n) <= Cardinality(S)
  <2>1. {m \in S \cup {q} : m <= n} = {m \in S : m <= n}
    OBVIOUS
  <2>2. {m \in S : m <= n} \in SUBSET S
    OBVIOUS
  <2> QED BY <1>1, <2>1, <2>2, FS_Subset DEF Rank
<1>4. {m \in S \cup {q} : m <= q} = S \cup {q}
  OBVIOUS
<1> QED BY <1>2, <1>3, <1>4 DEF Rank

\* Every place is taken.
LEMMA RankOnto ==
  ASSUME NEW k \in Nat, NEW S, \A m \in S : m \in 1..k, NEW i \in 1..Cardinality(S)
  PROVE  Ranked(S, i) # {}
<1> DEFINE Upto(n) == {m \in S : m <= n}
           T == {n \in 0..k : Cardinality(Upto(n)) >= i}
<1>1. IsFiniteSet(S) /\ Cardinality(S) \in Nat
  BY PositionsFinite
<1>2. \A n : Upto(n) \in SUBSET S /\ IsFiniteSet(Upto(n)) /\ Cardinality(Upto(n)) \in Nat
  <2> TAKE n
  <2>1. Upto(n) \in SUBSET S
    OBVIOUS
  <2> HIDE DEF Upto
  <2>2. IsFiniteSet(Upto(n))
    BY <1>1, <2>1, FS_Subset
  <2> QED BY <2>1, <2>2, FS_CardinalityType
<1>3. k \in T
  <2>1. Upto(k) = S
    OBVIOUS
  <2> QED BY <1>1, <2>1
<1>4. PICK n \in T : \A j \in T : n <= j
  <2>1. (\A m \in T : m \in Nat) /\ T # {}
    BY <1>3, SMTT(30)
  <2> HIDE DEF T
  <2>2. T \subseteq Nat
    BY <2>1
  <2> QED BY <2>1, <2>2, Least
<1>5. n # 0
  <2>1. Upto(0) = {}
    OBVIOUS
  <2>2. Cardinality({}) = 0
    BY FS_EmptySet
  <2> QED BY <1>1, <1>4, <2>1, <2>2
<1>6. n - 1 \in 0..k /\ n \in 1..k /\ n - 1 \notin T
  BY <1>4, <1>5
<1>7. /\ Cardinality(Upto(n - 1)) \in Nat /\ Cardinality(Upto(n)) \in Nat
      /\ ~(Cardinality(Upto(n - 1)) >= i) /\ Cardinality(Upto(n)) >= i
  BY <1>2, <1>4, <1>6
<1>8. n \in S
  <2> SUFFICES ASSUME n \notin S PROVE FALSE
    OBVIOUS
  <2>1. Upto(n) = Upto(n - 1)
    BY <1>6
  <2> QED BY <1>7, <2>1
<1>9. Cardinality(Upto(n)) = Cardinality(Upto(n - 1)) + 1
  <2>1. \A m \in S : m <= n <=> m <= n - 1 \/ m = n
    BY <1>6
  <2>2. Upto(n) = Upto(n - 1) \cup {n}
    BY <1>8, <2>1
  <2>3. n \notin Upto(n - 1)
    BY <1>6
  <2> HIDE DEF Upto
  <2>4. IsFiniteSet(Upto(n - 1))
    BY <1>2
  <2> QED BY <2>2, <2>3, <2>4, FS_AddElement
<1>10. Cardinality(Upto(n)) = i
  <2> HIDE DEF Upto
  <2>1. i \in Nat
    BY <1>1
  <2> QED BY <1>7, <1>9, <2>1
<1>11. n \in Ranked(S, i)
  BY <1>8, <1>10 DEF Ranked, Rank
<1> QED BY <1>11

LEMMA NthIs ==
  ASSUME NEW S, NEW i
  PROVE  /\ Nth(S, i) = CHOOSE n \in Ranked(S, i) : TRUE
         /\ Ranked(S, i) # {} => Nth(S, i) \in S
<1>1. Ranked(S, i) = {n \in S : Cardinality({m \in S : m <= n}) = i}
  BY DEF Ranked, Rank
<1>2. Nth(S, i) = CHOOSE n \in Ranked(S, i) : TRUE
  BY <1>1 DEF Nth
<1>3. Ranked(S, i) # {} => (CHOOSE n \in Ranked(S, i) : TRUE) \in Ranked(S, i)
  OBVIOUS
<1> QED BY <1>2, <1>3 DEF Ranked

\* The places of a set with a new last position.
LEMMA NthKept ==
  ASSUME NEW k \in Nat, NEW S, \A m \in S : m \in 1..k, NEW q \in Nat, q > k
  PROVE  /\ \A i \in 1..Cardinality(S) : Nth(S \cup {q}, i) = Nth(S, i) /\ Nth(S, i) \in S
         /\ Nth(S \cup {q}, Cardinality(S) + 1) = q
<1>1. IsFiniteSet(S) /\ Cardinality(S) \in Nat
  BY PositionsFinite
<1>2. ASSUME NEW i \in 1..Cardinality(S)
      PROVE  Nth(S \cup {q}, i) = Nth(S, i) /\ Nth(S, i) \in S
  <2>1. Ranked(S \cup {q}, i) = Ranked(S, i)
    BY <1>1, RankKept DEF Ranked
  <2>2. Nth(S \cup {q}, i) = Nth(S, i)
    BY <2>1, NthIs, Zenon
  <2>3. Ranked(S, i) # {}
    BY RankOnto
  <2> QED BY <2>2, <2>3, NthIs
<1>3. Ranked(S \cup {q}, Cardinality(S) + 1) = {q}
  <2> DEFINE c == Cardinality(S)
  <2>1. /\ \A n \in S : Rank(S \cup {q}, n) <= c
        /\ Rank(S \cup {q}, q) = c + 1
    BY RankKept
  <2>2. \A n \in S : Rank(S \cup {q}, n) \in Nat
    <3>1. IsFiniteSet(S \cup {q})
      BY <1>1, FS_AddElement
    <3> QED BY <3>1, RankNat
  <2> HIDE DEF c
  <2>3. c \in Nat
    BY <1>1 DEF c
  <2>4. Ranked(S \cup {q}, c + 1) = {q}
    BY <2>1, <2>2, <2>3 DEF Ranked
  <2> QED BY <2>4 DEF c
<1>4. (CHOOSE n \in {q} : TRUE) = q
  OBVIOUS
<1> QED BY <1>2, <1>3, <1>4, NthIs

\* One position more is one element more at the end.
LEMMA InOrderAppend ==
  ASSUME NEW k \in Nat, NEW q \in Nat, q > k,
         NEW f, \A m \in DOMAIN f : m \in 1..k,
         NEW h, DOMAIN h = DOMAIN f \cup {q}, \A n \in DOMAIN f : h[n] = f[n]
  PROVE  InOrder(h) = Append(InOrder(f), h[q])
<1> DEFINE S == DOMAIN f
           c == Cardinality(S)
<1> \A m \in S : m \in 1..k
  OBVIOUS
<1> HIDE DEF S
<1>1. c \in Nat /\ Cardinality(S \cup {q}) = c + 1
  BY PositionsFinite, RankKept
<1>2. InOrder(h) = [i \in 1..(c + 1) |-> h[Nth(S \cup {q}, i)]]
  BY <1>1 DEF InOrder, S
<1>3. InOrder(f) = [i \in 1..c |-> f[Nth(S, i)]]
  BY DEF InOrder, S
<1>4. \A i \in 1..c : h[Nth(S \cup {q}, i)] = f[Nth(S, i)]
  <2>1. \A n \in S : h[n] = f[n]
    BY DEF S
  <2>2. \A i \in 1..c : Nth(S \cup {q}, i) = Nth(S, i) /\ Nth(S, i) \in S
    BY NthKept
  <2> QED BY <2>1, <2>2
<1>5. h[Nth(S \cup {q}, c + 1)] = h[q]
  BY NthKept
<1> HIDE DEF c
<1>6. Append(InOrder(f), h[q]) = [i \in 1..(c + 1) |-> IF i <= c THEN InOrder(f)[i] ELSE h[q]]
  BY <1>1, <1>3
<1>7. ASSUME NEW i \in 1..(c + 1)
      PROVE  h[Nth(S \cup {q}, i)] = IF i <= c THEN InOrder(f)[i] ELSE h[q]
  <2>1. CASE i <= c
    <3>1. i \in 1..c
      BY <1>1, <2>1
    <3>2. InOrder(f)[i] = f[Nth(S, i)]
      BY <1>3, <3>1
    <3> QED BY <1>4, <2>1, <3>1, <3>2
  <2>2. CASE ~(i <= c)
    <3>1. i = c + 1
      BY <1>1, <2>2
    <3> QED BY <1>5, <2>2, <3>1
  <2> QED BY <2>1, <2>2
<1> QED BY <1>2, <1>6, <1>7

\* The empty set has no places.
LEMMA InOrderEmpty ==
  ASSUME NEW f, DOMAIN f = {}
  PROVE  InOrder(f) = <<>>
<1>1. Cardinality({}) = 0
  BY FS_EmptySet
<1> QED BY <1>1 DEF InOrder

-----------------------------------------------------------------------------
(***************************************************************************)
(* Records in the file, and characters that have been read.                *)
(***************************************************************************)
Char == [char : 0..511, at : Nat, open : BOOLEAN]

Mine(w, p) == {j \in 1..Len(w) : w[j].port = p}
Records(w, p) == InOrder([i \in Mine(w, p) |-> w[i]])

LEMMA RecordsOfIs ==
  ASSUME NEW p
  PROVE  RecordsOf(p) = Records(written, p)
BY DEF RecordsOf, Records, Mine

\* A new record is the last one of its port, and none of another one.
LEMMA RecordsAppend ==
  ASSUME NEW w \in Seq(RecordType), NEW r \in RecordType, NEW p
  PROVE  Records(Append(w, r), p) = IF r.port = p THEN Append(Records(w, p), r) ELSE Records(w, p)
<1> DEFINE v == Append(w, r)
           k == Len(w)
           S == Mine(w, p)
           f == [i \in Mine(w, p) |-> w[i]]
           h == [i \in Mine(v, p) |-> v[i]]
<1>1. k \in Nat /\ Len(v) = k + 1 /\ v[k + 1] = r /\ \A i \in 1..k : v[i] = w[i]
  OBVIOUS
<1>2. \A m \in S : m \in 1..k
  BY DEF Mine
<1>3. DOMAIN f = S /\ DOMAIN h = Mine(v, p)
  OBVIOUS
<1>4. CASE r.port = p
  <2>1. Mine(v, p) = S \cup {k + 1}
    BY <1>1, <1>4 DEF Mine
  <2>2. h[k + 1] = r /\ \A n \in S : h[n] = f[n]
    BY <1>1, <1>2, <2>1
  <2>3. k + 1 \in Nat /\ k + 1 > k
    BY <1>1
  <2> DEFINE q == k + 1
  <2>4. k \in Nat /\ DOMAIN f = S /\ DOMAIN h = S \cup {q} /\ q \in Nat /\ q > k
    BY <1>1, <1>3, <2>1
  <2> HIDE DEF f, h, S, k, q
  <2>5. InOrder(h) = Append(InOrder(f), h[q])
    BY <1>2, <2>2, <2>4, InOrderAppend
  <2> QED BY <1>4, <2>2, <2>5 DEF Records, f, h, q
<1>5. CASE r.port # p
  <2>1. Mine(v, p) = S
    BY <1>1, <1>5 DEF Mine
  <2>2. h = f
    BY <1>1, <1>2, <2>1
  <2> QED BY <1>5, <2>2 DEF Records
<1> QED BY <1>4, <1>5

\* A byte is eight bits, and the length of a datagram 3 to 18.
LEMMA ByteTypes ==
  ASSUME NEW c \in 0..511
  PROVE  lowByte(c) \in 0..255 /\ DatagramLength(c) \in 3..18
<1>1. c % 256 \in 0..255 /\ c % 16 \in 0..15
  BY ModRange
<1> QED BY <1>1 DEF lowByte, DatagramLength

-----------------------------------------------------------------------------
(***************************************************************************)
(* One more character: h is g and x.                                       *)
(***************************************************************************)
More(g, x, h) == g \in Seq(Char) /\ x \in Char /\ h = Append(g, x)

LEMMA MoreIs ==
  ASSUME NEW g, NEW x, NEW h, More(g, x, h)
  PROVE  /\ Len(g) \in Nat /\ Len(h) = Len(g) + 1 /\ h \in Seq(Char)
         /\ h[Len(g) + 1] = x /\ \A i \in 1..Len(g) : h[i] = g[i]
BY DEF More

LEMMA TextKept ==
  ASSUME NEW g, NEW x, NEW h, More(g, x, h), NEW m \in Nat, NEW n \in 0..Len(g)
  PROVE  TextBetween(h, m, n) = TextBetween(g, m, n)
<1>1. \A i \in (m + 1)..n : h[i] = g[i]
  BY MoreIs
<1> QED BY <1>1 DEF TextBetween

LEMMA TextMore ==
  ASSUME NEW g, NEW x, NEW h, More(g, x, h), NEW m \in 0..Len(g)
  PROVE  TextBetween(h, m, Len(g) + 1)
           = IF IsText(x) THEN TextBetween(g, m, Len(g)) \cup {Len(g) + 1}
                          ELSE TextBetween(g, m, Len(g))
<1> DEFINE k == Len(g)
<1>1. k \in Nat /\ h[k + 1] = x /\ \A i \in (m + 1)..k : h[i] = g[i]
  BY MoreIs
<1>2. \A i : i \in (m + 1)..(k + 1) <=> i \in (m + 1)..k \/ i = k + 1
  BY <1>1
<1> HIDE DEF k
<1>3. TextBetween(h, m, k + 1)
           = IF IsText(x) THEN TextBetween(g, m, k) \cup {k + 1} ELSE TextBetween(g, m, k)
  BY <1>1, <1>2 DEF TextBetween
<1> QED BY <1>3 DEF k

\* Positions between two others.
LEMMA TextPositions ==
  ASSUME NEW g, NEW m \in Nat, NEW n \in Nat
  PROVE  /\ \A i \in TextBetween(g, m, n) : i \in 1..n
         /\ Cardinality(TextBetween(g, m, n)) \in Nat
         /\ IsFiniteSet(TextBetween(g, m, n))
<1>1. \A i \in TextBetween(g, m, n) : i \in 1..n
  BY DEF TextBetween
<1> QED BY <1>1, PositionsFinite

LEMMA FeedsMore ==
  ASSUME NEW g, NEW x, NEW h, More(g, x, h)
  PROVE  /\ \A m \in Feeds(g) : m \in 1..Len(g)
         /\ Feeds(h) = IF IsFeed(x) THEN Feeds(g) \cup {Len(g) + 1} ELSE Feeds(g)
         /\ \A n \in 0..(Len(g) + 1) : LastBefore(Feeds(h), n) = LastBefore(Feeds(g), n)
         /\ \A n \in 0..(Len(g) + 1) : LastBefore(Feeds(g), n) \in 0..Len(g)
<1> DEFINE k == Len(g)
<1>1. /\ k \in Nat /\ Len(h) = k + 1
      /\ h[k + 1] = x /\ \A i \in 1..k : h[i] = g[i]
  BY MoreIs
<1>2. \A m \in Feeds(g) : m \in 1..k
  BY DEF Feeds
<1> HIDE DEF k
<1>3. Feeds(h) = IF IsFeed(x) THEN Feeds(g) \cup {k + 1} ELSE Feeds(g)
  <2>1. Feeds(g) = {n \in 1..k : IsFeed(g[n])}
    BY DEF Feeds, k
  <2>2. Feeds(h) = {n \in 1..(k + 1) : IsFeed(h[n])}
    BY <1>1 DEF Feeds
  <2>3. \A i : i \in 1..(k + 1) <=> i \in 1..k \/ i = k + 1
    BY <1>1
  <2> QED BY <1>1, <2>1, <2>2, <2>3
<1>4. ASSUME NEW n \in 0..(k + 1)
      PROVE  /\ LastBefore(Feeds(h), n) = LastBefore(Feeds(g), n)
             /\ LastBefore(Feeds(g), n) \in 0..k
  <2>1. {m \in Feeds(h) : m < n} = {m \in Feeds(g) : m < n}
    BY <1>1, <1>2, <1>3
  <2>2. n \in Nat
    BY <1>1
  <2>3. LastBefore(Feeds(g), n) \in {0} \cup {m \in Feeds(g) : m < n}
    BY <1>1, <1>2, <2>2, LastBeforeIs
  <2> QED BY <1>1, <1>2, <2>1, <2>3, LastBeforeKept
<1> QED BY <1>2, <1>3, <1>4 DEF k

LEMMA FillsMore ==
  ASSUME NEW g, NEW x, NEW h, More(g, x, h)
  PROVE  /\ \A n \in 1..Len(g) : Fills(h, n) = Fills(g, n)
         /\ Fills(h, Len(g) + 1) <=>
              /\ IsText(x)
              /\ (Cardinality(TextBetween(g, LastBefore(Feeds(g), Len(g) + 1), Len(g))) + 1)
                   % MAX_NMEA_BUFFER = 0
<1> DEFINE k == Len(g)
           b == LastBefore(Feeds(g), k + 1)
           T == TextBetween(g, b, k)
<1>1. k \in Nat /\ h[k + 1] = x /\ \A i \in 1..k : h[i] = g[i]
  BY MoreIs
<1>2. ASSUME NEW n \in 1..k
      PROVE  Fills(h, n) = Fills(g, n)
  <2>1. n \in 0..(k + 1) /\ n \in 0..k
    BY <1>1
  <2>2. LastBefore(Feeds(h), n) = LastBefore(Feeds(g), n) /\ LastBefore(Feeds(g), n) \in Nat
    BY <1>1, <2>1, FeedsMore
  <2>3. TextBetween(h, LastBefore(Feeds(g), n), n) = TextBetween(g, LastBefore(Feeds(g), n), n)
    BY <2>1, <2>2, TextKept
  <2>4. IsText(h[n]) = IsText(g[n])
    BY <1>1
  <2> QED BY <2>2, <2>3, <2>4 DEF Fills
<1>3. k + 1 \in 0..(k + 1)
  BY <1>1
<1>4. LastBefore(Feeds(h), k + 1) = b /\ b \in 0..k
  BY <1>3, FeedsMore
<1>5. IsText(x) => TextBetween(h, b, k + 1) = T \cup {k + 1}
  BY <1>4, TextMore
<1>6. Cardinality(T \cup {k + 1}) = Cardinality(T) + 1
  <2>1. b \in Nat
    BY <1>4
  <2>2. IsFiniteSet(T) /\ \A i \in T : i \in 1..k
    BY <1>1, <2>1, TextPositions
  <2>3. k + 1 \notin T
    BY <1>1, <2>2
  <2> HIDE DEF T
  <2> QED BY <2>2, <2>3, FS_AddElement
<1>7. Fills(h, k + 1) <=> IsText(x) /\ Cardinality(TextBetween(h, b, k + 1)) % MAX_NMEA_BUFFER = 0
  BY <1>1, <1>4 DEF Fills
<1> HIDE DEF T, b, k
<1>8. Fills(h, k + 1) <=> IsText(x) /\ (Cardinality(T) + 1) % MAX_NMEA_BUFFER = 0
  BY <1>5, <1>6, <1>7
<1> QED BY <1>2, <1>8 DEF T, b, k

LEMMA EndsMore ==
  ASSUME NEW g, NEW x, NEW h, More(g, x, h)
  PROVE  /\ \A m \in LineEnds(g) : m \in 1..Len(g)
         /\ LineEnds(h) = IF IsFeed(x) \/ Fills(h, Len(g) + 1) THEN LineEnds(g) \cup {Len(g) + 1}
                                                               ELSE LineEnds(g)
         /\ \A n \in 0..(Len(g) + 1) : LastBefore(LineEnds(h), n) = LastBefore(LineEnds(g), n)
         /\ \A n \in 0..(Len(g) + 1) : LastBefore(LineEnds(g), n) \in 0..Len(g)
<1> DEFINE k == Len(g)
<1>1. /\ k \in Nat /\ Len(h) = k + 1
      /\ h[k + 1] = x /\ \A i \in 1..k : h[i] = g[i]
  BY MoreIs
<1>2. \A m \in LineEnds(g) : m \in 1..k
  BY DEF LineEnds
<1>3. \A n \in 1..k : Fills(h, n) = Fills(g, n)
  BY FillsMore
<1> HIDE DEF k
<1>4. LineEnds(h) = IF IsFeed(x) \/ Fills(h, k + 1) THEN LineEnds(g) \cup {k + 1} ELSE LineEnds(g)
  <2>1. LineEnds(g) = {n \in 1..k : IsFeed(g[n]) \/ Fills(g, n)}
    BY DEF LineEnds, k
  <2>2. LineEnds(h) = {n \in 1..(k + 1) : IsFeed(h[n]) \/ Fills(h, n)}
    BY <1>1 DEF LineEnds
  <2>3. \A i : i \in 1..(k + 1) <=> i \in 1..k \/ i = k + 1
    BY <1>1
  <2> QED BY <1>1, <1>3, <2>1, <2>2, <2>3
<1>5. ASSUME NEW n \in 0..(k + 1)
      PROVE  /\ LastBefore(LineEnds(h), n) = LastBefore(LineEnds(g), n)
             /\ LastBefore(LineEnds(g), n) \in 0..k
  <2>1. {m \in LineEnds(h) : m < n} = {m \in LineEnds(g) : m < n}
    BY <1>1, <1>2, <1>4
  <2>2. n \in Nat
    BY <1>1
  <2>3. LastBefore(LineEnds(g), n) \in {0} \cup {m \in LineEnds(g) : m < n}
    BY <1>1, <1>2, <2>2, LastBeforeIs
  <2> QED BY <1>1, <1>2, <2>1, <2>3, LastBeforeKept
<1> QED BY <1>2, <1>4, <1>5 DEF k

\* What has been read of the line that is under way.
Pending(g) == TextBetween(g, LastBefore(LineEnds(g), Len(g) + 1), Len(g))
SinceFeed(g) == TextBetween(g, LastBefore(Feeds(g), Len(g) + 1), Len(g))

LEMMA PendingMore ==
  ASSUME NEW g, NEW x, NEW h, More(g, x, h)
  PROVE  /\ \A n \in 1..Len(g) : TextOf(h, n) = TextOf(g, n)
         /\ TextOf(h, Len(g) + 1) = IF IsText(x) THEN Pending(g) \cup {Len(g) + 1} ELSE Pending(g)
         /\ Pending(h) = IF Len(g) + 1 \in LineEnds(h) THEN {} ELSE TextOf(h, Len(g) + 1)
         /\ SinceFeed(h) = IF IsFeed(x) THEN {}
                           ELSE IF IsText(x) THEN SinceFeed(g) \cup {Len(g) + 1} ELSE SinceFeed(g)
<1> DEFINE k == Len(g)
           e == LastBefore(LineEnds(g), k + 1)
           b == LastBefore(Feeds(g), k + 1)
<1>1. k \in Nat /\ Len(h) = k + 1
  BY MoreIs
<1>2. ASSUME NEW n \in 1..k
      PROVE  TextOf(h, n) = TextOf(g, n)
  <2>1. n \in 0..(k + 1) /\ n \in 0..k
    BY <1>1
  <2>2. LastBefore(LineEnds(h), n) = LastBefore(LineEnds(g), n) /\ LastBefore(LineEnds(g), n) \in Nat
    BY <1>1, <2>1, EndsMore
  <2> QED BY <2>1, <2>2, TextKept DEF TextOf
<1>3. k + 1 \in 0..(k + 1)
  BY <1>1
<1>4. /\ LastBefore(LineEnds(h), k + 1) = e /\ e \in 0..k
      /\ LastBefore(Feeds(h), k + 1) = b /\ b \in 0..k
  BY <1>3, EndsMore, FeedsMore
<1>5. TextOf(h, k + 1) = IF IsText(x) THEN Pending(g) \cup {k + 1} ELSE Pending(g)
  BY <1>4, TextMore, ZenonT(30) DEF TextOf, Pending
<1>6. TextBetween(h, k + 1, k + 1) = {}
  BY <1>1 DEF TextBetween
<1>7. Pending(h) = IF k + 1 \in LineEnds(h) THEN {} ELSE TextOf(h, k + 1)
  <2>1. Pending(h) = TextBetween(h, LastBefore(LineEnds(h), k + 1 + 1), k + 1)
    BY <1>1 DEF Pending
  <2>2. \A m \in LineEnds(h) : m \in 1..(k + 1)
    BY <1>1 DEF LineEnds
  <2>3. CASE k + 1 \in LineEnds(h)
    <3>1. k + 1 \in Nat
      BY <1>1
    <3>2. LastBefore(LineEnds(h), k + 1 + 1) = k + 1
      BY <2>2, <2>3, <3>1, LastBeforeNew
    <3> QED BY <1>6, <2>1, <2>3, <3>2
  <2>4. CASE k + 1 \notin LineEnds(h)
    <3>1. {m \in LineEnds(h) : m < k + 1 + 1} = {m \in LineEnds(h) : m < k + 1}
      BY <1>1, <2>2, <2>4
    <3>2. LastBefore(LineEnds(h), k + 1 + 1) = LastBefore(LineEnds(h), k + 1)
      BY <3>1, LastBeforeKept
    <3> QED BY <2>1, <2>4, <3>2 DEF TextOf
  <2> QED BY <2>3, <2>4
<1>8. SinceFeed(h) = IF IsFeed(x) THEN {}
                     ELSE IF IsText(x) THEN SinceFeed(g) \cup {k + 1} ELSE SinceFeed(g)
  <2>1. SinceFeed(h) = TextBetween(h, LastBefore(Feeds(h), k + 1 + 1), k + 1)
    BY <1>1 DEF SinceFeed
  <2>2. \A m \in Feeds(h) : m \in 1..(k + 1)
    BY <1>1 DEF Feeds
  <2>3. CASE IsFeed(x)
    <3>1. k + 1 \in Nat /\ k + 1 \in Feeds(h)
      BY <1>1, <2>3, FeedsMore
    <3>2. LastBefore(Feeds(h), k + 1 + 1) = k + 1
      BY <2>2, <3>1, LastBeforeNew
    <3> QED BY <1>6, <2>1, <2>3, <3>2
  <2>4. CASE ~IsFeed(x)
    <3>1. Feeds(h) = Feeds(g) /\ \A m \in Feeds(g) : m \in 1..k
      BY <2>4, FeedsMore
    <3>2. {m \in Feeds(h) : m < k + 1 + 1} = {m \in Feeds(h) : m < k + 1}
      BY <1>1, <3>1
    <3>3. LastBefore(Feeds(h), k + 1 + 1) = b
      BY <1>4, <3>2, LastBeforeKept
    <3>4. SinceFeed(g) = TextBetween(g, b, k)
      BY DEF SinceFeed
    <3>5. TextBetween(h, b, k + 1)
            = IF IsText(x) THEN TextBetween(g, b, k) \cup {k + 1} ELSE TextBetween(g, b, k)
      BY <1>4, TextMore
    <3> HIDE DEF b, k
    <3> QED BY <2>1, <2>4, <3>3, <3>4, <3>5
  <2> QED BY <2>3, <2>4
<1> QED BY <1>2, <1>5, <1>7, <1>8

-----------------------------------------------------------------------------
\* The characters at some positions stay, and one more comes behind them.
LEMMA CharsKept ==
  ASSUME NEW g, NEW x, NEW h, More(g, x, h), NEW T, \A i \in T : i \in 1..Len(g)
  PROVE  Chars(h, T) = Chars(g, T)
<1>1. \A i \in T : h[i] = g[i]
  BY MoreIs
<1>2. [i \in T |-> lowByte(h[i].char)] = [i \in T |-> lowByte(g[i].char)]
  BY <1>1
<1> QED BY <1>2 DEF Chars

LEMMA CharsMore ==
  ASSUME NEW g, NEW x, NEW h, More(g, x, h), NEW T, \A i \in T : i \in 1..Len(g),
         NEW q, q = Len(g) + 1
  PROVE  Chars(h, T \cup {q}) = Append(Chars(g, T), lowByte(x.char))
<1> DEFINE k == Len(g)
           f == [i \in T |-> lowByte(g[i].char)]
           j == [i \in T \cup {q} |-> lowByte(h[i].char)]
<1>1. k \in Nat /\ h[q] = x /\ \A i \in T : h[i] = g[i]
  BY MoreIs
<1>2. /\ DOMAIN j = DOMAIN f \cup {q} /\ \A n \in DOMAIN f : j[n] = f[n]
      /\ j[q] = lowByte(x.char) /\ q \in Nat /\ q > k
      /\ \A m \in DOMAIN f : m \in 1..k
  BY <1>1
<1>3. Chars(g, T) = InOrder(f) /\ Chars(h, T \cup {q}) = InOrder(j)
  BY DEF Chars
<1> HIDE DEF f, j, k
<1>4. InOrder(j) = Append(InOrder(f), j[q])
  BY <1>1, <1>2, InOrderAppend, ZenonT(30)
<1> QED BY <1>2, <1>3, <1>4

LEMMA CharsEmpty ==
  ASSUME NEW g
  PROVE  Chars(g, {}) = <<>>
BY InOrderEmpty DEF Chars

\* The first of some positions.
LEMMA FirstOf ==
  ASSUME NEW k \in Nat, NEW T, \A i \in T : i \in 1..k
  PROVE  /\ T # {} <=> Cardinality(T) > 0
         /\ T # {} => Nth(T, 1) \in T
         /\ T # {} => Nth(T \cup {k + 1}, 1) = Nth(T, 1)
         /\ T = {} => Nth(T \cup {k + 1}, 1) = k + 1
<1>1. IsFiniteSet(T) /\ Cardinality(T) \in Nat /\ (T = {} <=> Cardinality(T) = 0)
  BY PositionsFinite, FS_EmptySet
<1>2. k + 1 \in Nat /\ k + 1 > k
  OBVIOUS
<1>3. /\ \A i \in 1..Cardinality(T) : Nth(T \cup {k + 1}, i) = Nth(T, i) /\ Nth(T, i) \in T
      /\ Nth(T \cup {k + 1}, Cardinality(T) + 1) = k + 1
  BY <1>2, NthKept
<1>4. T # {} => 1 \in 1..Cardinality(T)
  BY <1>1
<1>5. T = {} => Cardinality(T) + 1 = 1
  BY <1>1
<1> QED BY <1>1, <1>3, <1>4, <1>5

Lines(p, g) == InOrder([n \in WholeLines(g) |-> Line(p, g, n)])

\* A line keeps its text when more is read, and one that becomes whole is the
\* last one.
LEMMA LinesMore ==
  ASSUME NEW g, NEW x, NEW h, More(g, x, h), NEW p
  PROVE  Lines(p, h) = IF /\ Len(g) + 1 \in LineEnds(h) /\ x.open
                          /\ TextOf(h, Len(g) + 1) # {}
                       THEN Append(Lines(p, g), Line(p, h, Len(g) + 1))
                       ELSE Lines(p, g)
<1> DEFINE k == Len(g)
           q == k + 1
           f == [n \in WholeLines(g) |-> Line(p, g, n)]
           j == [n \in WholeLines(h) |-> Line(p, h, n)]
           whole == q \in LineEnds(h) /\ x.open /\ TextOf(h, q) # {}
<1>1. /\ k \in Nat /\ q \in Nat /\ q > k /\ h[q] = x /\ \A i \in 1..k : h[i] = g[i]
  BY MoreIs
<1>2. \A n \in LineEnds(g) : n \in 1..k
  BY EndsMore
<1>3. \A n \in WholeLines(g) : n \in 1..k
  BY <1>2 DEF WholeLines
<1>4. \A n \in LineEnds(h) : n \in LineEnds(g) \/ n = q
  BY EndsMore
<1>5. \A n \in LineEnds(g) : n \in LineEnds(h)
  BY EndsMore
<1>6. \A n \in 1..k : TextOf(h, n) = TextOf(g, n)
  BY PendingMore, ZenonT(30)
<1>7. WholeLines(h) = IF whole THEN WholeLines(g) \cup {q} ELSE WholeLines(g)
  <2> HIDE DEF k, q
  <2>1. q \notin LineEnds(g)
    BY <1>1, <1>2
  <2> QED BY <1>1, <1>2, <1>4, <1>5, <1>6, <2>1 DEF WholeLines
<1>8. ASSUME NEW n \in WholeLines(g)
      PROVE  Line(p, h, n) = Line(p, g, n)
  <2> DEFINE T == TextOf(g, n)
  <2>1. n \in 1..k /\ n \in LineEnds(g) /\ T # {}
    BY <1>3 DEF WholeLines
  <2>2. \A i \in T : i \in 1..n
    <3>1. n \in 0..(k + 1) /\ n \in Nat
      BY <1>1, <2>1
    <3>2. LastBefore(LineEnds(g), n) \in Nat
      BY <1>1, <3>1, EndsMore
    <3> QED BY <3>1, <3>2, TextPositions DEF TextOf
  <2>3. \A i \in T : i \in 1..k
    BY <1>1, <2>1, <2>2
  <2>4. TextOf(h, n) = T
    BY <1>6, <2>1
  <2>5. Chars(h, T) = Chars(g, T)
    BY <2>3, CharsKept
  <2> HIDE DEF T
  <2>6. Nth(T, 1) \in T
    BY <1>1, <2>1, <2>3, FirstOf
  <2>7. h[Nth(T, 1)] = g[Nth(T, 1)]
    BY <1>1, <2>3, <2>6
  <2> QED BY <2>4, <2>5, <2>7 DEF Line, T
<1>9. Lines(p, g) = InOrder(f) /\ Lines(p, h) = InOrder(j)
  BY DEF Lines
<1>10. DOMAIN f = WholeLines(g) /\ DOMAIN j = WholeLines(h)
  OBVIOUS
<1>11. CASE whole
  <2>1. /\ \A m \in DOMAIN f : m \in 1..k
        /\ DOMAIN j = DOMAIN f \cup {q} /\ \A n \in DOMAIN f : j[n] = f[n]
        /\ j[q] = Line(p, h, q)
    BY <1>3, <1>7, <1>8, <1>11
  <2> HIDE DEF f, j, k, q
  <2>2. InOrder(j) = Append(InOrder(f), j[q])
    BY <1>1, <2>1, InOrderAppend
  <2> QED BY <1>9, <1>11, <2>1, <2>2 DEF q, k
<1>12. CASE ~whole
  <2>1. j = f
    BY <1>7, <1>8, <1>12
  <2> QED BY <1>9, <1>12, <2>1
<1> QED BY <1>11, <1>12

-----------------------------------------------------------------------------
(***************************************************************************)
(* Types: a step leaves every index in its buffer.                         *)
(***************************************************************************)
GotType == got \in [Port -> Seq(Char)]

Types == TypeOK /\ GotType

NewChar(c) == [char |-> c, at |-> clock, open |-> isOpen]
Reads(p, c) == got' = [got EXCEPT ![p] = Append(@, NewChar(c))]

LEMMA ReadsMore ==
  ASSUME Types, NEW p \in Port, NEW c \in 0..511, Reads(p, c)
  PROVE  /\ More(got[p], NewChar(c), got'[p]) /\ NewChar(c) \in Char
         /\ clock \in Nat /\ got' \in [Port -> Seq(Char)]
         /\ \A q \in Port : q # p => got'[q] = got[q]
<1>1. got["A"] \in Seq(Char) /\ got["B"] \in Seq(Char) /\ got[p] \in Seq(Char)
  BY DEF Types, GotType, Port
<1>2. Len(got["A"]) \in Nat /\ Len(got["B"]) \in Nat
  BY <1>1
<1>3. clock \in Nat /\ isOpen \in BOOLEAN
  <2>1. \A m, n \in Nat : m + n \in Nat
    OBVIOUS
  <2>2. clock \in Nat
    BY <1>2, <2>1, Zenon DEF clock
  <2> QED BY <2>2 DEF Types, TypeOK
<1>4. NewChar(c) \in Char
  BY <1>3 DEF NewChar, Char
<1>5. Append(got[p], NewChar(c)) \in Seq(Char)
  BY <1>1, <1>4
<1>6. got'[p] = Append(got[p], NewChar(c)) /\ got' \in [Port -> Seq(Char)]
      /\ \A q \in Port : q # p => got'[q] = got[q]
  BY <1>5 DEF Reads, Types, GotType
<1> QED BY <1>1, <1>3, <1>4, <1>6 DEF More

LEMMA BufferSize == MAX_NMEA_BUFFER \in Nat /\ MAX_NMEA_BUFFER > 0
<1>1. MAX_NMEA_BUFFER \in Nat \ {0}
  BY FramingAssumption
<1> QED BY <1>1

\* What stands in a buffer is bytes.
LEMMA ContentsType ==
  ASSUME NEW b \in [Slots -> 0..255], NEW n \in 0..MAX_NMEA_BUFFER
  PROVE  Contents(b, n) \in Seq(0..255)
<1>1. n \in Nat /\ MAX_NMEA_BUFFER \in Nat
  BY BufferSize
<1>2. \A i \in 1..n : i - 1 \in Slots
  BY <1>1 DEF Slots
<1>3. \A i \in 1..n : b[i - 1] \in 0..255
  BY <1>2
<1> QED BY <1>1, <1>3 DEF Contents

\* A record, if it is written, leaves the file one of records.
LEMMA WriteType ==
  ASSUME written \in Seq(RecordType), isOpen \in BOOLEAN, NEW p \in Port, NEW s \in Nat,
         NEW data \in Seq(0..255), Write(p, s, data) \/ UNCHANGED written
  PROVE  written' \in Seq(RecordType)
<1> DEFINE r == [port |-> p, start |-> s, data |-> data]
<1>1. r \in RecordType
  BY DEF RecordType
<1> HIDE DEF r
<1>2. Append(written, r) \in Seq(RecordType)
  BY <1>1
<1> QED BY <1>2 DEF Write, r

LEMMA StartType ==
  ASSUME Types, clock \in Nat, NEW p \in Port
  PROVE  StartOf(p) \in Nat
BY DEF StartOf, Types, TypeOK

LEMMA NMEATypes ==
  ASSUME Types, NEW p \in Port, NEW c \in 0..511, Reads(p, c), NMEAInput(p, c),
         p = "A" => ~seatalkActive, UNCHANGED <<seatalkActive, isOpen, changes>>
  PROVE  Types'
<1> DEFINE in == lowByte(c)
           ending == in = LF
           text == in # LF /\ in # CR
           n == IF text THEN index[p] + 1 ELSE index[p]
           b == IF text THEN [buffer[p] EXCEPT ![index[p]] = in] ELSE buffer[p]
           full == ending \/ n >= MAX_NMEA_BUFFER
<1>1. /\ clock \in Nat /\ GotType' /\ StartOf(p) \in Nat
  BY ReadsMore, StartType, ZenonT(30) DEF GotType
<1>2. in \in 0..255 /\ MAX_NMEA_BUFFER \in Nat /\ MAX_NMEA_BUFFER > 0
  BY ByteTypes, BufferSize
<1>3. index[p] \in Nat /\ index[p] < MAX_NMEA_BUFFER /\ buffer[p] \in [Slots -> 0..255]
  BY DEF Types, TypeOK, IndexInBuffer, Port
<1>4. b \in [Slots -> 0..255] /\ n \in 0..MAX_NMEA_BUFFER
  <2>1. n \in 0..MAX_NMEA_BUFFER
    BY <1>2, <1>3
  <2>2. [buffer[p] EXCEPT ![index[p]] = in] \in [Slots -> 0..255]
    BY <1>2, <1>3
  <2> QED BY <1>3, <2>1, <2>2
<1>5. /\ buffer' = [buffer EXCEPT ![p] = b]
      /\ start' = [start EXCEPT ![p] = StartOf(p)]
      /\ IF full /\ n > 0 THEN Write(p, StartOf(p), Contents(b, n)) ELSE UNCHANGED written
      /\ index' = [index EXCEPT ![p] = IF full THEN 0 ELSE n]
      /\ turn' = IF ending THEN NextTurn(p) ELSE turn
      /\ UNCHANGED dataLength
  BY DEF NMEAInput
<1>6. full \/ n < MAX_NMEA_BUFFER
  BY <1>2, <1>4, SMTT(30)
<1> HIDE DEF in, text, n, b, full, ending
<1>7. Contents(b, n) \in Seq(0..255)
  BY <1>4, ContentsType
<1>8. written' \in Seq(RecordType)
  BY <1>1, <1>5, <1>7, WriteType DEF Types, TypeOK
<1>9. buffer' \in [Port -> [Slots -> 0..255]]
  BY <1>4, <1>5 DEF Types, TypeOK
<1>10. start' \in [Port -> Nat]
  BY <1>1, <1>5 DEF Types, TypeOK
<1>11. index' \in [Port -> Nat] /\ index'[p] < MAX_NMEA_BUFFER
       /\ \A q \in Port : q # p => index'[q] = index[q]
  BY <1>2, <1>4, <1>5, <1>6 DEF Types, TypeOK
<1>12. IndexInBuffer'
  BY <1>2, <1>11 DEF IndexInBuffer, Types, TypeOK, Port
<1>13. turn' \in Port \cup {"rest"}
  BY <1>5 DEF NextTurn, Types, TypeOK, Port
<1> QED BY <1>1, <1>5, <1>8, <1>9, <1>10, <1>11, <1>12, <1>13 DEF Types, TypeOK

LEMMA SeaTalkTypes ==
  ASSUME Types, NEW c \in 0..511, Reads("A", c), SeaTalkInput(c), seatalkActive,
         UNCHANGED <<seatalkActive, isOpen, changes>>
  PROVE  Types'
<1> DEFINE n == IF IsCommand(c) THEN 0 ELSE index["A"]
<1>1. "A" \in Port /\ "B" \in Port
  BY DEF Port
<1>2. clock \in Nat /\ GotType' /\ StartOf("A") \in Nat
  BY <1>1, ReadsMore, StartType, ZenonT(30) DEF GotType
<1>3. /\ lowByte(c) \in 0..255 /\ DatagramLength(c) \in 3..18
      /\ MAX_NMEA_BUFFER \in Nat /\ MAX_NMEA_BUFFER > 0
  BY ByteTypes, BufferSize
<1>4. index["A"] \in 0..MAX_NMEA_BUFFER /\ buffer["A"] \in [Slots -> 0..255]
  BY <1>1, <1>3 DEF Types, TypeOK, IndexInBuffer
<1>5. n \in 0..MAX_NMEA_BUFFER
  BY <1>3, <1>4
<1>6. Contents(buffer["A"], index["A"]) \in Seq(0..255)
  BY <1>4, ContentsType
<1>7. /\ Write("A", StartOf("A"), Contents(buffer["A"], index["A"])) \/ UNCHANGED written
      /\ start' = [start EXCEPT !["A"] = IF IsCommand(c) THEN clock ELSE StartOf("A")]
      /\ dataLength' = IF n = 1 THEN DatagramLength(c) ELSE dataLength
      /\ \/ /\ n < MAX_NMEA_BUFFER
            /\ buffer' = [buffer EXCEPT !["A"][n] = lowByte(c)]
            /\ index' = [index EXCEPT !["A"] = n + 1]
         \/ /\ index' = [index EXCEPT !["A"] = n]
            /\ UNCHANGED buffer
      /\ turn' = IF IsCommand(c) THEN "B" ELSE turn
  BY DEF SeaTalkInput
<1> HIDE DEF n
<1>8. written' \in Seq(RecordType)
  BY <1>1, <1>2, <1>6, <1>7, WriteType DEF Types, TypeOK
<1>9. start' \in [Port -> Nat]
  BY <1>2, <1>7 DEF Types, TypeOK
<1>10. buffer' \in [Port -> [Slots -> 0..255]]
  <2>1. n < MAX_NMEA_BUFFER => [buffer["A"] EXCEPT ![n] = lowByte(c)] \in [Slots -> 0..255]
    BY <1>3, <1>4, <1>5 DEF Slots
  <2> QED BY <1>1, <1>7, <2>1, ZenonT(30) DEF Types, TypeOK
<1>11. index' \in [Port -> Nat] /\ index'["A"] <= MAX_NMEA_BUFFER /\ index'["B"] = index["B"]
  BY <1>1, <1>3, <1>5, <1>7 DEF Types, TypeOK
<1>12. IndexInBuffer'
  BY <1>11 DEF IndexInBuffer, Types, TypeOK
<1>13. dataLength' \in 0..18 /\ turn' \in Port \cup {"rest"}
  BY <1>1, <1>3, <1>7 DEF Types, TypeOK
<1> QED BY <1>2, <1>8, <1>9, <1>10, <1>11, <1>12, <1>13 DEF Types, TypeOK

-----------------------------------------------------------------------------
(***************************************************************************)
(* Lines.  The buffer of a port that receives them holds the text of the   *)
(* line under way, and index counts the text since the last line feed,     *)
(* modulo the size of the buffer.                                          *)
(***************************************************************************)
Collects(g, b, i, s) ==
  /\ i \in Nat /\ i < MAX_NMEA_BUFFER
  /\ i = Cardinality(Pending(g))
  /\ i = Cardinality(SinceFeed(g)) % MAX_NMEA_BUFFER
  /\ Contents(b, i) = Chars(g, Pending(g))
  /\ i > 0 => s = g[Nth(Pending(g), 1)].at

LinesKept(p) ==
  /\ Collects(got[p], buffer[p], index[p], start[p])
  /\ Records(written, p) = Lines(p, got[p])

\* Positions of the text under way, and since the last line feed.
LEMMA PendingPositions ==
  ASSUME NEW g \in Seq(Char)
  PROVE  /\ \A i \in Pending(g) : i \in 1..Len(g)
         /\ IsFiniteSet(Pending(g)) /\ Cardinality(Pending(g)) \in Nat
         /\ \A i \in SinceFeed(g) : i \in 1..Len(g)
         /\ IsFiniteSet(SinceFeed(g)) /\ Cardinality(SinceFeed(g)) \in Nat
<1> DEFINE k == Len(g)
<1>1. k \in Nat /\ k + 1 \in Nat
  OBVIOUS
<1>2. /\ \A m \in LineEnds(g) : m \in 1..k
      /\ \A m \in Feeds(g) : m \in 1..k
  BY DEF LineEnds, Feeds
<1>3. LastBefore(LineEnds(g), k + 1) \in {0} \cup {m \in LineEnds(g) : m < k + 1}
  BY <1>1, <1>2, LastBeforeIs
<1>4. LastBefore(Feeds(g), k + 1) \in {0} \cup {m \in Feeds(g) : m < k + 1}
  BY <1>1, <1>2, LastBeforeIs
<1>5. LastBefore(LineEnds(g), k + 1) \in Nat /\ LastBefore(Feeds(g), k + 1) \in Nat
  BY <1>2, <1>3, <1>4
<1> QED BY <1>1, <1>5, TextPositions DEF Pending, SinceFeed

\* The text that reaches the end of the buffer fills it.
LEMMA FullIs ==
  ASSUME NEW n \in Nat, NEW N \in Nat, N > 0
  PROVE  /\ (n + 1) % N = 0 <=> (n % N) + 1 = N
         /\ (n % N) + 1 < N => (n + 1) % N = (n % N) + 1
<1> DEFINE i == n % N
<1>1. N \in Nat \ {0} /\ i \in Nat /\ i < N
  OBVIOUS
<1>2. (i + 1) % N = (n + 1) % N
  BY <1>1, ModSucc
<1> HIDE DEF i
<1>3. CASE i + 1 < N
  <2>1. (N * 0 + (i + 1)) % N = i + 1
    BY <1>1, <1>3, ModUnique
  <2>2. N * 0 + (i + 1) = i + 1
    BY <1>1
  <2> QED BY <1>1, <1>2, <1>3, <2>1, <2>2 DEF i
<1>4. CASE i + 1 = N
  <2>1. (N * 1 + 0) % N = 0
    BY <1>1, ModUnique
  <2>2. N * 1 + 0 = i + 1
    BY <1>4
  <2> QED BY <1>1, <1>2, <1>4, <2>1, <2>2 DEF i
<1> QED BY <1>1, <1>3, <1>4

\* One more character in the buffer.
LEMMA ContentsMore ==
  ASSUME NEW b \in [Slots -> 0..255], NEW i \in Slots, NEW v
  PROVE  /\ Contents([b EXCEPT ![i] = v], i + 1) = Append(Contents(b, i), v)
         /\ Contents(b, 0) = <<>>
<1> DEFINE d == [b EXCEPT ![i] = v]
<1>1. i \in Nat
  BY BufferSize DEF Slots
<1>2. ASSUME NEW j \in 1..(i + 1)
      PROVE  d[j - 1] = IF j <= i THEN b[j - 1] ELSE v
  <2>1. j - 1 \in 0..i /\ j - 1 \in Slots /\ (j - 1 = i <=> ~(j <= i))
    BY <1>1, BufferSize DEF Slots
  <2> QED BY <2>1
<1>3. Append(Contents(b, i), v) = [j \in 1..(i + 1) |-> IF j <= i THEN b[j - 1] ELSE v]
  BY <1>1 DEF Contents
<1>4. Contents(b, 0) = <<>>
  BY DEF Contents
<1> QED BY <1>2, <1>3, <1>4 DEF Contents

\* What NMEAInput makes of a character.
NextIndex(i, x) == IF IsText(x) THEN i + 1 ELSE i
NextBuffer(b, i, x) == IF IsText(x) THEN [b EXCEPT ![i] = lowByte(x.char)] ELSE b
NextStart(i, s, x) == IF i = 0 THEN x.at ELSE s
IsOver(i, x) == IsFeed(x) \/ NextIndex(i, x) >= MAX_NMEA_BUFFER

\* The line that ends or is under way after one more character.
LEMMA LineStep ==
  ASSUME NEW g, NEW x, NEW h, More(g, x, h), NEW b \in [Slots -> 0..255], NEW i, NEW s,
         Collects(g, b, i, s)
  PROVE  /\ Cardinality(TextOf(h, Len(g) + 1)) = NextIndex(i, x)
         /\ TextOf(h, Len(g) + 1) # {} <=> NextIndex(i, x) > 0
         /\ Contents(NextBuffer(b, i, x), NextIndex(i, x)) = Chars(h, TextOf(h, Len(g) + 1))
         /\ NextIndex(i, x) > 0
              => NextStart(i, s, x) = h[Nth(TextOf(h, Len(g) + 1), 1)].at
         /\ Len(g) + 1 \in LineEnds(h) <=> IsOver(i, x)
<1> DEFINE k == Len(g)
           q == k + 1
           T == Pending(g)
           U == TextOf(h, q)
<1>1. g \in Seq(Char) /\ k \in Nat /\ h[q] = x /\ (\A j \in 1..k : h[j] = g[j])
  BY MoreIs DEF More
<1>2. /\ i \in Nat /\ i < MAX_NMEA_BUFFER
      /\ i = Cardinality(T)
      /\ i = Cardinality(SinceFeed(g)) % MAX_NMEA_BUFFER
      /\ Contents(b, i) = Chars(g, T)
      /\ i > 0 => s = g[Nth(T, 1)].at
  BY DEF Collects
<1>3. i \in Slots
  BY <1>2, BufferSize DEF Slots
<1>4. (\A j \in T : j \in 1..k) /\ IsFiniteSet(T)
  BY <1>1, PendingPositions
<1>5. U = IF IsText(x) THEN T \cup {q} ELSE T
  BY PendingMore
<1>6. (T # {} <=> i > 0) /\ (T # {} => Nth(T, 1) \in T)
  <2> HIDE DEF T, k
  <2> QED BY <1>1, <1>2, <1>4, FirstOf
<1>7. IsText(x) => ~IsFeed(x)
  BY DEF IsText, IsFeed
<1>8. q \in LineEnds(h) <=> IsOver(i, x)
  <2> DEFINE c == Cardinality(SinceFeed(g))
  <2>1. c \in Nat
    BY <1>1, PendingPositions
  <2>2. Fills(h, q) <=> IsText(x) /\ (c + 1) % MAX_NMEA_BUFFER = 0
    BY FillsMore DEF SinceFeed
  <2>3. i = c % MAX_NMEA_BUFFER
    BY <1>2
  <2> HIDE DEF c
  <2>4. (c + 1) % MAX_NMEA_BUFFER = 0 <=> i + 1 = MAX_NMEA_BUFFER
    BY <2>1, <2>3, BufferSize, FullIs
  <2>5. q \in LineEnds(h) <=> IsFeed(x) \/ Fills(h, q)
    <3>1. q \notin LineEnds(g)
      BY <1>1, EndsMore
    <3> QED BY <3>1, EndsMore
  <2>6. NextIndex(i, x) >= MAX_NMEA_BUFFER <=> IsText(x) /\ i + 1 = MAX_NMEA_BUFFER
    BY <1>2, BufferSize DEF NextIndex
  <2> HIDE DEF q
  <2> QED BY <2>2, <2>4, <2>5, <2>6 DEF IsOver
<1>9. CASE IsText(x)
  <2>1. U = T \cup {q} /\ NextIndex(i, x) = i + 1
    BY <1>5, <1>9 DEF NextIndex
  <2>2. Cardinality(U) = i + 1
    <3>1. q \notin T
      BY <1>1, <1>4
    <3> HIDE DEF T, U
    <3>2. Cardinality(T \cup {q}) = Cardinality(T) + 1
      BY <1>4, <3>1, FS_AddElement
    <3> QED BY <1>2, <2>1, <3>2
  <2>3. Contents(NextBuffer(b, i, x), i + 1) = Append(Chars(g, T), lowByte(x.char))
    BY <1>2, <1>3, <1>9, ContentsMore, ZenonT(30) DEF NextBuffer
  <2>4. Chars(h, U) = Append(Chars(g, T), lowByte(x.char))
    <3> HIDE DEF T, U
    <3>1. Chars(h, T \cup {q}) = Append(Chars(g, T), lowByte(x.char))
      BY <1>4, CharsMore
    <3> QED BY <2>1, <3>1
  <2>5. NextStart(i, s, x) = h[Nth(U, 1)].at
    <3>1. Nth(U, 1) = IF i > 0 THEN Nth(T, 1) ELSE q
      <4> HIDE DEF T, U
      <4> QED BY <1>1, <1>4, <1>6, <2>1, FirstOf
    <3>2. i > 0 => h[Nth(T, 1)] = g[Nth(T, 1)]
      BY <1>1, <1>4, <1>6
    <3> HIDE DEF T, U, q
    <3> QED BY <1>1, <1>2, <3>1, <3>2 DEF NextStart
  <2>6. U # {} /\ NextIndex(i, x) > 0
    BY <1>2, <2>1
  <2> QED BY <1>8, <2>1, <2>2, <2>3, <2>4, <2>5, <2>6
<1>10. CASE ~IsText(x)
  <2>1. U = T /\ NextIndex(i, x) = i /\ NextBuffer(b, i, x) = b
    BY <1>5, <1>10 DEF NextIndex, NextBuffer
  <2>2. Chars(h, T) = Chars(g, T)
    <3> HIDE DEF T
    <3> QED BY <1>4, CharsKept
  <2>3. i > 0 => h[Nth(T, 1)] = g[Nth(T, 1)]
    BY <1>1, <1>4, <1>6
  <2>4. i > 0 => NextStart(i, s, x) = s
    BY <1>2 DEF NextStart
  <2> HIDE DEF T, U, q
  <2> QED BY <1>2, <1>6, <1>8, <2>1, <2>2, <2>3, <2>4 DEF U, q, k
<1> QED BY <1>9, <1>10

\* The buffer goes on to hold what it should.
LEMMA CollectsStep ==
  ASSUME NEW g, NEW x, NEW h, More(g, x, h), NEW b \in [Slots -> 0..255], NEW i, NEW s,
         Collects(g, b, i, s)
  PROVE  Collects(h, NextBuffer(b, i, x), IF IsOver(i, x) THEN 0 ELSE NextIndex(i, x),
                  NextStart(i, s, x))
<1> DEFINE q == Len(g) + 1
           U == TextOf(h, q)
           n == NextIndex(i, x)
           c == Cardinality(SinceFeed(g))
<1>1. /\ Cardinality(U) = n
      /\ Contents(NextBuffer(b, i, x), n) = Chars(h, U)
      /\ n > 0 => NextStart(i, s, x) = h[Nth(U, 1)].at
      /\ q \in LineEnds(h) <=> IsOver(i, x)
  BY LineStep
<1>2. i \in Nat /\ i < MAX_NMEA_BUFFER /\ i = c % MAX_NMEA_BUFFER
  BY DEF Collects
<1>3. g \in Seq(Char) /\ h \in Seq(Char)
  BY MoreIs DEF More
<1>4. Pending(h) = IF IsOver(i, x) THEN {} ELSE U
  BY <1>1, PendingMore, ZenonT(30)
<1>5. SinceFeed(h) = IF IsFeed(x) THEN {}
                     ELSE IF IsText(x) THEN SinceFeed(g) \cup {q} ELSE SinceFeed(g)
  BY PendingMore
<1>6. /\ \A j \in SinceFeed(g) : j \in 1..Len(g)
      /\ IsFiniteSet(SinceFeed(g)) /\ c \in Nat
  BY <1>3, PendingPositions
<1>7. Cardinality(SinceFeed(g) \cup {q}) = c + 1
  <2>1. q \notin SinceFeed(g)
    BY <1>3, <1>6
  <2> QED BY <1>6, <2>1, FS_AddElement
<1>8. Cardinality({}) = 0 /\ 0 % MAX_NMEA_BUFFER = 0
  <2>1. (MAX_NMEA_BUFFER * 0 + 0) % MAX_NMEA_BUFFER = 0
    BY BufferSize, ModUnique
  <2>2. MAX_NMEA_BUFFER * 0 + 0 = 0
    BY BufferSize
  <2> QED BY <2>1, <2>2, FS_EmptySet
<1>9. NextBuffer(b, i, x) \in [Slots -> 0..255]
  <2>1. lowByte(x.char) \in 0..255
    BY ByteTypes, ZenonT(30) DEF More, Char
  <2> QED BY <2>1 DEF NextBuffer
<1>10. Contents(NextBuffer(b, i, x), 0) = <<>> /\ Chars(h, {}) = <<>>
  <2>1. 0 \in Slots
    BY BufferSize DEF Slots
  <2> QED BY <1>9, <2>1, ContentsMore, CharsEmpty
<1>11. IsText(x) => ~IsFeed(x)
  BY DEF IsText, IsFeed
<1>12. /\ (c + 1) % MAX_NMEA_BUFFER = 0 <=> i + 1 = MAX_NMEA_BUFFER
       /\ i + 1 < MAX_NMEA_BUFFER => (c + 1) % MAX_NMEA_BUFFER = i + 1
  <2> HIDE DEF c
  <2>1. /\ (c + 1) % MAX_NMEA_BUFFER = 0 <=> (c % MAX_NMEA_BUFFER) + 1 = MAX_NMEA_BUFFER
        /\ (c % MAX_NMEA_BUFFER) + 1 < MAX_NMEA_BUFFER
              => (c + 1) % MAX_NMEA_BUFFER = (c % MAX_NMEA_BUFFER) + 1
    BY <1>6, BufferSize, FullIs
  <2> QED BY <1>2, <2>1
<1> HIDE DEF U, c
<1>13. CASE IsOver(i, x)
  <2>1. Pending(h) = {}
    BY <1>4, <1>13
  <2>2. Cardinality(SinceFeed(h)) % MAX_NMEA_BUFFER = 0
    <3>1. CASE IsFeed(x)
      BY <1>5, <1>8, <3>1
    <3>2. CASE ~IsFeed(x)
      <4>1. IsText(x) /\ i + 1 = MAX_NMEA_BUFFER
        BY <1>2, <1>13, <3>2, BufferSize DEF IsOver, NextIndex
      <4> QED BY <1>5, <1>7, <1>12, <3>2, <4>1
    <3> QED BY <3>1, <3>2
  <2> QED BY <1>8, <1>10, <1>13, <2>1, <2>2, BufferSize DEF Collects
<1>14. CASE ~IsOver(i, x)
  <2>1. Pending(h) = U /\ ~IsFeed(x) /\ n < MAX_NMEA_BUFFER /\ n \in Nat
    BY <1>2, <1>4, <1>14, BufferSize DEF IsOver, NextIndex
  <2>2. Cardinality(SinceFeed(h)) % MAX_NMEA_BUFFER = n
    <3>1. CASE IsText(x)
      BY <1>5, <1>7, <1>12, <2>1, <3>1 DEF NextIndex
    <3>2. CASE ~IsText(x)
      BY <1>2, <1>5, <2>1, <3>2 DEF NextIndex, c
    <3> QED BY <3>1, <3>2
  <2> HIDE DEF n
  <2> QED BY <1>1, <1>14, <2>1, <2>2 DEF Collects, n
<1> QED BY <1>13, <1>14

-----------------------------------------------------------------------------
\* A record, if it is written, is the last one of its port and none of the other.
LEMMA WriteRecords ==
  ASSUME written \in Seq(RecordType), NEW p \in Port, NEW s \in Nat,
         NEW data \in Seq(0..255), Write(p, s, data), NEW o
  PROVE  Records(written, o)' =
           IF isOpen /\ o = p
           THEN Append(Records(written, o), [port |-> p, start |-> s, data |-> data])
           ELSE Records(written, o)
<1> DEFINE r == [port |-> p, start |-> s, data |-> data]
<1>1. r \in RecordType /\ r.port = p
  BY DEF RecordType
<1>2. written' = IF isOpen THEN Append(written, r) ELSE written
  BY DEF Write
<1>3. Records(written, o)' = Records(written', o)
  BY DEF Records, Mine
<1> HIDE DEF r
<1>4. Records(Append(written, r), o)
        = IF r.port = o THEN Append(Records(written, o), r) ELSE Records(written, o)
  BY <1>1, RecordsAppend
<1> QED BY <1>1, <1>2, <1>3, <1>4 DEF r

\* What a port has, its records included, stays as it is.
Untouched(o) ==
  /\ got'[o] = got[o] /\ buffer'[o] = buffer[o] /\ index'[o] = index[o] /\ start'[o] = start[o]
  /\ Records(written, o)' = Records(written, o)

LEMMA UntouchedKeeps ==
  ASSUME NEW o, LinesKept(o), Untouched(o)
  PROVE  LinesKept(o)'
<1>1. Collects(got'[o], buffer'[o], index'[o], start'[o])
  BY DEF LinesKept, Untouched
<1>2. Records(written, o)' = Lines(o, got'[o])
  BY DEF LinesKept, Untouched
<1> QED BY <1>1, <1>2 DEF LinesKept

\* A character keeps the lines of its port, and leaves the other port alone.
LEMMA NMEAKeeps ==
  ASSUME Types, NEW p \in Port, NEW c \in 0..511, Reads(p, c), NMEAInput(p, c),
         p = "A" => ~seatalkActive, LinesKept(p)
  PROVE  LinesKept(p)' /\ \A o \in Port : o # p => Untouched(o)
<1> DEFINE g == got[p]
           h == got'[p]
           x == NewChar(c)
           q == Len(g) + 1
           i == index[p]
           a == buffer[p]
           s == start[p]
           n == NextIndex(i, x)
           b == NextBuffer(a, i, x)
           t == NextStart(i, s, x)
           over == IsOver(i, x)
<1>1. /\ More(g, x, h) /\ clock \in Nat /\ (\A o \in Port : o # p => got'[o] = got[o])
  BY ReadsMore, ZenonT(30)
<1>2. /\ x.char = c /\ x.at = clock /\ x.open = isOpen
      /\ IsText(x) <=> lowByte(c) # LF /\ lowByte(c) # CR
      /\ IsFeed(x) <=> lowByte(c) = LF
  BY DEF NewChar, IsText, IsFeed
<1>3. /\ buffer[p] \in [Slots -> 0..255] /\ i \in Nat /\ i < MAX_NMEA_BUFFER
      /\ written \in Seq(RecordType)
  BY DEF Types, TypeOK, IndexInBuffer, Port
<1>4. StartOf(p) = t /\ t \in Nat
  BY <1>1, <1>2, StartType DEF StartOf, NextStart
<1> HIDE DEF x
<1>5. /\ buffer' = [buffer EXCEPT ![p] = b]
      /\ start' = [start EXCEPT ![p] = t]
      /\ IF over /\ n > 0 THEN Write(p, t, Contents(b, n)) ELSE UNCHANGED written
      /\ index' = [index EXCEPT ![p] = IF over THEN 0 ELSE n]
  <2> DEFINE text == lowByte(c) # LF /\ lowByte(c) # CR
  <2>1. n = IF text THEN index[p] + 1 ELSE index[p]
    BY <1>2 DEF NextIndex
  <2>2. b = IF text THEN [buffer[p] EXCEPT ![index[p]] = lowByte(c)] ELSE buffer[p]
    BY <1>2 DEF NextBuffer
  <2>3. over <=> lowByte(c) = LF \/ n >= MAX_NMEA_BUFFER
    BY <1>2 DEF IsOver
  <2> HIDE DEF n, b, t, over
  <2> QED BY <1>4, <2>1, <2>2, <2>3 DEF NMEAInput
<1>6. /\ buffer'[p] = b /\ start'[p] = t /\ index'[p] = IF over THEN 0 ELSE n
      /\ \A o \in Port : o # p => /\ buffer'[o] = buffer[o] /\ start'[o] = start[o]
                                  /\ index'[o] = index[o]
  BY <1>5 DEF Types, TypeOK
<1> DEFINE U == TextOf(h, q)
<1>7. /\ Collects(g, a, i, s) /\ Records(written, p) = Lines(p, g)
      /\ a \in [Slots -> 0..255]
  BY <1>3 DEF LinesKept
<1> HIDE DEF g, h, i, a, s
<1>8. Collects(h, b, IF over THEN 0 ELSE n, t)
  BY <1>1, <1>7, CollectsStep
<1>9. /\ U # {} <=> n > 0
      /\ Contents(b, n) = Chars(h, U)
      /\ n > 0 => t = h[Nth(U, 1)].at
      /\ q \in LineEnds(h) <=> over
  BY <1>1, <1>7, LineStep
<1>10. Lines(p, h) = IF q \in LineEnds(h) /\ x.open /\ U # {} THEN Append(Lines(p, g), Line(p, h, q))
                                                              ELSE Lines(p, g)
  BY <1>1, LinesMore
<1>11. n > 0 => Line(p, h, q) = [port |-> p, start |-> t, data |-> Contents(b, n)]
  BY <1>9 DEF Line
<1>12. Contents(b, n) \in Seq(0..255)
  <2>1. n \in 0..MAX_NMEA_BUFFER
    BY <1>3, BufferSize DEF NextIndex
  <2>2. b \in [Slots -> 0..255]
    <3>1. lowByte(x.char) \in 0..255
      BY <1>2, ByteTypes
    <3> QED BY <1>7, <3>1 DEF NextBuffer
  <2> QED BY <2>1, <2>2, ContentsType
<1> HIDE DEF b, t, n, U, over, q
<1>13. ASSUME NEW o
       PROVE  Records(written, o)' =
                IF over /\ n > 0 /\ isOpen /\ o = p
                THEN Append(Records(written, o), [port |-> p, start |-> t, data |-> Contents(b, n)])
                ELSE Records(written, o)
  <2>1. CASE over /\ n > 0
    BY <1>3, <1>4, <1>5, <1>12, <2>1, WriteRecords
  <2>2. CASE ~(over /\ n > 0)
    <3>1. written' = written
      BY <1>5, <2>2
    <3> QED BY <2>2, <3>1 DEF Records, Mine
  <2> QED BY <2>1, <2>2
<1>14. Records(written, p)' = Lines(p, h)
  BY <1>2, <1>7, <1>9, <1>10, <1>11, <1>13
<1>15. LinesKept(p)'
  BY <1>6, <1>8, <1>14 DEF LinesKept, h
<1>16. ASSUME NEW o \in Port, o # p
       PROVE  Untouched(o)
  BY <1>1, <1>6, <1>13, <1>16 DEF Untouched
<1> QED BY <1>15, <1>16

-----------------------------------------------------------------------------
(***************************************************************************)
(* Datagrams.                                                              *)
(***************************************************************************)
LEMMA CommandsMore ==
  ASSUME NEW g, NEW x, NEW h, More(g, x, h)
  PROVE  /\ \A m \in Commands(g) : m \in 1..Len(g)
         /\ Commands(h) = IF IsCommand(x.char) THEN Commands(g) \cup {Len(g) + 1} ELSE Commands(g)
         /\ \A n \in 1..(Len(g) + 1) : First(h, n) = First(g, n) /\ First(g, n) \in 1..n
         /\ First(h, Len(g) + 2) = IF IsCommand(x.char) THEN Len(g) + 1 ELSE First(g, Len(g) + 1)
<1> DEFINE k == Len(g)
<1>1. /\ k \in Nat /\ Len(h) = k + 1
      /\ h[k + 1] = x /\ \A i \in 1..k : h[i] = g[i]
  BY MoreIs
<1>2. \A m \in Commands(g) : m \in 1..k
  BY DEF Commands
<1> HIDE DEF k
<1>3. Commands(h) = IF IsCommand(x.char) THEN Commands(g) \cup {k + 1} ELSE Commands(g)
  <2>1. Commands(g) = {n \in 1..k : IsCommand(g[n].char)}
    BY DEF Commands, k
  <2>2. Commands(h) = {n \in 1..(k + 1) : IsCommand(h[n].char)}
    BY <1>1 DEF Commands
  <2>3. \A i : i \in 1..(k + 1) <=> i \in 1..k \/ i = k + 1
    BY <1>1
  <2> QED BY <1>1, <2>1, <2>2, <2>3
<1>4. ASSUME NEW n \in 1..(k + 1)
      PROVE  First(h, n) = First(g, n) /\ First(g, n) \in 1..n
  <2>1. {m \in Commands(h) : m < n} = {m \in Commands(g) : m < n}
    BY <1>1, <1>2, <1>3
  <2>2. LastBefore(Commands(h), n) = LastBefore(Commands(g), n)
    BY <2>1, LastBeforeKept
  <2>3. n \in Nat
    BY <1>1
  <2>4. LastBefore(Commands(g), n) \in {0} \cup {m \in Commands(g) : m < n}
    BY <1>1, <1>2, <2>3, LastBeforeIs
  <2> QED BY <1>1, <1>2, <2>2, <2>4 DEF First
<1>5. k + 1 \in Nat /\ (\A m \in Commands(h) : m \in 1..(k + 1))
  BY <1>1, <1>2, <1>3
<1>6. First(h, k + 2) = IF IsCommand(x.char) THEN k + 1 ELSE First(g, k + 1)
  <2>1. CASE IsCommand(x.char)
    <3>1. k + 1 \in Commands(h) /\ (k + 1) + 1 = k + 2
      BY <1>1, <1>3, <2>1
    <3>2. LastBefore(Commands(h), (k + 1) + 1) = k + 1
      BY <1>5, <3>1, LastBeforeNew
    <3> QED BY <1>1, <2>1, <3>1, <3>2 DEF First
  <2>2. CASE ~IsCommand(x.char)
    <3>1. {m \in Commands(h) : m < k + 2} = {m \in Commands(g) : m < k + 1}
      BY <1>1, <1>2, <1>3, <2>2
    <3>2. LastBefore(Commands(h), k + 2) = LastBefore(Commands(g), k + 1)
      BY <3>1, LastBeforeKept
    <3> QED BY <2>2, <3>2 DEF First
  <2> QED BY <2>1, <2>2
<1> QED BY <1>2, <1>3, <1>4, <1>6 DEF k

Datagrams(g) == InOrder([n \in WholeDatagrams(g) |-> Datagram(g, n)])

\* The character ends a datagram of the length announced, and a file is open.
Completes(g, x, h) ==
  /\ IsCommand(x.char) /\ x.open
  /\ (Len(g) + 1) - First(g, Len(g) + 1) = Announced(h, Len(g) + 1)

\* A datagram stays, and one that becomes whole is the last one.
LEMMA DatagramsMore ==
  ASSUME NEW g, NEW x, NEW h, More(g, x, h)
  PROVE  Datagrams(h) = IF Completes(g, x, h)
                        THEN Append(Datagrams(g), Datagram(h, Len(g) + 1))
                        ELSE Datagrams(g)
<1> DEFINE k == Len(g)
           q == k + 1
           f == [n \in WholeDatagrams(g) |-> Datagram(g, n)]
           j == [n \in WholeDatagrams(h) |-> Datagram(h, n)]
           whole == Completes(g, x, h)
<1>1. /\ k \in Nat /\ q \in Nat /\ q > k /\ h[q] = x /\ \A i \in 1..k : h[i] = g[i]
  BY MoreIs
<1>2. \A n \in Commands(g) : n \in 1..k
  BY CommandsMore
<1>3. \A n \in WholeDatagrams(g) : n \in 1..k
  BY <1>2 DEF WholeDatagrams
<1>4. ASSUME NEW n \in 1..k
      PROVE  /\ First(h, n) = First(g, n) /\ First(g, n) \in 1..n
             /\ Announced(h, n) = Announced(g, n)
             /\ Datagram(h, n) = Datagram(g, n)
  <2> DEFINE F == First(g, n)
  <2>1. n \in 1..(k + 1)
    BY <1>1
  <2>2. First(h, n) = F /\ F \in 1..n
    BY <2>1, CommandsMore
  <2> HIDE DEF F
  <2>3. n - F >= 2 => h[F + 1] = g[F + 1]
    BY <1>1, <2>1, <2>2
  <2>4. Announced(h, n) = Announced(g, n)
    BY <2>2, <2>3 DEF Announced, F
  <2>5. h[F] = g[F] /\ \A i \in 1..(n - F) : h[F + i - 1] = g[F + i - 1]
    BY <1>1, <2>1, <2>2
  <2>6. [i \in 1..(n - F) |-> lowByte(h[F + i - 1].char)]
          = [i \in 1..(n - F) |-> lowByte(g[F + i - 1].char)]
    BY <2>5
  <2>7. Datagram(h, n) = Datagram(g, n)
    BY <2>2, <2>5, <2>6 DEF Datagram, F
  <2> QED BY <2>2, <2>4, <2>7 DEF F
<1>5. First(h, q) = First(g, q)
  <2>1. q \in 1..(k + 1)
    BY <1>1
  <2> QED BY <2>1, CommandsMore
<1>6. /\ \A n \in Commands(h) : n \in Commands(g) \/ (n = q /\ IsCommand(x.char))
      /\ \A n \in Commands(g) : n \in Commands(h)
      /\ IsCommand(x.char) => q \in Commands(h)
  BY CommandsMore
<1>7. WholeDatagrams(h) = IF whole THEN WholeDatagrams(g) \cup {q} ELSE WholeDatagrams(g)
  <2>1. whole <=> IsCommand(x.char) /\ x.open /\ q - First(g, q) = Announced(h, q)
    BY DEF Completes
  <2> HIDE DEF k, q, whole
  <2>2. q \notin Commands(g)
    BY <1>1, <1>2
  <2> QED BY <1>1, <1>2, <1>4, <1>5, <1>6, <2>1, <2>2 DEF WholeDatagrams
<1>8. Datagrams(g) = InOrder(f) /\ Datagrams(h) = InOrder(j)
  BY DEF Datagrams
<1>9. CASE whole
  <2>1. /\ \A m \in DOMAIN f : m \in 1..k
        /\ DOMAIN j = DOMAIN f \cup {q} /\ \A n \in DOMAIN f : j[n] = f[n]
        /\ j[q] = Datagram(h, q)
    BY <1>3, <1>4, <1>7, <1>9
  <2> HIDE DEF f, j, k, q
  <2>2. InOrder(j) = Append(InOrder(f), j[q])
    BY <1>1, <2>1, InOrderAppend
  <2>3. Datagrams(h) = Append(Datagrams(g), Datagram(h, q))
    BY <1>8, <2>1, <2>2
  <2> QED BY <1>9, <2>3 DEF q, k
<1>10. CASE ~whole
  <2>1. WholeDatagrams(h) = WholeDatagrams(g)
    BY <1>7, <1>10
  <2>2. \A n \in WholeDatagrams(g) : Datagram(h, n) = Datagram(g, n)
    BY <1>3, <1>4
  <2>3. j = f
    BY <2>1, <2>2
  <2> QED BY <1>8, <1>10, <2>3
<1> QED BY <1>9, <1>10

\* What SeaTalkInput has of the datagram under way: its characters from the
\* first one on, or as many as fit, its time, and its length once it is known.
UnderWay(g) == (Len(g) + 1) - First(g, Len(g) + 1)

Gathers(g, b, i, s, d) ==
  LET F == First(g, Len(g) + 1)
  IN /\ i = IF UnderWay(g) <= MAX_NMEA_BUFFER THEN UnderWay(g) ELSE MAX_NMEA_BUFFER
     /\ \A j \in 0..(i - 1) : b[j] = lowByte(g[F + j].char)
     /\ i > 0 => s = g[F].at
     /\ i >= 2 => d = DatagramLength(g[F + 1].char)
     /\ d \in {0} \cup (3..18) /\ d < MAX_NMEA_BUFFER
     /\ i = 0 => d = 0

\* The first position, and how far it is.
LEMMA UnderWayIs ==
  ASSUME NEW g, NEW x, NEW h, More(g, x, h)
  PROVE  /\ First(g, Len(g) + 1) \in 1..(Len(g) + 1)
         /\ UnderWay(g) \in 0..Len(g)
         /\ First(g, Len(g) + 1) + UnderWay(g) = Len(g) + 1
         /\ First(h, Len(g) + 1) = First(g, Len(g) + 1)
         /\ First(h, Len(h) + 1) = IF IsCommand(x.char) THEN Len(g) + 1 ELSE First(g, Len(g) + 1)
         /\ UnderWay(h) = IF IsCommand(x.char) THEN 1 ELSE UnderWay(g) + 1
<1> DEFINE k == Len(g)
           F == First(g, k + 1)
<1>1. k \in Nat /\ Len(h) = k + 1 /\ Len(h) + 1 = k + 2 /\ k + 1 \in 1..(k + 1)
  BY MoreIs
<1>2. First(h, k + 1) = F /\ F \in 1..(k + 1)
  BY <1>1, CommandsMore
<1>3. First(h, Len(h) + 1) = IF IsCommand(x.char) THEN k + 1 ELSE F
  BY <1>1, CommandsMore
<1>4. UnderWay(g) = (k + 1) - F /\ UnderWay(h) = (k + 2) - First(h, Len(h) + 1)
  BY <1>1 DEF UnderWay
<1> HIDE DEF F, k
<1>5. UnderWay(g) \in 0..k /\ F + UnderWay(g) = k + 1
  BY <1>1, <1>2, <1>4
<1>6. UnderWay(h) = IF IsCommand(x.char) THEN 1 ELSE UnderWay(g) + 1
  BY <1>1, <1>2, <1>3, <1>4
<1> QED BY <1>2, <1>3, <1>5, <1>6 DEF F, k

\* The datagram that a command byte ends is the one in the buffer, and whole
\* if the length is the one announced.
LEMMA GathersWhole ==
  ASSUME NEW g, NEW x, NEW h, More(g, x, h), NEW b \in [Slots -> 0..255], NEW i, NEW s, NEW d,
         Gathers(g, b, i, s, d), MAX_NMEA_BUFFER > 3, NEW q, q = Len(g) + 1
  PROVE  /\ i = d <=> UnderWay(g) = Announced(h, q)
         /\ i = d => Datagram(h, q)
                       = [port |-> "A", start |-> NextStart(i, s, x), data |-> Contents(b, i)]
<1> DEFINE k == Len(g)
           F == First(g, q)
           l == UnderWay(g)
<1>1. /\ k \in Nat /\ q = k + 1 /\ h[q] = x /\ \A j \in 1..k : h[j] = g[j]
  BY MoreIs
<1>2. F \in 1..q /\ l \in 0..k /\ F + l = q /\ q - F = l /\ First(h, q) = F
  BY <1>1, UnderWayIs
<1>3. /\ i = IF l <= MAX_NMEA_BUFFER THEN l ELSE MAX_NMEA_BUFFER
      /\ \A j \in 0..(i - 1) : b[j] = lowByte(g[F + j].char)
      /\ i > 0 => s = g[F].at
      /\ i >= 2 => d = DatagramLength(g[F + 1].char)
      /\ d \in {0} \cup (3..18) /\ d < MAX_NMEA_BUFFER
      /\ i = 0 => d = 0
  BY DEF Gathers
<1>4. Announced(h, q) = IF l >= 2 THEN DatagramLength(h[F + 1].char) ELSE 0
  BY <1>2 DEF Announced
<1>5. Datagram(h, q) = [port |-> "A", start |-> h[F].at,
                        data |-> [j \in 1..l |-> lowByte(h[F + j - 1].char)]]
  BY <1>2 DEF Datagram
<1> HIDE DEF F, l
<1>6. l >= 2 => h[F + 1] = g[F + 1]
  <2> SUFFICES ASSUME l >= 2 PROVE h[F + 1] = g[F + 1]
    OBVIOUS
  <2>1. F + 1 \in 1..k
    <3> HIDE DEF k
    <3> QED BY <1>1, <1>2
  <2> QED BY <1>1, <2>1
<1>7. i = d <=> l = Announced(h, q)
  <2>1. CASE l >= 2
    <3>1. Announced(h, q) = d /\ i >= 2
      BY <1>2, <1>3, <1>4, <1>6, <2>1, BufferSize, SMTT(30)
    <3>2. l \in Nat /\ (i = l \/ (i = MAX_NMEA_BUFFER /\ l > MAX_NMEA_BUFFER))
      BY <1>1, <1>2, <1>3, BufferSize
    <3> QED BY <1>3, <3>1, <3>2, BufferSize
  <2>2. CASE ~(l >= 2)
    <3>1. i = l /\ Announced(h, q) = 0 /\ l \in {0, 1}
      BY <1>1, <1>2, <1>3, <1>4, <2>2, BufferSize
    <3> QED BY <1>3, <3>1
  <2> QED BY <2>1, <2>2
<1>8. ASSUME i = d
      PROVE  Datagram(h, q)
               = [port |-> "A", start |-> NextStart(i, s, x), data |-> Contents(b, i)]
  <2>1. i = l /\ l \in Nat
    BY <1>1, <1>2, <1>3, <1>8, BufferSize
  <2>2. h[F].at = NextStart(i, s, x)
    <3>1. CASE l = 0
      <4>1. F = q
        BY <1>1, <1>2, <3>1
      <4> QED BY <1>1, <2>1, <3>1, <4>1 DEF NextStart
    <3>2. CASE l > 0
      <4>1. F \in 1..k
        BY <1>1, <1>2, <3>2
      <4> QED BY <1>1, <1>3, <2>1, <3>2, <4>1 DEF NextStart
    <3> QED BY <2>1, <3>1, <3>2
  <2>3. ASSUME NEW j \in 1..l
        PROVE  lowByte(h[F + j - 1].char) = b[j - 1]
    <3>1. j - 1 \in 0..(i - 1) /\ F + j - 1 = F + (j - 1) /\ F + (j - 1) \in 1..k
      BY <1>1, <1>2, <2>1
    <3> QED BY <1>1, <1>3, <3>1
  <2>4. [j \in 1..l |-> lowByte(h[F + j - 1].char)] = Contents(b, i)
    BY <2>1, <2>3 DEF Contents
  <2> QED BY <1>5, <2>2, <2>4
<1> QED BY <1>7, <1>8 DEF l

\* What SeaTalkInput makes of a character.
Place(i, x) == IF IsCommand(x.char) THEN 0 ELSE i
PutInto(b, n, x) == IF n < MAX_NMEA_BUFFER THEN [b EXCEPT ![n] = lowByte(x.char)] ELSE b
Past(n) == IF n < MAX_NMEA_BUFFER THEN n + 1 ELSE n
StartAt(i, s, x) == IF IsCommand(x.char) THEN x.at ELSE NextStart(i, s, x)
LengthAt(n, d, x) == IF n = 1 THEN DatagramLength(x.char) ELSE d

\* The buffer goes on to hold what it should.
LEMMA GathersStep ==
  ASSUME NEW g, NEW x, NEW h, More(g, x, h), NEW b \in [Slots -> 0..255], NEW i, NEW s, NEW d,
         Gathers(g, b, i, s, d), MAX_NMEA_BUFFER > 3, DatagramLength(x.char) < MAX_NMEA_BUFFER
  PROVE  Gathers(h, PutInto(b, Place(i, x), x), Past(Place(i, x)), StartAt(i, s, x),
                 LengthAt(Place(i, x), d, x))
<1> DEFINE k == Len(g)
           q == k + 1
           F == First(g, q)
           E == First(h, Len(h) + 1)
           l == UnderWay(g)
           n == Place(i, x)
           c == PutInto(b, n, x)
           m == Past(n)
           t == StartAt(i, s, x)
           e == LengthAt(n, d, x)
<1>0. /\ n = IF IsCommand(x.char) THEN 0 ELSE i
      /\ c = IF n < MAX_NMEA_BUFFER THEN [b EXCEPT ![n] = lowByte(x.char)] ELSE b
      /\ m = IF n < MAX_NMEA_BUFFER THEN n + 1 ELSE n
      /\ t = IF IsCommand(x.char) THEN x.at ELSE NextStart(i, s, x)
      /\ e = IF n = 1 THEN DatagramLength(x.char) ELSE d
  BY DEF Place, PutInto, Past, StartAt, LengthAt
<1> HIDE DEF n, c, m, t, e
<1>1. /\ k \in Nat /\ h[q] = x /\ \A j \in 1..k : h[j] = g[j]
  BY MoreIs
<1>2. /\ F \in 1..q /\ l \in 0..k /\ F + l = q
      /\ E = IF IsCommand(x.char) THEN q ELSE F
      /\ UnderWay(h) = IF IsCommand(x.char) THEN 1 ELSE l + 1
  BY <1>1, UnderWayIs
<1>3. /\ i = IF l <= MAX_NMEA_BUFFER THEN l ELSE MAX_NMEA_BUFFER
      /\ \A j \in 0..(i - 1) : b[j] = lowByte(g[F + j].char)
      /\ i > 0 => s = g[F].at
      /\ i >= 2 => d = DatagramLength(g[F + 1].char)
      /\ d \in {0} \cup (3..18) /\ d < MAX_NMEA_BUFFER
      /\ i = 0 => d = 0
  BY DEF Gathers
<1>4. DatagramLength(x.char) \in 3..18
  BY ByteTypes DEF More, Char
<1> HIDE DEF E, F, l
<1>5. i \in Nat /\ n \in Nat /\ i <= MAX_NMEA_BUFFER /\ i <= l
  BY <1>0, <1>1, <1>2, <1>3, BufferSize
<1>6. e \in {0} \cup (3..18) /\ e < MAX_NMEA_BUFFER
  BY <1>0, <1>3, <1>4
<1>7. n < MAX_NMEA_BUFFER
        => c[n] = lowByte(x.char) /\ \A j \in 0..(n - 1) : c[j] = b[j]
  <2> SUFFICES ASSUME n < MAX_NMEA_BUFFER
               PROVE  c[n] = lowByte(x.char) /\ \A j \in 0..(n - 1) : c[j] = b[j]
    OBVIOUS
  <2>1. n \in Slots /\ \A j \in 0..(n - 1) : j \in Slots /\ j # n
    BY <1>5, BufferSize DEF Slots
  <2> QED BY <1>0, <2>1
<1>8. /\ m = IF UnderWay(h) <= MAX_NMEA_BUFFER THEN UnderWay(h) ELSE MAX_NMEA_BUFFER
      /\ m > 0
  BY <1>0, <1>1, <1>2, <1>3, <1>5, BufferSize
<1>9. CASE IsCommand(x.char)
  <2>1. n = 0 /\ m = 1 /\ E = q /\ t = x.at /\ e = d
    BY <1>0, <1>2, <1>9, BufferSize
  <2>2. c[0] = lowByte(h[q + 0].char) /\ h[q].at = t
    BY <1>0, <1>1, <1>7, <2>1, BufferSize
  <2>3. \A j \in 0..(m - 1) : c[j] = lowByte(h[E + j].char)
    BY <2>1, <2>2
  <2> HIDE DEF q
  <2>4. Gathers(h, c, m, t, e)
    BY <1>6, <1>8, <2>1, <2>2, <2>3 DEF Gathers, E
  <2> QED BY <2>4 DEF n, c, m, t, e
<1>10. CASE ~IsCommand(x.char)
  <2>1. n = i /\ E = F /\ t = NextStart(i, s, x) /\ UnderWay(h) = l + 1
    BY <1>0, <1>2, <1>10
  <2>2. ASSUME NEW j \in 0..(m - 1)
        PROVE  c[j] = lowByte(h[E + j].char)
    <3>1. CASE j \in 0..(i - 1)
      <4>1. c[j] = b[j]
        BY <1>0, <1>7, <2>1, <3>1
      <4>2. F + j \in 1..k
        BY <1>1, <1>2, <1>5, <3>1
      <4> QED BY <1>1, <1>3, <2>1, <3>1, <4>1, <4>2
    <3>2. CASE j \notin 0..(i - 1)
      <4>1. n < MAX_NMEA_BUFFER /\ j = n
        BY <1>0, <1>5, <2>1, <3>2
      <4>2. i = l
        BY <1>0, <1>1, <1>2, <1>3, <2>1, <4>1, BufferSize
      <4> QED BY <1>1, <1>2, <1>7, <2>1, <4>1, <4>2
    <3> QED BY <3>1, <3>2
  <2>3. h[E].at = t
    <3>1. CASE i = 0
      <4>1. l = 0
        BY <1>1, <1>2, <1>3, <3>1, BufferSize
      <4>2. F = q
        BY <1>1, <1>2, <4>1
      <4> QED BY <1>1, <2>1, <3>1, <4>2 DEF NextStart
    <3>2. CASE i > 0
      <4>1. F \in 1..k
        BY <1>1, <1>2, <1>5, <3>2
      <4> QED BY <1>1, <1>3, <2>1, <3>2, <4>1 DEF NextStart
    <3> QED BY <1>5, <3>1, <3>2
  <2>4. m >= 2 => e = DatagramLength(h[E + 1].char)
    <3>1. CASE n = 1
      <4>1. l = 1 /\ F + 1 = q
        BY <1>1, <1>2, <1>3, <2>1, <3>1, BufferSize
      <4> QED BY <1>0, <1>1, <2>1, <3>1, <4>1
    <3>2. CASE n # 1
      <4> SUFFICES ASSUME m >= 2 PROVE e = DatagramLength(h[E + 1].char)
        OBVIOUS
      <4>1. i >= 2 /\ e = d
        BY <1>0, <1>5, <2>1, <3>2
      <4>2. F + 1 \in 1..k
        BY <1>1, <1>2, <1>5, <4>1
      <4> QED BY <1>1, <1>3, <2>1, <4>1, <4>2
    <3> QED BY <3>1, <3>2
  <2> HIDE DEF q
  <2>5. Gathers(h, c, m, t, e)
    BY <1>6, <1>8, <2>2, <2>3, <2>4 DEF Gathers, E
  <2> QED BY <2>5 DEF n, c, m, t, e
<1> QED BY <1>9, <1>10

-----------------------------------------------------------------------------
DatagramsKept ==
  /\ Gathers(got["A"], buffer["A"], index["A"], start["A"], dataLength)
  /\ Records(written, "A") = Datagrams(got["A"])

\* A SeaTalk character keeps the datagrams, and leaves port B alone.
LEMMA SeaTalkKeeps ==
  ASSUME Types, NEW c \in SeaTalkChar, Reads("A", c), SeaTalkInput(c), DatagramsKept
  PROVE  DatagramsKept' /\ Untouched("B")
<1> DEFINE g == got["A"]
           h == got'["A"]
           x == NewChar(c)
           a == buffer["A"]
           i == index["A"]
           s == start["A"]
           d == dataLength
           q == Len(g) + 1
           n == Place(i, x)
           t == NextStart(i, s, x)
           b == PutInto(a, n, x)
           m == Past(n)
           u == StartAt(i, s, x)
           e == LengthAt(n, d, x)
           r == [port |-> "A", start |-> t, data |-> Contents(a, i)]
<1>1. "A" \in Port /\ "B" \in Port /\ c \in 0..511 /\ DatagramLength(c) < MAX_NMEA_BUFFER
  BY FramingAssumption DEF Port
<1>2. /\ More(g, x, h) /\ clock \in Nat /\ got'["B"] = got["B"]
  BY <1>1, ReadsMore, ZenonT(30)
<1>3. x.char = c /\ x.at = clock /\ x.open = isOpen
  BY DEF NewChar
<1>4. MAX_NMEA_BUFFER \in Nat /\ MAX_NMEA_BUFFER > 3
  <2>1. DatagramLength(c) \in 3..18
    BY <1>1, ByteTypes
  <2> QED BY <1>1, <2>1, BufferSize
<1>5. /\ a \in [Slots -> 0..255] /\ i \in 0..MAX_NMEA_BUFFER /\ written \in Seq(RecordType)
  <2>1. i \in Nat /\ i <= MAX_NMEA_BUFFER
    BY <1>1 DEF Types, TypeOK, IndexInBuffer
  <2> QED BY <1>1, <1>4, <2>1 DEF Types, TypeOK
<1>6. Gathers(g, a, i, s, d) /\ Records(written, "A") = Datagrams(g)
  BY DEF DatagramsKept
<1>7. StartOf("A") = t /\ t \in Nat
  BY <1>1, <1>2, <1>3, StartType DEF StartOf, NextStart
<1>8. /\ IF IsCommand(c) /\ i = d THEN Write("A", t, Contents(a, i)) ELSE UNCHANGED written
      /\ start' = [start EXCEPT !["A"] = u]
      /\ dataLength' = e
  <2>1. n = (IF IsCommand(c) THEN 0 ELSE i) /\ u = (IF IsCommand(c) THEN clock ELSE t)
    BY <1>3 DEF Place, StartAt
  <2>2. e = IF n = 1 THEN DatagramLength(c) ELSE d
    BY <1>3 DEF LengthAt
  <2> HIDE DEF n, u, t, e
  <2> QED BY <1>7, <2>1, <2>2 DEF SeaTalkInput, DatagramComplete
<1>9. buffer' = [buffer EXCEPT !["A"] = b] /\ index' = [index EXCEPT !["A"] = m]
  <2>1. IF n < MAX_NMEA_BUFFER
        THEN /\ buffer' = [buffer EXCEPT !["A"][n] = lowByte(c)]
             /\ index' = [index EXCEPT !["A"] = n + 1]
        ELSE /\ index' = [index EXCEPT !["A"] = n]
             /\ UNCHANGED buffer
    <3>1. n = IF IsCommand(c) THEN 0 ELSE i
      BY <1>3 DEF Place
    <3> HIDE DEF n
    <3> QED BY <3>1 DEF SeaTalkInput
  <2>2. buffer = [buffer EXCEPT !["A"] = buffer["A"]]
    BY <1>1 DEF Types, TypeOK
  <2>3. /\ b = IF n < MAX_NMEA_BUFFER THEN [a EXCEPT ![n] = lowByte(c)] ELSE a
        /\ m = IF n < MAX_NMEA_BUFFER THEN n + 1 ELSE n
    BY <1>3 DEF PutInto, Past
  <2> HIDE DEF n, b, m
  <2> QED BY <2>1, <2>2, <2>3
<1>10. /\ buffer'["A"] = b /\ index'["A"] = m /\ start'["A"] = u
       /\ buffer'["B"] = buffer["B"] /\ index'["B"] = index["B"] /\ start'["B"] = start["B"]
  BY <1>1, <1>8, <1>9 DEF Types, TypeOK
<1> HIDE DEF x, g, h, i, a, s, d
<1>11. Gathers(h, b, m, u, e)
  <2>1. DatagramLength(x.char) < MAX_NMEA_BUFFER
    BY <1>1, <1>3
  <2> QED BY <1>2, <1>4, <1>5, <1>6, <2>1, GathersStep
<1>12. /\ i = d <=> UnderWay(g) = Announced(h, q)
       /\ i = d => Datagram(h, q) = r
  <2>1. /\ More(g, x, h) /\ a \in [Slots -> 0..255] /\ Gathers(g, a, i, s, d)
        /\ MAX_NMEA_BUFFER > 3
    BY <1>2, <1>4, <1>5, <1>6
  <2>2. q = Len(g) + 1
    OBVIOUS
  <2> HIDE DEF q
  <2> QED BY <2>1, <2>2, GathersWhole
<1>13. Datagrams(h) = IF IsCommand(c) /\ isOpen /\ i = d THEN Append(Datagrams(g), r)
                                                        ELSE Datagrams(g)
  <2>1. Completes(g, x, h) <=> IsCommand(c) /\ isOpen /\ i = d
    BY <1>3, <1>12 DEF Completes, UnderWay
  <2>2. Datagrams(h) = IF Completes(g, x, h) THEN Append(Datagrams(g), Datagram(h, q))
                                             ELSE Datagrams(g)
    BY <1>2, DatagramsMore
  <2> HIDE DEF r, q
  <2> QED BY <1>12, <2>1, <2>2
<1>14. Contents(a, i) \in Seq(0..255)
  BY <1>5, ContentsType
<1> HIDE DEF b, m, u, e, n, t
<1>15. ASSUME NEW o
       PROVE  Records(written, o)' = IF IsCommand(c) /\ i = d /\ isOpen /\ o = "A"
                                     THEN Append(Records(written, o), r)
                                     ELSE Records(written, o)
  <2>1. CASE IsCommand(c) /\ i = d
    <3>1. Write("A", t, Contents(a, i))
      BY <1>8, <2>1
    <3>2. Records(written, o)' = IF isOpen /\ o = "A" THEN Append(Records(written, o), r)
                                                      ELSE Records(written, o)
      BY <1>1, <1>5, <1>7, <1>14, <3>1, WriteRecords
    <3> QED BY <2>1, <3>2
  <2>2. CASE ~(IsCommand(c) /\ i = d)
    <3>1. written' = written
      BY <1>8, <2>2
    <3> QED BY <2>2, <3>1 DEF Records, Mine
  <2> QED BY <2>1, <2>2
<1> HIDE DEF r
<1>16. Records(written, "A")' = Datagrams(h)
  BY <1>6, <1>13, <1>15
<1>17. DatagramsKept'
  BY <1>8, <1>10, <1>11, <1>16 DEF DatagramsKept, h
<1>18. Untouched("B")
  BY <1>2, <1>10, <1>15 DEF Untouched
<1> QED BY <1>17, <1>18

-----------------------------------------------------------------------------
(***************************************************************************)
(* The inductive invariant, and what follows from it.                      *)
(***************************************************************************)
FramingInv ==
  /\ Types
  /\ LinesKept("B")
  /\ IF seatalkActive THEN DatagramsKept ELSE LinesKept("A")

\* Nothing has been read.
LEMMA NothingRead ==
  /\ Pending(<<>>) = {} /\ SinceFeed(<<>>) = {} /\ UnderWay(<<>>) = 0
  /\ \A p : Lines(p, <<>>) = <<>>
  /\ Datagrams(<<>>) = <<>>
  /\ \A p : Records(<<>>, p) = <<>>
<1>1. Len(<<>>) = 0 /\ 1..0 = {} /\ 0 + 1 = 1
  OBVIOUS
<1>2. LineEnds(<<>>) = {} /\ Feeds(<<>>) = {} /\ Commands(<<>>) = {}
  BY DEF LineEnds, Feeds, Commands
<1>3. LastBefore({}, 1) = 0
  <2>1. LastBefore({}, 1) \in {0} \cup {m \in {} : m < 1}
    BY LastBeforeIs
  <2> QED BY <2>1
<1>4. Pending(<<>>) = {} /\ SinceFeed(<<>>) = {}
  BY <1>1, <1>2, <1>3 DEF Pending, SinceFeed, TextBetween
<1>5. UnderWay(<<>>) = 0
  <2>1. First(<<>>, 1) = 1
    BY <1>2, <1>3 DEF First
  <2>2. UnderWay(<<>>) = 1 - First(<<>>, 1)
    BY <1>1 DEF UnderWay
  <2> QED BY <2>1, <2>2
<1>6. WholeLines(<<>>) = {} /\ WholeDatagrams(<<>>) = {}
  BY <1>2 DEF WholeLines, WholeDatagrams
<1>7. \A p : Mine(<<>>, p) = {}
  BY DEF Mine
<1> QED BY <1>4, <1>5, <1>6, <1>7, InOrderEmpty DEF Lines, Datagrams, Records

LEMMA InitKeeps == Init => FramingInv
<1> SUFFICES ASSUME Init PROVE FramingInv
  OBVIOUS
<1>1. Types
  <2>1. <<>> \in Seq(RecordType) /\ <<>> \in Seq(Char)
    OBVIOUS
  <2> QED BY <2>1, BufferSize DEF Init, Types, TypeOK, GotType, IndexInBuffer, Port
<1>2. \A p \in Port : /\ got[p] = <<>> /\ index[p] = 0 /\ start[p] = 0
                      /\ buffer[p] \in [Slots -> 0..255] /\ written = <<>> /\ dataLength = 0
  BY <1>1 DEF Init, Types, TypeOK
<1>3. 0 % MAX_NMEA_BUFFER = 0 /\ Cardinality({}) = 0
  <2>1. (MAX_NMEA_BUFFER * 0 + 0) % MAX_NMEA_BUFFER = 0
    BY BufferSize, ModUnique
  <2>2. MAX_NMEA_BUFFER * 0 + 0 = 0
    BY BufferSize
  <2> QED BY <2>1, <2>2, FS_EmptySet
<1>4. ASSUME NEW p \in Port
      PROVE  LinesKept(p)
  <2>1. Contents(buffer[p], 0) = <<>> /\ Chars(<<>>, {}) = <<>>
    <3>1. 0 \in Slots
      BY BufferSize DEF Slots
    <3> QED BY <1>2, <3>1, ContentsMore, CharsEmpty
  <2>2. Pending(<<>>) = {} /\ SinceFeed(<<>>) = {}
    BY NothingRead
  <2>3. Collects(<<>>, buffer[p], 0, 0)
    <3>1. 0 \in Nat /\ 0 < MAX_NMEA_BUFFER /\ ~(0 > 0)
      BY BufferSize
    <3> QED BY <1>3, <2>1, <2>2, <3>1, Zenon DEF Collects
  <2> QED BY <1>2, <2>3, NothingRead DEF LinesKept
<1>5. DatagramsKept
  <2>1. "A" \in Port
    BY DEF Port
  <2>2. Gathers(<<>>, buffer["A"], 0, 0, 0)
    BY NothingRead, BufferSize DEF Gathers
  <2> QED BY <1>2, <2>1, <2>2, NothingRead DEF DatagramsKept
<1> QED BY <1>1, <1>4, <1>5 DEF FramingInv, Port

\* Steps that read nothing.
LEMMA QuietKeeps ==
  ASSUME FramingInv, UNCHANGED <<seatalkActive, buffer, index, start, dataLength, written, got>>,
         Types'
  PROVE  FramingInv'
<1>1. Untouched("A") /\ Untouched("B")
  BY DEF Untouched, Records, Mine
<1>2. \A o : LinesKept(o) /\ Untouched(o) => LinesKept(o)'
  BY UntouchedKeeps
<1>3. DatagramsKept => DatagramsKept'
  BY <1>1 DEF DatagramsKept, Untouched
<1> QED BY <1>1, <1>2, <1>3 DEF FramingInv

LEMMA StepKeeps == FramingInv /\ [Next]_vars => FramingInv'
<1> SUFFICES ASSUME FramingInv, [Next]_vars PROVE FramingInv'
  OBVIOUS
<1>1. \A o : LinesKept(o) /\ Untouched(o) => LinesKept(o)'
  BY UntouchedKeeps
<1>2. ASSUME NEW p \in Port, ReadChar(p)
      PROVE  FramingInv'
  <2>1. PICK c \in Offered(p) :
          Reads(p, c) /\ IF p = "A" /\ seatalkActive THEN SeaTalkInput(c) ELSE NMEAInput(p, c)
    BY <1>2 DEF ReadChar, Reads, NewChar
  <2>2. UNCHANGED <<seatalkActive, isOpen, changes>>
    BY <1>2 DEF ReadChar
  <2>3. c \in 0..511
    BY FramingAssumption DEF Offered
  <2>4. CASE p = "A" /\ seatalkActive
    <3>1. c \in SeaTalkChar /\ Reads("A", c) /\ SeaTalkInput(c) /\ DatagramsKept /\ Types
      BY <2>1, <2>4 DEF Offered, FramingInv
    <3>2. DatagramsKept' /\ Untouched("B")
      BY <3>1, SeaTalkKeeps
    <3>3. Types'
      BY <2>2, <2>3, <2>4, <3>1, SeaTalkTypes
    <3> QED BY <1>1, <2>2, <2>4, <3>2, <3>3 DEF FramingInv
  <2>5. CASE ~(p = "A" /\ seatalkActive)
    <3>1. NMEAInput(p, c) /\ (p = "A" => ~seatalkActive) /\ Types /\ LinesKept(p)
      BY <2>1, <2>5 DEF FramingInv, Port
    <3>2. LinesKept(p)' /\ \A o \in Port : o # p => Untouched(o)
      BY <2>1, <2>3, <3>1, NMEAKeeps
    <3>3. Types'
      BY <2>1, <2>2, <2>3, <3>1, NMEATypes
    <3>4. dataLength' = dataLength
      BY <3>1 DEF NMEAInput
    <3>5. CASE p = "A"
      <4>1. Untouched("B")
        BY <3>2, <3>5 DEF Port
      <4> QED BY <1>1, <2>2, <3>1, <3>2, <3>3, <3>5, <4>1 DEF FramingInv
    <3>6. CASE p = "B"
      <4>1. Untouched("A")
        BY <3>2, <3>6 DEF Port
      <4>2. DatagramsKept => DatagramsKept'
        BY <3>4, <4>1 DEF DatagramsKept, Untouched
      <4> QED BY <1>1, <2>2, <3>2, <3>3, <3>6, <4>1, <4>2 DEF FramingInv
    <3> QED BY <3>5, <3>6 DEF Port
  <2> QED BY <2>4, <2>5
<1>3. CASE NothingAvailable
  <2>1. Types'
    BY <1>3 DEF NothingAvailable, NextTurn, FramingInv, Types, TypeOK, GotType, IndexInBuffer, Port
  <2> QED BY <1>3, <2>1, QuietKeeps DEF NothingAvailable
<1>4. CASE RestOfLoop
  <2>1. changes' \in Nat /\ isOpen' \in BOOLEAN
    <3>1. changes \in Nat /\ isOpen \in BOOLEAN
      BY DEF FramingInv, Types, TypeOK
    <3>2. \/ changes' = changes /\ isOpen' = isOpen
          \/ changes' = changes + 1 /\ isOpen' = ~isOpen
      BY <1>4 DEF RestOfLoop
    <3>3. changes' \in Nat
      BY <3>1, <3>2
    <3>4. isOpen' \in BOOLEAN
      BY <3>1, <3>2, Zenon
    <3> QED BY <3>3, <3>4
  <2>2. UNCHANGED <<seatalkActive, buffer, index, start, dataLength, written, got>> /\ turn' = "A"
    BY <1>4 DEF RestOfLoop
  <2>3. Types'
    BY <2>1, <2>2 DEF FramingInv, Types, TypeOK, GotType, IndexInBuffer, Port
  <2> QED BY <2>2, <2>3, QuietKeeps
<1>5. CASE UNCHANGED vars
  <2>1. Types'
    BY <1>5 DEF vars, FramingInv, Types, TypeOK, GotType, IndexInBuffer
  <2> QED BY <1>5, <2>1, QuietKeeps DEF vars
<1> QED BY <1>2, <1>3, <1>4, <1>5 DEF Next

\* In every state the buffers hold what is under way, and the file what is whole.
THEOREM FramingInvariant == Spec => []FramingInv
<1>1. Init => FramingInv
  BY InitKeeps
<1>2. FramingInv /\ [Next]_vars => FramingInv'
  BY StepKeeps
<1> QED BY <1>1, <1>2, PTL DEF Spec

\* The file holds exactly the lines of the NMEA ports, and no index leaves its
\* buffer, with every buffer size and however the characters come (NMEAInputA,
\* NMEAInputB, testSerialA, testSerialB, writeData).
THEOREM LinesAreExact == Spec => []FileHoldsTheLines
<1>1. FramingInv => FileHoldsTheLines
  <2>1. \A p : Lines(p, got[p]) = ExpectedLines(p)
    BY DEF Lines, ExpectedLines
  <2>2. \A p : LinesKept(p) => RecordsOf(p) = ExpectedLines(p)
    BY <2>1, RecordsOfIs DEF LinesKept
  <2> QED BY <2>2 DEF FramingInv, Types, FileHoldsTheLines, Port
<1> QED BY <1>1, FramingInvariant, PTL

\* The file holds exactly the datagrams of the length they announce
\* (SeaTalkInputA, writeDatagram).
THEOREM DatagramsAreExact == Spec => []FileHoldsTheDatagrams
<1>1. FramingInv => FileHoldsTheDatagrams
  <2>1. Datagrams(got["A"]) = ExpectedDatagrams
    BY DEF Datagrams, ExpectedDatagrams
  <2> QED BY <2>1, RecordsOfIs DEF FramingInv, DatagramsKept, FileHoldsTheDatagrams
<1> QED BY <1>1, FramingInvariant, PTL
=============================================================================
