---------------------------- MODULE RingLemmas ----------------------------
(***************************************************************************)
(* The arithmetic of ring positions: what % and \div do to a counter that  *)
(* runs ahead of the ring it indexes; and the least number of a set.       *)
(***************************************************************************)
EXTENDS Integers, TLAPS, WellFoundedInduction

\* A set of numbers that is not empty has a least element.
LEMMA Least ==
  ASSUME NEW T, T \subseteq Nat, T # {}
  PROVE  \E n \in T : \A m \in T : n <= m
<1> DEFINE less == OpToRel(<, Nat)
<1>1. IsWellFoundedOn(less, Nat)
  BY NatLessThanWellFounded
<1>2. \A m, n \in Nat : m < n => <<m, n>> \in less
  BY DEF OpToRel
<1> HIDE DEF less
<1>3. \E n \in T : \A m \in T : ~(<<m, n>> \in less)
  BY <1>1, WFMin, Zenon
<1>4. PICK n \in T : \A m \in T : ~(<<m, n>> \in less)
  BY <1>3
<1>5. \A m \in T : ~(m < n)
  BY <1>2, <1>4
<1> QED BY <1>5

\* A counter modulo the size of the ring is a position of the ring.
LEMMA ModRange ==
  ASSUME NEW n \in Nat, NEW N \in Nat \ {0}
  PROVE  n % N \in 0..(N - 1)
OBVIOUS

\* How often a counter has gone round the ring.
LEMMA DivRange ==
  ASSUME NEW n \in Nat, NEW N \in Nat \ {0}
  PROVE  n \div N \in Nat
OBVIOUS

\* A counter is its rounds and its position.
LEMMA DivMod ==
  ASSUME NEW n \in Nat, NEW N \in Nat \ {0}
  PROVE  n = N * (n \div N) + (n % N)
OBVIOUS

\* A larger counter has gone round at least as often.
LEMMA DivMono ==
  ASSUME NEW a \in Nat, NEW b \in Nat, NEW N \in Nat \ {0}, a <= b
  PROVE  a \div N <= b \div N
OBVIOUS

\* Whole rounds do not change the position.
LEMMA ModUnique ==
  ASSUME NEW q \in Nat, NEW r \in Nat, NEW N \in Nat \ {0}, r < N
  PROVE  (N * q + r) % N = r
OBVIOUS

\* Rounds and position determine the counter: the bit of a position is its own.
LEMMA DivModInj ==
  ASSUME NEW a \in Nat, NEW b \in Nat, NEW N \in Nat \ {0},
         a % N = b % N, a \div N = b \div N
  PROVE  a = b
BY DivMod

\* Two counters less than a round apart have different positions.
LEMMA ModInj ==
  ASSUME NEW a \in Nat, NEW b \in Nat, NEW N \in Nat \ {0},
         a % N = b % N, a <= b, b < a + N
  PROVE  a = b
<1> DEFINE q == (b \div N) - (a \div N)
<1>1. a \div N \in Nat /\ b \div N \in Nat /\ q \in Int
  BY DivRange
<1>2. q >= 0
  BY <1>1, DivMono
<1>3. b - a = N * (b \div N) - N * (a \div N)
  BY DivMod, ModRange, <1>1
<1>4. b - a = N * q
  BY <1>1, <1>3
<1>5. q < 1
  <2> HIDE DEF q
  <2> SUFFICES ASSUME q >= 1 PROVE FALSE
    BY <1>1
  <2>1. N * q >= N
    BY <1>1
  <2> QED BY <2>1, <1>4
<1>6. q = 0
  BY <1>1, <1>2, <1>5
<1>7. N * q = 0
  BY <1>6
<1> QED BY <1>4, <1>7

\* Moving the index by one is counting one more.
LEMMA ModSucc ==
  ASSUME NEW n \in Nat, NEW N \in Nat \ {0}
  PROVE  ((n % N) + 1) % N = (n + 1) % N
<1> DEFINE q == n \div N
           r == n % N
<1>1. q \in Nat /\ r \in 0..(N - 1) /\ n = N * q + r
  BY DivRange, ModRange, DivMod
<1> HIDE DEF q, r
<1>2. CASE r + 1 < N
  <2>1. n + 1 = N * q + (r + 1) /\ r + 1 \in Nat
    BY <1>1
  <2>2. (N * q + (r + 1)) % N = r + 1
    BY <1>1, <1>2, ModUnique
  <2>3. (N * 0 + (r + 1)) % N = r + 1
    BY <1>1, <1>2, ModUnique
  <2>4. N * 0 + (r + 1) = r + 1
    BY <1>1
  <2> QED BY <2>1, <2>2, <2>3, <2>4 DEF r
<1>3. CASE r + 1 = N
  <2>1. N * q + r + 1 = N * (q + 1) + 0 /\ r + 1 = N * 1 + 0
    BY <1>1, <1>3
  <2>2. (N * (q + 1) + 0) % N = 0 /\ (N * 1 + 0) % N = 0
    BY <1>1, ModUnique
  <2> QED BY <1>1, <2>1, <2>2 DEF r
<1> QED BY <1>1, <1>2, <1>3

\* One more round leads to the same position.
LEMMA ModRound ==
  ASSUME NEW n \in Nat, NEW N \in Nat \ {0}
  PROVE  (n + N) % N = n % N
<1> DEFINE q == n \div N
           r == n % N
<1>1. q \in Nat /\ r \in 0..(N - 1) /\ n = N * q + r
  BY DivRange, ModRange, DivMod
<1> HIDE DEF q, r
<1>2. n + N = N * (q + 1) + r
  BY <1>1
<1>3. (N * (q + 1) + r) % N = r
  BY <1>1, ModUnique
<1> QED BY <1>2, <1>3 DEF r

-----------------------------------------------------------------------------
(***************************************************************************)
(* The arithmetic of a clock that goes round: differences may be negative. *)
(***************************************************************************)

\* A number is its rounds and its remainder.
LEMMA IntMod ==
  ASSUME NEW a \in Int, NEW N \in Nat \ {0}
  PROVE  a % N \in 0..(N - 1) /\ a \div N \in Int /\ a = N * (a \div N) + (a % N)
OBVIOUS

\* Whole rounds, also backwards, do not change the remainder.
LEMMA IntModUnique ==
  ASSUME NEW q \in Int, NEW r \in Nat, NEW N \in Nat \ {0}, r < N
  PROVE  (N * q + r) % N = r
OBVIOUS

\* Less than one round is no round.
LEMMA SameRound ==
  ASSUME NEW q \in Int, NEW p \in Int, NEW N \in Nat \ {0}, NEW d \in Int,
         d < N, -N < d, d = N * q - N * p
  PROVE  d = 0
<1> DEFINE m == q - p
<1>1. m \in Int /\ d = N * m
  OBVIOUS
<1> HIDE DEF m
<1>2. m < 1
  <2> SUFFICES ASSUME m >= 1 PROVE FALSE
    BY <1>1
  <2>1. N * m >= N
    BY <1>1
  <2> QED BY <1>1, <2>1
<1>3. m > -1
  <2> SUFFICES ASSUME m <= -1 PROVE FALSE
    BY <1>1
  <2>1. N * m <= -N
    BY <1>1
  <2> QED BY <1>1, <2>1
<1>4. m = 0
  BY <1>1, <1>2, <1>3
<1> QED BY <1>1, <1>4

\* Two times less than a round apart look different.
LEMMA ClockInj ==
  ASSUME NEW a \in Int, NEW b \in Int, NEW N \in Nat \ {0},
         a % N = b % N, a - b < N, b - a < N
  PROVE  a = b
<1>1. /\ a = N * (a \div N) + (a % N) /\ b = N * (b \div N) + (b % N)
      /\ a \div N \in Int /\ b \div N \in Int /\ a % N \in Int
  BY IntMod
<1>2. a - b = N * (a \div N) - N * (b \div N)
  BY <1>1
<1> DEFINE d == a - b
           q == a \div N
           p == b \div N
<1>3. /\ d \in Int /\ d < N /\ -N < d /\ q \in Int /\ p \in Int
      /\ d = N * q - N * p
  BY <1>1, <1>2
<1>4. d = 0
  <2> HIDE DEF d, q, p
  <2> QED BY <1>3, SameRound
<1> QED BY <1>4

\* Adding to what the clock shows is adding to the time.
LEMMA ClockAdd ==
  ASSUME NEW a \in Int, NEW k \in Int, NEW N \in Nat \ {0}
  PROVE  ((a % N) + k) % N = (a + k) % N
<1> DEFINE q == a \div N
           r == a % N
           p == (r + k) \div N
           s == (r + k) % N
<1>1. /\ q \in Int /\ r \in Int /\ a = N * q + r
      /\ p \in Int /\ s \in 0..(N - 1) /\ r + k = N * p + s
  BY IntMod
<1> HIDE DEF q, r, p, s
<1>2. a + k = N * (q + p) + s
  BY <1>1
<1>3. (N * (q + p) + s) % N = s
  BY <1>1, IntModUnique
<1> QED BY <1>2, <1>3 DEF r, s

\* The difference of two readings is that of the times, if that is no round.
LEMMA ClockDiff ==
  ASSUME NEW a \in Int, NEW b \in Int, NEW N \in Nat \ {0}, a - b < N, b - a < N
  PROVE  ((a % N) - (b % N)) % N = IF a >= b THEN a - b ELSE N + (a - b)
<1> DEFINE q == a \div N
           r == a % N
           p == b \div N
           s == b % N
           d == IF a >= b THEN a - b ELSE N + (a - b)
           m == IF a >= b THEN p - q ELSE p - q - 1
<1>1. /\ q \in Int /\ r \in Int /\ a = N * q + r
      /\ p \in Int /\ s \in Int /\ b = N * p + s
  BY IntMod
<1>2. d \in Nat /\ d < N /\ m \in Int
  BY <1>1
<1> HIDE DEF q, r, p, s
<1>3. r - s = N * m + d
  <2>1. r - s = (a - b) + (N * p - N * q)
    BY <1>1
  <2>2. N * p - N * q = N * (p - q) /\ N * (p - q - 1) = N * (p - q) - N
    BY <1>1
  <2> QED BY <1>1, <2>1, <2>2
<1>4. (N * m + d) % N = d
  <2> HIDE DEF m, d
  <2> QED BY <1>2, IntModUnique
<1> QED BY <1>3, <1>4 DEF r, s
=============================================================================
