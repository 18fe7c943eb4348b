--------------------------- MODULE TimerWheelProofs ----------------------------
(***************************************************************************)
(* Proofs about the priority queue of an event thread, for any number of   *)
(* buckets and events: its types, that an event is never handed out more   *)
(* than a bucket unit before its time, that a check leaves no event that   *)
(* is due behind, and how long a thread may oversleep.                     *)
(***************************************************************************)
EXTENDS TimerWheel, WellFoundedInduction, TLAPS

(***************************************************************************)
(* Smallest and largest numbers                                            *)
(***************************************************************************)

LEMMA MinIn ==
    ASSUME NEW S \in SUBSET Nat, S # {}
    PROVE  Min(S) \in S /\ \A y \in S : Min(S) <= y
<1>1. PICK x \in S : \A y \in S : ~(<<y, x>> \in OpToRel(<, Nat))
  BY NatLessThanWellFounded, WFMin
<1>2. ASSUME NEW y \in S
      PROVE  x <= y
  <2>1. <<y, x>> \in Nat \X Nat /\ <<y, x>>[1] = y /\ <<y, x>>[2] = x
    OBVIOUS
  <2>2. y < x => <<y, x>> \in OpToRel(<, Nat)
    BY <2>1, Zenon DEF OpToRel
  <2>3. ~(y < x)
    BY <1>1, <1>2, <2>2
  <2> QED
    BY <2>3
<1> QED
  BY <1>2 DEF Min

LEMMA MaxIn ==
    ASSUME NEW n \in Nat, NEW S \in SUBSET (0..n), S # {}
    PROVE  Max(S) \in S /\ \A y \in S : y <= Max(S)
<1> DEFINE R == {n - x : x \in S}
<1>1. R \in SUBSET Nat /\ R # {}
  <2>1. \A x \in S : x \in 0..n /\ n - x \in Nat
    OBVIOUS
  <2>2. R \subseteq Nat
    BY <2>1
  <2>3. PICK x \in S : TRUE
    OBVIOUS
  <2>4. n - x \in R
    BY <2>3
  <2> QED
    BY <2>2, <2>4
<1>2. PICK x \in S : Min(R) = n - x
  BY <1>1, MinIn
<1>3. \A y \in S : n - y \in R /\ Min(R) <= n - y
  BY <1>1, MinIn
<1>4. \A y \in S : x >= y
  BY <1>2, <1>3
<1> QED
  BY <1>4 DEF Max

(***************************************************************************)
(* Powers of two: Pow2 is defined by recursion, so that a function with    *)
(* that equation must first be shown to exist.                             *)
(***************************************************************************)

\* g is the table of the powers up to n.
Doubles(g, n) == g \in [0..n -> Nat] /\ g[0] = 1 /\ \A m \in 1..n : g[m] = 2 * g[m - 1]

LEMMA DoublesExists == \A n \in Nat : \E g : Doubles(g, n)
<1> DEFINE Bad == {n \in Nat : ~ \E g : Doubles(g, n)}
<1> SUFFICES ASSUME Bad # {} PROVE FALSE
  OBVIOUS
<1>1. Bad \in SUBSET Nat
  OBVIOUS
<1> DEFINE b == Min(Bad)
<1>2. b \in Bad /\ \A y \in Bad : b <= y
  BY <1>1, MinIn
<1> HIDE DEF b
<1>3. b \in Nat /\ ~ \E g : Doubles(g, b)
  BY <1>2
<1>4. CASE b = 0
  <2>1. Doubles([i \in 0..0 |-> 1], 0)
    BY DEF Doubles
  <2> QED
    BY <1>3, <1>4, <2>1
<1>5. CASE b # 0
  <2>1. b - 1 \in Nat /\ b - 1 \notin Bad
    BY <1>2, <1>3, <1>5
  <2>2. PICK g : Doubles(g, b - 1)
    BY <2>1
  <2> DEFINE h == [i \in 0..b |-> IF i = b THEN 2 * g[b - 1] ELSE g[i]]
  <2>3. g \in [0..(b - 1) -> Nat] /\ g[0] = 1 /\ \A m \in 1..(b - 1) : g[m] = 2 * g[m - 1]
    BY <2>2 DEF Doubles
  <2>4. h \in [0..b -> Nat]
    BY <1>3, <1>5, <2>3
  <2>5. h[0] = 1
    BY <1>3, <1>5, <2>3
  <2>6. ASSUME NEW m \in 1..b PROVE h[m] = 2 * h[m - 1]
    <3>1. m - 1 \in 0..b /\ m - 1 # b /\ m \in 0..b
      BY <1>3
    <3>2. h[m - 1] = g[m - 1]
      BY <3>1
    <3>3. CASE m = b
      BY <3>1, <3>2, <3>3
    <3>4. CASE m # b
      <4>1. m \in 1..(b - 1)
        BY <1>3, <3>4
      <4> QED
        BY <2>3, <3>1, <3>2, <3>4, <4>1
    <3> QED
      BY <3>3, <3>4
  <2>7. Doubles(h, b)
    BY <2>4, <2>5, <2>6 DEF Doubles
  <2> QED
    BY <1>3, <2>7
<1> QED
  BY <1>4, <1>5

LEMMA DoublesUnique ==
    ASSUME NEW n \in Nat, NEW m \in Nat, NEW g, NEW h, Doubles(g, n), Doubles(h, m)
    PROVE  \A i \in Nat : i <= n /\ i <= m => g[i] = h[i]
<1> DEFINE Bad == {i \in Nat : i <= n /\ i <= m /\ g[i] # h[i]}
<1> SUFFICES ASSUME Bad # {} PROVE FALSE
  OBVIOUS
<1>1. Bad \in SUBSET Nat
  OBVIOUS
<1> DEFINE b == Min(Bad)
<1>2. b \in Bad /\ \A y \in Bad : b <= y
  BY <1>1, MinIn
<1> HIDE DEF b
<1>3. b \in Nat /\ b <= n /\ b <= m /\ g[b] # h[b]
  BY <1>2
<1>4. b # 0
  BY <1>3 DEF Doubles
<1>5. b - 1 \in Nat /\ b - 1 \notin Bad
  BY <1>2, <1>3, <1>4
<1>6. g[b - 1] = h[b - 1]
  BY <1>3, <1>5
<1>7. b \in 1..n /\ b \in 1..m
  BY <1>3, <1>4
<1>8. g[b] = 2 * g[b - 1] /\ h[b] = 2 * h[b - 1]
  BY <1>7 DEF Doubles
<1> QED
  BY <1>3, <1>6, <1>8

LEMMA Pow2Def == Pow2 = [n \in Nat |-> IF n = 0 THEN 1 ELSE 2 * Pow2[n - 1]]
<1> DEFINE A(n) == CHOOSE g : Doubles(g, n)
           G == [n \in Nat |-> A(n)[n]]
           P(f) == f = [n \in Nat |-> IF n = 0 THEN 1 ELSE 2 * f[n - 1]]
<1>1. \A n \in Nat : Doubles(A(n), n)
  BY DoublesExists
<1> HIDE DEF A
<1>2. ASSUME NEW n \in Nat
      PROVE  G[n] = IF n = 0 THEN 1 ELSE 2 * G[n - 1]
  <2>1. G[n] = A(n)[n]
    OBVIOUS
  <2>2. CASE n = 0
    BY <1>1, <2>1, <2>2 DEF Doubles
  <2>3. CASE n # 0
    <3>1. n - 1 \in Nat /\ n \in 1..n /\ n - 1 <= n /\ n - 1 <= n - 1
      BY <2>3
    <3>2. A(n)[n] = 2 * A(n)[n - 1]
      BY <1>1, <3>1 DEF Doubles
    <3>3. A(n)[n - 1] = A(n - 1)[n - 1]
      BY <1>1, <3>1, DoublesUnique
    <3>4. G[n - 1] = A(n - 1)[n - 1]
      BY <3>1
    <3> QED
      BY <2>1, <2>3, <3>2, <3>3, <3>4
  <2> QED
    BY <2>2, <2>3
<1>3. P(G)
  BY <1>2
<1>4. Pow2 = CHOOSE f : P(f)
  BY DEF Pow2
<1> HIDE DEF G, P
<1>5. P(Pow2)
  BY <1>3, <1>4
<1> QED
  BY <1>5 DEF P

LEMMA Pow2Step == Pow2[0] = 1 /\ \A n \in Nat : Pow2[n + 1] = 2 * Pow2[n]
<1>1. \A n \in Nat : Pow2[n] = IF n = 0 THEN 1 ELSE 2 * Pow2[n - 1]
  BY Pow2Def
<1>2. Pow2[0] = 1
  BY <1>1
<1>3. ASSUME NEW n \in Nat PROVE Pow2[n + 1] = 2 * Pow2[n]
  <2>1. n + 1 \in Nat /\ n + 1 # 0 /\ (n + 1) - 1 = n
    OBVIOUS
  <2> QED
    BY <1>1, <2>1
<1> QED
  BY <1>2, <1>3

LEMMA Pow2Pos == \A n \in Nat : Pow2[n] \in Nat /\ Pow2[n] >= 1
<1> DEFINE Bad == {n \in Nat : ~(Pow2[n] \in Nat /\ Pow2[n] >= 1)}
<1> SUFFICES ASSUME Bad # {} PROVE FALSE
  OBVIOUS
<1>1. Bad \in SUBSET Nat
  OBVIOUS
<1> DEFINE b == Min(Bad)
<1>2. b \in Bad /\ \A y \in Bad : b <= y
  BY <1>1, MinIn
<1> HIDE DEF b
<1>3. b # 0
  BY <1>2, Pow2Step
<1>4. b - 1 \in Nat /\ b - 1 \notin Bad /\ (b - 1) + 1 = b
  BY <1>2, <1>3
<1>5. Pow2[b] = 2 * Pow2[b - 1]
  BY <1>4, Pow2Step
<1>6. Pow2[b - 1] \in Nat /\ Pow2[b - 1] >= 1
  BY <1>4
<1>7. Pow2[b] \in Nat /\ Pow2[b] >= 1
  BY <1>5, <1>6
<1> QED
  BY <1>2, <1>7

LEMMA Pow2Monotone == \A n \in Nat, m \in Nat : m <= n => Pow2[m] <= Pow2[n]
<1> SUFFICES ASSUME NEW m \in Nat PROVE \A n \in Nat : m <= n => Pow2[m] <= Pow2[n]
  OBVIOUS
<1> DEFINE Bad == {n \in Nat : m <= n /\ ~(Pow2[m] <= Pow2[n])}
<1> SUFFICES ASSUME Bad # {} PROVE FALSE
  OBVIOUS
<1>1. Bad \in SUBSET Nat
  OBVIOUS
<1> DEFINE b == Min(Bad)
<1>2. b \in Bad /\ \A y \in Bad : b <= y
  BY <1>1, MinIn
<1> HIDE DEF b
<1>3. b # m
  BY <1>2, Pow2Pos
<1>4. b - 1 \in Nat /\ b - 1 \notin Bad /\ (b - 1) + 1 = b /\ m <= b - 1
  BY <1>2, <1>3
<1>5. Pow2[b] = 2 * Pow2[b - 1]
  BY <1>4, Pow2Step
<1>6. Pow2[m] <= Pow2[b - 1]
  BY <1>4
<1>7. Pow2[m] \in Nat /\ Pow2[b - 1] \in Nat
  BY <1>4, Pow2Pos
<1>8. Pow2[m] <= Pow2[b]
  BY <1>5, <1>6, <1>7
<1> QED
  BY <1>2, <1>8

(***************************************************************************)
(* Quotients, and blocks of a power of two                                 *)
(***************************************************************************)

LEMMA Quotient ==
    ASSUME NEW n \in Nat, NEW d \in Nat \ {0}
    PROVE  n \div d \in Nat /\ d * (n \div d) <= n /\ n < d * (n \div d) + d
OBVIOUS

LEMMA QuotientUnique ==
    ASSUME NEW n \in Nat, NEW d \in Nat \ {0}, NEW q \in Nat, d * q <= n, n < d * q + d
    PROVE  q = n \div d
OBVIOUS

LEMMA Halved ==
    ASSUME NEW n \in Nat, NEW d \in Nat \ {0}
    PROVE  (n \div d) \div 2 = n \div (2 * d)
<1> DEFINE q == n \div d
           h == q \div 2
<1>1. q \in Nat /\ d * q <= n /\ n < d * q + d
  BY Quotient
<1> HIDE DEF q
<1>2. h \in Nat /\ (q = 2 * h \/ q = 2 * h + 1)
  BY <1>1
<1> HIDE DEF h
<1>3. d * q = (2 * d) * h \/ d * q = (2 * d) * h + d
  BY <1>1, <1>2
<1>4. (2 * d) * h \in Nat /\ d * q \in Nat
  BY <1>1, <1>2
<1>5. (2 * d) * h <= n /\ n < (2 * d) * h + 2 * d
  BY <1>1, <1>3, <1>4
<1>6. 2 * d \in Nat \ {0}
  OBVIOUS
<1>7. h = n \div (2 * d)
  BY <1>2, <1>5, <1>6, QuotientUnique
<1> QED
  BY <1>7 DEF q, h

\* Counters that agree in all bits from j to n, and are less than two blocks of
\* size Pow2[n] apart, are in the same block of size Pow2[j].
LEMMA SameBlock ==
    ASSUME NEW n \in Nat, NEW j \in Nat, j <= n,
           NEW a \in Nat, NEW b \in Nat, b <= a, a - b <= Pow2[n],
           \A i \in j..n : Bit(a, i) = Bit(b, i)
    PROVE  a \div Pow2[j] = b \div Pow2[j]
<1>0. \A i \in Nat : Pow2[i] \in Nat \ {0} /\ Pow2[i + 1] = 2 * Pow2[i]
  BY Pow2Pos, Pow2Step
<1>1. a \div Pow2[n] = b \div Pow2[n]
  <2> DEFINE p == Pow2[n]
             x == a \div p
             y == b \div p
  <2>1. p \in Nat \ {0}
    BY <1>0
  <2>2. x \in Nat /\ p * x <= a /\ a < p * x + p
    BY <2>1, Quotient
  <2>3. y \in Nat /\ p * y <= b /\ b < p * y + p
    BY <2>1, Quotient
  <2>4. x % 2 = y % 2
    BY DEF Bit
  <2>4a. a - b <= p
    OBVIOUS
  <2> HIDE DEF x, y, p
  <2>5. p * x - p * y < 2 * p /\ p * y - p * x < p
    <3>1. p * x \in Nat /\ p * y \in Nat
      BY <2>1, <2>2, <2>3
    <3> QED
      BY <2>1, <2>2, <2>3, <2>4a, <3>1
  <2>6. p * x - p * y = p * (x - y) /\ p * y - p * x = p * (y - x)
    BY <2>1, <2>2, <2>3
  <2>7. x - y < 2 /\ y - x < 1
    BY <2>1, <2>2, <2>3, <2>5, <2>6
  <2>8. x = y
    BY <2>2, <2>3, <2>4, <2>7
  <2> QED
    BY <2>8 DEF x, y, p
<1> DEFINE Bad == {i \in Nat : i <= n /\ n - i >= j /\ a \div Pow2[n - i] # b \div Pow2[n - i]}
<1>2. Bad = {}
  <2> SUFFICES ASSUME Bad # {} PROVE FALSE
    OBVIOUS
  <2>1. Bad \in SUBSET Nat
    OBVIOUS
  <2> DEFINE m == Min(Bad)
  <2>2. m \in Bad /\ \A y \in Bad : m <= y
    BY <2>1, MinIn
  <2> HIDE DEF m
  <2>3. m # 0
    BY <1>1, <2>2
  <2> DEFINE i == n - m
  <2>4. i \in Nat /\ i \in j..n /\ m - 1 \in Nat /\ n - (m - 1) = i + 1 /\ m - 1 \notin Bad /\ i + 1 <= n
        /\ a \div Pow2[i] # b \div Pow2[i] /\ m - 1 <= n /\ n - (m - 1) >= j
    BY <2>2, <2>3
  <2>5. a \div Pow2[i + 1] = b \div Pow2[i + 1]
    BY <2>4
  <2> HIDE DEF i
  <2>6. Pow2[i] \in Nat \ {0} /\ Pow2[i + 1] = 2 * Pow2[i]
    BY <1>0, <2>4
  <2>7. (a \div Pow2[i]) \div 2 = (b \div Pow2[i]) \div 2
    BY <2>5, <2>6, Halved
  <2>8. (a \div Pow2[i]) % 2 = (b \div Pow2[i]) % 2
    BY <2>4 DEF Bit
  <2>9. a \div Pow2[i] \in Nat /\ b \div Pow2[i] \in Nat
    BY <2>6, Quotient
  <2> QED
    BY <2>4, <2>7, <2>8, <2>9
<1>3. n - j \in Nat /\ n - j <= n /\ n - (n - j) = j
  OBVIOUS
<1>4. n - j \notin Bad
  BY <1>2
<1>5. n - (n - j) >= j
  OBVIOUS
<1>6. a \div Pow2[n - (n - j)] = b \div Pow2[n - (n - j)]
  BY <1>3, <1>4, <1>5
<1> QED
  BY <1>3, <1>6

LEMMA BucketTimeNat ==
    ASSUME NEW i \in Nat
    PROVE  PQ_BUCKET_TIME(i) \in Nat /\ PQ_BUCKET_TIME(i) >= 1
<1>1. Pow2[i] \in Nat /\ Pow2[i] >= 1 /\ UNIT \in Nat /\ UNIT >= 1
  BY Pow2Pos, WheelAssumption
<1> QED
  BY <1>1 DEF PQ_BUCKET_TIME

\* How many buckets a check looks at is a number, whatever the counters are.
LEMMA TodoType ==
    ASSUME NEW a, NEW b
    PROVE  TodoBuckets(a, b) \in Nat
<1> DEFINE S == {0} \union {j + 1 : j \in {j \in 0..(PQ_LIST_COUNT - 2) : Bit(a, j) # Bit(b, j)}}
<1>1. S \in SUBSET (0..(PQ_LIST_COUNT - 1)) /\ S # {} /\ PQ_LIST_COUNT - 1 \in Nat
  BY WheelAssumption
<1>2. Max(S) \in S
  BY <1>1, MaxIn
<1> QED
  BY <1>1, <1>2 DEF TodoBuckets

LEMMA BitsAgree ==
    ASSUME NEW a \in Nat, NEW b \in Nat, NEW i \in Nat, i > TodoBuckets(a, b)
    PROVE  \A j \in (i - 1)..(PQ_LIST_COUNT - 2) : Bit(a, j) = Bit(b, j)
<1> DEFINE D == {j \in 0..(PQ_LIST_COUNT - 2) : Bit(a, j) # Bit(b, j)}
           S == {0} \union {j + 1 : j \in D}
<1>1. S \in SUBSET (0..(PQ_LIST_COUNT - 1)) /\ S # {} /\ PQ_LIST_COUNT - 1 \in Nat
  BY WheelAssumption
<1>2. TodoBuckets(a, b) = Max(S)
  BY DEF TodoBuckets
<1>3. Max(S) \in S /\ \A y \in S : y <= Max(S)
  BY <1>1, MaxIn
<1>0. Max(S) \in Nat
  <2>1. S \subseteq Nat
    BY WheelAssumption
  <2> HIDE DEF S
  <2> QED
    BY <1>3, <2>1
<1> HIDE DEF S
<1>4. ASSUME NEW j \in (i - 1)..(PQ_LIST_COUNT - 2), Bit(a, j) # Bit(b, j)
      PROVE  FALSE
  <2>1. j \in 0..(PQ_LIST_COUNT - 2) /\ j + 1 >= i
    <3>1. i >= 1
      BY <1>0, <1>2
    <3> QED
      BY <3>1, WheelAssumption
  <2>2. j + 1 \in S
    BY <1>4, <2>1 DEF S
  <2> QED
    BY <1>0, <1>2, <1>3, <2>1, <2>2, WheelAssumption
<1> QED
  BY <1>4
\* The first bucket is for what is due within one unit.
LEMMA BucketForFits ==
    ASSUME NEW d \in Int
    PROVE  /\ BucketFor(d) \in Buckets
           /\ BucketFor(d) = 0 => d <= PQ_BUCKET_TIME(0)
<1> DEFINE S == {i \in Buckets : d <= PQ_BUCKET_TIME(i)} \union {PQ_LIST_COUNT - 1}
<1>1. S \subseteq Buckets /\ S # {} /\ S \in SUBSET Nat /\ PQ_LIST_COUNT - 1 # 0
  BY WheelAssumption DEF Buckets
<1>2. Min(S) \in S
  BY <1>1, MinIn
<1>3. BucketFor(d) = Min(S)
  BY DEF BucketFor
<1> QED
  BY <1>1, <1>2, <1>3

LEMMA RebucketFits ==
    ASSUME NEW i \in Buckets, i >= 1, NEW d \in Int
    PROVE  /\ Rebucket(i, d) \in Buckets
           /\ Rebucket(i, d) = 0 => d <= PQ_BUCKET_TIME(0)
<1> DEFINE S == {j \in 0..i : \A m \in j..(i - 1) : d <= PQ_BUCKET_TIME(m)}
<1>1. S \in SUBSET Nat /\ S \subseteq Buckets /\ i \in S
  BY WheelAssumption DEF Buckets
<1>2. Min(S) \in S
  BY <1>1, MinIn
<1>3. 0 \in S => d <= PQ_BUCKET_TIME(0)
  BY DEF Buckets
<1>4. Rebucket(i, d) = Min(S)
  BY DEF Rebucket
<1> QED
  BY <1>1, <1>2, <1>3, <1>4

\* A bucket but the first is for what is beyond the reach of the one before.
LEMMA BucketForFar ==
    ASSUME NEW d \in Int, BucketFor(d) >= 1
    PROVE  d > PQ_BUCKET_TIME(BucketFor(d) - 1)
<1> DEFINE S == {i \in Buckets : d <= PQ_BUCKET_TIME(i)} \union {PQ_LIST_COUNT - 1}
           b == BucketFor(d)
<1>1. S \in SUBSET Nat /\ S # {}
  BY WheelAssumption DEF Buckets
<1>2. b = Min(S)
  BY DEF BucketFor
<1>3. \A y \in S : b <= y
  BY <1>1, <1>2, MinIn
<1>4. b \in Buckets /\ b >= 1
  BY BucketForFits
<1> HIDE DEF b
<1>5. b - 1 \in Buckets /\ ~(b <= b - 1)
  BY <1>4, WheelAssumption DEF Buckets
<1>6. b - 1 \notin S
  BY <1>3, <1>5
<1>7. ~(d <= PQ_BUCKET_TIME(b - 1)) /\ PQ_BUCKET_TIME(b - 1) \in Nat
  <2>1. b - 1 \in Nat
    BY <1>4 DEF Buckets
  <2> QED
    BY <1>5, <1>6, <2>1, BucketTimeNat
<1> QED
  BY <1>7 DEF b

LEMMA RebucketFar ==
    ASSUME NEW i \in Buckets, i >= 1, NEW d \in Int, Rebucket(i, d) >= 1
    PROVE  d > PQ_BUCKET_TIME(Rebucket(i, d) - 1)
<1> DEFINE S == {j \in 0..i : \A m \in j..(i - 1) : d <= PQ_BUCKET_TIME(m)}
           b == Rebucket(i, d)
<1>1. S \in SUBSET Nat /\ i \in S /\ i \in Nat
  BY WheelAssumption DEF Buckets
<1>2. b = Min(S)
  BY DEF Rebucket
<1>3. b \in S /\ \A y \in S : b <= y
  BY <1>1, <1>2, MinIn
<1>4. b \in 0..i /\ b >= 1 /\ \A m \in b..(i - 1) : d <= PQ_BUCKET_TIME(m)
  BY <1>3
<1> HIDE DEF b
<1>5. b - 1 \in 0..i /\ b - 1 \in Nat /\ ~(b <= b - 1)
  BY <1>1, <1>4
<1>6. b - 1 \notin S
  BY <1>3, <1>5
<1>7. PICK m \in (b - 1)..(i - 1) : ~(d <= PQ_BUCKET_TIME(m))
  BY <1>5, <1>6
<1>8. m = b - 1
  BY <1>1, <1>4, <1>7
<1>9. PQ_BUCKET_TIME(b - 1) \in Nat
  BY <1>5, BucketTimeNat
<1> QED
  BY <1>7, <1>8, <1>9 DEF b

(***************************************************************************)
(* Types, and what is in bucket 0                                          *)
(***************************************************************************)

\* An event in bucket 0 is due within one unit.
ReadyInTime == \A e \in Events : in_heap[e] = 0 => timeout_at[e] - now <= PQ_BUCKET_TIME(0)

WheelInv == TypeOK /\ ReadyInTime

LEMMA StallNat == MaxStall \in Nat /\ MaxStall >= 1
<1> DEFINE B == UNIT * Pow2[PQ_LIST_COUNT - 2]
<1>1. PQ_LIST_COUNT - 2 \in Nat
  BY WheelAssumption
<1>2. B \in Int
  BY <1>1, Pow2Pos, WheelAssumption
<1>3. MaxStall \in 1..B
  BY WheelAssumption
<1> HIDE DEF B
<1> QED
  BY <1>2, <1>3

LEMMA InitWheel == Init => WheelInv
<1> SUFFICES ASSUME Init PROVE WheelInv
  OBVIOUS
<1>1. now \in 0..MaxTime
  <2> DEFINE B == UNIT * Pow2[PQ_LIST_COUNT - 1]
  <2>1. now \in 0..(B - 1) /\ B <= MaxTime + 1 /\ MaxTime \in Nat
    BY WheelAssumption DEF Init
  <2>2. B \in Int
    <3>1. PQ_LIST_COUNT - 1 \in Nat
      BY WheelAssumption
    <3> QED
      BY <3>1, Pow2Pos, WheelAssumption
  <2> HIDE DEF B
  <2> QED
    BY <2>1, <2>2
<1>2. TypeOK
  BY <1>1, WheelAssumption DEF Init, TypeOK
<1>3. ReadyInTime
  BY DEF Init, ReadyInTime, Out
<1> QED
  BY <1>2, <1>3 DEF WheelInv

LEMMA NextWheel == WheelInv /\ [Next]_vars => WheelInv'
<1> SUFFICES ASSUME WheelInv, [Next]_vars PROVE WheelInv'
  OBVIOUS
<1> USE DEF WheelInv
<1>0. now \in Nat /\ last \in Nat /\ PQ_BUCKET_TIME(0) \in Nat /\ -1 \notin Buckets /\ timeout_at \in [Events -> Int]
      /\ in_heap \in [Events -> Buckets \union {Out}] /\ Buckets \subseteq Nat
  BY BucketTimeNat, WheelAssumption DEF TypeOK, Buckets
<1>1. CASE UNCHANGED vars
  BY <1>1 DEF vars, TypeOK, ReadyInTime
<1>2. CASE CheckReady
  <2> DEFINE k == TodoBuckets(now \div UNIT, last \div UNIT)
             examined == {e \in Events : in_heap[e] \in 1..k}
  <2>1. k \in Nat
    BY TodoType
  <2>2. \A e \in examined : in_heap[e] \in Buckets /\ in_heap[e] >= 1
    BY <1>0, <2>1 DEF Out
  <2>3. \A e \in examined : /\ Rebucket(in_heap[e], timeout_at[e] - now) \in Buckets
                            /\ Rebucket(in_heap[e], timeout_at[e] - now) = 0 => timeout_at[e] - now <= PQ_BUCKET_TIME(0)
    BY <1>0, <2>2, RebucketFits
  <2> HIDE DEF k
  <2>4. /\ in_heap' = [e \in Events |->
              IF e \notin examined THEN in_heap[e]
              ELSE IF e \in cancelled THEN Out
              ELSE Rebucket(in_heap[e], timeout_at[e] - now)]
        /\ timeout_at' = [e \in Events |->
              IF e \in examined \intersect cancelled THEN 0 ELSE timeout_at[e]]
        /\ cancelled' = cancelled \ examined /\ last' = now /\ checked' = TRUE /\ now' = now
    BY <1>2 DEF CheckReady, k
  <2> HIDE DEF examined
  <2>5. in_heap' \in [Events -> Buckets \union {Out}]
    BY <1>0, <2>3, <2>4 DEF examined
  <2>6. timeout_at' \in [Events -> -UNIT..(MaxTime + MaxDelay)]
    BY <2>4, WheelAssumption DEF TypeOK
  <2>7. cancelled' \subseteq {e \in Events : in_heap'[e] # Out}
    BY <2>4 DEF TypeOK
  <2>8. TypeOK'
    BY <1>0, <2>4, <2>5, <2>6, <2>7 DEF TypeOK
  <2>9. ReadyInTime'
    BY <1>0, <2>3, <2>4 DEF ReadyInTime, Out
  <2> QED
    BY <2>8, <2>9
<1>3. ASSUME NEW d \in 1..MaxStall, Pass(d)
      PROVE  WheelInv'
  <2>1. d \in Nat /\ d >= 1 /\ MaxStall \in Nat
    <3>1. MaxStall \in Int
      BY StallNat
    <3> QED
      BY <1>3, <3>1
  <2>2. now' = now + d /\ now + d <= MaxTime /\ UNCHANGED <<last, in_heap, timeout_at, cancelled>> /\ checked' = FALSE
    BY <1>3 DEF Pass
  <2>3. now' \in 0..MaxTime /\ last' \in 0..now'
    <3>1. MaxTime \in Nat /\ last <= now
      BY <1>0, WheelAssumption DEF TypeOK
    <3> QED
      BY <1>0, <2>1, <2>2, <3>1
  <2>4. TypeOK'
    BY <2>2, <2>3 DEF TypeOK
  <2>5. ReadyInTime'
    BY <1>0, <2>1, <2>2 DEF ReadyInTime
  <2> QED
    BY <2>4, <2>5
<1>4. ASSUME NEW e \in Events, NEW d \in -UNIT..MaxDelay, Enqueue(e, d)
      PROVE  WheelInv'
  <2>1. d \in Int /\ d >= -UNIT /\ d <= MaxDelay
    BY <1>4, WheelAssumption
  <2>2. BucketFor(d) \in Buckets /\ (BucketFor(d) = 0 => d <= PQ_BUCKET_TIME(0))
    BY <2>1, BucketForFits
  <2>3. /\ in_heap' = [in_heap EXCEPT ![e] = BucketFor(d)] /\ timeout_at' = [timeout_at EXCEPT ![e] = now + d]
        /\ UNCHANGED <<now, last, cancelled, checked>>
    BY <1>4 DEF Enqueue
  <2>4. now + d \in -UNIT..(MaxTime + MaxDelay)
    BY <1>0, <2>1, WheelAssumption DEF TypeOK
  <2>5. TypeOK'
    BY <1>0, <2>2, <2>3, <2>4 DEF TypeOK, Out
  <2>6. ReadyInTime'
    BY <1>0, <2>1, <2>2, <2>3 DEF ReadyInTime
  <2> QED
    BY <2>5, <2>6
<1>5. ASSUME NEW e \in Events, Remove(e) \/ DequeueReady(e)
      PROVE  WheelInv'
  <2>1. /\ in_heap' = [in_heap EXCEPT ![e] = Out] /\ timeout_at' = [timeout_at EXCEPT ![e] = 0]
        /\ UNCHANGED <<now, last, checked>> /\ cancelled' \subseteq cancelled /\ e \notin cancelled'
    BY <1>5 DEF Remove, DequeueReady
  <2>2. 0 \in -UNIT..(MaxTime + MaxDelay)
    BY WheelAssumption
  <2>3. TypeOK'
    BY <2>1, <2>2 DEF TypeOK
  <2>4. ReadyInTime'
    BY <1>0, <2>1 DEF ReadyInTime, Out
  <2> QED
    BY <2>3, <2>4
<1>6. ASSUME NEW e \in Events, Cancel(e)
      PROVE  WheelInv'
  BY <1>6 DEF Cancel, TypeOK, ReadyInTime
<1> QED
  BY <1>1, <1>2, <1>3, <1>4, <1>5, <1>6 DEF Next

\* The buckets and times of the priority queue stay in range, for any number
\* of buckets.
THEOREM WheelTypeCorrect == Spec => []TypeOK
<1>1. WheelInv => TypeOK
  BY DEF WheelInv
<1> QED
  BY <1>1, InitWheel, NextWheel, PTL DEF Spec

\* dequeue_ready never hands out an event more than one unit before its time,
\* whatever the number of buckets, the delays and the times between checks.
THEOREM NeverEarly == Spec => NotEarly
<1>1. WheelInv /\ [Next]_vars =>
        [\A e \in Events : (in_heap[e] = 0 /\ in_heap'[e] = Out) => timeout_at[e] - now <= PQ_BUCKET_TIME(0)]_vars
  BY DEF WheelInv, ReadyInTime
<1> QED
  BY <1>1, InitWheel, NextWheel, PTL DEF Spec, NotEarly

(***************************************************************************)
(* Never late                                                              *)
(***************************************************************************)

\* Time is cut in blocks as long as the reach of bucket j: the end of the one t is in.
BlockEnd(j, t) == PQ_BUCKET_TIME(j) * ((t \div UNIT) \div Pow2[j] + 1)

\* What waits in a bucket is due after the block, as long as the reach of the
\* bucket before, in which the last check was.  A check passes over a bucket
\* only while the clock is still in that block.
Placed == \A e \in Events :
    in_heap[e] >= 1 => timeout_at[e] > BlockEnd(in_heap[e] - 1, last)

Stalls == now - last <= MaxStall /\ (checked => last = now)

PlacedInv == WheelInv /\ Placed /\ Stalls

LEMMA BlockEndBounds ==
    ASSUME NEW t \in Nat, NEW j \in Nat
    PROVE  /\ BlockEnd(j, t) \in Nat
           /\ t < BlockEnd(j, t)
           /\ BlockEnd(j, t) <= t + PQ_BUCKET_TIME(j)
<1> DEFINE u == UNIT
           p == Pow2[j]
           m == t \div u
           b == m \div p
<1>1. u \in Nat \ {0} /\ p \in Nat \ {0}
  BY Pow2Pos, WheelAssumption
<1>2. m \in Nat /\ u * m <= t /\ t < u * m + u
  BY <1>1, Quotient
<1>3. b \in Nat /\ p * b <= m /\ m < p * b + p
  BY <1>1, <1>2, Quotient
<1>4. BlockEnd(j, t) = (u * p) * (b + 1) /\ PQ_BUCKET_TIME(j) = u * p
  BY DEF BlockEnd, PQ_BUCKET_TIME
<1> HIDE DEF u, p, m, b
<1> DEFINE x == p * b
<1>5. x \in Nat /\ (u * p) * (b + 1) = u * x + u * p /\ u * x + u * p = u * (x + p)
  BY <1>1, <1>3
<1>6. x <= m /\ m + 1 <= x + p
  BY <1>1, <1>2, <1>3, <1>5
<1> HIDE DEF x
<1>7. u * x <= u * m
  BY <1>1, <1>2, <1>5, <1>6
<1>8. u * m + u <= u * (x + p)
  <2>1. u * (m + 1) <= u * (x + p)
    BY <1>1, <1>2, <1>5, <1>6
  <2>2. u * (m + 1) = u * m + u
    BY <1>1, <1>2
  <2> QED
    BY <2>1, <2>2
<1>9. u * x \in Nat /\ u * m \in Nat /\ u * p \in Nat /\ u * (x + p) \in Nat
  BY <1>1, <1>2, <1>5
<1> QED
  BY <1>1, <1>2, <1>4, <1>5, <1>7, <1>8, <1>9

\* How far apart two millisecond counters are.
LEMMA CountersApart ==
    ASSUME NEW t \in Nat, NEW s \in Nat, s <= t, NEW k \in Nat, t - s <= UNIT * k
    PROVE  /\ s \div UNIT <= t \div UNIT
           /\ t \div UNIT - s \div UNIT <= k
<1> DEFINE u == UNIT
           x == t \div u
           y == s \div u
<1>1. u \in Nat \ {0}
  BY WheelAssumption
<1>2. x \in Nat /\ u * x <= t /\ t < u * x + u
  BY <1>1, Quotient
<1>3. y \in Nat /\ u * y <= s /\ s < u * y + u
  BY <1>1, Quotient
<1>4. t - s <= u * k
  OBVIOUS
<1> HIDE DEF u, x, y
<1>5. u * x \in Nat /\ u * y \in Nat /\ u * k \in Nat
  BY <1>1, <1>2, <1>3
<1>6. u * y - u * x < u /\ u * x - u * y < u * k + u
  BY <1>1, <1>2, <1>3, <1>4, <1>5
<1>7. u * y - u * x = u * (y - x) /\ u * x - u * y = u * (x - y) /\ u * k + u = u * (k + 1)
  BY <1>1, <1>2, <1>3
<1>8. y - x < 1 /\ x - y < k + 1
  BY <1>1, <1>2, <1>3, <1>6, <1>7
<1>9. y <= x /\ x - y <= k
  BY <1>2, <1>3, <1>8
<1> QED
  BY <1>9 DEF u, x, y

\* A check that passes over bucket i finds the clock in the block of the check before.
LEMMA PassedOver ==
    ASSUME NEW t \in Nat, NEW s \in Nat, s <= t, t - s <= MaxStall,
           NEW i \in Buckets, i > TodoBuckets(t \div UNIT, s \div UNIT)
    PROVE  BlockEnd(i - 1, t) = BlockEnd(i - 1, s)
<1> DEFINE n == PQ_LIST_COUNT - 2
           a == t \div UNIT
           b == s \div UNIT
<1>1. n \in Nat /\ UNIT \in Nat \ {0}
  BY WheelAssumption
<1>2. a \in Nat /\ b \in Nat
  BY <1>1, Quotient
<1>3. Pow2[n] \in Nat
  BY <1>1, Pow2Pos
<1>4. t - s <= UNIT * Pow2[n]
  <2> DEFINE B == UNIT * Pow2[n]
  <2>1. B \in Nat /\ MaxStall \in 1..B
    BY <1>1, <1>3, WheelAssumption
  <2> HIDE DEF B
  <2>2. t - s <= B
    BY <2>1
  <2> QED
    BY <2>2 DEF B
<1>5. b <= a /\ a - b <= Pow2[n]
  BY <1>3, <1>4, CountersApart
<1>6. TodoBuckets(a, b) \in Nat
  BY TodoType
<1>7. i > TodoBuckets(a, b)
  OBVIOUS
<1> HIDE DEF a, b
<1>8. i \in Nat /\ i >= 1 /\ i - 1 \in Nat /\ i - 1 <= n
  BY <1>6, <1>7, WheelAssumption DEF Buckets
<1>9. \A j \in (i - 1)..n : Bit(a, j) = Bit(b, j)
  BY <1>2, <1>7, <1>8, BitsAgree
<1>10. a \div Pow2[i - 1] = b \div Pow2[i - 1]
  BY <1>1, <1>2, <1>5, <1>8, <1>9, SameBlock
<1> QED
  BY <1>10 DEF BlockEnd, a, b

LEMMA InitPlaced == Init => PlacedInv
<1> SUFFICES ASSUME Init PROVE PlacedInv
  OBVIOUS
<1>1. WheelInv
  BY InitWheel
<1>2. Placed
  BY DEF Init, Placed, Out
<1>3. Stalls
  <2>1. now \in Int /\ last = now
    BY <1>1, WheelAssumption DEF WheelInv, TypeOK, Init
  <2> QED
    BY <2>1, StallNat DEF Stalls
<1> QED
  BY <1>1, <1>2, <1>3 DEF PlacedInv

LEMMA NextPlaced == PlacedInv /\ [Next]_vars => PlacedInv'
<1> SUFFICES ASSUME PlacedInv, [Next]_vars PROVE Placed' /\ Stalls'
  BY NextWheel DEF PlacedInv
<1> USE DEF PlacedInv
<1>0. now \in Nat /\ last \in Nat /\ last <= now /\ timeout_at \in [Events -> Int]
      /\ in_heap \in [Events -> Buckets \union {Out}] /\ Buckets \subseteq Nat
  BY WheelAssumption DEF WheelInv, TypeOK, Buckets
<1>1. CASE UNCHANGED vars
  BY <1>1 DEF vars, Placed, Stalls
<1>2. CASE CheckReady
  <2> DEFINE k == TodoBuckets(now \div UNIT, last \div UNIT)
             examined == {e \in Events : in_heap[e] \in 1..k}
  <2>1. k \in Nat
    BY TodoType
  <2>2. /\ in_heap' = [e \in Events |->
              IF e \notin examined THEN in_heap[e]
              ELSE IF e \in cancelled THEN Out
              ELSE Rebucket(in_heap[e], timeout_at[e] - now)]
        /\ timeout_at' = [e \in Events |->
              IF e \in examined \intersect cancelled THEN 0 ELSE timeout_at[e]]
        /\ last' = now /\ checked' = TRUE /\ now' = now
    BY <1>2 DEF CheckReady
  <2>3. Stalls'
    BY <1>0, <2>2, StallNat DEF Stalls
  <2>4. ASSUME NEW e \in Events, in_heap'[e] >= 1
        PROVE  timeout_at'[e] > BlockEnd(in_heap'[e] - 1, now)
    <3>1. CASE e \notin examined
      <4> DEFINE i == in_heap[e]
      <4>1. in_heap'[e] = i /\ timeout_at'[e] = timeout_at[e]
        BY <2>2, <3>1
      <4>2. i \in Buckets /\ i >= 1
        BY <1>0, <2>4, <4>1 DEF Out
      <4>3. i > k
        <5>1. i \in Nat /\ i \notin 1..k
          BY <1>0, <3>1, <4>2
        <5> HIDE DEF k, i
        <5> QED
          BY <2>1, <4>2, <5>1
      <4>4. now - last <= MaxStall
        BY DEF Stalls
      <4>5. BlockEnd(i - 1, now) = BlockEnd(i - 1, last)
        BY <1>0, <4>2, <4>3, <4>4, PassedOver
      <4>6. timeout_at[e] > BlockEnd(i - 1, last)
        BY <4>2 DEF Placed
      <4> QED
        BY <4>1, <4>5, <4>6
    <3>2. CASE e \in examined /\ e \in cancelled
      <4>1. in_heap'[e] = -1
        BY <2>2, <3>2 DEF Out
      <4> QED
        BY <2>4, <4>1
    <3>3. CASE e \in examined /\ e \notin cancelled
      <4> DEFINE i == in_heap[e]
                 j == Rebucket(i, timeout_at[e] - now)
      <4>1. in_heap'[e] = j /\ timeout_at'[e] = timeout_at[e] /\ timeout_at[e] \in Int
        BY <1>0, <2>2, <3>3
      <4>2. i \in Buckets /\ i >= 1 /\ timeout_at[e] - now \in Int
        BY <1>0, <2>1, <3>3 DEF Out
      <4>3. j \in Buckets
        BY <4>2, RebucketFits
      <4>4. j >= 1
        BY <2>4, <4>1
      <4>5. timeout_at[e] - now > PQ_BUCKET_TIME(j - 1)
        BY <4>2, <4>4, RebucketFar
      <4> HIDE DEF j
      <4>6. j - 1 \in Nat
        BY <1>0, <4>3, <4>4
      <4>7. BlockEnd(j - 1, now) <= now + PQ_BUCKET_TIME(j - 1) /\ BlockEnd(j - 1, now) \in Nat
            /\ PQ_BUCKET_TIME(j - 1) \in Nat
        BY <1>0, <4>6, BlockEndBounds, BucketTimeNat
      <4> QED
        BY <1>0, <4>1, <4>5, <4>7
    <3> QED
      BY <3>1, <3>2, <3>3
  <2>5. Placed'
    <3>1. \A e \in Events : in_heap'[e] >= 1 => timeout_at'[e] > BlockEnd(in_heap'[e] - 1, last')
      BY <2>2, <2>4
    <3> QED
      BY <3>1 DEF Placed, BlockEnd, PQ_BUCKET_TIME
  <2> QED
    BY <2>3, <2>5
<1>3. ASSUME NEW d \in 1..MaxStall, Pass(d)
      PROVE  Placed' /\ Stalls'
  <2>1. now' = now + d /\ now + d - last <= MaxStall /\ ~checked' /\ UNCHANGED <<last, in_heap, timeout_at>>
    BY <1>3 DEF Pass
  <2>2. Placed'
    BY <2>1 DEF Placed, BlockEnd, PQ_BUCKET_TIME
  <2>3. now' - last' <= MaxStall
    <3>1. d \in Int /\ last' = last
      BY <2>1, StallNat
    <3> QED
      BY <1>0, <2>1, <3>1
  <2>4. checked' => last' = now'
    BY <2>1
  <2> QED
    BY <2>2, <2>3, <2>4 DEF Stalls
<1>4. ASSUME NEW e \in Events, NEW d \in -UNIT..MaxDelay, Enqueue(e, d)
      PROVE  Placed' /\ Stalls'
  <2>1. d \in Int
    BY <1>4, WheelAssumption
  <2>2. /\ in_heap' = [in_heap EXCEPT ![e] = BucketFor(d)] /\ timeout_at' = [timeout_at EXCEPT ![e] = now + d]
        /\ UNCHANGED <<now, last, checked>>
    BY <1>4 DEF Enqueue
  <2>3. Stalls'
    BY <2>2 DEF Stalls
  <2>4. BucketFor(d) \in Buckets
    BY <2>1, BucketForFits
  <2>5. ASSUME BucketFor(d) >= 1
        PROVE  now + d > BlockEnd(BucketFor(d) - 1, last)
    <3> DEFINE j == BucketFor(d)
    <3>1. d > PQ_BUCKET_TIME(j - 1)
      BY <2>1, <2>5, BucketForFar
    <3>2. j \in Nat /\ j >= 1
      BY <1>0, <2>4, <2>5
    <3> HIDE DEF j
    <3>3. j - 1 \in Nat
      BY <3>2
    <3>4. BlockEnd(j - 1, last) <= last + PQ_BUCKET_TIME(j - 1) /\ BlockEnd(j - 1, last) \in Nat
          /\ PQ_BUCKET_TIME(j - 1) \in Nat
      BY <1>0, <3>3, BlockEndBounds, BucketTimeNat
    <3>5. now + d > BlockEnd(j - 1, last)
      BY <1>0, <2>1, <3>1, <3>4
    <3> QED
      BY <3>5 DEF j
  <2>6. \A f \in Events : in_heap'[f] >= 1 => timeout_at'[f] > BlockEnd(in_heap'[f] - 1, last)
    BY <1>0, <2>2, <2>5 DEF Placed
  <2>7. Placed'
    BY <2>2, <2>6 DEF Placed, BlockEnd, PQ_BUCKET_TIME
  <2> QED
    BY <2>3, <2>7
<1>5. ASSUME NEW e \in Events, Remove(e) \/ DequeueReady(e)
      PROVE  Placed' /\ Stalls'
  <2>1. /\ in_heap' = [in_heap EXCEPT ![e] = Out] /\ timeout_at' = [timeout_at EXCEPT ![e] = 0]
        /\ UNCHANGED <<now, last, checked>>
    BY <1>5 DEF Remove, DequeueReady
  <2>2. \A f \in Events : in_heap'[f] >= 1 => timeout_at'[f] > BlockEnd(in_heap'[f] - 1, last)
    BY <1>0, <2>1 DEF Placed, Out
  <2>3. Placed'
    BY <2>1, <2>2 DEF Placed, BlockEnd, PQ_BUCKET_TIME
  <2> QED
    BY <2>1, <2>3 DEF Stalls
<1>6. ASSUME NEW e \in Events, Cancel(e)
      PROVE  Placed' /\ Stalls'
  BY <1>6 DEF Cancel, Placed, Stalls, BlockEnd, PQ_BUCKET_TIME
<1> QED
  BY <1>1, <1>2, <1>3, <1>4, <1>5, <1>6 DEF Next

LEMMA PlacedNotDue == PlacedInv => NoDueLeft
<1> SUFFICES ASSUME PlacedInv, checked, NEW e \in Events, in_heap[e] >= 1
             PROVE  timeout_at[e] > now
  BY DEF NoDueLeft
<1>1. now \in Nat /\ last = now /\ timeout_at[e] \in Int /\ in_heap[e] \in Nat
  BY WheelAssumption DEF PlacedInv, WheelInv, TypeOK, Stalls, Buckets, Out
<1>2. timeout_at[e] > BlockEnd(in_heap[e] - 1, now)
  BY <1>1 DEF PlacedInv, Placed
<1>3. in_heap[e] - 1 \in Nat
  BY <1>1
<1>4. now < BlockEnd(in_heap[e] - 1, now) /\ BlockEnd(in_heap[e] - 1, now) \in Nat
  BY <1>1, <1>3, BlockEndBounds
<1> QED
  BY <1>1, <1>2, <1>4

\* Whatever the number of buckets and however long the thread was busy, up to
\* MaxStall, check_ready leaves no event that is due in a bucket it passes over.
THEOREM NeverLate == Spec => []NoDueLeft
BY InitPlaced, NextPlaced, PlacedNotDue, PTL DEF Spec

\* earliest_timeout is at most half the reach of an event's bucket after the
\* time the event is due.
THEOREM SleepBounded == Spec => []OversleepBounded
<1>1. PlacedInv => OversleepBounded
  <2> SUFFICES ASSUME PlacedInv, checked, NEW e \in Events, in_heap[e] >= 1
               PROVE  EarliestTimeout - timeout_at[e] < PQ_BUCKET_TIME(in_heap[e]) \div 2
    BY DEF OversleepBounded
  <2>1. now \in Nat /\ last = now /\ timeout_at[e] \in Int /\ in_heap[e] \in Nat
        /\ \A f \in Events : in_heap[f] # Out => in_heap[f] \in Nat
    BY WheelAssumption DEF PlacedInv, WheelInv, TypeOK, Stalls, Buckets, Out
  <2>2. timeout_at[e] > now
    BY PlacedNotDue DEF NoDueLeft
  <2> DEFINE S == {in_heap[f] : f \in {g \in Events : in_heap[g] # Out}}
             b == Min(S)
  <2>3. S \in SUBSET Nat /\ in_heap[e] \in S
    BY <2>1 DEF Out
  <2>4. b \in Nat /\ b <= in_heap[e]
    BY <2>3, MinIn
  <2>5. EarliestTimeout = now + PQ_BUCKET_TIME(b) \div 2
    BY <2>1 DEF EarliestTimeout
  <2> HIDE DEF b
  <2>6. PQ_BUCKET_TIME(b) <= PQ_BUCKET_TIME(in_heap[e])
    <3>1. Pow2[b] <= Pow2[in_heap[e]] /\ Pow2[b] \in Nat /\ Pow2[in_heap[e]] \in Nat /\ UNIT \in Nat
      BY <2>1, <2>4, Pow2Monotone, Pow2Pos, WheelAssumption
    <3> QED
      BY <3>1 DEF PQ_BUCKET_TIME
  <2>7. PQ_BUCKET_TIME(b) \in Nat /\ PQ_BUCKET_TIME(in_heap[e]) \in Nat
    BY <2>1, <2>4, BucketTimeNat
  <2>8. PQ_BUCKET_TIME(b) \div 2 <= PQ_BUCKET_TIME(in_heap[e]) \div 2
        /\ PQ_BUCKET_TIME(b) \div 2 \in Nat /\ PQ_BUCKET_TIME(in_heap[e]) \div 2 \in Nat
    BY <2>6, <2>7
  <2> QED
    BY <2>1, <2>2, <2>5, <2>8
<1> QED
  BY <1>1, InitPlaced, NextPlaced, PTL DEF Spec
=============================================================================
