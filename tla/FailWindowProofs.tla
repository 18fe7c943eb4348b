--------------------------- MODULE FailWindowProofs ----------------------------
(***************************************************************************)
(* Facts about one failure history: the sum of its bins, the ring they     *)
(* form, and what regist_event keeps, for every number of bins, every      *)
(* modulus and every sequence of reports.  FailHistory and CongestionEntry *)
(* rest on them.                                                           *)
(***************************************************************************)
EXTENDS FailWindow, FiniteSetTheorems, WellFoundedInduction, TLAPS

\* Every nonempty set of natural numbers has a least element.
LEMMA LeastNat ==
  ASSUME NEW S \in SUBSET Nat, S # {}
  PROVE  \E x \in S : \A y \in S : x <= y
<1>1. PICK x \in S : \A y \in S : ~(<<y, x>> \in OpToRel(<, Nat))
  BY NatLessThanWellFounded, WFMin
<1>2. ASSUME NEW y \in S
      PROVE  x <= y
  <2>1. <<y, x>> \in Nat \X Nat /\ <<y, x>>[1] = y /\ <<y, x>>[2] = x
    OBVIOUS
  <2>2. y < x => <<y, x>> \in OpToRel(<, Nat)
    BY <2>1, Zenon DEF OpToRel
  <2>3. ~(y < x)
    BY <1>1, <1>2, <2>2
  <2> QED
    BY <2>3
<1> QED
  BY <1>2

(***************************************************************************)
(* Sums.  The fold behind Total chooses an element, adds its count and     *)
(* goes on with the rest; a function that does so for all subsets of a     *)
(* finite set must first be shown to exist.                                *)
(***************************************************************************)
Pick(s) == CHOOSE x \in s : TRUE
Step(f, g, s) == IF s = {} THEN 0 ELSE f[Pick(s)] + g[s \ {Pick(s)}]
Adds(f, g, S) == g = [s \in SUBSET S |-> Step(f, g, s)]
AddsUpTo(f, g, S, n) == \A s \in SUBSET S : Cardinality(s) <= n => g[s] = Step(f, g, s)

\* A smaller set is left when an element is taken out.
LEMMA PickOne ==
  ASSUME NEW s, IsFiniteSet(s), s # {}
  PROVE  /\ Pick(s) \in s /\ IsFiniteSet(s \ {Pick(s)})
         /\ Cardinality(s) \in Nat /\ Cardinality(s \ {Pick(s)}) = Cardinality(s) - 1
         /\ Cardinality(s \ {Pick(s)}) \in Nat
<1>1. Pick(s) \in s
  BY DEF Pick
<1> QED
  BY <1>1, FS_RemoveElement, FS_CardinalityType

\* Finite sets: of those that have something wrong with them, one that is
\* right when any of its elements is taken out.
LEMMA Smallest ==
  ASSUME NEW W, W # {}, \A s \in W : IsFiniteSet(s)
  PROVE  \E s \in W : \A x \in s : s \ {x} \notin W
<1> DEFINE Sizes == {Cardinality(s) : s \in W}
<1>1. Sizes \in SUBSET Nat /\ Sizes # {}
  BY FS_CardinalityType
<1>2. PICK m \in Sizes : \A k \in Sizes : m <= k
  BY <1>1, LeastNat
<1>3. PICK s \in W : Cardinality(s) = m
  BY <1>2
<1>4. ASSUME NEW x \in s PROVE s \ {x} \notin W
  <2>1. Cardinality(s \ {x}) = m - 1 /\ m \in Nat
    BY <1>3, FS_RemoveElement, FS_CardinalityType
  <2>2. s \ {x} \in W => Cardinality(s \ {x}) \in Sizes
    OBVIOUS
  <2> QED
    BY <1>2, <2>1, <2>2
<1> QED
  BY <1>4

\* Sums of subsets of at most n elements.
LEMMA AddsUpToExists ==
  ASSUME NEW f, NEW S, IsFiniteSet(S), NEW n \in Nat
  PROVE  \E g : AddsUpTo(f, g, S, n)
<1> DEFINE Bad == {m \in Nat : ~\E g : AddsUpTo(f, g, S, m)}
<1> SUFFICES ASSUME Bad # {} PROVE FALSE
  OBVIOUS
<1>1. PICK m \in Bad : \A k \in Bad : m <= k
  BY LeastNat
<1>2. \A s \in SUBSET S : IsFiniteSet(s) /\ Cardinality(s) \in Nat
  BY FS_Subset, FS_CardinalityType
<1>3. CASE m = 0
  <2> DEFINE g == [s \in SUBSET S |-> 0]
  <2>1. ASSUME NEW s \in SUBSET S, Cardinality(s) <= 0 PROVE g[s] = Step(f, g, s)
    <3>1. s = {}
      BY <1>2, <2>1, FS_EmptySet
    <3> QED
      BY <3>1 DEF Step
  <2>2. AddsUpTo(f, g, S, 0)
    BY <2>1 DEF AddsUpTo
  <2> QED
    BY <1>1, <1>3, <2>2
<1>4. CASE m # 0
  <2>1. m - 1 \in Nat /\ m - 1 \notin Bad
    BY <1>1, <1>4
  <2>2. PICK g : AddsUpTo(f, g, S, m - 1)
    BY <2>1
  <2> DEFINE h == [s \in SUBSET S |-> Step(f, g, s)]
  <2>3. ASSUME NEW s \in SUBSET S, Cardinality(s) <= m PROVE h[s] = Step(f, h, s)
    <3>1. CASE s = {}
      BY <3>1 DEF Step
    <3>2. CASE s # {}
      <4>1. Cardinality(s \ {Pick(s)}) <= m - 1 /\ s \ {Pick(s)} \in SUBSET S
        BY <1>2, <2>3, <3>2, PickOne
      <4>2. g[s \ {Pick(s)}] = Step(f, g, s \ {Pick(s)})
        BY <2>2, <4>1 DEF AddsUpTo
      <4>3. h[s \ {Pick(s)}] = g[s \ {Pick(s)}]
        BY <4>1, <4>2
      <4>4. h[s] = Step(f, g, s)
        OBVIOUS
      <4> QED
        BY <3>2, <4>3, <4>4 DEF Step
    <3> QED
      BY <3>1, <3>2
  <2>4. AddsUpTo(f, h, S, m)
    BY <2>3 DEF AddsUpTo
  <2> QED
    BY <1>1, <2>4
<1> QED
  BY <1>3, <1>4

\* Sums of all subsets.
LEMMA AddsExists ==
  ASSUME NEW f, NEW S, IsFiniteSet(S)
  PROVE  \E g : Adds(f, g, S)
<1>1. Cardinality(S) \in Nat
  BY FS_CardinalityType
<1>2. PICK g : AddsUpTo(f, g, S, Cardinality(S))
  BY <1>1, AddsUpToExists
<1> DEFINE h == [s \in SUBSET S |-> g[s]]
<1>3. ASSUME NEW s \in SUBSET S PROVE h[s] = Step(f, h, s)
  <2>1. Cardinality(s) <= Cardinality(S) /\ IsFiniteSet(s)
    BY FS_Subset
  <2>2. g[s] = Step(f, g, s)
    BY <1>2, <2>1 DEF AddsUpTo
  <2>3. s # {} => s \ {Pick(s)} \in SUBSET S
    OBVIOUS
  <2> QED
    BY <2>2, <2>3 DEF Step
<1>4. h = [s \in SUBSET S |-> Step(f, h, s)]
  BY <1>3
<1> QED
  BY <1>4 DEF Adds

\* They do not depend on the set they are subsets of.
LEMMA AddsUnique ==
  ASSUME NEW f, NEW S, NEW T, IsFiniteSet(S), NEW g, NEW h, Adds(f, g, S), Adds(f, h, T),
         NEW r, r \subseteq S, r \subseteq T
  PROVE  g[r] = h[r]
<1> DEFINE W == {s \in SUBSET S : s \subseteq T /\ g[s] # h[s]}
<1> SUFFICES ASSUME W # {} PROVE FALSE
  OBVIOUS
<1>1. \A s \in W : IsFiniteSet(s)
  BY FS_Subset
<1>2. PICK s \in W : \A x \in s : s \ {x} \notin W
  BY <1>1, Smallest
<1>3. g[s] = Step(f, g, s) /\ h[s] = Step(f, h, s)
  BY <1>2 DEF Adds
<1>4. CASE s = {}
  BY <1>2, <1>3, <1>4 DEF Step
<1>5. CASE s # {}
  <2>1. Pick(s) \in s
    BY <1>5 DEF Pick
  <2>2. g[s \ {Pick(s)}] = h[s \ {Pick(s)}]
    BY <1>2, <2>1
  <2> QED
    BY <1>2, <1>3, <1>5, <2>2 DEF Step
<1> QED
  BY <1>4, <1>5

LEMMA TotalAdds ==
  ASSUME NEW f, NEW S, IsFiniteSet(S), NEW g, Adds(f, g, S)
  PROVE  Total(f, S) = g[S]
<1> DEFINE A == CHOOSE a : Adds(f, a, S)
<1>1. Total(f, S) = A[S]
  BY DEF Total, MapThenSumSet, MapThenFoldSet, Adds, Step, Pick
<1>2. Adds(f, A, S)
  BY AddsExists
<1> QED
  BY <1>1, <1>2, AddsUnique

\* The defining equation.
LEMMA TotalStep ==
  ASSUME NEW f, NEW S, IsFiniteSet(S)
  PROVE  /\ S = {} => Total(f, S) = 0
         /\ S # {} => Total(f, S) = f[Pick(S)] + Total(f, S \ {Pick(S)})
<1>1. PICK g : Adds(f, g, S)
  BY AddsExists
<1>2. Total(f, S) = g[S] /\ g[S] = Step(f, g, S)
  BY <1>1, TotalAdds DEF Adds
<1>3. ASSUME S # {} PROVE g[S \ {Pick(S)}] = Total(f, S \ {Pick(S)})
  <2>1. IsFiniteSet(S \ {Pick(S)})
    BY <1>3, PickOne
  <2>2. PICK h : Adds(f, h, S \ {Pick(S)})
    BY <2>1, AddsExists
  <2>3. h[S \ {Pick(S)}] = g[S \ {Pick(S)}]
    BY <1>1, <2>1, <2>2, AddsUnique
  <2> QED
    BY <2>1, <2>2, <2>3, TotalAdds
<1> QED
  BY <1>2, <1>3 DEF Step

\* Nothing is counted in the empty set.
LEMMA TotalEmpty == \A f : Total(f, {}) = 0
  BY TotalStep, FS_EmptySet

\* Sums of integers are integers, of natural numbers natural numbers.
LEMMA TotalType ==
  ASSUME NEW f, NEW S, IsFiniteSet(S)
  PROVE  /\ (\A x \in S : f[x] \in Int) => Total(f, S) \in Int
         /\ (\A x \in S : f[x] \in Nat) => Total(f, S) \in Nat
<1> DEFINE OK(s) == /\ (\A x \in s : f[x] \in Int) => Total(f, s) \in Int
                    /\ (\A x \in s : f[x] \in Nat) => Total(f, s) \in Nat
           W == {s \in SUBSET S : ~OK(s)}
<1> SUFFICES ASSUME W # {} PROVE FALSE
  OBVIOUS
<1>1. \A s \in W : IsFiniteSet(s)
  BY FS_Subset
<1>2. PICK s \in W : \A x \in s : s \ {x} \notin W
  BY <1>1, Smallest
<1>3. CASE s = {}
  BY <1>2, <1>3, TotalEmpty
<1>4. CASE s # {}
  <2>1. Pick(s) \in s
    BY <1>4 DEF Pick
  <2>2. OK(s \ {Pick(s)})
    BY <1>2, <2>1
  <2>3. Total(f, s) = f[Pick(s)] + Total(f, s \ {Pick(s)})
    BY <1>1, <1>4, TotalStep
  <2> QED
    BY <1>2, <2>1, <2>2, <2>3
<1> QED
  BY <1>3, <1>4

\* Any element may be taken out first.
LEMMA TotalRemove ==
  ASSUME NEW f, NEW S, IsFiniteSet(S), \A x \in S : f[x] \in Int, NEW y \in S
  PROVE  Total(f, S) = f[y] + Total(f, S \ {y})
<1> DEFINE OK(s) == \A z \in s : Total(f, s) = f[z] + Total(f, s \ {z})
           W == {s \in SUBSET S : ~OK(s)}
<1> SUFFICES ASSUME W # {} PROVE FALSE
  OBVIOUS
<1>1. \A s \in SUBSET S : IsFiniteSet(s) /\ Total(f, s) \in Int
  BY FS_Subset, TotalType
<1>2. PICK s \in W : \A x \in s : s \ {x} \notin W
  BY <1>1, Smallest
<1>3. PICK z \in s : Total(f, s) # f[z] + Total(f, s \ {z})
  BY <1>2
<1> DEFINE x == Pick(s)
<1>4. Total(f, s) = f[x] + Total(f, s \ {x}) /\ x \in s
  BY <1>1, <1>3, TotalStep DEF Pick
<1> HIDE DEF x
<1>5. x # z /\ z \in s \ {x} /\ x \in s \ {z} /\ (s \ {x}) \ {z} = (s \ {z}) \ {x}
  BY <1>3, <1>4
<1>6. OK(s \ {x}) /\ OK(s \ {z})
  BY <1>2, <1>3, <1>4
<1>7. /\ Total(f, s \ {x}) = f[z] + Total(f, (s \ {x}) \ {z})
      /\ Total(f, s \ {z}) = f[x] + Total(f, (s \ {x}) \ {z})
  BY <1>5, <1>6
<1>8. (s \ {x}) \ {z} \in SUBSET S /\ x \in S /\ z \in S
  BY <1>3, <1>4
<1>9. Total(f, (s \ {x}) \ {z}) \in Int /\ f[x] \in Int /\ f[z] \in Int
  BY <1>1, <1>8
<1> QED
  BY <1>3, <1>4, <1>7, <1>9

\* Functions that agree have the same sums.
LEMMA TotalSame ==
  ASSUME NEW f, NEW g, NEW S, IsFiniteSet(S), \A x \in S : f[x] = g[x]
  PROVE  Total(f, S) = Total(g, S)
<1> DEFINE W == {s \in SUBSET S : Total(f, s) # Total(g, s)}
<1> SUFFICES ASSUME W # {} PROVE FALSE
  OBVIOUS
<1>1. \A s \in W : IsFiniteSet(s)
  BY FS_Subset
<1>2. PICK s \in W : \A x \in s : s \ {x} \notin W
  BY <1>1, Smallest
<1>3. CASE s = {}
  BY <1>2, <1>3, TotalEmpty
<1>4. CASE s # {}
  <2>1. Pick(s) \in s
    BY <1>4 DEF Pick
  <2>2. /\ Total(f, s) = f[Pick(s)] + Total(f, s \ {Pick(s)})
        /\ Total(g, s) = g[Pick(s)] + Total(g, s \ {Pick(s)})
    BY <1>1, <1>4, TotalStep
  <2> QED
    BY <1>2, <2>1, <2>2
<1> QED
  BY <1>3, <1>4

\* Disjoint sets.
LEMMA TotalUnion ==
  ASSUME NEW f, NEW S, NEW T, IsFiniteSet(S), IsFiniteSet(T), S \cap T = {},
         \A x \in S \cup T : f[x] \in Int
  PROVE  Total(f, S \cup T) = Total(f, S) + Total(f, T)
<1> DEFINE OK(s) == Total(f, s \cup T) = Total(f, s) + Total(f, T)
           W == {s \in SUBSET S : ~OK(s)}
<1> SUFFICES ASSUME W # {} PROVE FALSE
  OBVIOUS
<1>1. \A s \in SUBSET S : IsFiniteSet(s) /\ IsFiniteSet(s \cup T)
  BY FS_Subset, FS_Union
<1>2. \A s \in SUBSET S : Total(f, s) \in Int /\ Total(f, s \cup T) \in Int
  BY <1>1, TotalType
<1>3. PICK s \in SUBSET S : ~OK(s) /\ \A x \in s : OK(s \ {x})
  <2> HIDE DEF OK
  <2>1. PICK s \in W : \A x \in s : s \ {x} \notin W
    BY <1>1, Smallest
  <2> QED
    BY <2>1
<1>4. Total(f, T) \in Int
  BY TotalType
<1>5. CASE s = {}
  <2>1. s \cup T = T
    BY <1>5
  <2> QED
    BY <1>3, <1>4, <1>5, <2>1, TotalEmpty
<1>6. ASSUME NEW x \in s PROVE FALSE
  <2>1. OK(s \ {x}) /\ s \ {x} \in SUBSET S /\ x \in S
    BY <1>3, <1>6
  <2>2. (s \cup T) \ {x} = (s \ {x}) \cup T /\ x \in s \cup T
    BY <1>6, <2>1
  <2>3. Total(f, s) = f[x] + Total(f, s \ {x})
    <3>1. IsFiniteSet(s) /\ \A z \in s : f[z] \in Int
      BY <1>1, <1>3
    <3> QED
      BY <3>1, TotalRemove
  <2>4. Total(f, s \cup T) = f[x] + Total(f, (s \ {x}) \cup T)
    <3>1. IsFiniteSet(s \cup T) /\ \A z \in s \cup T : f[z] \in Int
      BY <1>1, <1>3
    <3>2. Total(f, s \cup T) = f[x] + Total(f, (s \cup T) \ {x})
      BY <2>2, <3>1, TotalRemove
    <3> QED
      BY <2>2, <3>2
  <2>5. f[x] \in Int /\ Total(f, s \ {x}) \in Int
    BY <1>2, <2>1
  <2> QED
    BY <1>3, <1>4, <2>1, <2>3, <2>4, <2>5
<1> QED
  BY <1>5, <1>6

\* Counts only grow with the set.
LEMMA TotalSubset ==
  ASSUME NEW f, NEW S, NEW T \in SUBSET S, IsFiniteSet(S), \A x \in S : f[x] \in Nat
  PROVE  /\ Total(f, T) \in Nat /\ Total(f, S) \in Nat
         /\ Total(f, T) <= Total(f, S)
<1>1. IsFiniteSet(T) /\ IsFiniteSet(S \ T) /\ T \cap (S \ T) = {} /\ T \cup (S \ T) = S
  BY FS_Subset
<1>2. Total(f, T) \in Nat /\ Total(f, S \ T) \in Nat /\ Total(f, S) \in Nat
  BY <1>1, TotalType
<1>3. Total(f, S) = Total(f, T) + Total(f, S \ T)
  <2>1. Total(f, T \cup (S \ T)) = Total(f, T) + Total(f, S \ T)
    BY <1>1, TotalUnion
  <2> QED
    BY <1>1, <2>1
<1> QED
  BY <1>2, <1>3

\* One count changes.
LEMMA TotalChange ==
  ASSUME NEW f, NEW g, NEW S, IsFiniteSet(S), NEW y,
         \A x \in S : f[x] \in Int /\ g[x] \in Int, \A x \in S : x # y => g[x] = f[x]
  PROVE  /\ y \in S => Total(g, S) = Total(f, S) + (g[y] - f[y])
         /\ y \notin S => Total(g, S) = Total(f, S)
<1>1. CASE y \in S
  <2>1. IsFiniteSet(S \ {y}) /\ \A x \in S \ {y} : f[x] = g[x]
    BY FS_Subset
  <2>2. Total(f, S \ {y}) = Total(g, S \ {y})
    BY <2>1, TotalSame
  <2>3. Total(f, S) = f[y] + Total(f, S \ {y}) /\ Total(g, S) = g[y] + Total(g, S \ {y})
    BY <1>1, TotalRemove
  <2>4. Total(f, S \ {y}) \in Int
    BY <2>1, TotalType
  <2> QED
    BY <1>1, <2>2, <2>3, <2>4
<1>2. CASE y \notin S
  BY <1>2, TotalSame
<1> QED
  BY <1>1, <1>2

\* Where nothing is counted.
LEMMA TotalZero ==
  ASSUME NEW f, NEW S, IsFiniteSet(S), \A x \in S : f[x] = 0
  PROVE  Total(f, S) = 0
<1> DEFINE W == {s \in SUBSET S : Total(f, s) # 0}
<1> SUFFICES ASSUME W # {} PROVE FALSE
  OBVIOUS
<1>1. \A s \in W : IsFiniteSet(s)
  BY FS_Subset
<1>2. PICK s \in W : \A x \in s : s \ {x} \notin W
  BY <1>1, Smallest
<1>3. s # {}
  BY <1>2, TotalEmpty
<1>4. Total(f, s) = f[Pick(s)] + Total(f, s \ {Pick(s)}) /\ Pick(s) \in s
  BY <1>1, <1>3, TotalStep DEF Pick
<1>5. Total(f, s \ {Pick(s)}) = 0 /\ f[Pick(s)] = 0
  BY <1>2, <1>4
<1> QED
  BY <1>2, <1>4, <1>5

(***************************************************************************)
(* Types                                                                   *)
(***************************************************************************)

\* The greater of two numbers.
LEMMA MaxTwo ==
  ASSUME NEW a \in Int, NEW b \in Int
  PROVE  Max({a, b}) = IF a >= b THEN a ELSE b
<1> DEFINE m == IF a >= b THEN a ELSE b
<1>1. m \in {a, b} /\ \A y \in {a, b} : m >= y
  OBVIOUS
<1>2. \A x \in {a, b} : (\A y \in {a, b} : x >= y) => x = m
  OBVIOUS
<1> QED
  BY <1>1, <1>2 DEF Max

\* Bins are finite in number.
LEMMA BinsFinite == IsFiniteSet(BinIndex) /\ \A T \in SUBSET BinIndex : IsFiniteSet(T)
<1>1. IsFiniteSet(BinIndex)
  BY BinsAssumption, FS_Interval DEF BinIndex
<1> QED
  BY <1>1, FS_Subset

\* init() makes a history.
LEMMA InitType ==
  ASSUME NEW window \in Nat
  PROVE  /\ InitHistory(window) \in Histories
         /\ BinLen(window) \in Nat \ {0}
         /\ InitHistory(window).length = InitHistory(window).bin_len * CONG_HIST_ENTRIES
<1>1. BinLen(window) \in Nat \ {0}
  BY BinsAssumption DEF BinLen
<1>2. BinLen(window) * CONG_HIST_ENTRIES \in Nat \ {0}
  BY <1>1, BinsAssumption
<1>3. NoEvents \in [BinIndex -> 0 .. (BIN_MODULUS - 1)] /\ 0 \in BinIndex
  BY BinsAssumption DEF NoEvents, BinIndex
<1> QED
  BY <1>1, <1>2, <1>3 DEF InitHistory, Histories

\* The fields of a history, and what becomes of it when some are set.
LEMMA Fields ==
  ASSUME NEW h \in Histories
  PROVE  /\ h.start \in Int /\ h.last_event \in Nat /\ h.events \in Int
         /\ h.cur_index \in Nat /\ h.cur_index < CONG_HIST_ENTRIES /\ h.cur_index \in BinIndex
         /\ h.bins \in [BinIndex -> 0 .. (BIN_MODULUS - 1)]
         /\ h.bin_len \in Nat /\ h.bin_len > 0 /\ h.length \in Nat /\ h.length > 0
  BY BinsAssumption DEF Histories, BinIndex

LEMMA SetAll ==
  ASSUME NEW h \in Histories, NEW a \in Int, NEW l \in Nat, NEW c \in BinIndex, NEW e \in Int,
         NEW b \in [BinIndex -> 0 .. (BIN_MODULUS - 1)]
  PROVE  [h EXCEPT !.last_event = l, !.cur_index = c, !.events = e, !.bins = b, !.start = a] \in Histories
<1>1. PICK B : B = [BinIndex -> 0 .. (BIN_MODULUS - 1)]
  OBVIOUS
<1>2. PICK I : I = BinIndex
  OBVIOUS
<1>3. Histories = [start : Int, last_event : Nat, cur_index : I, events : Int, bins : B,
                   bin_len : Nat \ {0}, length : Nat \ {0}]
  BY <1>1, <1>2 DEF Histories
<1> QED
  BY <1>1, <1>2, <1>3

LEMMA SetWindow ==
  ASSUME NEW h \in Histories, NEW a \in Int, NEW c \in BinIndex, NEW e \in Int,
         NEW b \in [BinIndex -> 0 .. (BIN_MODULUS - 1)]
  PROVE  [h EXCEPT !.start = a, !.cur_index = c, !.events = e, !.bins = b] \in Histories
<1>1. PICK B : B = [BinIndex -> 0 .. (BIN_MODULUS - 1)]
  OBVIOUS
<1>2. PICK I : I = BinIndex
  OBVIOUS
<1>3. Histories = [start : Int, last_event : Nat, cur_index : I, events : Int, bins : B,
                   bin_len : Nat \ {0}, length : Nat \ {0}]
  BY <1>1, <1>2 DEF Histories
<1> QED
  BY <1>1, <1>2, <1>3

LEMMA SetBins ==
  ASSUME NEW h \in Histories, NEW b \in [BinIndex -> 0 .. (BIN_MODULUS - 1)]
  PROVE  [h EXCEPT !.bins = b] \in Histories
<1>1. PICK B : B = [BinIndex -> 0 .. (BIN_MODULUS - 1)]
  OBVIOUS
<1>2. PICK I : I = BinIndex
  OBVIOUS
<1>3. Histories = [start : Int, last_event : Nat, cur_index : I, events : Int, bins : B,
                   bin_len : Nat \ {0}, length : Nat \ {0}]
  BY <1>1, <1>2 DEF Histories
<1> QED
  BY <1>1, <1>2, <1>3

LEMMA SetEvents ==
  ASSUME NEW h \in Histories, NEW e \in Int, NEW l \in Nat
  PROVE  [h EXCEPT !.events = e, !.last_event = l] \in Histories
<1>1. PICK B : B = [BinIndex -> 0 .. (BIN_MODULUS - 1)]
  OBVIOUS
<1>2. PICK I : I = BinIndex
  OBVIOUS
<1>3. Histories = [start : Int, last_event : Nat, cur_index : I, events : Int, bins : B,
                   bin_len : Nat \ {0}, length : Nat \ {0}]
  BY <1>1, <1>2 DEF Histories
<1> QED
  BY <1>1, <1>2, <1>3

\* regist_event keeps a history one, also when it runs on one whose fields
\* come from two windows.
LEMMA RegistType ==
  ASSUME NEW h \in Histories, NEW t \in Nat
  PROVE  RegistEvent(h, t) \in Histories
<1>1. BIN_MODULUS \in Nat /\ BIN_MODULUS > 1 /\ CONG_HIST_ENTRIES \in Nat /\ CONG_HIST_ENTRIES > 0
  BY BinsAssumption
<1>2. 1 % BIN_MODULUS \in 0 .. (BIN_MODULUS - 1) /\ 0 \in 0 .. (BIN_MODULUS - 1) /\ 0 \in BinIndex
  BY <1>1 DEF BinIndex
<1>3. \A a \in Int : a % CONG_HIST_ENTRIES \in BinIndex
  BY <1>1 DEF BinIndex
<1>4. Max({h.last_event, t}) \in Nat
  BY MaxTwo, Fields
<1>5. InitEvent(h, t) \in Histories
  <2>1. [NoEvents EXCEPT ![0] = 1 % BIN_MODULUS] \in [BinIndex -> 0 .. (BIN_MODULUS - 1)]
    BY <1>2 DEF NoEvents
  <2>2. (t + h.bin_len) - (t % h.bin_len) - h.length \in Int
    BY Fields
  <2> QED
    <3>1. PICK a \in Int : a = (t + h.bin_len) - (t % h.bin_len) - h.length
      BY <2>2
    <3>2. PICK b \in [BinIndex -> 0 .. (BIN_MODULUS - 1)] : b = [NoEvents EXCEPT ![0] = 1 % BIN_MODULUS]
      BY <2>1
    <3>3. [h EXCEPT !.last_event = t, !.cur_index = 0, !.events = 1, !.bins = b, !.start = a] \in Histories
      <4>1. PICK e \in Int, c \in BinIndex : e = 1 /\ c = 0
        BY <1>2
      <4>2. [h EXCEPT !.last_event = t, !.cur_index = c, !.events = e, !.bins = b, !.start = a] \in Histories
        BY SetAll
      <4> QED
        BY <4>1, <4>2
    <3> QED
      BY <3>1, <3>2, <3>3 DEF InitEvent
<1>6. CountIn(h, t) \in Histories
  <2>1. (t - h.start) \div h.bin_len \in Int
    BY Fields
  <2>2. BinOf(h, t) \in BinIndex
    BY <1>3, <2>1, Fields DEF BinOf
  <2>3. (h.bins[BinOf(h, t)] + 1) % BIN_MODULUS \in 0 .. (BIN_MODULUS - 1)
    BY <1>1, <2>2, Fields
  <2>4. [h.bins EXCEPT ![BinOf(h, t)] = (@ + 1) % BIN_MODULUS] \in [BinIndex -> 0 .. (BIN_MODULUS - 1)]
    BY <2>2, <2>3, Fields
  <2> QED
    BY <2>4, SetBins DEF CountIn
<1>7. SlideTo(h, t) \in Histories
  <2>1. Slides(h, t) \in Int
    BY MaxTwo, Fields DEF Slides
  <2>2. (h.cur_index + Slides(h, t)) % CONG_HIST_ENTRIES \in BinIndex
    BY <1>3, <2>1, Fields
  <2>3. h.start + Slides(h, t) * h.bin_len \in Int
    BY <2>1, Fields
  <2>4. Expired(h, t) \subseteq BinIndex
    BY <1>3, <2>1, Fields DEF Expired
  <2>5. Total(h.bins, Expired(h, t)) \in Int
    <3>1. IsFiniteSet(Expired(h, t)) /\ \A i \in Expired(h, t) : h.bins[i] \in Int
      BY <2>4, BinsFinite, Fields
    <3> QED
      BY <3>1, TotalType
  <2>6. \A cur : [i \in BinIndex |-> IF i = cur THEN 1 % BIN_MODULUS
                                     ELSE IF i \in Expired(h, t) THEN 0 ELSE h.bins[i]]
                   \in [BinIndex -> 0 .. (BIN_MODULUS - 1)]
    BY <1>2, Fields
  <2>7. h.events - Total(h.bins, Expired(h, t)) \in Int
    BY <2>5, Fields
  <2> QED
    BY <2>2, <2>3, <2>6, <2>7, SetWindow DEF SlideTo
<1>8. ASSUME NEW g \in Histories
      PROVE  [g EXCEPT !.events = @ + 1, !.last_event = Max({h.last_event, t})] \in Histories
  <2>1. g.events + 1 \in Int
    BY Fields
  <2> QED
    BY <1>4, <2>1, SetEvents
<1> QED
  BY <1>5, <1>6, <1>7, <1>8 DEF RegistEvent

(***************************************************************************)
(* What a history says about the reports                                   *)
(***************************************************************************)

\* The bin at place j of the ring, the oldest one being at place 0, the j
\* oldest bins and their sum, and the second at which the bin at place j begins.
Bin(h, j)    == (h.cur_index + j + 1) % CONG_HIST_ENTRIES
Oldest(h, j) == {(h.cur_index + i) % CONG_HIST_ENTRIES : i \in 1 .. j}
Aged(h, j)   == Total(h.bins, Oldest(h, j))
From(h, j)   == h.start + j * h.bin_len

\* The reports of the seconds from .. to, and of those after from.
Within(rep, from, to) == Total(rep, {s \in DOMAIN rep : from <= s /\ s <= to})
Since(rep, from)      == Total(rep, {s \in DOMAIN rep : from <= s})

\* The window covers the last event, which may be one second behind its end.
Fits(h) ==
  /\ h \in Histories
  /\ h.length = h.bin_len * CONG_HIST_ENTRIES
  /\ h.start <= h.last_event /\ h.last_event <= h.start + h.length

\* The last event is the last one reported.
Latest(h, rep) == \A s \in DOMAIN rep : rep[s] # 0 => s <= h.last_event

\* Whatever number of old bins is given up, the rest of the total covers all
\* reports after them.
Kept(h, rep) ==
  \A j \in 0 .. CONG_HIST_ENTRIES : h.events - Aged(h, j) >= Since(rep, From(h, j) + 1)

\* A bin counts nothing but reports of its own time.
Binned(h, rep) ==
  \A j \in BinIndex : h.bins[Bin(h, j)] <= Within(rep, From(h, j), From(h, j + 1))

\* The total exceeds the bins by what was lost when bins wrapped around.
Wrapped(h) ==
  h.events - Aged(h, CONG_HIST_ENTRIES) \in Nat
    /\ (h.events - Aged(h, CONG_HIST_ENTRIES)) % BIN_MODULUS = 0

\* The total is that of the bins, and covers no report before the bins.
Fresh(h, rep) ==
  /\ h.events = Aged(h, CONG_HIST_ENTRIES)
  /\ \A j \in BinIndex : h.events - Aged(h, j) <= Since(rep, From(h, j))

\* Enough reports close together to make a bin of length len wrap around.
Overflow(rep, len) == \E first \in DOMAIN rep : Within(rep, first, first + len) >= BIN_MODULUS

WindowInv(h, rep) ==
  /\ Fits(h) /\ Latest(h, rep) /\ Kept(h, rep) /\ Binned(h, rep) /\ Wrapped(h)
  /\ ~Overflow(rep, h.bin_len) => Fresh(h, rep)

\* Sums of reports.
LEMMA SinceNat ==
  ASSUME NEW S, IsFiniteSet(S), NEW rep \in [S -> Nat], NEW a
  PROVE  /\ Since(rep, a) \in Nat /\ IsFiniteSet({s \in S : a <= s})
         /\ Since(rep, a) = Total(rep, {s \in S : a <= s})
<1>1. IsFiniteSet({s \in S : a <= s}) /\ DOMAIN rep = S
  BY FS_Subset
<1>2. \A s \in {s \in S : a <= s} : rep[s] \in Nat
  OBVIOUS
<1>3. Since(rep, a) = Total(rep, {s \in S : a <= s})
  BY <1>1 DEF Since
<1> QED
  BY <1>1, <1>2, <1>3, TotalType

LEMMA WithinNat ==
  ASSUME NEW S, IsFiniteSet(S), NEW rep \in [S -> Nat], NEW a, NEW b
  PROVE  /\ Within(rep, a, b) \in Nat /\ IsFiniteSet({s \in S : a <= s /\ s <= b})
         /\ Within(rep, a, b) = Total(rep, {s \in S : a <= s /\ s <= b})
<1>1. IsFiniteSet({s \in S : a <= s /\ s <= b}) /\ DOMAIN rep = S
  BY FS_Subset
<1>2. \A s \in {s \in S : a <= s /\ s <= b} : rep[s] \in Nat
  OBVIOUS
<1>3. Within(rep, a, b) = Total(rep, {s \in S : a <= s /\ s <= b})
  BY <1>1 DEF Within
<1> QED
  BY <1>1, <1>2, <1>3, TotalType

\* The later the fewer.
LEMMA SinceLess ==
  ASSUME NEW S, IsFiniteSet(S), \A s \in S : s \in Int, NEW rep \in [S -> Nat], NEW a \in Int, NEW b \in Int,
         a <= b
  PROVE  Since(rep, b) <= Since(rep, a)
<1>1. {s \in S : b <= s} \in SUBSET {s \in S : a <= s}
  <2>1. ASSUME NEW s \in S, b <= s PROVE a <= s
    <3>1. s \in Int
      OBVIOUS
    <3> QED
      BY <2>1, <3>1
  <2> QED
    BY <2>1
<1>2. \A s \in {s \in S : a <= s} : rep[s] \in Nat
  OBVIOUS
<1>3. IsFiniteSet({s \in S : a <= s})
  BY SinceNat
<1>4. Total(rep, {s \in S : b <= s}) <= Total(rep, {s \in S : a <= s})
  BY <1>1, <1>2, <1>3, TotalSubset
<1> QED
  BY <1>4, SinceNat

\* A wider span holds more.
LEMMA WithinWider ==
  ASSUME NEW S, IsFiniteSet(S), NEW rep \in [S -> Nat],
         NEW a, NEW b, NEW c, NEW d,
         \A s \in S : a <= s /\ s <= b => c <= s /\ s <= d
  PROVE  Within(rep, a, b) <= Within(rep, c, d)
<1>1. {s \in S : a <= s /\ s <= b} \in SUBSET {s \in S : c <= s /\ s <= d}
  OBVIOUS
<1>2. \A s \in {s \in S : c <= s /\ s <= d} : rep[s] \in Nat
  OBVIOUS
<1>3. IsFiniteSet({s \in S : c <= s /\ s <= d})
  BY FS_Subset
<1>4. Total(rep, {s \in S : a <= s /\ s <= b}) <= Total(rep, {s \in S : c <= s /\ s <= d})
  BY <1>1, <1>2, <1>3, TotalSubset
<1> QED
  BY <1>4, DOMAIN rep = S DEF Within

\* Nothing is reported after the last event.
LEMMA SinceLast ==
  ASSUME NEW S, IsFiniteSet(S), NEW rep \in [S -> Nat], NEW a,
         \A s \in S : a <= s => rep[s] = 0
  PROVE  Since(rep, a) = 0
<1>1. \A s \in {s \in S : a <= s} : rep[s] = 0
  OBVIOUS
<1>2. Total(rep, {s \in S : a <= s}) = 0
  BY <1>1, SinceNat, TotalZero
<1> QED
  BY <1>2, SinceNat

\* One more report.
More(rep, t) == [rep EXCEPT ![t] = @ + 1]

LEMMA MoreType ==
  ASSUME NEW S, NEW rep \in [S -> Nat], NEW t \in S
  PROVE  /\ More(rep, t) \in [S -> Nat] /\ More(rep, t)[t] = rep[t] + 1
         /\ \A s \in S : s # t => More(rep, t)[s] = rep[s]
  BY DEF More

\* It counts once, in the sets that contain its second.
LEMMA TotalMore ==
  ASSUME NEW S, NEW rep \in [S -> Nat], NEW t \in S, NEW T \in SUBSET S, IsFiniteSet(T)
  PROVE  /\ t \in T => Total(More(rep, t), T) = Total(rep, T) + 1
         /\ t \notin T => Total(More(rep, t), T) = Total(rep, T)
<1>1. PICK new : new = More(rep, t)
  OBVIOUS
<1>2. new \in [S -> Nat] /\ new[t] = rep[t] + 1 /\ \A s \in S : s # t => new[s] = rep[s]
  BY <1>1, MoreType
<1>3. \A s \in T : rep[s] \in Int /\ new[s] \in Int /\ (s # t => new[s] = rep[s])
  BY <1>2
<1>4. /\ t \in T => Total(new, T) = Total(rep, T) + (new[t] - rep[t])
      /\ t \notin T => Total(new, T) = Total(rep, T)
  BY <1>3, TotalChange
<1>5. Total(rep, T) \in Int /\ rep[t] \in Nat
  BY <1>3, TotalType
<1> QED
  BY <1>1, <1>2, <1>4, <1>5

LEMMA SinceMore ==
  ASSUME NEW S, IsFiniteSet(S), NEW rep \in [S -> Nat], NEW t \in S, NEW a
  PROVE  /\ a <= t => Since(More(rep, t), a) = Since(rep, a) + 1
         /\ ~(a <= t) => Since(More(rep, t), a) = Since(rep, a)
<1>1. PICK T : T = {s \in S : a <= s}
  OBVIOUS
<1>2. T \in SUBSET S /\ (t \in T <=> a <= t)
  BY <1>1
<1>3. IsFiniteSet(T) /\ Since(rep, a) = Total(rep, T)
  BY <1>1, SinceNat
<1>4. PICK new \in [S -> Nat] : new = More(rep, t)
  BY MoreType
<1>5. Since(new, a) = Total(new, T)
  BY <1>1, SinceNat
<1>6. /\ t \in T => Total(More(rep, t), T) = Total(rep, T) + 1
      /\ t \notin T => Total(More(rep, t), T) = Total(rep, T)
  <2>1. T \in SUBSET S /\ IsFiniteSet(T)
    BY <1>2, <1>3
  <2> QED
    BY <2>1, TotalMore
<1> QED
  BY <1>2, <1>3, <1>4, <1>5, <1>6

LEMMA WithinMore ==
  ASSUME NEW S, IsFiniteSet(S), NEW rep \in [S -> Nat], NEW t \in S, NEW a, NEW b
  PROVE  /\ a <= t /\ t <= b => Within(More(rep, t), a, b) = Within(rep, a, b) + 1
         /\ ~(a <= t /\ t <= b) => Within(More(rep, t), a, b) = Within(rep, a, b)
<1>1. PICK T : T = {s \in S : a <= s /\ s <= b}
  OBVIOUS
<1>2. T \in SUBSET S /\ (t \in T <=> (a <= t /\ t <= b))
  BY <1>1
<1>3. IsFiniteSet(T) /\ Within(rep, a, b) = Total(rep, T)
  <2>1. Within(rep, a, b) = Total(rep, {s \in S : a <= s /\ s <= b})
    BY DOMAIN rep = S DEF Within
  <2> QED
    BY <1>1, <1>2, <2>1, FS_Subset
<1>4. PICK new \in [S -> Nat] : new = More(rep, t)
  BY MoreType
<1>5. Within(new, a, b) = Total(new, T)
  BY <1>1, WithinNat
<1>6. /\ t \in T => Total(More(rep, t), T) = Total(rep, T) + 1
      /\ t \notin T => Total(More(rep, t), T) = Total(rep, T)
  <2>1. T \in SUBSET S /\ IsFiniteSet(T)
    BY <1>2, <1>3
  <2> QED
    BY <2>1, TotalMore
<1> QED
  BY <1>2, <1>3, <1>4, <1>5, <1>6

\* Bins that have wrapped around stay so.
LEMMA OverflowStays ==
  ASSUME NEW S, IsFiniteSet(S), NEW rep \in [S -> Nat], NEW t \in S, NEW len,
         Overflow(rep, len)
  PROVE  Overflow(More(rep, t), len)
<1>1. PICK first \in S : Within(rep, first, first + len) >= BIN_MODULUS
  BY DEF Overflow
<1>2. Within(rep, first, first + len) \in Nat /\ BIN_MODULUS \in Nat
  BY WithinNat, BinsAssumption
<1>3. Within(More(rep, t), first, first + len) >= BIN_MODULUS
  BY <1>1, <1>2, WithinMore
<1>4. first \in DOMAIN More(rep, t)
  BY MoreType
<1> QED
  BY <1>3, <1>4 DEF Overflow

(***************************************************************************)
(* The ring of bins                                                        *)
(***************************************************************************)

\* Indexes wrap around at most twice.
LEMMA Wrap ==
  ASSUME NEW a \in Nat
  PROVE  /\ a < CONG_HIST_ENTRIES => a % CONG_HIST_ENTRIES = a
         /\ a >= CONG_HIST_ENTRIES /\ a < 2 * CONG_HIST_ENTRIES =>
              a % CONG_HIST_ENTRIES = a - CONG_HIST_ENTRIES
         /\ a >= 2 * CONG_HIST_ENTRIES /\ a < 3 * CONG_HIST_ENTRIES =>
              a % CONG_HIST_ENTRIES = a - 2 * CONG_HIST_ENTRIES
<1>1. CONG_HIST_ENTRIES \in Nat /\ CONG_HIST_ENTRIES > 0
  BY BinsAssumption
<1>2. CASE a < CONG_HIST_ENTRIES
  BY <1>1, <1>2
<1>3. CASE a >= CONG_HIST_ENTRIES /\ a < 2 * CONG_HIST_ENTRIES
  BY <1>1, <1>3
<1>4. CASE a >= 2 * CONG_HIST_ENTRIES /\ a < 3 * CONG_HIST_ENTRIES
  BY <1>1, <1>4
<1> QED
  BY <1>1, <1>2, <1>3, <1>4

\* The bin at a place.
LEMMA BinIs ==
  ASSUME NEW h \in Histories, NEW j \in BinIndex
  PROVE  Bin(h, j) = IF h.cur_index + j + 1 < CONG_HIST_ENTRIES THEN h.cur_index + j + 1
                     ELSE h.cur_index + j + 1 - CONG_HIST_ENTRIES
<1>0. h.cur_index \in Nat /\ h.cur_index < CONG_HIST_ENTRIES /\ j \in Nat /\ j < CONG_HIST_ENTRIES
        /\ CONG_HIST_ENTRIES \in Nat
  BY BinsAssumption, Fields DEF BinIndex
<1>1. PICK a \in Nat : a = h.cur_index + j + 1
  BY <1>0
<1>2. a \in Nat /\ a < 2 * CONG_HIST_ENTRIES /\ CONG_HIST_ENTRIES \in Nat
  BY <1>0, <1>1
<1>3. Bin(h, j) = a % CONG_HIST_ENTRIES
  BY <1>1 DEF Bin
<1>4. CASE a < CONG_HIST_ENTRIES
  <2>1. a % CONG_HIST_ENTRIES = a
    BY <1>2, <1>4, Wrap
  <2> QED
    BY <1>1, <1>3, <1>4, <2>1
<1>5. CASE ~(a < CONG_HIST_ENTRIES)
  <2>1. a % CONG_HIST_ENTRIES = a - CONG_HIST_ENTRIES
    BY <1>2, <1>5, Wrap
  <2>2. Bin(h, j) = (IF a < CONG_HIST_ENTRIES THEN a ELSE a - CONG_HIST_ENTRIES)
    BY <1>3, <1>5, <2>1
  <2> QED
    BY <1>0, <1>1, <2>2
<1> QED
  BY <1>4, <1>5

\* Places and bins correspond one to one.
LEMMA RingPlaces ==
  ASSUME NEW h \in Histories
  PROVE  /\ \A j \in BinIndex : Bin(h, j) \in BinIndex
         /\ \A i, j \in BinIndex : Bin(h, i) = Bin(h, j) => i = j
         /\ \A i \in BinIndex : \E j \in BinIndex : i = Bin(h, j)
<1>1. PICK n, c : n = CONG_HIST_ENTRIES /\ c = h.cur_index
  OBVIOUS
<1>2. n \in Nat /\ n > 0 /\ BinIndex = 0 .. (n - 1) /\ c \in Nat /\ c < n
  BY <1>1, BinsAssumption, Fields DEF BinIndex
<1>3. \A j \in BinIndex : Bin(h, j) = IF c + j + 1 < n THEN c + j + 1 ELSE c + j + 1 - n
  BY <1>1, BinIs
<1>4. ASSUME NEW j \in BinIndex PROVE Bin(h, j) \in BinIndex
  BY <1>2, <1>3
<1>5. ASSUME NEW i \in BinIndex, NEW j \in BinIndex, Bin(h, i) = Bin(h, j) PROVE i = j
  <2>1. i \in Nat /\ i < n /\ j \in Nat /\ j < n
    BY <1>2
  <2>2. /\ Bin(h, i) = IF c + i + 1 < n THEN c + i + 1 ELSE c + i + 1 - n
        /\ Bin(h, j) = IF c + j + 1 < n THEN c + j + 1 ELSE c + j + 1 - n
    BY <1>3
  <2>3. PICK x, y : x = Bin(h, i) /\ y = Bin(h, j)
    OBVIOUS
  <2>4. /\ x = IF c + i + 1 < n THEN c + i + 1 ELSE c + i + 1 - n
        /\ y = IF c + j + 1 < n THEN c + j + 1 ELSE c + j + 1 - n
        /\ x = y
    BY <1>5, <2>2, <2>3
  <2>5. n \in Nat /\ c \in Nat /\ c < n
    BY <1>2
  <2>6. (x = c + i + 1 \/ x = c + i + 1 - n) /\ (x = c + j + 1 \/ x = c + j + 1 - n)
    BY <2>4
  <2> QED
    BY <2>1, <2>5, <2>6
<1>6. ASSUME NEW i \in BinIndex PROVE \E j \in BinIndex : i = Bin(h, j)
  <2>1. i \in Nat /\ i < n
    BY <1>2
  <2>2. PICK j : j = IF i > c THEN i - c - 1 ELSE i + n - c - 1
    OBVIOUS
  <2>3. j \in BinIndex
    BY <1>2, <2>1, <2>2
  <2>4. Bin(h, j) = IF c + j + 1 < n THEN c + j + 1 ELSE c + j + 1 - n
    BY <1>3, <2>3
  <2>5. i = Bin(h, j)
    BY <1>2, <2>1, <2>2, <2>4
  <2> QED
    BY <2>3, <2>5
<1> QED
  BY <1>4, <1>5, <1>6

\* The oldest bins by their places.
LEMMA OldestIs ==
  ASSUME NEW h \in Histories, NEW i \in 0 .. CONG_HIST_ENTRIES
  PROVE  /\ Oldest(h, i) = {Bin(h, j) : j \in {j \in BinIndex : j < i}}
         /\ Oldest(h, i) \subseteq BinIndex
         /\ \A j \in BinIndex : Bin(h, j) \in Oldest(h, i) <=> j < i
<1>1. PICK n, c : n = CONG_HIST_ENTRIES /\ c = h.cur_index
  OBVIOUS
<1>2. n \in Nat /\ n > 0 /\ BinIndex = 0 .. (n - 1) /\ c \in Nat /\ c < n /\ i \in Nat /\ i <= n
  BY <1>1, BinsAssumption, Fields DEF BinIndex
<1>3. ASSUME NEW m \in 1 .. i
      PROVE  m - 1 \in BinIndex /\ m - 1 < i /\ (c + m) % n = Bin(h, m - 1)
  <2>1. m - 1 \in BinIndex /\ m - 1 < i /\ c + (m - 1) + 1 = c + m
    BY <1>2
  <2> QED
    BY <1>1, <2>1 DEF Bin
<1>4. ASSUME NEW j \in BinIndex, j < i
      PROVE  j + 1 \in 1 .. i /\ (c + (j + 1)) % n = Bin(h, j)
  <2>1. j + 1 \in 1 .. i /\ c + j + 1 = c + (j + 1)
    BY <1>2, <1>4
  <2> QED
    BY <1>1, <2>1 DEF Bin
<1>5. Oldest(h, i) = {(c + m) % n : m \in 1 .. i}
  BY <1>1 DEF Oldest
<1>6. Oldest(h, i) = {Bin(h, j) : j \in {j \in BinIndex : j < i}}
  <2>1. ASSUME NEW x \in Oldest(h, i) PROVE x \in {Bin(h, j) : j \in {j \in BinIndex : j < i}}
    <3>1. PICK m \in 1 .. i : x = (c + m) % n
      BY <1>5, <2>1
    <3> QED
      BY <1>3, <3>1
  <2>2. ASSUME NEW j \in BinIndex, j < i PROVE Bin(h, j) \in Oldest(h, i)
    BY <1>4, <1>5, <2>2
  <2> QED
    BY <2>1, <2>2
<1> QED
  BY <1>6, RingPlaces

\* All of them, and none.
LEMMA RingEnds ==
  ASSUME NEW h \in Histories
  PROVE  /\ Oldest(h, CONG_HIST_ENTRIES) = BinIndex
         /\ Oldest(h, 0) = {}
         /\ 0 \in 0 .. CONG_HIST_ENTRIES /\ CONG_HIST_ENTRIES \in 0 .. CONG_HIST_ENTRIES
<1>1. CONG_HIST_ENTRIES \in Nat /\ CONG_HIST_ENTRIES > 0 /\ BinIndex = 0 .. (CONG_HIST_ENTRIES - 1)
  BY BinsAssumption DEF BinIndex
<1>2. \A j \in BinIndex : j < CONG_HIST_ENTRIES
  BY <1>1
<1>3. CONG_HIST_ENTRIES \in 0 .. CONG_HIST_ENTRIES /\ 0 \in 0 .. CONG_HIST_ENTRIES
  BY <1>1
<1>4. BinIndex \subseteq Oldest(h, CONG_HIST_ENTRIES)
  BY <1>2, <1>3, OldestIs, RingPlaces
<1>5. Oldest(h, CONG_HIST_ENTRIES) \subseteq BinIndex
  BY <1>3, OldestIs
<1>6. Oldest(h, 0) = {}
  BY DEF Oldest
<1> QED
  BY <1>3, <1>4, <1>5, <1>6

\* The sum of old bins.
LEMMA AgedType ==
  ASSUME NEW h \in Histories, NEW j \in 0 .. CONG_HIST_ENTRIES
  PROVE  /\ Aged(h, j) \in Nat /\ IsFiniteSet(Oldest(h, j))
         /\ \A i \in Oldest(h, j) : i \in BinIndex /\ h.bins[i] \in Nat
<1>1. \A i \in Oldest(h, j) : i \in BinIndex /\ h.bins[i] \in Nat
  BY OldestIs, Fields, BinsAssumption
<1>2. IsFiniteSet(Oldest(h, j))
  BY OldestIs, BinsFinite
<1> QED
  BY <1>1, <1>2, TotalType DEF Aged

LEMMA AgedNone ==
  ASSUME NEW h \in Histories
  PROVE  Aged(h, 0) = 0
  BY RingEnds, TotalEmpty DEF Aged

(***************************************************************************)
(* Times                                                                   *)
(***************************************************************************)

\* The bins follow each other without gaps from the start of the window to
\* its end.
LEMMA FromType ==
  ASSUME NEW h \in Histories, NEW j \in Int
  PROVE  From(h, j) \in Int /\ From(h, j + 1) = From(h, j) + h.bin_len
<1>1. PICK a \in Int, l \in Int : a = h.start /\ l = h.bin_len
  BY Fields
<1>2. (j + 1) * l = j * l + l /\ j * l \in Int
  OBVIOUS
<1> QED
  BY <1>1, <1>2 DEF From

LEMMA FromOrder ==
  ASSUME NEW h \in Histories, NEW i \in Int, NEW j \in Int, i <= j
  PROVE  From(h, i) <= From(h, j)
<1>1. PICK a \in Int, l \in Nat : a = h.start /\ l = h.bin_len
  BY Fields
<1>2. i * l <= j * l /\ i * l \in Int /\ j * l \in Int
  OBVIOUS
<1> QED
  BY <1>1, <1>2 DEF From

LEMMA FromEnds ==
  ASSUME NEW h \in Histories, h.length = h.bin_len * CONG_HIST_ENTRIES
  PROVE  /\ From(h, 0) = h.start
         /\ From(h, CONG_HIST_ENTRIES) = h.start + h.length
         /\ From(h, CONG_HIST_ENTRIES - 1) = h.start + h.length - h.bin_len
<1>1. PICK a \in Int, l \in Nat, n \in Nat : a = h.start /\ l = h.bin_len /\ n = CONG_HIST_ENTRIES
  BY Fields, BinsAssumption
<1>2. 0 * l = 0 /\ n * l = l * n /\ (n - 1) * l = n * l - l /\ n * l \in Int
  OBVIOUS
<1> QED
  BY <1>1, <1>2 DEF From

\* One more report makes each sum grow by at most one.
LEMMA Grows ==
  ASSUME NEW S, IsFiniteSet(S), NEW rep \in [S -> Nat], NEW t \in S
  PROVE  /\ \A a : /\ Since(rep, a) \in Nat /\ Since(More(rep, t), a) \in Nat
                   /\ Since(rep, a) <= Since(More(rep, t), a)
                   /\ Since(More(rep, t), a) <= Since(rep, a) + 1
                   /\ a <= t => Since(More(rep, t), a) = Since(rep, a) + 1
                   /\ ~(a <= t) => Since(More(rep, t), a) = Since(rep, a)
         /\ \A a, b : /\ Within(rep, a, b) \in Nat /\ Within(More(rep, t), a, b) \in Nat
                      /\ Within(rep, a, b) <= Within(More(rep, t), a, b)
                      /\ a <= t /\ t <= b => Within(More(rep, t), a, b) = Within(rep, a, b) + 1
<1>1. PICK new \in [S -> Nat] : new = More(rep, t)
  BY MoreType
<1>2. ASSUME NEW a
      PROVE  /\ Since(rep, a) \in Nat /\ Since(new, a) \in Nat
             /\ a <= t => Since(new, a) = Since(rep, a) + 1
             /\ ~(a <= t) => Since(new, a) = Since(rep, a)
  BY <1>1, SinceNat, SinceMore
<1>3. ASSUME NEW a, NEW b
      PROVE  /\ Within(rep, a, b) \in Nat /\ Within(new, a, b) \in Nat
             /\ a <= t /\ t <= b => Within(new, a, b) = Within(rep, a, b) + 1
             /\ ~(a <= t /\ t <= b) => Within(new, a, b) = Within(rep, a, b)
  <2>1. Within(rep, a, b) \in Nat /\ Within(new, a, b) \in Nat
    BY WithinNat
  <2>2. /\ a <= t /\ t <= b => Within(More(rep, t), a, b) = Within(rep, a, b) + 1
        /\ ~(a <= t /\ t <= b) => Within(More(rep, t), a, b) = Within(rep, a, b)
    BY WithinMore
  <2> QED
    BY <1>1, <2>1, <2>2
<1>4. ASSUME NEW a
      PROVE  Since(rep, a) <= Since(new, a) /\ Since(new, a) <= Since(rep, a) + 1
  BY <1>2
<1>5. ASSUME NEW a, NEW b
      PROVE  Within(rep, a, b) <= Within(new, a, b)
  BY <1>3
<1> QED
  BY <1>1, <1>2, <1>3, <1>4, <1>5

\* Without an overflow, no bin's time that reaches up to a report holds
\* BIN_MODULUS reports.
LEMMA NoOverflow ==
  ASSUME NEW S, IsFiniteSet(S), \A s \in S : s \in Nat, NEW rep \in [S -> Nat], NEW len \in Nat,
         ~Overflow(rep, len), NEW a \in Int, NEW t \in S, a <= t
  PROVE  Within(rep, a, a + len) < BIN_MODULUS
<1> DEFINE T == {s \in S : a <= s}
<1>1. T \in SUBSET Nat /\ T # {}
  OBVIOUS
<1>2. PICK m \in T : \A s \in T : m <= s
  BY <1>1, LeastNat
<1>3. m \in S /\ m \in Nat /\ a <= m
  BY <1>2
<1>4. ASSUME NEW s \in S, a <= s /\ s <= a + len
      PROVE  m <= s /\ s <= m + len
  <2>1. s \in T /\ s \in Nat
    BY <1>4
  <2> QED
    BY <1>2, <1>3, <1>4, <2>1
<1>5. Within(rep, a, a + len) <= Within(rep, m, m + len)
  <2>1. PICK b \in Int, d \in Int : b = a + len /\ d = m + len
    BY <1>3
  <2>2. \A s \in S : a <= s /\ s <= b => m <= s /\ s <= d
    BY <1>4, <2>1
  <2>3. Within(rep, a, b) <= Within(rep, m, d)
    BY <1>3, <2>2, WithinWider
  <2> QED
    BY <2>1, <2>3
<1>6. ~(Within(rep, m, m + len) >= BIN_MODULUS)
  BY <1>3 DEF Overflow
<1>7. Within(rep, a, a + len) \in Nat /\ Within(rep, m, m + len) \in Nat
  BY WithinNat
<1> QED
  BY <1>5, <1>6, <1>7, BinsAssumption

(***************************************************************************)
(* One report                                                              *)
(***************************************************************************)

\* A report from before the window is dropped.
LEMMA Dropped ==
  ASSUME NEW S, IsFiniteSet(S), \A s \in S : s \in Nat, NEW rep \in [S -> Nat], NEW h, NEW t \in S,
         WindowInv(h, rep), t < h.start
  PROVE  WindowInv(h, More(rep, t))
<1>1. h \in Histories /\ Fits(h) /\ t \in Nat
  BY DEF WindowInv, Fits
<1>2. Latest(h, More(rep, t))
  <2>1. t <= h.last_event
    BY <1>1, Fields DEF Fits
  <2>2. DOMAIN rep = S /\ DOMAIN More(rep, t) = S /\ \A s \in S : s # t => More(rep, t)[s] = rep[s]
    BY MoreType
  <2> QED
    BY <2>1, <2>2 DEF Latest, WindowInv
<1>3. Kept(h, More(rep, t))
  <2>1. ASSUME NEW j \in 0 .. CONG_HIST_ENTRIES
        PROVE  h.events - Aged(h, j) >= Since(More(rep, t), From(h, j) + 1)
    <3>1. j \in Int /\ 0 <= j
      BY BinsAssumption
    <3>2. From(h, 0) <= From(h, j) /\ From(h, j) \in Int /\ From(h, 0) = h.start
      BY <1>1, <3>1, FromOrder, FromType, FromEnds DEF Fits
    <3>3. ~(From(h, j) + 1 <= t)
      BY <1>1, <3>2, Fields
    <3>4. Since(More(rep, t), From(h, j) + 1) = Since(rep, From(h, j) + 1)
      BY <3>3, Grows
    <3> QED
      BY <3>4 DEF WindowInv, Kept
  <2> QED
    BY <2>1 DEF Kept
<1>4. Binned(h, More(rep, t))
  <2>1. ASSUME NEW j \in BinIndex
        PROVE  h.bins[Bin(h, j)] <= Within(More(rep, t), From(h, j), From(h, j + 1))
    <3>1. h.bins[Bin(h, j)] <= Within(rep, From(h, j), From(h, j + 1))
      BY DEF WindowInv, Binned
    <3>2. h.bins[Bin(h, j)] \in Int
      BY <1>1, Fields, RingPlaces
    <3> QED
      BY <3>1, <3>2, Grows
  <2> QED
    BY <2>1 DEF Binned
<1>5. ASSUME ~Overflow(More(rep, t), h.bin_len) PROVE Fresh(h, More(rep, t))
  <2>1. Fresh(h, rep)
    BY <1>5, OverflowStays DEF WindowInv
  <2>2. ASSUME NEW j \in BinIndex
        PROVE  h.events - Aged(h, j) <= Since(More(rep, t), From(h, j))
    <3>1. h.events - Aged(h, j) <= Since(rep, From(h, j))
      BY <2>1 DEF Fresh
    <3>2. j \in 0 .. CONG_HIST_ENTRIES
      BY BinsAssumption DEF BinIndex
    <3>3. h.events - Aged(h, j) \in Int
      BY <1>1, <3>2, Fields, AgedType
    <3> QED
      BY <3>1, <3>3, Grows
  <2> QED
    BY <2>1, <2>2 DEF Fresh
<1> QED
  BY <1>1, <1>2, <1>3, <1>4, <1>5 DEF WindowInv

\* What the report changes when it lies inside the window: the fields, and
\* the bin at its place.
LEMMA CountFields ==
  ASSUME NEW h, Fits(h), NEW t \in Nat, h.start <= t, t < h.start + h.length
  PROVE  \E p \in BinIndex :
           /\ From(h, p) <= t /\ t < From(h, p + 1)
           /\ RegistEvent(h, t) =
                [h EXCEPT !.bins = [h.bins EXCEPT ![Bin(h, p)] = (@ + 1) % BIN_MODULUS],
                          !.events = h.events + 1, !.last_event = Max({h.last_event, t})]
<1>1. h \in Histories /\ h.length = h.bin_len * CONG_HIST_ENTRIES /\ h.last_event \in Int
        /\ h.start <= h.last_event
  BY Fields DEF Fits
<1>2. PICK a \in Int, l \in Nat, n \in Nat : a = h.start /\ l = h.bin_len /\ n = CONG_HIST_ENTRIES /\ l > 0 /\ n > 0
  BY <1>1, Fields, BinsAssumption
<1>3. PICK p : p = (t - a) \div l
  OBVIOUS
<1>4. t - a \in Nat /\ t - a < l * n
  BY <1>1, <1>2
<1>5. p \in Nat /\ p * l <= t - a /\ t - a < (p + 1) * l
  BY <1>2, <1>3, <1>4
<1>6. p < n
  <2>1. SUFFICES ASSUME p >= n PROVE FALSE
    BY <1>2, <1>5
  <2>2. p * l >= n * l /\ n * l = l * n
    BY <1>2, <1>5, <2>1
  <2> QED
    BY <1>2, <1>4, <1>5, <2>2
<1>7. p \in BinIndex
  BY <1>2, <1>5, <1>6 DEF BinIndex
<1>8. From(h, p) <= t /\ t < From(h, p + 1)
  BY <1>2, <1>5 DEF From
<1>9. BinOf(h, t) = Bin(h, p)
  <2>1. h.cur_index \in Nat /\ p + 1 + h.cur_index = h.cur_index + p + 1
    BY <1>1, <1>5, Fields
  <2> QED
    BY <1>2, <1>3, <2>1 DEF BinOf, Bin
<1>10. ~(t < h.start) /\ ~(t > h.last_event + h.length)
  BY <1>1, Fields
<1>11. RegistEvent(h, t) = [CountIn(h, t) EXCEPT !.events = @ + 1, !.last_event = Max({h.last_event, t})]
  BY <1>10 DEF RegistEvent
<1>12. CountIn(h, t) = [h EXCEPT !.bins = [h.bins EXCEPT ![Bin(h, p)] = (@ + 1) % BIN_MODULUS]]
  BY <1>9 DEF CountIn
<1>13. PICK b : b = [h.bins EXCEPT ![Bin(h, p)] = (@ + 1) % BIN_MODULUS]
  OBVIOUS
<1>14. [h EXCEPT !.bins = b].events = h.events
  BY <1>1 DEF Histories
<1>15. RegistEvent(h, t) = [h EXCEPT !.bins = b, !.events = h.events + 1, !.last_event = Max({h.last_event, t})]
  BY <1>11, <1>12, <1>13, <1>14
<1> QED
  BY <1>7, <1>8, <1>13, <1>15

\* A history whose count changed in one bin only.
LEMMA AgedCount ==
  ASSUME NEW h \in Histories, NEW g \in Histories, NEW p \in BinIndex, g.cur_index = h.cur_index,
         \A i \in BinIndex : i # Bin(h, p) => g.bins[i] = h.bins[i]
  PROVE  /\ \A j \in BinIndex : Bin(g, j) = Bin(h, j)
         /\ \A j \in 0 .. CONG_HIST_ENTRIES :
              /\ j <= p => Aged(g, j) = Aged(h, j)
              /\ ~(j <= p) => Aged(g, j) = Aged(h, j) + (g.bins[Bin(h, p)] - h.bins[Bin(h, p)])
<1>1. \A j \in BinIndex : Bin(g, j) = Bin(h, j)
  BY DEF Bin
<1>2. ASSUME NEW j \in 0 .. CONG_HIST_ENTRIES
      PROVE  /\ j <= p => Aged(g, j) = Aged(h, j)
             /\ ~(j <= p) => Aged(g, j) = Aged(h, j) + (g.bins[Bin(h, p)] - h.bins[Bin(h, p)])
  <2>1. PICK T : T = Oldest(h, j)
    OBVIOUS
  <2>2. T = Oldest(g, j)
    BY <2>1 DEF Oldest
  <2>3. IsFiniteSet(T) /\ \A i \in T : i \in BinIndex /\ h.bins[i] \in Nat
    BY <2>1, AgedType
  <2>4. \A i \in T : g.bins[i] \in Nat
    BY <2>2, AgedType
  <2>5. j \in Int /\ p \in Int
    BY BinsAssumption DEF BinIndex
  <2>6. (Bin(h, p) \in T) <=> ~(j <= p)
    <3>1. (Bin(h, p) \in T) <=> p < j
      BY <2>1, OldestIs
    <3> QED
      BY <2>5, <3>1
  <2>7. PICK f, e, y : f = h.bins /\ e = g.bins /\ y = Bin(h, p)
    OBVIOUS
  <2>8. \A i \in T : f[i] \in Int /\ e[i] \in Int /\ (i # y => e[i] = f[i])
    BY <2>3, <2>4, <2>7
  <2>9. /\ y \in T => Total(e, T) = Total(f, T) + (e[y] - f[y])
        /\ y \notin T => Total(e, T) = Total(f, T)
    BY <2>3, <2>8, TotalChange
  <2>10. Aged(h, j) = Total(f, T) /\ Aged(g, j) = Total(e, T)
    BY <2>1, <2>2, <2>7 DEF Aged
  <2> QED
    BY <2>6, <2>7, <2>9, <2>10
<1> QED
  BY <1>1, <1>2

\* A report from inside the window is counted in the bin of its time.
LEMMA Counted ==
  ASSUME NEW S, IsFiniteSet(S), \A s \in S : s \in Nat, NEW rep \in [S -> Nat], NEW h, NEW t \in S,
         WindowInv(h, rep), h.start <= t, t < h.start + h.length
  PROVE  WindowInv(RegistEvent(h, t), More(rep, t))
<1>1. h \in Histories /\ Fits(h) /\ t \in Nat
  BY DEF WindowInv, Fits
<1>2. PICK p \in BinIndex :
        /\ From(h, p) <= t /\ t < From(h, p + 1)
        /\ RegistEvent(h, t) =
             [h EXCEPT !.bins = [h.bins EXCEPT ![Bin(h, p)] = (@ + 1) % BIN_MODULUS],
                       !.events = h.events + 1, !.last_event = Max({h.last_event, t})]
  BY <1>1, CountFields
<1>3. PICK g : g = RegistEvent(h, t)
  OBVIOUS
<1>4. PICK v, y : v = h.bins[Bin(h, p)] /\ y = Bin(h, p)
  OBVIOUS
<1>5. y \in BinIndex /\ h.bins \in [BinIndex -> 0 .. (BIN_MODULUS - 1)]
  BY <1>1, <1>4, RingPlaces, Fields
<1>6. v \in Nat /\ v < BIN_MODULUS /\ BIN_MODULUS \in Nat /\ BIN_MODULUS > 1
  BY <1>4, <1>5, BinsAssumption
<1>7. g \in Histories
  BY <1>1, <1>3, RegistType
<1>8. /\ g.start = h.start /\ g.cur_index = h.cur_index /\ g.bin_len = h.bin_len
      /\ g.length = h.length /\ g.events = h.events + 1
      /\ g.last_event = Max({h.last_event, t})
      /\ g.bins = [h.bins EXCEPT ![y] = (@ + 1) % BIN_MODULUS]
  <2>1. PICK b, e, l : /\ b = [h.bins EXCEPT ![y] = (@ + 1) % BIN_MODULUS]
                       /\ e = h.events + 1 /\ l = Max({h.last_event, t})
    OBVIOUS
  <2>2. g = [h EXCEPT !.bins = b, !.events = e, !.last_event = l]
    BY <1>2, <1>3, <1>4, <2>1
  <2>3. /\ g.start = h.start /\ g.cur_index = h.cur_index /\ g.bin_len = h.bin_len
        /\ g.length = h.length /\ g.events = e /\ g.last_event = l /\ g.bins = b
    BY <1>1, <2>2 DEF Histories
  <2> QED
    BY <2>1, <2>3
<1>9. g.bins[y] = (v + 1) % BIN_MODULUS /\ \A i \in BinIndex : i # y => g.bins[i] = h.bins[i]
  BY <1>4, <1>5, <1>8
<1>10. PICK w : w = g.bins[y]
  OBVIOUS
<1>11. w \in Nat /\ (w = v + 1 \/ (w = 0 /\ v + 1 = BIN_MODULUS)) /\ (v + 1 < BIN_MODULUS => w = v + 1)
  <2>1. w = (v + 1) % BIN_MODULUS
    BY <1>9, <1>10
  <2>2. CASE v + 1 < BIN_MODULUS
    <3>1. (v + 1) % BIN_MODULUS = v + 1
      BY <1>6, <2>2
    <3> QED
      BY <1>6, <2>1, <2>2, <3>1
  <2>3. CASE v + 1 = BIN_MODULUS
    <3>1. (v + 1) % BIN_MODULUS = 0
      BY <1>6, <2>3
    <3> QED
      BY <1>6, <2>1, <2>3, <3>1
  <2> QED
    BY <1>6, <2>2, <2>3
<1>12. /\ \A j \in BinIndex : Bin(g, j) = Bin(h, j)
       /\ \A j \in 0 .. CONG_HIST_ENTRIES :
            /\ j <= p => Aged(g, j) = Aged(h, j)
            /\ ~(j <= p) => Aged(g, j) = Aged(h, j) + (w - v)
  <2>1. \A i \in BinIndex : i # Bin(h, p) => g.bins[i] = h.bins[i]
    BY <1>4, <1>9
  <2>2. g.cur_index = h.cur_index
    BY <1>8
  <2>3. /\ \A j \in BinIndex : Bin(g, j) = Bin(h, j)
        /\ \A j \in 0 .. CONG_HIST_ENTRIES :
             /\ j <= p => Aged(g, j) = Aged(h, j)
             /\ ~(j <= p) => Aged(g, j) = Aged(h, j) + (g.bins[Bin(h, p)] - h.bins[Bin(h, p)])
    BY <1>1, <1>7, <2>1, <2>2, AgedCount
  <2> QED
    BY <1>4, <1>10, <2>3
<1>13. \A j : From(g, j) = From(h, j)
  BY <1>8 DEF From
<1>14. p \in Int /\ CONG_HIST_ENTRIES \in Nat /\ p < CONG_HIST_ENTRIES /\ 0 <= p
  BY BinsAssumption DEF BinIndex
<1>15. \A j \in 0 .. CONG_HIST_ENTRIES : j \in Int /\ Aged(h, j) \in Int /\ Aged(g, j) \in Int
  BY <1>1, <1>7, <1>14, AgedType
<1>16. h.events \in Int
  BY <1>1, Fields
<1>17. Fits(g) /\ Latest(g, More(rep, t))
  <2>1. h.last_event \in Int /\ g.last_event = IF h.last_event >= t THEN h.last_event ELSE t
    BY <1>1, <1>8, MaxTwo, Fields
  <2>2. DOMAIN rep = S /\ DOMAIN More(rep, t) = S /\ \A s \in S : s # t => More(rep, t)[s] = rep[s]
    BY MoreType
  <2>3. Fits(g)
    BY <1>1, <1>7, <1>8, <2>1, Fields DEF Fits
  <2>4. ASSUME NEW s \in S, More(rep, t)[s] # 0 PROVE s <= g.last_event
    <3>1. CASE s = t
      BY <1>1, <2>1, <3>1
    <3>2. CASE s # t
      <4>1. s <= h.last_event /\ s \in Nat
        BY <2>2, <2>4, <3>2 DEF WindowInv, Latest
      <4> QED
        BY <1>1, <2>1, <4>1
    <3> QED
      BY <3>1, <3>2
  <2> QED
    BY <2>2, <2>3, <2>4 DEF Latest
<1>18. Kept(g, More(rep, t))
  <2>1. ASSUME NEW j \in 0 .. CONG_HIST_ENTRIES
        PROVE  g.events - Aged(g, j) >= Since(More(rep, t), From(g, j) + 1)
    <3>1. h.events - Aged(h, j) >= Since(rep, From(h, j) + 1)
      BY DEF WindowInv, Kept
    <3>2. PICK a, x, z : a = From(h, j) + 1 /\ x = Since(rep, a) /\ z = Since(More(rep, t), a)
      OBVIOUS
    <3>3. x \in Nat /\ z \in Nat /\ z <= x + 1 /\ (~(a <= t) => z = x)
      BY <3>2, Grows
    <3>4. CASE j <= p
      BY <1>8, <1>12, <1>13, <1>15, <1>16, <3>1, <3>2, <3>3, <3>4
    <3>5. CASE ~(j <= p)
      <4>1. p + 1 <= j
        BY <1>14, <1>15, <3>5
      <4>2. From(h, p + 1) <= From(h, j) /\ From(h, p + 1) \in Int /\ From(h, j) \in Int
        <5>1. PICK q \in Int : q = p + 1
          BY <1>14
        <5>2. q <= j /\ j \in Int
          BY <1>15, <4>1, <5>1
        <5>3. From(h, q) <= From(h, j) /\ From(h, q) \in Int /\ From(h, j) \in Int
          BY <1>1, <5>2, FromOrder, FromType
        <5> QED
          BY <5>1, <5>3
      <4>3. ~(a <= t)
        BY <1>1, <1>2, <3>2, <4>2
      <4> QED
        BY <1>6, <1>8, <1>11, <1>12, <1>13, <1>15, <1>16, <3>1, <3>2, <3>3, <3>5, <4>3
    <3> QED
      BY <3>4, <3>5
  <2> QED
    BY <2>1 DEF Kept
<1>19. Binned(g, More(rep, t))
  <2>1. ASSUME NEW j \in BinIndex
        PROVE  g.bins[Bin(g, j)] <= Within(More(rep, t), From(g, j), From(g, j + 1))
    <3>1. h.bins[Bin(h, j)] <= Within(rep, From(h, j), From(h, j + 1))
      BY DEF WindowInv, Binned
    <3>2. PICK x, z : x = Within(rep, From(h, j), From(h, j + 1))
                        /\ z = Within(More(rep, t), From(h, j), From(h, j + 1))
      OBVIOUS
    <3>3. x \in Nat /\ z \in Nat /\ x <= z
      BY <3>2, Grows
    <3>4. CASE j = p
      <4>1. From(h, p) <= t /\ t <= From(h, p + 1)
        BY <1>1, <1>2, <1>14, FromType
      <4>2. z = x + 1
        BY <3>2, <3>4, <4>1, Grows
      <4>3. v <= x
        BY <1>4, <3>1, <3>2, <3>4
      <4>4. w <= z
        BY <1>6, <1>11, <3>3, <4>2, <4>3
      <4> QED
        BY <1>4, <1>10, <1>12, <1>13, <3>2, <3>4, <4>4
    <3>5. CASE j # p
      <4>1. Bin(h, j) # y /\ Bin(h, j) \in BinIndex
        BY <1>1, <1>4, <3>5, RingPlaces
      <4>2. g.bins[Bin(g, j)] = h.bins[Bin(h, j)] /\ h.bins[Bin(h, j)] \in Int
        BY <1>1, <1>9, <1>12, <4>1, Fields
      <4> QED
        BY <1>13, <3>1, <3>2, <3>3, <4>2
    <3> QED
      BY <3>4, <3>5
  <2> QED
    BY <2>1 DEF Binned
<1>20. CONG_HIST_ENTRIES \in 0 .. CONG_HIST_ENTRIES /\ ~(CONG_HIST_ENTRIES <= p)
  BY <1>14
<1>21. Wrapped(g)
  <2>1. PICK d \in Nat : d = h.events - Aged(h, CONG_HIST_ENTRIES) /\ d % BIN_MODULUS = 0
    BY DEF WindowInv, Wrapped
  <2>2. g.events - Aged(g, CONG_HIST_ENTRIES) = d + 1 - (w - v)
    BY <1>6, <1>8, <1>11, <1>12, <1>15, <1>16, <1>20, <2>1
  <2>3. CASE w = v + 1
    <3>1. d + 1 - (w - v) = d
      BY <1>6, <1>11, <2>3
    <3> QED
      BY <2>1, <2>2, <3>1 DEF Wrapped
  <2>4. CASE w = 0 /\ v + 1 = BIN_MODULUS
    <3>1. d + 1 - (w - v) = d + BIN_MODULUS
      BY <1>6, <1>11, <2>4
    <3>2. d + BIN_MODULUS \in Nat /\ (d + BIN_MODULUS) % BIN_MODULUS = 0
      BY <1>6, <2>1
    <3> QED
      BY <2>2, <3>1, <3>2 DEF Wrapped
  <2> QED
    BY <1>11, <2>3, <2>4
<1>22. ASSUME ~Overflow(More(rep, t), g.bin_len) PROVE Fresh(g, More(rep, t))
  <2>1. ~Overflow(More(rep, t), h.bin_len)
    BY <1>8, <1>22
  <2>2. Fresh(h, rep)
    BY <2>1, OverflowStays DEF WindowInv
  <2>3. w = v + 1
    <3>1. v <= Within(rep, From(h, p), From(h, p + 1))
      BY <1>4 DEF WindowInv, Binned
    <3>2. From(h, p) \in Int /\ From(h, p + 1) = From(h, p) + h.bin_len /\ h.bin_len \in Nat
      BY <1>1, <1>14, FromType, Fields
    <3>3. PICK new \in [S -> Nat] : new = More(rep, t)
      BY MoreType
    <3>4. Within(new, From(h, p), From(h, p) + h.bin_len) < BIN_MODULUS
      BY <1>2, <2>1, <3>2, <3>3, NoOverflow
    <3>5. Within(rep, From(h, p), From(h, p + 1)) \in Nat
            /\ Within(More(rep, t), From(h, p), From(h, p + 1)) = Within(rep, From(h, p), From(h, p + 1)) + 1
      <4>1. t <= From(h, p + 1)
        BY <1>1, <1>2, <3>2
      <4> QED
        BY <1>2, <4>1, Grows
    <3>6. v + 1 < BIN_MODULUS
      BY <1>6, <3>1, <3>2, <3>3, <3>4, <3>5
    <3> QED
      BY <1>11, <3>6
  <2>4. g.events = Aged(g, CONG_HIST_ENTRIES)
    BY <1>6, <1>8, <1>11, <1>12, <1>15, <1>16, <1>20, <2>2, <2>3 DEF Fresh
  <2>5. ASSUME NEW j \in BinIndex
        PROVE  g.events - Aged(g, j) <= Since(More(rep, t), From(g, j))
    <3>1. h.events - Aged(h, j) <= Since(rep, From(h, j))
      BY <2>2 DEF Fresh
    <3>2. j \in 0 .. CONG_HIST_ENTRIES
      BY <1>14 DEF BinIndex
    <3>3. PICK x, z : x = Since(rep, From(h, j)) /\ z = Since(More(rep, t), From(h, j))
      OBVIOUS
    <3>4. x \in Nat /\ z \in Nat /\ x <= z /\ (From(h, j) <= t => z = x + 1)
      BY <3>3, Grows
    <3>5. CASE j <= p
      <4>1. From(h, j) <= From(h, p) /\ From(h, j) \in Int /\ From(h, p) \in Int
        BY <1>1, <1>14, <1>15, <3>2, <3>5, FromOrder, FromType
      <4>2. From(h, j) <= t
        BY <1>1, <1>2, <4>1
      <4> QED
        BY <1>8, <1>12, <1>13, <1>15, <1>16, <3>1, <3>2, <3>3, <3>4, <3>5, <4>2
    <3>6. CASE ~(j <= p)
      BY <1>6, <1>8, <1>12, <1>13, <1>15, <1>16, <2>3, <3>1, <3>2, <3>3, <3>4, <3>6
    <3> QED
      BY <3>5, <3>6
  <2> QED
    BY <2>4, <2>5 DEF Fresh
<1> QED
  BY <1>3, <1>17, <1>18, <1>19, <1>21, <1>22 DEF WindowInv

\* What is left of a window that starts anew: one event in its newest bin.
LEMMA RestartFields ==
  ASSUME NEW h, Fits(h), NEW t \in Nat, t > h.last_event + h.length
  PROVE  LET g == RegistEvent(h, t)
         IN  /\ g \in Histories /\ g.bin_len = h.bin_len /\ g.length = h.length
             /\ g.last_event = t /\ g.events = 1
             /\ t - h.length < g.start /\ g.start <= t + h.bin_len - h.length
             /\ t <= g.start + h.length
             /\ \A j \in BinIndex : j # CONG_HIST_ENTRIES - 1 => g.bins[Bin(g, j)] = 0
             /\ g.bins[Bin(g, CONG_HIST_ENTRIES - 1)] = 1
<1>1. h \in Histories /\ h.start \in Int /\ h.last_event \in Nat /\ h.length \in Nat /\ h.bin_len \in Nat
        /\ h.bin_len > 0 /\ h.start <= h.last_event
  BY Fields DEF Fits
<1>2. PICK g : g = RegistEvent(h, t)
  OBVIOUS
<1>3. g = InitEvent(h, t) /\ g \in Histories
  <2>1. ~(t < h.start) /\ t > h.last_event + h.length
    BY <1>1
  <2>2. RegistEvent(h, t) = InitEvent(h, t)
    BY <2>1 DEF RegistEvent
  <2>3. RegistEvent(h, t) \in Histories
    BY <1>1, RegistType
  <2> QED
    BY <1>2, <2>2, <2>3
<1>4. PICK a, b : /\ a = (t + h.bin_len) - (t % h.bin_len) - h.length
                  /\ b = [NoEvents EXCEPT ![0] = 1 % BIN_MODULUS]
  OBVIOUS
<1>5. g = [h EXCEPT !.last_event = t, !.cur_index = 0, !.events = 1, !.bins = b, !.start = a]
  BY <1>3, <1>4 DEF InitEvent
<1>6. /\ g.last_event = t /\ g.cur_index = 0 /\ g.events = 1 /\ g.bins = b /\ g.start = a
      /\ g.bin_len = h.bin_len /\ g.length = h.length
  BY <1>1, <1>5 DEF Histories
<1>7. t - h.length < a /\ a <= t + h.bin_len - h.length /\ t <= a + h.length
  <2>1. t % h.bin_len \in Nat /\ t % h.bin_len < h.bin_len
    BY <1>1
  <2> QED
    BY <1>1, <1>4, <2>1
<1>8. CONG_HIST_ENTRIES \in Nat /\ CONG_HIST_ENTRIES > 0 /\ 1 % BIN_MODULUS = 1
  BY BinsAssumption
<1>9. 0 \in BinIndex /\ b[0] = 1 /\ \A i \in BinIndex : i # 0 => b[i] = 0
  BY <1>4, <1>8 DEF NoEvents, BinIndex
<1>10. ASSUME NEW j \in BinIndex
       PROVE  IF j = CONG_HIST_ENTRIES - 1 THEN Bin(g, j) = 0 ELSE Bin(g, j) # 0 /\ Bin(g, j) \in BinIndex
  <2>1. Bin(g, j) = IF 0 + j + 1 < CONG_HIST_ENTRIES THEN 0 + j + 1 ELSE 0 + j + 1 - CONG_HIST_ENTRIES
    BY <1>3, <1>6, BinIs
  <2>2. j \in Nat /\ j < CONG_HIST_ENTRIES
    BY <1>8 DEF BinIndex
  <2> QED
    BY <1>8, <2>1, <2>2 DEF BinIndex
<1>11. CONG_HIST_ENTRIES - 1 \in BinIndex
  BY <1>8 DEF BinIndex
<1>12. /\ \A j \in BinIndex : j # CONG_HIST_ENTRIES - 1 => g.bins[Bin(g, j)] = 0
       /\ g.bins[Bin(g, CONG_HIST_ENTRIES - 1)] = 1
  BY <1>6, <1>9, <1>10, <1>11
<1> QED
  BY <1>2, <1>3, <1>6, <1>7, <1>12

\* Bins with nothing in them add nothing, and a newest bin with one event
\* adds one.
LEMMA AgedEmpty ==
  ASSUME NEW g \in Histories, NEW i \in 0 .. CONG_HIST_ENTRIES, NEW j \in 0 .. CONG_HIST_ENTRIES, i <= j,
         \A m \in BinIndex : i <= m /\ m < j => g.bins[Bin(g, m)] = 0
  PROVE  Aged(g, j) = Aged(g, i)
<1>1. i \in Nat /\ j \in Nat /\ CONG_HIST_ENTRIES \in Nat /\ \A m \in BinIndex : m \in Nat
  BY BinsAssumption DEF BinIndex
<1>2. PICK f, T, U : f = g.bins /\ T = Oldest(g, i) /\ U = Oldest(g, j) \ Oldest(g, i)
  OBVIOUS
<1>3. T \subseteq Oldest(g, j)
  <2>1. ASSUME NEW x \in T PROVE x \in Oldest(g, j)
    <3>1. PICK m \in BinIndex : x = Bin(g, m) /\ m < i
      BY <1>2, <2>1, OldestIs
    <3> QED
      BY <1>1, <3>1, OldestIs
  <2> QED
    BY <2>1
<1>4. ASSUME NEW x \in U PROVE f[x] = 0
  <2>1. PICK m \in BinIndex : x = Bin(g, m) /\ m < j
    BY <1>2, <1>4, OldestIs
  <2>2. ~(m < i)
    BY <1>2, <1>4, <2>1, OldestIs
  <2> QED
    BY <1>1, <1>2, <2>1, <2>2
<1>5. IsFiniteSet(T) /\ IsFiniteSet(U) /\ T \cap U = {} /\ T \cup U = Oldest(g, j)
  BY <1>2, <1>3, AgedType, FS_Subset
<1>6. \A x \in T \cup U : f[x] \in Int
  BY <1>2, <1>5, AgedType
<1>7. Total(f, T \cup U) = Total(f, T) + Total(f, U) /\ Total(f, U) = 0
  BY <1>4, <1>5, <1>6, TotalUnion, TotalZero
<1>8. Total(f, T) \in Int
  BY <1>5, <1>6, TotalType
<1> QED
  BY <1>2, <1>5, <1>7, <1>8 DEF Aged

LEMMA AgedLast ==
  ASSUME NEW g \in Histories
  PROVE  Aged(g, CONG_HIST_ENTRIES) = Aged(g, CONG_HIST_ENTRIES - 1) + g.bins[Bin(g, CONG_HIST_ENTRIES - 1)]
<1>1. PICK n \in Nat : n = CONG_HIST_ENTRIES /\ n > 0
  BY BinsAssumption
<1>2. PICK f, y, q : f = g.bins /\ y = Bin(g, CONG_HIST_ENTRIES - 1) /\ q = CONG_HIST_ENTRIES - 1
  OBVIOUS
<1>3. q \in BinIndex /\ q \in 0 .. CONG_HIST_ENTRIES /\ \A j \in BinIndex : j < q <=> j # q
  BY <1>1, <1>2 DEF BinIndex
<1>4. y \in BinIndex
  BY <1>2, <1>3, RingPlaces
<1>5. Oldest(g, q) = BinIndex \ {y}
  <2>1. y \notin Oldest(g, q) /\ Oldest(g, q) \subseteq BinIndex
    BY <1>1, <1>2, <1>3, OldestIs
  <2>2. ASSUME NEW x \in BinIndex, x # y PROVE x \in Oldest(g, q)
    <3>1. PICK j \in BinIndex : x = Bin(g, j)
      BY RingPlaces
    <3>2. j # q
      BY <1>2, <2>2, <3>1
    <3> QED
      BY <1>3, <3>1, <3>2, OldestIs
  <2> QED
    BY <2>1, <2>2
<1>6. Oldest(g, CONG_HIST_ENTRIES) = BinIndex
  BY RingEnds
<1>7. IsFiniteSet(BinIndex) /\ \A x \in BinIndex : f[x] \in Int
  BY <1>2, BinsFinite, Fields
<1>8. Total(f, BinIndex) = f[y] + Total(f, BinIndex \ {y})
  BY <1>4, <1>7, TotalRemove
<1>9. f[y] \in Int /\ Total(f, BinIndex \ {y}) \in Int
  BY <1>4, <1>7, BinsFinite, TotalType
<1>10. Aged(g, CONG_HIST_ENTRIES) = Total(f, BinIndex)
  BY <1>2, <1>6 DEF Aged
<1>11. Aged(g, q) = Total(f, BinIndex \ {y})
  BY <1>2, <1>5 DEF Aged
<1> QED
  BY <1>2, <1>8, <1>9, <1>10, <1>11

\* After a report more than a window length after the last one, the history
\* counts that report alone.
LEMMA Restarted ==
  ASSUME NEW S, IsFiniteSet(S), \A s \in S : s \in Nat, NEW rep \in [S -> Nat], NEW h, NEW t \in S,
         Fits(h), Latest(h, rep), t > h.last_event + h.length
  PROVE  WindowInv(RegistEvent(h, t), More(rep, t))
<1>1. h \in Histories /\ t \in Nat /\ h.last_event \in Nat /\ h.length \in Nat
        /\ h.length = h.bin_len * CONG_HIST_ENTRIES /\ h.bin_len \in Nat /\ h.bin_len > 0
  BY Fields DEF Fits
<1>2. PICK g : g = RegistEvent(h, t)
  OBVIOUS
<1>3. /\ g \in Histories /\ g.bin_len = h.bin_len /\ g.length = h.length
      /\ g.last_event = t /\ g.events = 1
      /\ t - h.length < g.start /\ g.start <= t + h.bin_len - h.length
      /\ t <= g.start + h.length
      /\ \A j \in BinIndex : j # CONG_HIST_ENTRIES - 1 => g.bins[Bin(g, j)] = 0
      /\ g.bins[Bin(g, CONG_HIST_ENTRIES - 1)] = 1
  BY <1>1, <1>2, RestartFields
<1>4. g.start \in Int
  BY <1>3, Fields
<1>5. PICK n \in Nat : n = CONG_HIST_ENTRIES /\ n > 0
  BY BinsAssumption
<1>6. ASSUME NEW j \in 0 .. (n - 1) PROVE Aged(g, j) = 0
  <2>1. 0 \in 0 .. CONG_HIST_ENTRIES /\ j \in 0 .. CONG_HIST_ENTRIES /\ 0 <= j
    BY <1>5
  <2>2. \A m \in BinIndex : 0 <= m /\ m < j => g.bins[Bin(g, m)] = 0
    BY <1>3, <1>5 DEF BinIndex
  <2> QED
    BY <1>3, <2>1, <2>2, AgedEmpty, AgedNone
<1>7. Aged(g, n) = 1
  <2>1. n - 1 \in 0 .. (n - 1)
    BY <1>5
  <2>2. Aged(g, CONG_HIST_ENTRIES - 1) = 0
    BY <1>5, <1>6, <2>1
  <2> QED
    BY <1>3, <1>5, <2>2, AgedLast
<1>8. From(g, n - 1) <= t /\ t <= From(g, n) /\ From(g, n - 1) \in Int /\ From(g, n) \in Int
  <2>1. From(g, n) = g.start + h.length /\ From(g, n - 1) = g.start + h.length - h.bin_len
    BY <1>1, <1>3, <1>5, FromEnds
  <2> QED
    BY <1>1, <1>3, <1>4, <2>1
<1>9. h.bin_len <= h.length
  <2>1. PICK l \in Nat : l = h.bin_len
    BY <1>1
  <2>2. l <= l * n
    BY <1>5
  <2> QED
    BY <1>1, <1>5, <2>1, <2>2
<1>10. Fits(g) /\ Latest(g, More(rep, t))
  <2>1. Fits(g)
    BY <1>1, <1>3, <1>4, <1>9 DEF Fits
  <2>2. DOMAIN rep = S /\ DOMAIN More(rep, t) = S /\ \A s \in S : s # t => More(rep, t)[s] = rep[s]
    BY MoreType
  <2>3. ASSUME NEW s \in S, More(rep, t)[s] # 0 PROVE s <= t
    <3>1. CASE s = t
      BY <1>1, <3>1
    <3>2. CASE s # t
      <4>1. s <= h.last_event /\ s \in Nat
        BY <2>2, <2>3, <3>2 DEF Latest
      <4> QED
        BY <1>1, <4>1
    <3> QED
      BY <3>1, <3>2
  <2> QED
    BY <1>3, <2>1, <2>2, <2>3 DEF Latest
<1>11. ASSUME NEW j \in 0 .. n
       PROVE  Since(rep, From(g, j) + 1) = 0
  <2>1. j \in Int /\ 0 <= j
    BY <1>5
  <2>2. From(g, 0) <= From(g, j) /\ From(g, j) \in Int /\ From(g, 0) = g.start
    <3>1. g \in Histories /\ g.length = g.bin_len * CONG_HIST_ENTRIES
      BY <1>1, <1>3
    <3>2. From(g, 0) = g.start
      BY <3>1, FromEnds
    <3>3. From(g, 0) <= From(g, j) /\ From(g, j) \in Int
      BY <2>1, <3>1, FromOrder, FromType
    <3> QED
      BY <3>2, <3>3
  <2>3. ASSUME NEW s \in S, From(g, j) + 1 <= s PROVE rep[s] = 0
    <3>1. s \in Nat /\ s > h.last_event
      BY <1>1, <1>3, <1>4, <2>2, <2>3
    <3>2. ~(s <= h.last_event)
      BY <1>1, <3>1
    <3> QED
      BY <3>2, DOMAIN rep = S DEF Latest
  <2> QED
    BY <2>3, SinceLast
<1>12. Kept(g, More(rep, t))
  <2>1. ASSUME NEW j \in 0 .. CONG_HIST_ENTRIES
        PROVE  g.events - Aged(g, j) >= Since(More(rep, t), From(g, j) + 1)
    <3>1. PICK a, z : a = From(g, j) + 1 /\ z = Since(More(rep, t), a)
      OBVIOUS
    <3>2. z \in Nat /\ z <= 1 /\ (~(a <= t) => z = 0)
      BY <1>5, <1>11, <3>1, Grows
    <3>3. CASE j = n
      <4>1. ~(a <= t)
        BY <1>1, <1>8, <3>1, <3>3
      <4> QED
        BY <1>3, <1>7, <3>1, <3>2, <3>3, <4>1
    <3>4. CASE j # n
      <4>1. Aged(g, j) = 0
        BY <1>5, <1>6, <3>4
      <4> QED
        BY <1>3, <3>1, <3>2, <4>1
    <3> QED
      BY <3>3, <3>4
  <2> QED
    BY <2>1 DEF Kept
<1>13. Binned(g, More(rep, t))
  <2>1. ASSUME NEW j \in BinIndex
        PROVE  g.bins[Bin(g, j)] <= Within(More(rep, t), From(g, j), From(g, j + 1))
    <3>1. PICK x, z : x = Within(rep, From(g, j), From(g, j + 1))
                        /\ z = Within(More(rep, t), From(g, j), From(g, j + 1))
      OBVIOUS
    <3>2. x \in Nat /\ z \in Nat
      BY <3>1, Grows
    <3>3. CASE j = n - 1
      <4>1. j + 1 = n
        BY <1>5, <3>3
      <4>2. z = x + 1
        BY <1>8, <3>1, <3>3, <4>1, Grows
      <4> QED
        BY <1>3, <1>5, <3>1, <3>2, <3>3, <4>2
    <3>4. CASE j # n - 1
      BY <1>3, <1>5, <3>1, <3>2, <3>4
    <3> QED
      BY <3>3, <3>4
  <2> QED
    BY <2>1 DEF Binned
<1>14. Wrapped(g)
  <2>1. g.events - Aged(g, CONG_HIST_ENTRIES) = 0 /\ 0 % BIN_MODULUS = 0
    BY <1>3, <1>5, <1>7, BinsAssumption
  <2> QED
    BY <2>1 DEF Wrapped
<1>15. Fresh(g, More(rep, t))
  <2>1. g.events = Aged(g, CONG_HIST_ENTRIES)
    BY <1>3, <1>5, <1>7
  <2>2. ASSUME NEW j \in BinIndex
        PROVE  g.events - Aged(g, j) <= Since(More(rep, t), From(g, j))
    <3>1. j \in 0 .. (n - 1) /\ j \in Int /\ n - 1 \in Int /\ j <= n - 1
      BY <1>5 DEF BinIndex
    <3>2. From(g, j) <= From(g, n - 1) /\ From(g, j) \in Int
      <4>1. PICK q \in Int : q = n - 1
        BY <3>1
      <4> QED
        BY <1>3, <3>1, <4>1, FromOrder, FromType
    <3>3. From(g, j) <= t
      BY <1>1, <1>8, <3>2
    <3>4. Since(rep, From(g, j)) \in Nat /\ Since(More(rep, t), From(g, j)) = Since(rep, From(g, j)) + 1
      BY <3>3, Grows
    <3> QED
      BY <1>3, <1>6, <3>1, <3>4
  <2> QED
    BY <2>1, <2>2 DEF Fresh
<1> QED
  BY <1>2, <1>10, <1>12, <1>13, <1>14, <1>15 DEF WindowInv

\* Division and multiplication.
LEMMA Divide ==
  ASSUME NEW x \in Nat, NEW l \in Nat, l > 0
  PROVE  x \div l \in Nat /\ (x \div l) * l <= x /\ x < ((x \div l) + 1) * l
  OBVIOUS

LEMMA NextMultiple ==
  ASSUME NEW c \in Nat, NEW l \in Nat
  PROVE  c * l \in Nat /\ (c + 1) * l = c * l + l /\ (c - 1) * l = c * l - l
  OBVIOUS

\* The window slides on by one to CONG_HIST_ENTRIES bins, until the report
\* lies in the newest one or at its end.
LEMMA SlidesIs ==
  ASSUME NEW h, Fits(h), NEW t \in Nat, h.start + h.length <= t, t <= h.last_event + h.length
  PROVE  /\ Slides(h, t) \in 1 .. CONG_HIST_ENTRIES
         /\ From(h, CONG_HIST_ENTRIES + Slides(h, t) - 1) <= t
         /\ t <= From(h, CONG_HIST_ENTRIES + Slides(h, t))
<1>1. /\ h \in Histories /\ h.length = h.bin_len * CONG_HIST_ENTRIES /\ h.last_event \in Nat
      /\ h.last_event <= h.start + h.length
  BY Fields DEF Fits
<1>2. PICK a \in Int, l \in Nat, n \in Nat :
        a = h.start /\ l = h.bin_len /\ n = CONG_HIST_ENTRIES /\ l > 0 /\ n > 0
  BY <1>1, Fields, BinsAssumption
<1>3. PICK b \in Nat : b = t - (a + h.length) /\ b <= l * n
  <2>1. h.length \in Nat
    BY <1>1, Fields
  <2> QED
    BY <1>1, <1>2, <2>1
<1>4. PICK c : c = (b + l - 1) \div l
  OBVIOUS
<1>5. b + l - 1 \in Nat
  BY <1>2
<1>6. c \in Nat /\ c * l <= b + l - 1 /\ b + l - 1 < (c + 1) * l
  <2>1. PICK x \in Nat : x = b + l - 1
    BY <1>5
  <2>2. x \div l \in Nat /\ (x \div l) * l <= x /\ x < ((x \div l) + 1) * l
    BY <1>2, Divide
  <2> QED
    BY <1>4, <2>1, <2>2
<1>7. c * l \in Nat /\ (c + 1) * l = c * l + l /\ (c - 1) * l = c * l - l
  BY <1>6, NextMultiple
<1>8. b <= c * l /\ (c - 1) * l <= b - 1
  BY <1>2, <1>6, <1>7
<1>9. c <= n
  <2>1. SUFFICES ASSUME c >= n + 1 PROVE FALSE
    BY <1>2, <1>6
  <2>2. c * l >= (n + 1) * l /\ (n + 1) * l = l * n + l
    BY <1>2, <1>6, <2>1
  <2> QED
    BY <1>2, <1>3, <1>6, <1>7, <2>2
<1>10. PICK k : k = IF 1 >= c THEN 1 ELSE c
  OBVIOUS
<1>11. Slides(h, t) = k
  <2>1. Slides(h, t) = Max({1, c})
    BY <1>2, <1>3, <1>4 DEF Slides
  <2>2. Max({1, c}) = IF 1 >= c THEN 1 ELSE c
    BY <1>6, MaxTwo
  <2> QED
    BY <1>10, <2>1, <2>2
<1>12. k \in 1 .. n
  BY <1>2, <1>6, <1>9, <1>10
<1>13. b <= k * l /\ (k - 1) * l <= b
  <2>1. CASE c = 0
    <3>1. k = 1 /\ b = 0
      BY <1>2, <1>7, <1>8, <1>10, <2>1
    <3> QED
      BY <1>2, <3>1
  <2>2. CASE c # 0
    <3>1. k = c
      BY <1>6, <1>10, <2>2
    <3> QED
      BY <1>2, <1>7, <1>8, <3>1
  <2> QED
    BY <2>1, <2>2
<1>14. (n + k) * l = l * n + k * l /\ (n + k - 1) * l = l * n + (k - 1) * l /\ k * l \in Int /\ (k - 1) * l \in Int
  BY <1>2, <1>12
<1>15. h.length = l * n /\ l * n \in Int
  BY <1>1, <1>2
<1>16. a + (n + k - 1) * l <= t /\ t <= a + (n + k) * l
  BY <1>2, <1>3, <1>13, <1>14, <1>15
<1> QED
  BY <1>2, <1>11, <1>12, <1>16 DEF From

\* g's bins are those of h after the window slid on by k bins.
SlidBy(h, g, k) ==
  /\ g.cur_index = (h.cur_index + k) % CONG_HIST_ENTRIES
  /\ g.bins = [i \in BinIndex |->
                 IF i = g.cur_index THEN 1 ELSE IF i \in Oldest(h, k) THEN 0 ELSE h.bins[i]]

\* What the report changes when the window slides on by k bins.
LEMMA SlideFields ==
  ASSUME NEW h, Fits(h), NEW t \in Nat, h.start + h.length <= t, t <= h.last_event + h.length
  PROVE  \E k \in 1 .. CONG_HIST_ENTRIES :
           LET g == RegistEvent(h, t)
           IN  /\ From(h, CONG_HIST_ENTRIES + k - 1) <= t /\ t <= From(h, CONG_HIST_ENTRIES + k)
               /\ g.start = h.start + k * h.bin_len
               /\ g.events = h.events - Aged(h, k) + 1
               /\ g.last_event = t /\ g.bin_len = h.bin_len /\ g.length = h.length
               /\ SlidBy(h, g, k)
<1>1. h \in Histories /\ h.length \in Nat /\ h.last_event \in Nat /\ h.start \in Int
        /\ h.last_event <= h.start + h.length /\ h.length > 0
  BY Fields DEF Fits
<1>2. PICK k, g : k = Slides(h, t) /\ g = RegistEvent(h, t)
  OBVIOUS
<1>3. /\ k \in 1 .. CONG_HIST_ENTRIES
      /\ From(h, CONG_HIST_ENTRIES + k - 1) <= t /\ t <= From(h, CONG_HIST_ENTRIES + k)
  BY <1>2, SlidesIs
<1>4. PICK cur, X, a, e, b : /\ cur = (h.cur_index + k) % CONG_HIST_ENTRIES /\ X = Oldest(h, k)
                             /\ a = h.start + k * h.bin_len /\ e = h.events - Aged(h, k)
                             /\ b = [i \in BinIndex |-> IF i = cur THEN 1 ELSE IF i \in X THEN 0 ELSE h.bins[i]]
  OBVIOUS
<1>5. Expired(h, t) = X
  BY <1>2, <1>4 DEF Expired, Oldest
<1>6. 1 % BIN_MODULUS = 1
  BY BinsAssumption
<1>7. SlideTo(h, t) = [h EXCEPT !.start = a, !.cur_index = cur, !.events = e, !.bins = b]
  BY <1>2, <1>4, <1>5, <1>6 DEF SlideTo, Aged
<1>8. ~(t < h.start) /\ ~(t > h.last_event + h.length) /\ ~(t < h.start + h.length)
  BY <1>1
<1>9. PICK s : s = SlideTo(h, t)
  OBVIOUS
<1>10. g = [s EXCEPT !.events = @ + 1, !.last_event = Max({h.last_event, t})]
  BY <1>2, <1>8, <1>9 DEF RegistEvent
<1>11. Max({h.last_event, t}) = t
  BY <1>1, MaxTwo
<1>12. s = [h EXCEPT !.start = a, !.cur_index = cur, !.events = e, !.bins = b] /\ s.events = e
  <2>1. s = [h EXCEPT !.start = a, !.cur_index = cur, !.events = e, !.bins = b]
    BY <1>7, <1>9
  <2> QED
    BY <1>1, <2>1 DEF Histories
<1>13. PICK m : m = e + 1
  OBVIOUS
<1>14. g = [h EXCEPT !.start = a, !.cur_index = cur, !.events = m, !.bins = b, !.last_event = t]
  <2>1. g = [s EXCEPT !.events = m, !.last_event = t]
    BY <1>10, <1>11, <1>12, <1>13
  <2> QED
    BY <1>1, <1>12, <2>1 DEF Histories
<1>15. /\ g.start = a /\ g.cur_index = cur /\ g.events = m /\ g.bins = b /\ g.last_event = t
       /\ g.bin_len = h.bin_len /\ g.length = h.length
  BY <1>1, <1>14 DEF Histories
<1>16. /\ g.start = h.start + k * h.bin_len
       /\ g.cur_index = (h.cur_index + k) % CONG_HIST_ENTRIES
       /\ g.events = h.events - Aged(h, k) + 1
       /\ g.bins = [i \in BinIndex |-> IF i = g.cur_index THEN 1 ELSE IF i \in Oldest(h, k) THEN 0 ELSE h.bins[i]]
  BY <1>4, <1>13, <1>15
<1>17. SlidBy(h, g, k)
  BY <1>16 DEF SlidBy
<1> QED
  BY <1>2, <1>3, <1>15, <1>16, <1>17

LEMMA RingShift ==
  ASSUME NEW n \in Nat, NEW c \in Nat, NEW d \in Nat, NEW j \in Nat, NEW k \in Nat, NEW m \in Nat,
         NEW x \in Int, NEW y \in Int,
         d = c + k \/ d = c + k - n,
         m = j + k \/ m = j + k - n,
         x = c + m + 1 \/ x = c + m + 1 - n, 0 <= x, x < n,
         y = d + j + 1 \/ y = d + j + 1 - n, 0 <= y, y < n
  PROVE  x = y
  OBVIOUS

\* Where the bins are after the window slid on by k bins: the bins that stay
\* keep their counts and come k places earlier, the k others are empty but
\* for the newest one.
LEMMA SlideBins ==
  ASSUME NEW h \in Histories, NEW g \in Histories, NEW k \in 1 .. CONG_HIST_ENTRIES,
         SlidBy(h, g, k)
  PROVE  /\ \A j \in BinIndex :
              j + k < CONG_HIST_ENTRIES => /\ Bin(g, j) = Bin(h, j + k)
                                           /\ g.bins[Bin(g, j)] = h.bins[Bin(h, j + k)]
         /\ \A j \in BinIndex :
              j + k >= CONG_HIST_ENTRIES /\ j # CONG_HIST_ENTRIES - 1 => g.bins[Bin(g, j)] = 0
         /\ g.bins[Bin(g, CONG_HIST_ENTRIES - 1)] = 1
<1>1. PICK n \in Nat, c \in Nat, d \in Nat :
        n = CONG_HIST_ENTRIES /\ n > 0 /\ c = h.cur_index /\ c < n /\ d = g.cur_index /\ d < n
  BY BinsAssumption, Fields
<1>2. k \in Nat /\ 1 <= k /\ k <= n /\ BinIndex = 0 .. (n - 1) /\ k \in 0 .. CONG_HIST_ENTRIES
  BY <1>1 DEF BinIndex
<1>3. d = IF c + k < n THEN c + k ELSE c + k - n
  <2>1. PICK a \in Nat : a = c + k
    BY <1>2
  <2>2. a < 2 * n /\ d = a % n
    BY <1>1, <1>2, <2>1 DEF SlidBy
  <2>3. CASE a < n
    <3>1. a % n = a
      BY <1>1, <2>3, Wrap
    <3> QED
      BY <2>1, <2>2, <2>3, <3>1
  <2>4. CASE ~(a < n)
    <3>1. a % n = a - n
      BY <1>1, <2>2, <2>4, Wrap
    <3> QED
      BY <2>1, <2>2, <2>4, <3>1
  <2> QED
    BY <2>3, <2>4
<1>4. \A j \in BinIndex : Bin(h, j) = IF c + j + 1 < n THEN c + j + 1 ELSE c + j + 1 - n
  BY <1>1, BinIs
<1>5. \A j \in BinIndex : Bin(g, j) = IF d + j + 1 < n THEN d + j + 1 ELSE d + j + 1 - n
  BY <1>1, BinIs
<1>6. ASSUME NEW j \in BinIndex, j + k < n
      PROVE  j + k \in BinIndex /\ Bin(g, j) = Bin(h, j + k)
  <2>1. PICK m : m = j + k
    OBVIOUS
  <2>2. m \in BinIndex /\ j \in Nat /\ j < n /\ m \in Nat /\ m < n
    BY <1>2, <1>6, <2>1
  <2>3. Bin(h, m) = IF c + m + 1 < n THEN c + m + 1 ELSE c + m + 1 - n
    BY <1>4, <2>2
  <2>4. Bin(g, j) = IF d + j + 1 < n THEN d + j + 1 ELSE d + j + 1 - n
    BY <1>5
  <2>5. PICK x, y : x = Bin(h, m) /\ y = Bin(g, j)
    OBVIOUS
  <2>6. x = y
    <3>1. x \in Int /\ 0 <= x /\ x < n /\ (x = c + m + 1 \/ x = c + m + 1 - n)
      BY <1>1, <2>2, <2>3, <2>5
    <3>2. y \in Int /\ 0 <= y /\ y < n /\ (y = d + j + 1 \/ y = d + j + 1 - n)
      BY <1>1, <2>2, <2>4, <2>5
    <3>3. (d = c + k \/ d = c + k - n) /\ (m = j + k \/ m = j + k - n)
      BY <1>3, <2>1
    <3>4. k \in Nat
      BY <1>2
    <3> QED
      BY <2>2, <3>1, <3>2, <3>3, <3>4, RingShift
  <2> QED
    BY <2>1, <2>2, <2>5, <2>6
<1>7. ASSUME NEW j \in BinIndex, ~(j + k < n)
      PROVE  j + k - n \in BinIndex /\ j + k - n < k /\ Bin(g, j) = Bin(h, j + k - n)
  <2>1. PICK m : m = j + k - n
    OBVIOUS
  <2>2. m \in BinIndex /\ m < k /\ j \in Nat /\ j < n /\ m \in Nat /\ m < n
    BY <1>1, <1>2, <1>7, <2>1
  <2>3. Bin(h, m) = IF c + m + 1 < n THEN c + m + 1 ELSE c + m + 1 - n
    BY <1>4, <2>2
  <2>4. Bin(g, j) = IF d + j + 1 < n THEN d + j + 1 ELSE d + j + 1 - n
    BY <1>5
  <2>5. PICK x, y : x = Bin(h, m) /\ y = Bin(g, j)
    OBVIOUS
  <2>6. x = y
    <3>1. x \in Int /\ 0 <= x /\ x < n /\ (x = c + m + 1 \/ x = c + m + 1 - n)
      BY <1>1, <2>2, <2>3, <2>5
    <3>2. y \in Int /\ 0 <= y /\ y < n /\ (y = d + j + 1 \/ y = d + j + 1 - n)
      BY <1>1, <2>2, <2>4, <2>5
    <3>3. (d = c + k \/ d = c + k - n) /\ (m = j + k \/ m = j + k - n)
      BY <1>3, <2>1
    <3>4. k \in Nat
      BY <1>2
    <3> QED
      BY <2>2, <3>1, <3>2, <3>3, <3>4, RingShift
  <2> QED
    BY <2>1, <2>2, <2>5, <2>6
<1>8. PICK q : q = n - 1
  OBVIOUS
<1>9. q \in BinIndex /\ Bin(g, q) = g.cur_index
  <2>1. q \in BinIndex
    BY <1>1, <1>2, <1>8
  <2>2. Bin(g, q) = IF d + q + 1 < n THEN d + q + 1 ELSE d + q + 1 - n
    BY <1>5, <2>1
  <2> QED
    BY <1>1, <1>8, <2>1, <2>2
<1>10. \A i \in BinIndex : g.bins[i] = IF i = g.cur_index THEN 1
                                       ELSE IF i \in Oldest(h, k) THEN 0 ELSE h.bins[i]
  BY DEF SlidBy
<1>11. g.bins[Bin(g, q)] = 1
  BY <1>9, <1>10, Fields
<1>12. ASSUME NEW j \in BinIndex, j # q PROVE Bin(g, j) # g.cur_index /\ Bin(g, j) \in BinIndex
  <2>1. Bin(g, j) \in BinIndex /\ (Bin(g, j) = Bin(g, q) => j = q)
    BY <1>9, RingPlaces
  <2> QED
    BY <1>9, <1>12, <2>1
<1>13. ASSUME NEW j \in BinIndex, j + k < n
       PROVE  g.bins[Bin(g, j)] = h.bins[Bin(h, j + k)]
  <2>1. j # q
    BY <1>1, <1>2, <1>8, <1>13
  <2>2. j + k \in BinIndex /\ ~(j + k < k) /\ Bin(g, j) = Bin(h, j + k)
    BY <1>2, <1>6, <1>13
  <2>3. Bin(g, j) \notin Oldest(h, k)
    BY <1>2, <2>2, OldestIs
  <2> QED
    BY <1>10, <1>12, <2>1, <2>2, <2>3
<1>14. ASSUME NEW j \in BinIndex, ~(j + k < n), j # q
       PROVE  g.bins[Bin(g, j)] = 0
  <2>1. Bin(g, j) \in Oldest(h, k)
    BY <1>2, <1>7, <1>14, OldestIs
  <2> QED
    BY <1>10, <1>12, <1>14, <2>1
<1>15. \A j \in BinIndex : j + k >= n => ~(j + k < n)
  BY <1>1, <1>2
<1> QED
  BY <1>1, <1>6, <1>8, <1>11, <1>13, <1>14, <1>15

\* What that means for the sums of the oldest bins.
LEMMA SlideAged ==
  ASSUME NEW h \in Histories, NEW g \in Histories, NEW k \in 1 .. CONG_HIST_ENTRIES,
         SlidBy(h, g, k)
  PROVE  /\ \A j \in 0 .. (CONG_HIST_ENTRIES - k) : Aged(g, j) = Aged(h, j + k) - Aged(h, k)
         /\ \A j \in (CONG_HIST_ENTRIES - k) .. (CONG_HIST_ENTRIES - 1) :
              Aged(g, j) = Aged(h, CONG_HIST_ENTRIES) - Aged(h, k)
         /\ Aged(g, CONG_HIST_ENTRIES) = Aged(h, CONG_HIST_ENTRIES) - Aged(h, k) + 1
<1>1. PICK n \in Nat : n = CONG_HIST_ENTRIES /\ n > 0 /\ BinIndex = 0 .. (n - 1)
  BY BinsAssumption DEF BinIndex
<1>2. k \in Nat /\ 1 <= k /\ k <= n /\ k \in 0 .. CONG_HIST_ENTRIES
  BY <1>1
<1>3. /\ \A j \in BinIndex : j + k < n => Bin(g, j) = Bin(h, j + k) /\ g.bins[Bin(g, j)] = h.bins[Bin(h, j + k)]
      /\ \A j \in BinIndex : j + k >= n /\ j # n - 1 => g.bins[Bin(g, j)] = 0
      /\ g.bins[Bin(g, n - 1)] = 1
  BY <1>1, SlideBins
<1>4. ASSUME NEW j \in 0 .. (n - k) PROVE Aged(g, j) = Aged(h, j + k) - Aged(h, k)
  <2>1. PICK m : m = j + k
    OBVIOUS
  <2>2. j \in Nat /\ m \in Nat /\ j \in 0 .. CONG_HIST_ENTRIES /\ m \in 0 .. CONG_HIST_ENTRIES /\ m <= n
    BY <1>1, <1>2, <2>1
  <2>3. PICK f, e, T, U : f = h.bins /\ e = g.bins /\ T = Oldest(h, k) /\ U = Oldest(g, j)
    OBVIOUS
  <2>4. ASSUME NEW i \in BinIndex, i < j
        PROVE  i + k \in BinIndex /\ i + k < m /\ ~(i + k < k) /\ Bin(g, i) = Bin(h, i + k) /\ e[Bin(g, i)] = f[Bin(g, i)]
    <3>1. i + k \in BinIndex /\ i + k < m /\ ~(i + k < k) /\ i + k < n
      BY <1>1, <1>2, <2>1, <2>2, <2>4
    <3> QED
      BY <1>3, <2>3, <3>1
  <2>5. \A x \in U : \E i \in BinIndex : i < j /\ x = Bin(g, i)
    BY <2>2, <2>3, OldestIs
  <2>6. \A x \in T : \E i \in BinIndex : i < k /\ x = Bin(h, i)
    BY <1>2, <2>3, OldestIs
  <2>7. T \cap U = {}
    <3>1. ASSUME NEW x \in U PROVE x \notin T
      <4>1. PICK i \in BinIndex : i < j /\ x = Bin(g, i)
        BY <2>5, <3>1
      <4>2. i + k \in BinIndex /\ ~(i + k < k) /\ x = Bin(h, i + k)
        BY <2>4, <4>1
      <4> QED
        BY <1>2, <2>3, <4>2, OldestIs
    <3> QED
      BY <3>1
  <2>8. T \cup U = Oldest(h, m)
    <3>1. ASSUME NEW x \in T PROVE x \in Oldest(h, m)
      <4>1. PICK i \in BinIndex : i < k /\ x = Bin(h, i)
        BY <2>6, <3>1
      <4>2. i < m
        BY <1>1, <1>2, <2>1, <2>2, <4>1
      <4> QED
        BY <2>2, <4>1, <4>2, OldestIs
    <3>2. ASSUME NEW x \in U PROVE x \in Oldest(h, m)
      <4>1. PICK i \in BinIndex : i < j /\ x = Bin(g, i)
        BY <2>5, <3>2
      <4>2. i + k \in BinIndex /\ i + k < m /\ x = Bin(h, i + k)
        BY <2>4, <4>1
      <4> QED
        BY <2>2, <4>2, OldestIs
    <3>3. ASSUME NEW x \in Oldest(h, m) PROVE x \in T \cup U
      <4>1. PICK i \in BinIndex : i < m /\ x = Bin(h, i)
        BY <2>2, <3>3, OldestIs
      <4>2. CASE i < k
        BY <1>2, <2>3, <4>1, <4>2, OldestIs
      <4>3. CASE ~(i < k)
        <5>1. PICK o : o = i - k
          OBVIOUS
        <5>2. o \in BinIndex /\ o < j /\ o + k = i
          BY <1>1, <1>2, <2>1, <2>2, <4>1, <4>3, <5>1
        <5>3. x = Bin(g, o)
          BY <2>4, <4>1, <5>2
        <5> QED
          BY <2>2, <2>3, <5>2, <5>3, OldestIs
      <4> QED
        BY <4>2, <4>3
    <3> QED
      BY <3>1, <3>2, <3>3
  <2>9. IsFiniteSet(T) /\ IsFiniteSet(U)
    BY <1>2, <2>2, <2>3, AgedType
  <2>10. \A x \in T \cup U : f[x] \in Int
    BY <2>2, <2>3, <2>8, AgedType
  <2>11. \A x \in U : e[x] = f[x]
    BY <2>4, <2>5
  <2>12. Total(f, T \cup U) = Total(f, T) + Total(f, U)
    BY <2>7, <2>9, <2>10, TotalUnion
  <2>13. Total(e, U) = Total(f, U)
    BY <2>9, <2>11, TotalSame
  <2>14. Aged(h, m) = Total(f, T \cup U) /\ Aged(h, k) = Total(f, T) /\ Aged(g, j) = Total(e, U)
    BY <2>3, <2>8 DEF Aged
  <2>15. Total(f, T) \in Int /\ Total(f, U) \in Int
    BY <2>9, <2>10, TotalType
  <2> QED
    BY <2>1, <2>12, <2>13, <2>14, <2>15
<1>5. ASSUME NEW j \in (n - k) .. (n - 1) PROVE Aged(g, j) = Aged(h, n) - Aged(h, k)
  <2>1. PICK i : i = n - k
    OBVIOUS
  <2>2. /\ i \in 0 .. CONG_HIST_ENTRIES /\ j \in 0 .. CONG_HIST_ENTRIES /\ i <= j /\ i \in 0 .. (n - k) /\ i + k = n
        /\ j <= n - 1 /\ j \in Int
    BY <1>1, <1>2, <2>1
  <2>3. \A m \in BinIndex : i <= m /\ m < j => m + k >= n /\ m # n - 1
    BY <1>1, <1>2, <2>1, <2>2
  <2>4. \A m \in BinIndex : i <= m /\ m < j => g.bins[Bin(g, m)] = 0
    BY <1>3, <2>3
  <2>5. Aged(g, j) = Aged(g, i)
    BY <2>2, <2>4, AgedEmpty
  <2> QED
    BY <1>4, <2>2, <2>5
<1>6. Aged(g, n) = Aged(h, n) - Aged(h, k) + 1
  <2>1. n - 1 \in (n - k) .. (n - 1)
    BY <1>1, <1>2
  <2>2. Aged(g, n - 1) = Aged(h, n) - Aged(h, k)
    BY <1>5, <2>1
  <2>3. Aged(g, n) = Aged(g, n - 1) + g.bins[Bin(g, n - 1)]
    BY <1>1, AgedLast
  <2> QED
    BY <1>3, <2>2, <2>3
<1> QED
  BY <1>1, <1>4, <1>5, <1>6

\* A report from behind the window makes it slide on, and is counted in the
\* newest bin.
LEMMA Slid ==
  ASSUME NEW S, IsFiniteSet(S), \A s \in S : s \in Nat, NEW rep \in [S -> Nat], NEW h, NEW t \in S,
         WindowInv(h, rep), h.start + h.length <= t, t <= h.last_event + h.length
  PROVE  WindowInv(RegistEvent(h, t), More(rep, t))
<1>1. h \in Histories /\ Fits(h) /\ t \in Nat /\ h.length = h.bin_len * CONG_HIST_ENTRIES
  BY DEF WindowInv, Fits
<1>2. PICK g : g = RegistEvent(h, t)
  OBVIOUS
<1>3. PICK k \in 1 .. CONG_HIST_ENTRIES :
        /\ From(h, CONG_HIST_ENTRIES + k - 1) <= t /\ t <= From(h, CONG_HIST_ENTRIES + k)
        /\ g.start = h.start + k * h.bin_len
        /\ g.events = h.events - Aged(h, k) + 1
        /\ g.last_event = t /\ g.bin_len = h.bin_len /\ g.length = h.length
        /\ SlidBy(h, g, k)
  BY <1>1, <1>2, SlideFields
<1>4. g \in Histories
  BY <1>1, <1>2, RegistType
<1>5. SlidBy(h, g, k)
  BY <1>3
<1>6. PICK n \in Nat : n = CONG_HIST_ENTRIES /\ n > 0 /\ BinIndex = 0 .. (n - 1)
  BY BinsAssumption DEF BinIndex
<1>7. k \in Nat /\ 1 <= k /\ k <= n /\ k \in 0 .. n
  BY <1>6
<1>8. /\ \A j \in BinIndex : j + k < n => Bin(g, j) = Bin(h, j + k) /\ g.bins[Bin(g, j)] = h.bins[Bin(h, j + k)]
      /\ \A j \in BinIndex : j + k >= n /\ j # n - 1 => g.bins[Bin(g, j)] = 0
      /\ g.bins[Bin(g, n - 1)] = 1
  BY <1>1, <1>4, <1>5, <1>6, SlideBins
<1>9. /\ \A j \in 0 .. (n - k) : Aged(g, j) = Aged(h, j + k) - Aged(h, k)
      /\ \A j \in (n - k) .. (n - 1) : Aged(g, j) = Aged(h, n) - Aged(h, k)
      /\ Aged(g, n) = Aged(h, n) - Aged(h, k) + 1
  BY <1>1, <1>4, <1>5, <1>6, SlideAged
<1>10. ASSUME NEW j \in Int PROVE From(g, j) = From(h, j + k) /\ From(g, j) \in Int
  <2>1. PICK a \in Int, l \in Int : a = h.start /\ l = h.bin_len
    BY <1>1, Fields
  <2>2. (j + k) * l = j * l + k * l /\ j * l \in Int /\ k * l \in Int
    BY <1>7
  <2> QED
    BY <1>3, <2>1, <2>2 DEF From
<1>11. /\ From(g, n - 1) <= t /\ t <= From(g, n) /\ From(g, n - 1) \in Int /\ From(g, n) \in Int
       /\ From(h, n) <= t /\ From(h, n) \in Int
  <2>1. PICK q \in Int : q = n - 1
    BY <1>6
  <2>2. q + k = n + k - 1 /\ n \in Int /\ n <= q + k
    BY <1>6, <1>7, <2>1
  <2>3. From(g, q) = From(h, q + k) /\ From(g, n) = From(h, n + k) /\ From(g, q) \in Int /\ From(g, n) \in Int
    BY <1>10, <2>2
  <2>4. From(h, n) \in Int /\ From(h, n) = h.start + h.length
    BY <1>1, <1>6, <2>2, FromType, FromEnds
  <2> QED
    BY <1>3, <1>6, <2>1, <2>2, <2>3, <2>4
<1>12. \A j \in 0 .. n : Aged(h, j) \in Int /\ Aged(g, j) \in Int /\ j \in Int
  BY <1>1, <1>4, <1>6, AgedType
<1>13. h.events \in Int /\ n \in 0 .. n
  BY <1>1, <1>6, Fields
<1>14. Fits(g) /\ Latest(g, More(rep, t))
  <2>1. /\ h.last_event \in Nat /\ h.start \in Int /\ h.length \in Nat /\ h.last_event <= h.start + h.length
        /\ g.start \in Int /\ h.start + h.length <= t
    BY <1>1, <1>4, Fields DEF Fits
  <2>2. From(g, 0) = g.start /\ From(g, n) = g.start + g.length
    BY <1>1, <1>3, <1>4, <1>6, FromEnds
  <2>3. From(g, 0) <= From(g, n - 1) /\ From(g, 0) \in Int
    <3>1. PICK q \in Int : q = n - 1 /\ 0 <= q
      BY <1>6
    <3> QED
      BY <1>4, <3>1, FromOrder, FromType
  <2>4. Fits(g)
    BY <1>1, <1>3, <1>4, <1>11, <2>1, <2>2, <2>3 DEF Fits
  <2>5. DOMAIN rep = S /\ DOMAIN More(rep, t) = S /\ \A s \in S : s # t => More(rep, t)[s] = rep[s]
    BY MoreType
  <2>6. ASSUME NEW s \in S, More(rep, t)[s] # 0 PROVE s <= t
    <3>1. CASE s = t
      BY <1>1, <3>1
    <3>2. CASE s # t
      <4>1. s <= h.last_event /\ s \in Nat
        BY <2>5, <2>6, <3>2 DEF WindowInv, Latest
      <4> QED
        BY <1>1, <2>1, <4>1
    <3> QED
      BY <3>1, <3>2
  <2> QED
    BY <1>3, <2>4, <2>5, <2>6 DEF Latest
<1>15. Kept(g, More(rep, t))
  <2>1. ASSUME NEW j \in 0 .. CONG_HIST_ENTRIES
        PROVE  g.events - Aged(g, j) >= Since(More(rep, t), From(g, j) + 1)
    <3>1. j \in 0 .. n /\ j \in Nat /\ j <= n
      BY <1>6
    <3>2. PICK a, x, z : a = From(g, j) + 1 /\ x = Since(rep, a) /\ z = Since(More(rep, t), a)
      OBVIOUS
    <3>3. x \in Nat /\ z \in Nat /\ z <= x + 1 /\ (~(a <= t) => z = x)
      BY <3>2, Grows
    <3>4. CASE j <= n - k
      <4>1. PICK m : m = j + k
        OBVIOUS
      <4>2. m \in 0 .. n /\ j \in 0 .. (n - k)
        BY <1>6, <1>7, <3>1, <3>4, <4>1
      <4>3. h.events - Aged(h, m) >= x
        <5>1. From(g, j) = From(h, m)
          BY <1>10, <3>1, <4>1
        <5>2. h.events - Aged(h, m) >= Since(rep, From(h, m) + 1)
          BY <1>6, <4>2 DEF WindowInv, Kept
        <5> QED
          BY <3>2, <5>1, <5>2
      <4>4. Aged(g, j) = Aged(h, m) - Aged(h, k)
        BY <1>9, <4>1, <4>2
      <4> QED
        BY <1>3, <1>7, <1>12, <1>13, <3>2, <3>3, <4>2, <4>3, <4>4
    <3>5. CASE ~(j <= n - k)
      <4>1. h.events - Aged(h, n) >= Since(rep, From(h, n) + 1)
        BY <1>6, <1>13 DEF WindowInv, Kept
      <4>2. From(h, n) <= From(g, j) /\ From(g, j) \in Int
        <5>1. PICK m \in Int : m = j + k /\ n <= m
          BY <1>6, <1>7, <3>1, <3>5
        <5>2. From(h, n) <= From(h, m)
          BY <1>1, <5>1, FromOrder
        <5> QED
          BY <1>10, <3>1, <5>1, <5>2
      <4>3. x <= Since(rep, From(h, n) + 1) /\ Since(rep, From(h, n) + 1) \in Nat
        <5>1. PICK u \in Int, w \in Int : u = From(h, n) + 1 /\ w = From(g, j) + 1 /\ u <= w
          BY <1>11, <4>2
        <5>2. Since(rep, w) <= Since(rep, u) /\ Since(rep, u) \in Nat
          <6>1. \A s \in S : s \in Int
            OBVIOUS
          <6> QED
            BY <5>1, <6>1, SinceLess, SinceNat
        <5> QED
          BY <3>2, <5>1, <5>2
      <4>4. h.events - Aged(h, n) >= x
        BY <1>12, <1>13, <3>3, <4>1, <4>3
      <4>5. CASE j = n
        <5>1. ~(a <= t)
          BY <1>1, <1>11, <3>2, <4>5
        <5> QED
          BY <1>3, <1>7, <1>9, <1>12, <1>13, <3>2, <3>3, <4>4, <4>5, <5>1
      <4>6. CASE j # n
        <5>1. Aged(g, j) = Aged(h, n) - Aged(h, k)
          <6>1. j \in (n - k) .. (n - 1)
            BY <1>6, <1>7, <3>1, <3>5, <4>6
          <6> QED
            BY <1>9, <6>1
        <5> QED
          BY <1>3, <1>7, <1>12, <1>13, <3>2, <3>3, <4>4, <5>1
      <4> QED
        BY <4>5, <4>6
    <3> QED
      BY <3>4, <3>5
  <2> QED
    BY <2>1 DEF Kept
<1>16. Binned(g, More(rep, t))
  <2>1. ASSUME NEW j \in BinIndex
        PROVE  g.bins[Bin(g, j)] <= Within(More(rep, t), From(g, j), From(g, j + 1))
    <3>1. PICK x, z : x = Within(rep, From(g, j), From(g, j + 1))
                        /\ z = Within(More(rep, t), From(g, j), From(g, j + 1))
      OBVIOUS
    <3>2. x \in Nat /\ z \in Nat /\ x <= z
      BY <3>1, Grows
    <3>3. j \in Nat /\ j < n
      BY <1>6
    <3>4. CASE j + k < n
      <4>1. PICK m \in BinIndex : m = j + k
        BY <1>6, <1>7, <3>3, <3>4
      <4>2. From(g, j) = From(h, m) /\ From(g, j + 1) = From(h, m + 1)
        <5>1. PICK i \in Int : i = j + 1 /\ i + k = m + 1
          BY <1>7, <3>3, <4>1
        <5> QED
          BY <1>10, <3>3, <4>1, <5>1
      <4>3. h.bins[Bin(h, m)] <= x
        BY <3>1, <4>2 DEF WindowInv, Binned
      <4>4. g.bins[Bin(g, j)] = h.bins[Bin(h, m)] /\ h.bins[Bin(h, m)] \in Int
        BY <1>1, <1>8, <3>4, <4>1, RingPlaces, Fields
      <4> QED
        BY <3>1, <3>2, <4>3, <4>4
    <3>5. CASE ~(j + k < n) /\ j # n - 1
      <4>1. g.bins[Bin(g, j)] = 0
        BY <1>6, <1>7, <1>8, <3>3, <3>5
      <4> QED
        BY <3>1, <3>2, <4>1
    <3>6. CASE j = n - 1
      <4>1. j + 1 = n
        BY <1>6, <3>6
      <4>2. z = x + 1
        BY <1>11, <3>1, <3>6, <4>1, Grows
      <4> QED
        BY <1>8, <3>1, <3>2, <3>6, <4>2
    <3> QED
      BY <3>4, <3>5, <3>6
  <2> QED
    BY <2>1 DEF Binned
<1>17. g.events - Aged(g, n) = h.events - Aged(h, n)
  BY <1>3, <1>7, <1>9, <1>12, <1>13
<1>18. Wrapped(g)
  BY <1>6, <1>17 DEF WindowInv, Wrapped
<1>19. ASSUME ~Overflow(More(rep, t), g.bin_len) PROVE Fresh(g, More(rep, t))
  <2>1. ~Overflow(More(rep, t), h.bin_len)
    BY <1>3, <1>19
  <2>2. Fresh(h, rep)
    BY <2>1, OverflowStays DEF WindowInv
  <2>3. h.events = Aged(h, n)
    BY <1>6, <2>2 DEF Fresh
  <2>4. g.events = Aged(g, CONG_HIST_ENTRIES)
    BY <1>3, <1>6, <1>7, <1>9, <1>12, <1>13, <2>3
  <2>5. ASSUME NEW j \in BinIndex
        PROVE  g.events - Aged(g, j) <= Since(More(rep, t), From(g, j))
    <3>1. j \in Nat /\ j < n /\ j \in 0 .. n
      BY <1>6
    <3>2. PICK x, z : x = Since(rep, From(g, j)) /\ z = Since(More(rep, t), From(g, j))
      OBVIOUS
    <3>3. From(g, j) <= t
      <4>1. PICK q \in Int : q = n - 1 /\ j <= q
        BY <1>6, <3>1
      <4>2. From(g, j) <= From(g, q) /\ From(g, j) \in Int
        BY <1>4, <3>1, <4>1, FromOrder, FromType
      <4> QED
        BY <1>1, <1>11, <4>1, <4>2
    <3>4. x \in Nat /\ z = x + 1
      BY <3>2, <3>3, Grows
    <3>5. CASE j + k < n
      <4>1. PICK m \in BinIndex : m = j + k
        BY <1>6, <1>7, <3>1, <3>5
      <4>2. j \in 0 .. (n - k) /\ m \in 0 .. n
        BY <1>6, <1>7, <3>1, <3>5, <4>1
      <4>3. From(g, j) = From(h, m)
        BY <1>10, <3>1, <4>1
      <4>4. h.events - Aged(h, m) <= x
        BY <2>2, <3>2, <4>3 DEF Fresh
      <4>5. Aged(g, j) = Aged(h, m) - Aged(h, k)
        BY <1>9, <4>1, <4>2
      <4> QED
        BY <1>3, <1>7, <1>12, <1>13, <3>2, <3>4, <4>2, <4>4, <4>5
    <3>6. CASE ~(j + k < n)
      <4>1. j \in (n - k) .. (n - 1)
        BY <1>6, <1>7, <3>1, <3>6
      <4>2. Aged(g, j) = Aged(h, n) - Aged(h, k)
        BY <1>9, <4>1
      <4> QED
        BY <1>3, <1>7, <1>12, <1>13, <2>3, <3>2, <3>4, <4>2
    <3> QED
      BY <3>5, <3>6
  <2> QED
    BY <2>4, <2>5 DEF Fresh
<1> QED
  BY <1>2, <1>14, <1>15, <1>16, <1>18, <1>19 DEF WindowInv

\* regist_event keeps the account of the reports, whatever the order in which
\* they come.
THEOREM RegistKeepsWindow ==
  ASSUME NEW S, IsFiniteSet(S), \A s \in S : s \in Nat, NEW rep \in [S -> Nat], NEW h, NEW t \in S,
         WindowInv(h, rep)
  PROVE  WindowInv(RegistEvent(h, t), More(rep, t))
<1>1. Fits(h) /\ Latest(h, rep) /\ t \in Nat /\ h \in Histories /\ h.start <= h.last_event
  BY DEF WindowInv, Fits
<1>2. h.start \in Int /\ h.last_event \in Nat /\ h.length \in Nat
  BY <1>1, Fields
<1>3. CASE t < h.start
  <2>1. RegistEvent(h, t) = h
    BY <1>3 DEF RegistEvent
  <2> QED
    BY <1>3, <2>1, Dropped
<1>4. CASE t > h.last_event + h.length
  BY <1>1, <1>4, Restarted
<1>5. CASE h.start <= t /\ t < h.start + h.length
  BY <1>5, Counted
<1>6. CASE h.start + h.length <= t /\ t <= h.last_event + h.length
  BY <1>6, Slid
<1> QED
  BY <1>1, <1>2, <1>3, <1>4, <1>5, <1>6

\* The last event lies in the newest bin or at its end.
Newest(h) == h.start + h.length - h.bin_len <= h.last_event

LEMMA RegistKeepsNewest ==
  ASSUME NEW h, NEW t \in Nat, Fits(h), Newest(h) \/ t > h.last_event + h.length
  PROVE  /\ Newest(RegistEvent(h, t))
         /\ RegistEvent(h, t).bin_len = h.bin_len /\ RegistEvent(h, t).length = h.length
<1>1. h \in Histories /\ h.start <= h.last_event /\ h.length = h.bin_len * CONG_HIST_ENTRIES
  BY DEF Fits
<1>2. h.start \in Int /\ h.last_event \in Nat /\ h.length \in Nat /\ h.bin_len \in Nat
  BY <1>1, Fields
<1>3. PICK g : g = RegistEvent(h, t)
  OBVIOUS
<1>4. CASE t < h.start
  <2>1. g = h /\ ~(t > h.last_event + h.length)
    BY <1>1, <1>2, <1>3, <1>4 DEF RegistEvent
  <2> QED
    BY <1>3, <2>1
<1>5. CASE t > h.last_event + h.length
  <2>1. g.bin_len = h.bin_len /\ g.length = h.length /\ g.last_event = t /\ g.start <= t + h.bin_len - h.length
    BY <1>3, <1>5, RestartFields
  <2>2. g.start \in Int
    BY <1>1, <1>3, RegistType, Fields
  <2> QED
    BY <1>2, <1>3, <2>1, <2>2 DEF Newest
<1>6. CASE h.start <= t /\ t < h.start + h.length
  <2>1. PICK b, e, l : /\ g = [h EXCEPT !.bins = b, !.events = e, !.last_event = l]
                       /\ l = Max({h.last_event, t})
    BY <1>3, <1>6, CountFields
  <2>2. g.start = h.start /\ g.bin_len = h.bin_len /\ g.length = h.length /\ g.last_event = l
    BY <1>1, <2>1 DEF Histories
  <2>3. l = IF h.last_event >= t THEN h.last_event ELSE t
    BY <1>2, <2>1, MaxTwo
  <2>4. ~(t > h.last_event + h.length)
    BY <1>1, <1>2, <1>6
  <2> QED
    BY <1>2, <1>3, <2>2, <2>3, <2>4 DEF Newest
<1>7. CASE h.start + h.length <= t /\ t <= h.last_event + h.length
  <2>1. PICK k \in 1 .. CONG_HIST_ENTRIES :
          /\ From(h, CONG_HIST_ENTRIES + k - 1) <= t /\ g.start = h.start + k * h.bin_len
          /\ g.last_event = t /\ g.bin_len = h.bin_len /\ g.length = h.length
    BY <1>3, <1>7, SlideFields
  <2>2. PICK a \in Int, l \in Nat, n \in Nat : a = h.start /\ l = h.bin_len /\ n = CONG_HIST_ENTRIES
    BY <1>2, BinsAssumption
  <2>3. (n + k - 1) * l = l * n + k * l - l /\ k * l \in Int /\ l * n \in Int
    BY <2>2
  <2>4. From(h, n + k - 1) = a + (l * n + k * l - l)
    BY <2>2, <2>3 DEF From
  <2> QED
    BY <1>1, <1>3, <2>1, <2>2, <2>3, <2>4 DEF Newest
<1> QED
  BY <1>2, <1>4, <1>5, <1>6, <1>7

\* A new history, and nothing reported.
LEMMA InitWindow ==
  ASSUME NEW S, IsFiniteSet(S), NEW rep \in [S -> Nat], \A s \in S : rep[s] = 0, NEW window \in Nat
  PROVE  WindowInv(InitHistory(window), rep)
<1>1. PICK h : h = InitHistory(window)
  OBVIOUS
<1>2. h \in Histories /\ h.length = h.bin_len * CONG_HIST_ENTRIES
  BY <1>1, InitType
<1>3. h.start = 0 /\ h.last_event = 0 /\ h.events = 0 /\ h.bins = NoEvents
  BY <1>1 DEF InitHistory
<1>4. \A i \in BinIndex : h.bins[i] = 0
  BY <1>3 DEF NoEvents
<1>5. ASSUME NEW j \in 0 .. CONG_HIST_ENTRIES PROVE Aged(h, j) = 0
  <2>1. PICK T, f : T = Oldest(h, j) /\ f = h.bins
    OBVIOUS
  <2>2. IsFiniteSet(T) /\ \A i \in T : f[i] = 0
    BY <1>2, <1>4, <2>1, AgedType
  <2>3. Total(f, T) = 0
    BY <2>2, TotalZero
  <2> QED
    BY <2>1, <2>3 DEF Aged
<1>6. \A a : Since(rep, a) = 0
  BY SinceLast
<1>7. \A a, b : Within(rep, a, b) \in Nat
  BY WithinNat
<1>8. CONG_HIST_ENTRIES \in 0 .. CONG_HIST_ENTRIES /\ BinIndex \subseteq 0 .. CONG_HIST_ENTRIES /\ 0 % BIN_MODULUS = 0
  BY BinsAssumption DEF BinIndex
<1>9. Fits(h)
  BY <1>2, <1>3, Fields DEF Fits
<1>10. Latest(h, rep)
  BY DOMAIN rep = S DEF Latest
<1>11. Kept(h, rep)
  BY <1>3, <1>5, <1>6 DEF Kept
<1>12. Binned(h, rep)
  <2>1. ASSUME NEW j \in BinIndex PROVE h.bins[Bin(h, j)] <= Within(rep, From(h, j), From(h, j + 1))
    <3>1. h.bins[Bin(h, j)] = 0
      BY <1>2, <1>4, RingPlaces
    <3>2. PICK x \in Nat : x = Within(rep, From(h, j), From(h, j + 1))
      BY <1>7
    <3> QED
      BY <3>1, <3>2
  <2> QED
    BY <2>1 DEF Binned
<1>13. Wrapped(h)
  BY <1>3, <1>5, <1>8 DEF Wrapped
<1>14. Fresh(h, rep)
  <2>1. \A j \in BinIndex : Aged(h, j) = 0
    BY <1>5, <1>8
  <2> QED
    BY <1>3, <1>5, <1>6, <1>8, <2>1 DEF Fresh
<1> QED
  BY <1>1, <1>9, <1>10, <1>11, <1>12, <1>13, <1>14 DEF WindowInv

\* What the account says about the window: see the parts of WindowInv.
LEMMA WindowCounts ==
  ASSUME NEW S, IsFiniteSet(S), \A s \in S : s \in Int, NEW rep \in [S -> Nat], NEW h, WindowInv(h, rep)
  PROVE  /\ \A a \in Int : h.start < a => Since(rep, a) <= h.events
         /\ ~Overflow(rep, h.bin_len) => \A a \in Int : a <= h.start => h.events <= Since(rep, a)
<1>1. h \in Histories /\ h.length = h.bin_len * CONG_HIST_ENTRIES /\ h.events \in Int /\ h.start \in Int
  BY Fields DEF WindowInv, Fits
<1>2. From(h, 0) = h.start /\ Aged(h, 0) = 0 /\ 0 \in 0 .. CONG_HIST_ENTRIES /\ 0 \in BinIndex
  BY <1>1, FromEnds, AgedNone, BinsAssumption DEF BinIndex
<1>3. h.events >= Since(rep, h.start + 1)
  <2>1. h.events - Aged(h, 0) >= Since(rep, From(h, 0) + 1)
    BY <1>2 DEF WindowInv, Kept
  <2> QED
    BY <1>1, <1>2, <2>1
<1>4. ASSUME NEW a \in Int, h.start < a PROVE Since(rep, a) <= h.events
  <2>1. PICK b \in Int : b = h.start + 1 /\ b <= a
    BY <1>1, <1>4
  <2>2. Since(rep, a) <= Since(rep, b)
    BY <2>1, SinceLess
  <2>3. Since(rep, a) \in Nat /\ Since(rep, b) \in Nat
    BY SinceNat
  <2> QED
    BY <1>1, <1>3, <2>1, <2>2, <2>3
<1>5. ASSUME ~Overflow(rep, h.bin_len), NEW a \in Int, a <= h.start PROVE h.events <= Since(rep, a)
  <2>1. h.events - Aged(h, 0) <= Since(rep, From(h, 0))
    BY <1>2, <1>5 DEF WindowInv, Fresh
  <2>2. PICK b \in Int : b = h.start
    BY <1>1
  <2>3. Since(rep, b) <= Since(rep, a)
    BY <1>5, <2>2, SinceLess
  <2>4. Since(rep, a) \in Nat /\ Since(rep, b) \in Nat
    BY SinceNat
  <2> QED
    BY <1>1, <1>2, <2>1, <2>2, <2>3, <2>4
<1> QED
  BY <1>4, <1>5

\* Up to the last report it makes no difference where a span ends.
LEMMA SinceWithin ==
    ASSUME NEW S, IsFiniteSet(S), \A s \in S : s \in Int, NEW rep \in [S -> Nat], NEW a, NEW b \in Int,
           \A s \in S : rep[s] # 0 => s <= b
    PROVE  Since(rep, a) = Within(rep, a, b)
<1> DEFINE X == {s \in S : a <= s /\ s <= b}
           Y == {s \in S : a <= s /\ ~(s <= b)}
<1>1. {s \in S : a <= s} = X \cup Y /\ X \cap Y = {}
  OBVIOUS
<1>2. IsFiniteSet(X) /\ IsFiniteSet(Y) /\ \A s \in X \cup Y : rep[s] \in Int
  BY FS_Subset
<1>3. \A s \in Y : rep[s] = 0
  OBVIOUS
<1>4. Since(rep, a) = Total(rep, {s \in S : a <= s}) /\ Within(rep, a, b) = Total(rep, X) /\ Within(rep, a, b) \in Nat
  BY SinceNat, WithinNat
<1> HIDE DEF X, Y
<1>5. Total(rep, X \cup Y) = Total(rep, X) + Total(rep, Y)
  BY <1>1, <1>2, TotalUnion
<1>6. Total(rep, Y) = 0
  BY <1>2, <1>3, TotalZero
<1>7. PICK x \in Nat : x = Total(rep, X) /\ x = Within(rep, a, b)
  BY <1>4
<1>8. Since(rep, a) = Total(rep, X \cup Y)
  BY <1>1, <1>4
<1>9. x + 0 = x
  OBVIOUS
<1> QED
  BY <1>5, <1>6, <1>7, <1>8, <1>9

=============================================================================
