--------------------------- MODULE RetrievalProofs ---------------------------
(***************************************************************************)
(* What the retrieval of sources promises, for every knowledge base, every *)
(* table of routes and every pair of rankings.                             *)
(*                                                                         *)
(* The sources are made by loops, which the module writes as folds, and    *)
(* what a loop establishes is shown by induction.  The induction is that   *)
(* over the natural numbers, about sets instead of predicates: a set that  *)
(* has 0 and with each number the next one has them all (SetInduction).  A *)
(* fold over a sequence is then the last link of a chain (FoldExists and,  *)
(* for each loop, a lemma that names the chain).                           *)
(***************************************************************************)
EXTENDS Retrieval, FiniteSetTheorems, WellFoundedInduction, TLAPS

LEMMA Least ==
  ASSUME NEW T \in SUBSET Nat, T # {}
  PROVE  \E n \in T : \A m \in T : n <= m
<1> DEFINE R == OpToRel(<, Nat)
<1>1. IsWellFoundedOn(R, Nat)
  BY NatLessThanWellFounded
<1>2. \E n \in T : \A m \in T : <<m, n>> \notin R
  <2> HIDE DEF R
  <2> QED BY <1>1, WFMin
<1>3. \A n, m \in Nat : m < n => <<m, n>> \in R
  BY DEF OpToRel
<1>4. PICK n \in T : \A m \in T : <<m, n>> \notin R
  BY <1>2
<1> HIDE DEF R
<1>5. \A m \in T : ~(m < n)
  BY <1>3, <1>4
<1>6. QED
  BY <1>5

LEMMA SetInduction ==
  ASSUME NEW T, 0 \in T, \A n \in Nat : n \in T => n + 1 \in T
  PROVE  Nat \subseteq T
<1>1. SUFFICES ASSUME Nat \ T # {} PROVE FALSE
  OBVIOUS
<1>2. PICK n \in Nat \ T : \A m \in Nat \ T : n <= m
  BY <1>1, Least
<1>3. n # 0 /\ n - 1 \in Nat /\ n - 1 \in T
  BY <1>2
<1>4. QED
  BY <1>2, <1>3

LEMMA UpTo ==
  ASSUME NEW n \in Nat, NEW T, 0 \in T, \A i \in 1..n : i - 1 \in T => i \in T
  PROVE  0..n \subseteq T
<1> DEFINE U == {m \in Nat : m <= n => m \in T}
<1>1. 0 \in U /\ \A m \in Nat : m \in U => m + 1 \in U
  <2> SUFFICES ASSUME NEW m \in Nat, m \in U, m + 1 <= n PROVE m + 1 \in T
    OBVIOUS
  <2>1. m + 1 \in 1..n /\ m \in T /\ (m + 1) - 1 = m
    OBVIOUS
  <2>2. QED
    BY <2>1
<1>2. Nat \subseteq U
  <2> HIDE DEF U
  <2> QED BY <1>1, SetInduction
<1>3. QED
  BY <1>2

(* A chain: what a loop makes of its start, turn by turn. *)
LEMMA MaxOfTop ==
  ASSUME NEW n \in Nat, NEW s \in SUBSET (1..n), n \in s
  PROVE  Max(s) = n
<1>1. n \in s /\ \A y \in s : n >= y
  OBVIOUS
<1>2. \A x \in s : (\A y \in s : x >= y) => x = n
  OBVIOUS
<1>3. QED
  BY <1>1, <1>2 DEF Max

Folds(iter, n, base, turn) ==
  \A s \in SUBSET (1..n) :
    iter[s] = IF s = {} THEN base ELSE turn[<<iter[s \ {Max(s)}], Max(s)>>]

LEMMA FoldExists ==
  ASSUME NEW n \in Nat, NEW D, NEW base \in D, NEW turn \in [D \X (1..n) -> D]
  PROVE  \E iter \in [SUBSET (1..n) -> D] : Folds(iter, n, base, turn)
<1> DEFINE Good(m, iter) ==
      \A s \in SUBSET (1..m) :
         iter[s] = IF s = {} THEN base ELSE turn[<<iter[s \ {Max(s)}], Max(s)>>]
    T == {m \in Nat : \E iter \in [SUBSET (1..m) -> D] : Good(m, iter)}
<1>1. 0 \in T
  <2> DEFINE iter == [s \in SUBSET (1..0) |-> base]
  <2>1. \A s \in SUBSET (1..0) : s = {}
    OBVIOUS
  <2>2. Good(0, iter)
    BY <2>1
  <2>3. QED
    BY <2>2
<1>2. ASSUME NEW m \in 1..n, m - 1 \in T PROVE m \in T
  <2>1. PICK it \in [SUBSET (1..(m-1)) -> D] : Good(m - 1, it)
    BY <1>2
  <2> DEFINE iter == [s \in SUBSET (1..m) |-> IF m \in s THEN turn[<<it[s \ {m}], m>>] ELSE it[s]]
  <2>2. \A s \in SUBSET (1..m) : s \ {m} \in SUBSET (1..(m-1))
    OBVIOUS
  <2>3. iter \in [SUBSET (1..m) -> D]
    BY <2>2
  <2>4. ASSUME NEW s \in SUBSET (1..m)
        PROVE iter[s] = IF s = {} THEN base ELSE turn[<<iter[s \ {Max(s)}], Max(s)>>]
    <3>1. CASE m \in s
      <4>1. Max(s) = m
        BY <3>1, MaxOfTop
      <4>2. s \ {m} \in SUBSET (1..m) /\ m \notin s \ {m}
        OBVIOUS
      <4>3. iter[s \ {m}] = it[s \ {m}]
        BY <4>2
      <4>4. QED
        BY <3>1, <4>1, <4>3
    <3>2. CASE m \notin s /\ s # {}
      <4>1. s \in SUBSET (1..(m-1))
        BY <2>2, <3>2
      <4>2. it[s] = turn[<<it[s \ {Max(s)}], Max(s)>>]
        BY <2>1, <3>2, <4>1
      <4>3. s \ {Max(s)} \in SUBSET (1..m) /\ m \notin s \ {Max(s)}
        BY <3>2
      <4>4. QED
        BY <3>2, <4>2, <4>3
    <3>3. CASE s = {}
      BY <2>1, <3>3
    <3>4. QED
      BY <3>1, <3>2, <3>3
  <2>5. Good(m, iter)
    BY <2>4
  <2> HIDE DEF Good, iter
  <2>6. QED
    BY <2>3, <2>5
<1>3. 0..n \subseteq T
  <2> HIDE DEF T
  <2> QED BY <1>1, <1>2, UpTo
<1>4. PICK iter \in [SUBSET (1..n) -> D] : Good(n, iter)
  <2>1. n \in T
    <3> HIDE DEF T
    <3> QED BY <1>3
  <2> HIDE DEF Good
  <2>2. QED
    BY <2>1
<1>5. QED
  BY <1>4 DEF Folds

LEMMA MaxInRange ==
  ASSUME NEW n \in Nat, NEW s \in SUBSET (1..n), s # {}
  PROVE  Max(s) \in s /\ \A y \in s : Max(s) >= y
<1> DEFINE T == {n - x : x \in s}
<1>0. \A x \in s : x \in 1..n /\ n - x \in Nat
  OBVIOUS
<1>1. T \in SUBSET Nat /\ T # {}
  BY <1>0
<1>2. PICK t \in T : \A m \in T : t <= m
  <2> HIDE DEF T
  <2> QED BY <1>1, Least
<1>3. PICK x \in s : t = n - x
  BY <1>2
<1>4. \A y \in s : x >= y
  <2> SUFFICES ASSUME NEW y \in s PROVE x >= y
    OBVIOUS
  <2>1. n - y \in T
    OBVIOUS
  <2>2. n - x <= n - y
    BY <1>2, <1>3, <2>1
  <2>3. QED
    BY <1>0, <2>2
<1>5. QED
  BY <1>4 DEF Max

LEMMA MaxOfTwo ==
  ASSUME NEW a \in Int, NEW b \in Int
  PROVE  Max({a, b}) = IF a >= b THEN a ELSE b
<1>1. \A x \in {a, b} : (\A y \in {a, b} : x >= y) => x = IF a >= b THEN a ELSE b
  OBVIOUS
<1>2. \E x \in {a, b} : \A y \in {a, b} : x >= y
  OBVIOUS
<1>3. QED
  BY <1>1, <1>2 DEF Max

LEMMA MinOfTwo ==
  ASSUME NEW a \in Int, NEW b \in Int
  PROVE  Min({a, b}) = IF a <= b THEN a ELSE b
<1>1. \A x \in {a, b} : (\A y \in {a, b} : x <= y) => x = IF a <= b THEN a ELSE b
  OBVIOUS
<1>2. \E x \in {a, b} : \A y \in {a, b} : x <= y
  OBVIOUS
<1>3. QED
  BY <1>1, <1>2 DEF Min
-----------------------------------------------------------------------------
(* Scores are fractions with a positive denominator.                       *)
Fraction == {x \in Nat \X Nat : x[2] > 0}

LEMMA Cancel ==
  ASSUME NEW a \in Int, NEW b \in Int, NEW c \in Nat, c > 0
  PROVE  (c * a <= c * b <=> a <= b) /\ (c * a < c * b <=> a < b)
<1>1. a <= b => c * a <= c * b
  OBVIOUS
<1>2. a < b => c * a < c * b
  OBVIOUS
<1>3. c * a \in Int /\ c * b \in Int
  OBVIOUS
<1>4. ASSUME c * a <= c * b, b < a PROVE FALSE
  <2>1. c * b < c * a
    BY <1>4
  <2>2. QED
    BY <1>3, <1>4, <2>1
<1>5. ASSUME c * a < c * b, b <= a PROVE FALSE
  <2>1. c * b <= c * a
    BY <1>5
  <2>2. QED
    BY <1>3, <1>5, <2>1
<1>6. QED
  BY <1>1, <1>2, <1>4, <1>5

LEMMA FractionTransitive ==
  ASSUME NEW x \in Fraction, NEW y \in Fraction, NEW z \in Fraction,
         ~Above(y, x), ~Above(z, y)
  PROVE  /\ ~Above(z, x)
         /\ Above(x, y) \/ Above(y, z) => Above(x, z)
<1> DEFINE a == x[1]
           b == x[2]
           c == y[1]
           d == y[2]
           e == z[1]
           f == z[2]
<1>1. a \in Nat /\ b \in Nat /\ c \in Nat /\ d \in Nat /\ e \in Nat /\ f \in Nat
  BY DEF Fraction
<1>2. b > 0 /\ d > 0 /\ f > 0
  BY DEF Fraction
<1>3. c * b \in Int /\ a * d \in Int /\ e * d \in Int /\ c * f \in Int /\ e * b \in Int /\ a * f \in Int
  <2> HIDE DEF a, b, c, d, e, f
  <2> QED BY <1>1
<1>4. /\ Above(y, x) <=> c * b > a * d
      /\ Above(z, y) <=> e * d > c * f
      /\ Above(z, x) <=> e * b > a * f
      /\ Above(x, y) <=> a * d > c * b
      /\ Above(y, z) <=> c * f > e * d
      /\ Above(x, z) <=> a * f > e * b
  BY DEF Above
<1> HIDE DEF a, b, c, d, e, f
<1>5. c * b <= a * d /\ e * d <= c * f
  BY <1>3, <1>4
<1>6. b * (e * d) <= b * (c * f) /\ f * (c * b) <= f * (a * d)
  BY <1>1, <1>2, <1>3, <1>5, Cancel
<1>7. b * (e * d) = d * (e * b) /\ f * (a * d) = d * (a * f) /\ b * (c * f) = f * (c * b)
  BY <1>1
<1>8. /\ b * (e * d) \in Int /\ b * (c * f) \in Int /\ f * (a * d) \in Int
  BY <1>1
<1>9. d * (e * b) <= d * (a * f)
  BY <1>6, <1>7, <1>8
<1>10. e * b <= a * f
  BY <1>1, <1>2, <1>3, <1>9, Cancel
<1>11. ASSUME a * d > c * b PROVE a * f > e * b
  <2>1. f * (c * b) < f * (a * d)
    BY <1>1, <1>2, <1>3, <1>11, Cancel
  <2>2. d * (e * b) < d * (a * f)
    BY <1>6, <1>7, <1>8, <2>1
  <2>3. QED
    BY <1>1, <1>2, <1>3, <2>2, Cancel
<1>12. ASSUME c * f > e * d PROVE a * f > e * b
  <2>1. b * (e * d) < b * (c * f)
    BY <1>1, <1>2, <1>3, <1>12, Cancel
  <2>2. d * (e * b) < d * (a * f)
    BY <1>6, <1>7, <1>8, <2>1
  <2>3. QED
    BY <1>1, <1>2, <1>3, <2>2, Cancel
<1>13. QED
  BY <1>3, <1>4, <1>10, <1>11, <1>12

LEMMA FractionSum ==
  ASSUME NEW x \in Fraction, NEW y \in Fraction, NEW u \in Fraction, NEW v \in Fraction,
         ~Above(u, x), ~Above(v, y), Above(x, u) \/ Above(y, v)
  PROVE  Above(Plus(x, y), Plus(u, v))
<1> DEFINE a == x[1]
           b == x[2]
           c == y[1]
           d == y[2]
           e == u[1]
           f == u[2]
           g == v[1]
           h == v[2]
<1>1. /\ a \in Nat /\ b \in Nat /\ c \in Nat /\ d \in Nat
      /\ e \in Nat /\ f \in Nat /\ g \in Nat /\ h \in Nat
      /\ b > 0 /\ d > 0 /\ f > 0 /\ h > 0
  BY DEF Fraction
<1>2. /\ Above(u, x) <=> e * b > a * f
      /\ Above(v, y) <=> g * d > c * h
      /\ Above(x, u) <=> a * f > e * b
      /\ Above(y, v) <=> c * h > g * d
  BY DEF Above
<1>3. Above(Plus(x, y), Plus(u, v)) <=>
        (a * d + c * b) * (f * h) > (e * h + g * f) * (b * d)
  BY DEF Above, Plus
<1> HIDE DEF a, b, c, d, e, f, g, h
<1> DEFINE p == a * f
           q == e * b
           r == c * h
           s == g * d
           m == d * h
           n == b * f
<1>4. /\ p \in Nat /\ q \in Nat /\ r \in Nat /\ s \in Nat /\ m \in Nat /\ n \in Nat
      /\ m > 0 /\ n > 0
  BY <1>1
<1>5. (a * d + c * b) * (f * h) = m * p + n * r
  BY <1>1
<1>6. (e * h + g * f) * (b * d) = m * q + n * s
  BY <1>1
<1>7. q <= p /\ s <= r /\ (q < p \/ s < r)
  BY <1>2, <1>4
<1> HIDE DEF p, q, r, s, m, n
<1>8. m * q <= m * p /\ n * s <= n * r /\ (m * q < m * p \/ n * s < n * r)
  BY <1>4, <1>7, Cancel
<1>9. m * q \in Int /\ m * p \in Int /\ n * s \in Int /\ n * r \in Int
  BY <1>4
<1>10. m * p + n * r > m * q + n * s
  BY <1>8, <1>9
<1>11. QED
  BY <1>3, <1>5, <1>6, <1>10

-----------------------------------------------------------------------------
(* In a finite set with a strict order, counting those before an element   *)
(* gives each element a place of its own and leaves no place empty.        *)
StrictOrder(S, R) ==
  /\ \A x \in S : <<x, x>> \notin R
  /\ \A x, y, z \in S : <<x, y>> \in R /\ <<y, z>> \in R => <<x, z>> \in R
  /\ \A x, y \in S : x # y => <<x, y>> \in R \/ <<y, x>> \in R

Preceding(S, R, x) == {y \in S : <<y, x>> \in R}
PlaceIn(S, R) == [x \in S |-> 1 + Cardinality(Preceding(S, R, x))]

LEMMA Places ==
  ASSUME NEW S, IsFiniteSet(S), NEW R, StrictOrder(S, R)
  PROVE  /\ Cardinality(S) \in Nat
         /\ PlaceIn(S, R) \in [S -> 1..Cardinality(S)]
         /\ \A x, y \in S : <<x, y>> \in R => PlaceIn(S, R)[x] < PlaceIn(S, R)[y]
         /\ \A x, y \in S : PlaceIn(S, R)[x] = PlaceIn(S, R)[y] => x = y
         /\ \A i \in 1..Cardinality(S) : \E x \in S : PlaceIn(S, R)[x] = i
<1> DEFINE place == PlaceIn(S, R)
           n == Cardinality(S)
<1>1. n \in Nat
  BY FS_CardinalityType
<1>2. ASSUME NEW x \in S
      PROVE  /\ IsFiniteSet(Preceding(S, R, x)) /\ Cardinality(Preceding(S, R, x)) \in Nat
             /\ Cardinality(Preceding(S, R, x)) < n
  <2>1. Preceding(S, R, x) \in SUBSET S /\ x \notin Preceding(S, R, x)
    BY DEF Preceding, StrictOrder
  <2>2. /\ IsFiniteSet(Preceding(S, R, x)) /\ Cardinality(Preceding(S, R, x)) <= n
        /\ n = Cardinality(Preceding(S, R, x)) => S = Preceding(S, R, x)
    BY <2>1, FS_Subset
  <2>3. Cardinality(Preceding(S, R, x)) \in Nat
    BY <2>2, FS_CardinalityType
  <2>4. QED
    BY <1>1, <2>1, <2>2, <2>3
<1>3. place \in [S -> 1..n] /\ \A x \in S : place[x] = 1 + Cardinality(Preceding(S, R, x))
  <2> HIDE DEF n
  <2>1. \A x \in S : 1 + Cardinality(Preceding(S, R, x)) \in 1..n
    BY <1>1, <1>2
  <2>2. QED
    BY <2>1 DEF PlaceIn
<1>4. ASSUME NEW x \in S, NEW y \in S, <<x, y>> \in R
      PROVE  place[x] < place[y]
  <2>1. Preceding(S, R, x) \in SUBSET Preceding(S, R, y)
    BY <1>4 DEF Preceding, StrictOrder
  <2>2. x \in Preceding(S, R, y) /\ x \notin Preceding(S, R, x)
    BY <1>4 DEF Preceding, StrictOrder
  <2>3. /\ Cardinality(Preceding(S, R, x)) <= Cardinality(Preceding(S, R, y))
        /\ Cardinality(Preceding(S, R, y)) = Cardinality(Preceding(S, R, x))
             => Preceding(S, R, y) = Preceding(S, R, x)
    BY <1>2, <2>1, FS_Subset
  <2>4. Cardinality(Preceding(S, R, x)) < Cardinality(Preceding(S, R, y))
    BY <1>2, <2>2, <2>3
  <2> HIDE DEF place
  <2>5. QED
    BY <1>2, <1>3, <2>4
<1>5. ASSUME NEW x \in S, NEW y \in S, place[x] = place[y]
      PROVE  x = y
  <2>1. place[x] \in Int /\ ~(<<x, y>> \in R) /\ ~(<<y, x>> \in R)
    BY <1>3, <1>4, <1>5
  <2>2. QED
    BY <2>1 DEF StrictOrder
<1>6. place \in Injection(S, 1..n)
  BY <1>3, <1>5 DEF Injection, IsInjective
<1>7. IsFiniteSet(1..n) /\ Cardinality(1..n) = n
  BY <1>1, FS_Interval
<1>8. place \in Surjection(S, 1..n)
  BY <1>6, <1>7, FS_Injection
<1>9. \A i \in 1..n : \E x \in S : place[x] = i
  BY <1>8 DEF Surjection
<1>10. QED
  BY <1>1, <1>3, <1>4, <1>5, <1>9

-----------------------------------------------------------------------------
(* The fused ranking.                                                      *)
LEMMA Ranked ==
  ASSUME NEW S, NEW ranking \in Seq(S), IsInjective(ranking)
  PROVE  /\ \A c : Contains(ranking, c) <=> c \in ToSet(ranking)
         /\ \A c \in ToSet(ranking) :
              Rank(ranking, c) \in DOMAIN ranking /\ ranking[Rank(ranking, c)] = c
         /\ \A i \in DOMAIN ranking : Rank(ranking, ranking[i]) = i
<1>1. DOMAIN ranking = 1..Len(ranking)
  OBVIOUS
<1>2. \A c : Contains(ranking, c) <=> c \in ToSet(ranking)
  BY <1>1 DEF Contains, ToSet
<1>3. ASSUME NEW c \in ToSet(ranking)
      PROVE  Rank(ranking, c) \in DOMAIN ranking /\ ranking[Rank(ranking, c)] = c
  <2>1. \E i \in DOMAIN ranking : ranking[i] = c
    BY DEF ToSet
  <2>2. QED
    BY <2>1 DEF Rank
<1>4. ASSUME NEW i \in DOMAIN ranking
      PROVE  Rank(ranking, ranking[i]) = i
  <2>1. ranking[i] \in ToSet(ranking)
    BY DEF ToSet
  <2>2. QED
    BY <1>3, <2>1 DEF IsInjective
<1>5. QED
  BY <1>2, <1>3, <1>4

LEMMA FiniteRange ==
  ASSUME NEW S, NEW ranking \in Seq(S)
  PROVE  IsFiniteSet(ToSet(ranking)) /\ ToSet(ranking) \subseteq S
<1>1. Len(ranking) \in Nat /\ DOMAIN ranking = 1..Len(ranking)
  OBVIOUS
<1>2. ranking \in Surjection(1..Len(ranking), ToSet(ranking))
  BY <1>1 DEF Surjection, ToSet
<1>3. IsFiniteSet(1..Len(ranking))
  BY <1>1, FS_Interval
<1>4. IsFiniteSet(ToSet(ranking))
  BY <1>2, <1>3, FS_Surjection
<1>5. ToSet(ranking) \subseteq S
  BY DEF ToSet
<1>6. QED
  BY <1>4, <1>5

LEMMA PlusTypes ==
  ASSUME NEW x \in Fraction, NEW y \in Fraction
  PROVE  Plus(x, y) \in Fraction
<1> DEFINE a == x[1]
           b == x[2]
           c == y[1]
           d == y[2]
<1>1. a \in Nat /\ b \in Nat /\ c \in Nat /\ d \in Nat /\ b > 0 /\ d > 0
  BY DEF Fraction
<1>2. Plus(x, y) = <<a * d + c * b, b * d>>
  BY DEF Plus
<1> HIDE DEF a, b, c, d
<1>3. a * d + c * b \in Nat /\ b * d \in Nat
  BY <1>1
<1>4. b * d > 0
  <2>1. b * 0 < b * d
    BY <1>1, Cancel
  <2>2. QED
    BY <1>1, <1>3, <2>1
<1>5. QED
  BY <1>2, <1>3, <1>4 DEF Fraction

(* What a search ranks by: no chunk twice in a ranking.                    *)
Rankings(dense, lexical, weight) ==
  /\ dense \in Seq(ToSet(Chunks)) /\ IsInjective(dense)
  /\ lexical \in Seq(ToSet(Chunks)) /\ IsInjective(lexical)
  /\ weight \in 1..99

LEMMA ShareTypes ==
  ASSUME NEW S, NEW ranking \in Seq(S), IsInjective(ranking), NEW c, NEW w \in 1..99
  PROVE  Share(w, ranking, c) \in Fraction
<1>1. CASE Contains(ranking, c)
  <2>1. Rank(ranking, c) \in DOMAIN ranking
    BY <1>1, Ranked
  <2>2. 60 + Rank(ranking, c) \in Nat /\ 60 + Rank(ranking, c) > 0
    BY <2>1
  <2>3. QED
    BY <1>1, <2>2 DEF Share, Fraction
<1>2. QED
  BY <1>1 DEF Share, Fraction

LEMMA ScoreTypes ==
  ASSUME NEW dense, NEW lexical, NEW weight, Rankings(dense, lexical, weight), NEW c
  PROVE  Score(c, dense, lexical, weight) \in Fraction
<1>1. weight \in 1..99 /\ 100 - weight \in 1..99
  BY DEF Rankings
<1>2. Share(weight, dense, c) \in Fraction /\ Share(100 - weight, lexical, c) \in Fraction
  BY <1>1, ShareTypes DEF Rankings
<1>3. QED
  BY <1>2, PlusTypes DEF Score

NoWorse(ranking, c, d) ==
  Contains(ranking, d) => Contains(ranking, c) /\ Rank(ranking, c) < Rank(ranking, d)

(* A ranking gives no less to what it does not put behind.                 *)
LEMMA SharesOrdered ==
  ASSUME NEW S, NEW ranking \in Seq(S), IsInjective(ranking), NEW w \in 1..99,
         NEW c, NEW d, NoWorse(ranking, c, d)
  PROVE  /\ ~Above(Share(w, ranking, d), Share(w, ranking, c))
         /\ Contains(ranking, d) => Above(Share(w, ranking, c), Share(w, ranking, d))
<1>1. CASE Contains(ranking, d)
  <2> DEFINE i == Rank(ranking, c)
             j == Rank(ranking, d)
  <2>1. i \in Nat /\ j \in Nat /\ i < j /\ Contains(ranking, c)
    BY <1>1, Ranked DEF NoWorse
  <2>2. Share(w, ranking, c) = <<w, 60 + i>> /\ Share(w, ranking, d) = <<w, 60 + j>>
    BY <1>1, <2>1 DEF Share
  <2> HIDE DEF i, j
  <2>3. w * (60 + i) < w * (60 + j)
    BY <2>1, Cancel
  <2>4. w * (60 + i) \in Int /\ w * (60 + j) \in Int
    BY <2>1
  <2>5. QED
    BY <2>2, <2>3, <2>4 DEF Above
<1>2. CASE ~Contains(ranking, d)
  <2>1. Share(w, ranking, d) = <<0, 1>>
    BY <1>2 DEF Share
  <2>2. Share(w, ranking, c) \in Fraction
    BY ShareTypes
  <2>3. QED
    BY <1>2, <2>1, <2>2 DEF Above, Fraction
<1>3. QED
  BY <1>1, <1>2

Hits(dense, lexical) == ToSet(dense) \union ToSet(lexical)
Order(dense, lexical, weight) ==
  {p \in Hits(dense, lexical) \X Hits(dense, lexical) : Before(p[1], p[2], dense, lexical, weight)}

LEMMA BeforeIsOrder ==
  ASSUME NEW dense, NEW lexical, NEW weight, Rankings(dense, lexical, weight)
  PROVE  /\ IsFiniteSet(Hits(dense, lexical))
         /\ Hits(dense, lexical) \subseteq ToSet(Chunks)
         /\ StrictOrder(Hits(dense, lexical), Order(dense, lexical, weight))
<1> DEFINE H == Hits(dense, lexical)
           score(c) == Score(c, dense, lexical, weight)
<1>1. /\ IsFiniteSet(ToSet(dense)) /\ ToSet(dense) \subseteq ToSet(Chunks)
      /\ IsFiniteSet(ToSet(lexical)) /\ ToSet(lexical) \subseteq ToSet(Chunks)
  BY FiniteRange DEF Rankings
<1>2. IsFiniteSet(H) /\ H \subseteq ToSet(Chunks)
  BY <1>1, FS_Union DEF Hits
<1>3. /\ \A c \in H : Rank(Chunks, c) \in Int
      /\ \A c, d \in H : Rank(Chunks, c) = Rank(Chunks, d) => c = d
  <2>1. Chunks \in Seq(DOMAIN DocOf) /\ IsInjective(Chunks)
    BY ChunksAssumption
  <2>2. \A c \in ToSet(Chunks) : Rank(Chunks, c) \in DOMAIN Chunks /\ Chunks[Rank(Chunks, c)] = c
    BY <2>1, Ranked
  <2>3. \A i \in DOMAIN Chunks : i \in Int
    BY <2>1
  <2>4. QED
    BY <1>2, <2>2, <2>3
<1>4. \A c : score(c) \in Fraction
  BY ScoreTypes
<1>5. \A c, d \in H :
        <<c, d>> \in Order(dense, lexical, weight) <=>
          Above(score(c), score(d)) \/ (~Above(score(d), score(c)) /\ Rank(Chunks, c) < Rank(Chunks, d))
  BY DEF Order, Before
<1> HIDE DEF score, H
<1>6. ASSUME NEW c \in H, NEW d \in H
      PROVE  ~(Above(score(c), score(d)) /\ Above(score(d), score(c)))
  <2> DEFINE x == score(c)
             y == score(d)
  <2>1. x \in Fraction /\ y \in Fraction
    BY <1>4
  <2> HIDE DEF x, y
  <2>2. x[1] * y[2] \in Int /\ y[1] * x[2] \in Int
    BY <2>1 DEF Fraction
  <2>3. ~(Above(x, y) /\ Above(y, x))
    BY <2>2 DEF Above
  <2>4. QED
    BY <2>3 DEF x, y
<1>7. ASSUME NEW c \in H PROVE <<c, c>> \notin Order(dense, lexical, weight)
  BY <1>3, <1>5, <1>6
<1>8. ASSUME NEW c \in H, NEW d \in H, NEW e \in H,
             <<c, d>> \in Order(dense, lexical, weight), <<d, e>> \in Order(dense, lexical, weight)
      PROVE  <<c, e>> \in Order(dense, lexical, weight)
  <2>1. /\ ~Above(score(d), score(c)) /\ ~Above(score(e), score(d))
        /\ Above(score(c), score(d)) \/ Rank(Chunks, c) < Rank(Chunks, d)
        /\ Above(score(d), score(e)) \/ Rank(Chunks, d) < Rank(Chunks, e)
    BY <1>5, <1>6, <1>8
  <2>2. /\ ~Above(score(e), score(c))
        /\ Above(score(c), score(d)) \/ Above(score(d), score(e)) => Above(score(c), score(e))
    BY <1>4, <2>1, FractionTransitive
  <2>3. Above(score(c), score(e)) \/ Rank(Chunks, c) < Rank(Chunks, e)
    BY <1>3, <2>1, <2>2
  <2>4. QED
    BY <1>5, <2>2, <2>3
<1>9. ASSUME NEW c \in H, NEW d \in H, c # d
      PROVE  <<c, d>> \in Order(dense, lexical, weight) \/ <<d, c>> \in Order(dense, lexical, weight)
  BY <1>3, <1>5, <1>9
<1>10. StrictOrder(H, Order(dense, lexical, weight))
  BY <1>7, <1>8, <1>9 DEF StrictOrder
<1>11. QED
  BY <1>2, <1>10 DEF H

(* Fuse: each chunk of either ranking once, in the order of Before.        *)
LEMMA FuseIs ==
  ASSUME NEW dense, NEW lexical, NEW weight, Rankings(dense, lexical, weight)
  PROVE  LET fused == Fuse(dense, lexical, weight)
         IN /\ fused \in Seq(ToSet(Chunks)) /\ IsInjective(fused)
            /\ ToSet(fused) = Hits(dense, lexical)
            /\ \A c, d \in ToSet(fused) :
                 Before(c, d, dense, lexical, weight) => Rank(fused, c) < Rank(fused, d)
<1> DEFINE H == Hits(dense, lexical)
           R == Order(dense, lexical, weight)
           place == PlaceIn(H, R)
           fused == Fuse(dense, lexical, weight)
<1>1. IsFiniteSet(H) /\ H \subseteq ToSet(Chunks) /\ StrictOrder(H, R)
  BY BeforeIsOrder
<1>2. /\ Cardinality(H) \in Nat
      /\ place \in [H -> 1..Cardinality(H)]
      /\ \A x, y \in H : <<x, y>> \in R => place[x] < place[y]
      /\ \A x, y \in H : place[x] = place[y] => x = y
      /\ \A i \in 1..Cardinality(H) : \E x \in H : place[x] = i
  <2> HIDE DEF H, R
  <2> QED BY <1>1, Places
<1>3. fused = [i \in 1..Cardinality(H) |-> CHOOSE c \in H : place[c] = i]
  <2>1. \A c \in H : {d \in H : Before(d, c, dense, lexical, weight)} = Preceding(H, R, c)
    BY DEF Preceding, Order
  <2> DEFINE counted == [c \in H |-> 1 + Cardinality({d \in H : Before(d, c, dense, lexical, weight)})]
  <2>2. counted = place
    BY <2>1 DEF PlaceIn
  <2>3. fused = [i \in 1..Cardinality(H) |-> CHOOSE c \in H : counted[c] = i]
    BY Zenon DEF Fuse, Hits
  <2> HIDE DEF counted, fused, place
  <2>4. QED
    BY <2>2, <2>3
<1>4. \A c, d \in H : Before(c, d, dense, lexical, weight) => <<c, d>> \in R
  BY DEF Order
<1> HIDE DEF H, R, place, fused
<1>5. ASSUME NEW i \in 1..Cardinality(H)
      PROVE  fused[i] \in H /\ place[fused[i]] = i
  <2>1. fused[i] = CHOOSE c \in H : place[c] = i
    BY <1>3
  <2>2. \E x \in H : place[x] = i
    BY <1>2
  <2>3. QED
    BY <2>1, <2>2
<1>6. /\ DOMAIN fused = 1..Cardinality(H)
      /\ fused \in [1..Cardinality(H) -> H]
  BY <1>3, <1>5
<1>7. fused \in Seq(H) /\ fused \in Seq(ToSet(Chunks))
  BY <1>1, <1>2, <1>6
<1>8. IsInjective(fused)
  BY <1>5, <1>6 DEF IsInjective
<1>9. ASSUME NEW c \in H PROVE place[c] \in DOMAIN fused /\ fused[place[c]] = c
  BY <1>2, <1>5, <1>6
<1>10. ToSet(fused) = H
  BY <1>5, <1>6, <1>9 DEF ToSet
<1>11. ASSUME NEW c \in H PROVE Rank(fused, c) = place[c]
  BY <1>7, <1>8, <1>9, Ranked
<1>12. ASSUME NEW c \in H, NEW d \in H, Before(c, d, dense, lexical, weight)
       PROVE  Rank(fused, c) < Rank(fused, d)
  <2>1. <<c, d>> \in R
    BY <1>4, <1>12
  <2>2. QED
    BY <1>2, <1>11, <2>1
<1>13. QED
  BY <1>7, <1>8, <1>10, <1>12 DEF H, fused

(* Whom neither ranking prefers to another is put before it.               *)
LEMMA FusionKeepsOrder ==
  ASSUME NEW dense, NEW lexical, NEW weight, Rankings(dense, lexical, weight),
         NEW c, NEW d \in Hits(dense, lexical),
         NoWorse(dense, c, d), NoWorse(lexical, c, d)
  PROVE  Before(c, d, dense, lexical, weight)
<1>1. weight \in 1..99 /\ 100 - weight \in 1..99
  BY DEF Rankings
<1>2. /\ ~Above(Share(weight, dense, d), Share(weight, dense, c))
      /\ Contains(dense, d) => Above(Share(weight, dense, c), Share(weight, dense, d))
  BY <1>1, SharesOrdered DEF Rankings
<1>3. /\ ~Above(Share(100 - weight, lexical, d), Share(100 - weight, lexical, c))
      /\ Contains(lexical, d) => Above(Share(100 - weight, lexical, c), Share(100 - weight, lexical, d))
  BY <1>1, SharesOrdered DEF Rankings
<1>4. Contains(dense, d) \/ Contains(lexical, d)
  <2>1. /\ Contains(dense, d) <=> d \in ToSet(dense)
        /\ Contains(lexical, d) <=> d \in ToSet(lexical)
    BY Ranked DEF Rankings
  <2>2. QED
    BY <2>1 DEF Hits
<1>5. /\ Share(weight, dense, c) \in Fraction /\ Share(100 - weight, lexical, c) \in Fraction
      /\ Share(weight, dense, d) \in Fraction /\ Share(100 - weight, lexical, d) \in Fraction
  BY <1>1, ShareTypes DEF Rankings
<1>6. Above(Score(c, dense, lexical, weight), Score(d, dense, lexical, weight))
  BY <1>2, <1>3, <1>4, <1>5, FractionSum DEF Score
<1>7. QED
  BY <1>6 DEF Before

-----------------------------------------------------------------------------
(* The sources.  A loop adds at most one hit a turn, never two of the same *)
(* document.                                                               *)
LEMMA MinInRange ==
  ASSUME NEW n \in Nat, NEW s \in SUBSET (1..n), s # {}
  PROVE  Min(s) \in s /\ \A y \in s : Min(s) <= y
<1>1. s \in SUBSET Nat
  OBVIOUS
<1>2. PICK x \in s : \A y \in s : x <= y
  BY <1>1, Least
<1>3. QED
  BY <1>2 DEF Min

HitShape == [chunk : ToSet(Chunks), doc : Doc, channel : {"hybrid", "routed", "pinned"}]

LEMMA HitTypes ==
  ASSUME NEW c \in ToSet(Chunks), NEW channel \in {"hybrid", "routed", "pinned"}
  PROVE  /\ Hit(c, channel) \in HitShape
         /\ Hit(c, channel).doc = DocOf[c]
         /\ Hit(c, channel).channel = channel
<1>1. DocOf[c] \in Doc
  BY ChunksAssumption
<1>2. QED
  BY <1>1 DEF Hit, HitShape

LEMMA BestIs ==
  ASSUME NEW doc
  PROVE  /\ doc \in Doc => /\ BestForDoc(doc) # 0
                           /\ Chunks[BestForDoc(doc)] \in ToSet(Chunks)
                           /\ DocOf[Chunks[BestForDoc(doc)]] = doc
         /\ doc \notin Doc => BestForDoc(doc) = 0
<1> DEFINE I == {i \in 1..Len(Chunks) : DocOf[Chunks[i]] = doc}
<1>1. BestForDoc(doc) = IF I # {} THEN Min(I) ELSE 0
  BY DEF BestForDoc, SelectInSeq
<1>2. /\ Chunks \in Seq(DOMAIN DocOf) /\ Len(Chunks) \in Nat /\ DOMAIN Chunks = 1..Len(Chunks)
      /\ DocOf \in [ToSet(Chunks) -> Doc] /\ DOMAIN DocOf = ToSet(Chunks)
  BY ChunksAssumption
<1>3. I \in SUBSET (1..Len(Chunks))
  OBVIOUS
<1>4. I # {} => Min(I) \in I /\ Min(I) # 0
  <2> HIDE DEF I
  <2>1. I # {} => Min(I) \in I
    BY <1>2, <1>3, MinInRange
  <2>2. QED
    BY <1>2, <1>3, <2>1
<1>5. ASSUME doc \in Doc PROVE I # {}
  <2>1. PICK c \in DOMAIN DocOf : DocOf[c] = doc
    BY <1>5 DEF Doc, Range
  <2>2. PICK i \in DOMAIN Chunks : Chunks[i] = c
    BY <1>2, <2>1 DEF ToSet
  <2>3. QED
    BY <1>2, <2>1, <2>2
<1>6. ASSUME NEW i \in I PROVE Chunks[i] \in ToSet(Chunks) /\ DocOf[Chunks[i]] = doc /\ doc \in Doc
  <2>1. Chunks[i] \in ToSet(Chunks)
    BY <1>2 DEF ToSet
  <2>2. QED
    BY <1>2, <2>1
<1> HIDE DEF I
<1>7. QED
  BY <1>1, <1>4, <1>5, <1>6

Distinct(hits) == \A i, j \in DOMAIN hits : hits[i].doc = hits[j].doc => i = j
Routed(hits) == {hits[i].doc : i \in {j \in DOMAIN hits : hits[j].channel = "routed"}}

(* Appending a hit. *)
Grown(hits, hit, grown) ==
  /\ grown \in Seq(HitShape) /\ Len(grown) = Len(hits) + 1
  /\ \A i \in DOMAIN hits : i \in DOMAIN grown /\ grown[i] = hits[i]
  /\ Len(hits) + 1 \in DOMAIN grown /\ grown[Len(hits) + 1] = hit
  /\ DOMAIN grown = DOMAIN hits \union {Len(hits) + 1}

LEMMA AppendGrows ==
  ASSUME NEW hits \in Seq(HitShape), NEW hit \in HitShape
  PROVE  /\ Grown(hits, hit, Append(hits, hit))
         /\ DocsOf(Append(hits, hit)) = DocsOf(hits) \union {hit.doc}
         /\ Distinct(hits) /\ hit.doc \notin DocsOf(hits) => Distinct(Append(hits, hit))
<1> DEFINE grown == Append(hits, hit)
<1>1. Len(hits) \in Nat /\ DOMAIN hits = 1..Len(hits)
  OBVIOUS
<1>2. Grown(hits, hit, grown)
  <2>1. grown \in Seq(HitShape) /\ Len(grown) = Len(hits) + 1
    OBVIOUS
  <2>2. DOMAIN grown = 1..(Len(hits) + 1)
    BY <2>1
  <2>3. \A i \in 1..Len(hits) : grown[i] = hits[i]
    OBVIOUS
  <2>4. grown[Len(hits) + 1] = hit
    OBVIOUS
  <2> HIDE DEF grown
  <2>5. QED
    BY <1>1, <2>1, <2>2, <2>3, <2>4 DEF Grown
<1> HIDE DEF grown
<1>3. DocsOf(grown) = DocsOf(hits) \union {hit.doc}
  BY <1>2 DEF Grown, DocsOf
<1>4. ASSUME Distinct(hits), hit.doc \notin DocsOf(hits) PROVE Distinct(grown)
  BY <1>1, <1>2, <1>4 DEF Grown, Distinct, DocsOf
<1>5. QED
  BY <1>2, <1>3, <1>4 DEF grown

LEMMA AddRoutedTypes ==
  ASSUME NEW hits \in Seq(HitShape), NEW doc
  PROVE  AddRouted(hits, doc) \in Seq(HitShape)
<1>1. CASE BestForDoc(doc) # 0
  <2>1. Hit(Chunks[BestForDoc(doc)], "routed") \in HitShape
    BY <1>1, BestIs, HitTypes
  <2>2. QED
    BY <2>1 DEF AddRouted
<1>2. QED
  BY <1>1 DEF AddRouted

LEMMA AddRankedTypes ==
  ASSUME NEW hits \in Seq(HitShape), NEW chunk \in ToSet(Chunks)
  PROVE  AddRanked(hits, chunk) \in Seq(HitShape)
<1>1. Hit(chunk, "hybrid") \in HitShape
  BY HitTypes
<1>2. QED
  BY <1>1 DEF AddRanked

(* The loop of search over the documents of the route. *)
LEMMA RoutedChain ==
  ASSUME NEW preferred, preferred \in Seq(ToSet(preferred))
  PROVE  \E link : /\ FoldLeft(AddRouted, <<>>, preferred) = link[Len(preferred)]
                   /\ link[0] = <<>>
                   /\ \A i \in 1..Len(preferred) : link[i] = AddRouted(link[i - 1], preferred[i])
<1> DEFINE n == Len(preferred)
           D == Seq(HitShape)
           turn == [p \in D \X (1..n) |-> AddRouted(p[1], preferred[p[2]])]
           Iterates(iter) == iter = [s \in SUBSET (DOMAIN preferred) |->
                               IF s = {} THEN <<>>
                               ELSE AddRouted(iter[s \ {Max(s)}], preferred[Max(s)])]
<1>1. /\ n \in Nat /\ DOMAIN preferred = 1..n
      /\ <<>> \in D
      /\ \A i \in 1..n : preferred[i] \in ToSet(preferred)
  OBVIOUS
<1>2. turn \in [D \X (1..n) -> D]
  BY <1>1, AddRoutedTypes
<1>3. PICK iter \in [SUBSET (1..n) -> D] : Folds(iter, n, <<>>, turn)
  <2> HIDE DEF D, turn, n
  <2> QED BY <1>1, <1>2, FoldExists
<1>4. Iterates(iter)
  <2>1. ASSUME NEW s \in SUBSET (1..n), s # {}
        PROVE  iter[s] = AddRouted(iter[s \ {Max(s)}], preferred[Max(s)])
    <3>1. Max(s) \in 1..n
      <4>1. n \in Nat
        BY <1>1
      <4> HIDE DEF n
      <4>2. Max(s) \in s
        BY <2>1, <4>1, MaxInRange
      <4>3. QED
        BY <4>2
    <3>2. iter[s \ {Max(s)}] \in D
      OBVIOUS
    <3>3. iter[s] = turn[<<iter[s \ {Max(s)}], Max(s)>>]
      BY <1>3, <2>1 DEF Folds
    <3> HIDE DEF D
    <3>4. QED
      BY <3>1, <3>2, <3>3
  <2>2. iter[{}] = <<>>
    BY <1>3 DEF Folds
  <2> HIDE DEF D, n
  <2>3. QED
    BY <1>1, <2>1, <2>2
<1>5. PICK it : Iterates(it) /\ FoldLeft(AddRouted, <<>>, preferred) = it[DOMAIN preferred]
  <2> DEFINE it == CHOOSE it : Iterates(it)
  <2>1. Iterates(it)
    BY <1>4
  <2>2. FoldLeft(AddRouted, <<>>, preferred) = it[DOMAIN preferred]
    BY Zenon DEF FoldLeft, MapThenFoldSet
  <2>3. QED
    BY <2>1, <2>2
<1> DEFINE link == [i \in 0..n |-> it[1..i]]
<1>6. link[0] = <<>>
  <2>1. 1..0 = {} /\ 0 \in 0..n /\ {} \in SUBSET (DOMAIN preferred)
    BY <1>1
  <2>2. it[{}] = <<>>
    BY <1>5, <2>1
  <2>3. QED
    BY <2>1, <2>2
<1>7. ASSUME NEW i \in 1..n PROVE link[i] = AddRouted(link[i - 1], preferred[i])
  <2>1. 1..i \in SUBSET (DOMAIN preferred) /\ 1..i # {} /\ i \in 1..i /\ i \in Nat
    <3>1. n \in Nat /\ DOMAIN preferred = 1..n
      BY <1>1
    <3> HIDE DEF n, D, turn, link, Iterates
    <3>2. i \in Nat /\ 1 <= i /\ i <= n
      BY <3>1
    <3>3. \A j \in 1..i : j \in 1..n
      BY <3>1, <3>2
    <3>4. 1..i \subseteq DOMAIN preferred
      BY <3>1, <3>3
    <3>5. i \in 1..i
      BY <3>2
    <3>6. QED
      BY <3>2, <3>4, <3>5
  <2>2. Max(1..i) = i /\ (1..i) \ {i} = 1..(i - 1)
    BY <2>1, MaxOfTop
  <2>3. it[1..i] = AddRouted(it[1..(i - 1)], preferred[i])
    BY <1>5, <2>1, <2>2
  <2>4. link[i] = it[1..i] /\ link[i - 1] = it[1..(i - 1)]
    BY <1>1
  <2>5. QED
    BY <2>3, <2>4
<1>8. FoldLeft(AddRouted, <<>>, preferred) = link[n]
  <2>1. link[n] = it[1..n]
    BY <1>1
  <2>2. link[n] = it[DOMAIN preferred]
    BY <1>1, <2>1
  <2>3. QED
    BY <1>5, <2>2, Zenon
<1> HIDE DEF link
<1>9. QED
  BY <1>6, <1>7, <1>8

(* The loop of search over the ranked chunks. *)
LEMMA RankedChain ==
  ASSUME NEW routed \in Seq(HitShape), NEW candidates \in Seq(ToSet(Chunks))
  PROVE  \E link : /\ FoldLeft(AddRanked, routed, candidates) = link[Len(candidates)]
                   /\ link[0] = routed
                   /\ \A i \in 1..Len(candidates) : link[i] = AddRanked(link[i - 1], candidates[i])
<1> DEFINE n == Len(candidates)
           D == Seq(HitShape)
           turn == [p \in D \X (1..n) |-> AddRanked(p[1], candidates[p[2]])]
           Iterates(iter) == iter = [s \in SUBSET (DOMAIN candidates) |->
                               IF s = {} THEN routed
                               ELSE AddRanked(iter[s \ {Max(s)}], candidates[Max(s)])]
<1>1. /\ n \in Nat /\ DOMAIN candidates = 1..n
      /\ routed \in D
      /\ \A i \in 1..n : candidates[i] \in ToSet(Chunks)
  OBVIOUS
<1>2. turn \in [D \X (1..n) -> D]
  BY <1>1, AddRankedTypes
<1>3. PICK iter \in [SUBSET (1..n) -> D] : Folds(iter, n, routed, turn)
  <2> HIDE DEF D, turn, n
  <2> QED BY <1>1, <1>2, FoldExists
<1>4. Iterates(iter)
  <2>1. ASSUME NEW s \in SUBSET (1..n), s # {}
        PROVE  iter[s] = AddRanked(iter[s \ {Max(s)}], candidates[Max(s)])
    <3>1. Max(s) \in 1..n
      <4>1. n \in Nat
        BY <1>1
      <4> HIDE DEF n
      <4>2. Max(s) \in s
        BY <2>1, <4>1, MaxInRange
      <4>3. QED
        BY <4>2
    <3>2. iter[s \ {Max(s)}] \in D
      OBVIOUS
    <3>3. iter[s] = turn[<<iter[s \ {Max(s)}], Max(s)>>]
      BY <1>3, <2>1 DEF Folds
    <3> HIDE DEF D
    <3>4. QED
      BY <3>1, <3>2, <3>3
  <2>2. iter[{}] = routed
    BY <1>3 DEF Folds
  <2> HIDE DEF D, n
  <2>3. QED
    BY <1>1, <2>1, <2>2
<1>5. PICK it : Iterates(it) /\ FoldLeft(AddRanked, routed, candidates) = it[DOMAIN candidates]
  <2> DEFINE it == CHOOSE it : Iterates(it)
  <2>1. Iterates(it)
    BY <1>4
  <2>2. FoldLeft(AddRanked, routed, candidates) = it[DOMAIN candidates]
    BY Zenon DEF FoldLeft, MapThenFoldSet
  <2>3. QED
    BY <2>1, <2>2
<1> DEFINE link == [i \in 0..n |-> it[1..i]]
<1>6. link[0] = routed
  <2>1. 1..0 = {} /\ 0 \in 0..n /\ {} \in SUBSET (DOMAIN candidates)
    BY <1>1
  <2>2. it[{}] = routed
    BY <1>5, <2>1
  <2>3. QED
    BY <2>1, <2>2
<1>7. ASSUME NEW i \in 1..n PROVE link[i] = AddRanked(link[i - 1], candidates[i])
  <2>1. 1..i \in SUBSET (DOMAIN candidates) /\ 1..i # {} /\ i \in 1..i /\ i \in Nat
    <3>1. n \in Nat /\ DOMAIN candidates = 1..n
      BY <1>1
    <3> HIDE DEF n, D, turn, link, Iterates
    <3>2. i \in Nat /\ 1 <= i /\ i <= n
      BY <3>1
    <3>3. \A j \in 1..i : j \in 1..n
      BY <3>1, <3>2
    <3>4. 1..i \subseteq DOMAIN candidates
      BY <3>1, <3>3
    <3>5. i \in 1..i
      BY <3>2
    <3>6. QED
      BY <3>2, <3>4, <3>5
  <2>2. Max(1..i) = i /\ (1..i) \ {i} = 1..(i - 1)
    BY <2>1, MaxOfTop
  <2>3. it[1..i] = AddRanked(it[1..(i - 1)], candidates[i])
    BY <1>5, <2>1, <2>2
  <2>4. link[i] = it[1..i] /\ link[i - 1] = it[1..(i - 1)]
    BY <1>1
  <2>5. QED
    BY <2>3, <2>4
<1>8. FoldLeft(AddRanked, routed, candidates) = link[n]
  <2>1. link[n] = it[1..n]
    BY <1>1
  <2>2. link[n] = it[DOMAIN candidates]
    BY <1>1, <2>1
  <2>3. QED
    BY <1>5, <2>2, Zenon
<1> HIDE DEF link
<1>9. QED
  BY <1>6, <1>7, <1>8

AfterRouted(hits, docs) ==
  /\ hits \in Seq(HitShape) /\ Distinct(hits)
  /\ \A i \in DOMAIN hits : hits[i].channel = "routed"
  /\ DocsOf(hits) = docs \intersect Doc

LEMMA AddRoutedKeeps ==
  ASSUME NEW hits, NEW docs, AfterRouted(hits, docs), NEW doc
  PROVE  AfterRouted(AddRouted(hits, doc), docs \union {doc})
<1>1. hits \in Seq(HitShape) /\ Distinct(hits)
  BY DEF AfterRouted
<1>2. CASE doc \notin Doc
  <2>1. AddRouted(hits, doc) = hits
    BY <1>2, BestIs DEF AddRouted
  <2>2. (docs \union {doc}) \intersect Doc = docs \intersect Doc
    BY <1>2
  <2>3. QED
    BY <2>1, <2>2 DEF AfterRouted
<1>3. CASE doc \in DocsOf(hits)
  <2>1. AddRouted(hits, doc) = hits
    BY <1>3 DEF AddRouted
  <2>2. (docs \union {doc}) \intersect Doc = docs \intersect Doc
    BY <1>3 DEF AfterRouted
  <2>3. QED
    BY <2>1, <2>2 DEF AfterRouted
<1>4. CASE doc \in Doc /\ doc \notin DocsOf(hits)
  <2> DEFINE hit == Hit(Chunks[BestForDoc(doc)], "routed")
             grown == Append(hits, hit)
  <2>1. hit \in HitShape /\ hit.doc = doc /\ hit.channel = "routed" /\ AddRouted(hits, doc) = grown
    BY <1>4, BestIs, HitTypes DEF AddRouted
  <2> HIDE DEF hit
  <2>2. /\ Grown(hits, hit, grown) /\ DocsOf(grown) = DocsOf(hits) \union {doc}
        /\ Distinct(grown)
    BY <1>1, <1>4, <2>1, AppendGrows
  <2> HIDE DEF grown
  <2>3. \A i \in DOMAIN grown : grown[i].channel = "routed"
    BY <2>1, <2>2 DEF Grown, AfterRouted
  <2>4. DocsOf(grown) = (docs \union {doc}) \intersect Doc
    BY <1>4, <2>2 DEF AfterRouted
  <2>5. QED
    BY <2>1, <2>2, <2>3, <2>4 DEF AfterRouted, Grown
<1>5. QED
  BY <1>2, <1>3, <1>4

LEMMA RoutedIs ==
  ASSUME NEW preferred, preferred \in Seq(ToSet(preferred))
  PROVE  AfterRouted(FoldLeft(AddRouted, <<>>, preferred), ToSet(preferred))
<1> DEFINE n == Len(preferred)
           docs(k) == {preferred[i] : i \in 1..k}
<1>1. n \in Nat /\ DOMAIN preferred = 1..n
  OBVIOUS
<1>2. PICK link : /\ FoldLeft(AddRouted, <<>>, preferred) = link[n]
                  /\ link[0] = <<>>
                  /\ \A i \in 1..n : link[i] = AddRouted(link[i - 1], preferred[i])
  BY RoutedChain
<1> DEFINE T == {k \in 0..n : AfterRouted(link[k], docs(k))}
<1>3. 0 \in T
  <2>1. docs(0) = {} /\ 0 \in 0..n
    BY <1>1
  <2>2. DocsOf(<<>>) = {} /\ <<>> \in Seq(HitShape) /\ Distinct(<<>>)
    BY DEF DocsOf, Distinct
  <2>3. AfterRouted(<<>>, {})
    BY <2>2 DEF AfterRouted
  <2>4. QED
    BY <1>2, <2>1, <2>3
<1>4. ASSUME NEW k \in 1..n, k - 1 \in T PROVE k \in T
  <2>1. AfterRouted(link[k - 1], docs(k - 1))
    BY <1>4
  <2>2. docs(k) = docs(k - 1) \union {preferred[k]}
    <3>1. n \in Nat
      BY <1>1
    <3> HIDE DEF n
    <3>2. 1..k = (1..(k - 1)) \union {k}
      BY <3>1
    <3>3. QED
      BY <3>2
  <2> HIDE DEF docs
  <2>3. AfterRouted(link[k], docs(k))
    BY <1>2, <2>1, <2>2, AddRoutedKeeps
  <2>4. k \in 0..n
    BY <1>1
  <2>5. QED
    BY <2>3, <2>4
<1>5. 0..n \subseteq T
  <2> HIDE DEF T, n
  <2> QED BY <1>1, <1>3, <1>4, UpTo
<1>6. AfterRouted(link[n], docs(n))
  <2>1. n \in 0..n
    BY <1>1
  <2>2. QED
    BY <1>5, <2>1
<1>7. docs(n) = ToSet(preferred)
  BY <1>1 DEF ToSet
<1>8. QED
  BY <1>2, <1>6, <1>7, Zenon

LEMMA HitsCount ==
  ASSUME NEW hits \in Seq(HitShape), Distinct(hits)
  PROVE  IsFiniteSet(DocsOf(hits)) /\ Cardinality(DocsOf(hits)) = Len(hits)
<1> DEFINE f == [i \in 1..Len(hits) |-> hits[i].doc]
<1>1. Len(hits) \in Nat /\ DOMAIN hits = 1..Len(hits)
  OBVIOUS
<1>2. f \in Surjection(1..Len(hits), DocsOf(hits)) /\ f \in Injection(1..Len(hits), DocsOf(hits))
  BY <1>1 DEF Surjection, Injection, IsInjective, DocsOf, Distinct
<1>3. IsFiniteSet(1..Len(hits)) /\ Cardinality(1..Len(hits)) = Len(hits)
  BY <1>1, FS_Interval
<1> HIDE DEF f
<1>4. QED
  BY <1>2, <1>3, FS_Surjection

(* The sources while the control documents in done have been pinned: those *)
(* that are not there for their rank are the documents of the route and    *)
(* the ones that are pinned, and no routed one comes after a ranked one.   *)
NotRanked(hits) == {hits[i].doc : i \in {j \in DOMAIN hits : hits[j].channel # "hybrid"}}

Sourced(hits, routed, done) ==
  /\ hits \in Seq(HitShape) /\ Distinct(hits) /\ Len(hits) <= SourceLimit
  /\ \A i, j \in DOMAIN hits : i < j /\ hits[i].channel = "hybrid" => hits[j].channel # "routed"
  /\ \A i \in DOMAIN hits : hits[i].channel = "pinned" => hits[i].doc \in done
  /\ \A i \in DOMAIN hits : hits[i].channel = "routed" => hits[i].doc \in routed
  /\ NotRanked(hits) = routed \union (done \intersect Doc)

LEMMA AddRankedKeeps ==
  ASSUME NEW hits, NEW routed, Sourced(hits, routed, {}), NEW chunk \in ToSet(Chunks)
  PROVE  Sourced(AddRanked(hits, chunk), routed, {})
<1>1. hits \in Seq(HitShape) /\ Distinct(hits) /\ Len(hits) \in Nat /\ DOMAIN hits = 1..Len(hits)
  BY DEF Sourced
<1>2. CASE DocOf[chunk] \in DocsOf(hits) \/ Len(hits) = SourceLimit
  BY <1>2 DEF AddRanked
<1>3. CASE DocOf[chunk] \notin DocsOf(hits) /\ Len(hits) # SourceLimit
  <2> DEFINE hit == Hit(chunk, "hybrid")
             grown == Append(hits, hit)
  <2>1. hit \in HitShape /\ hit.doc = DocOf[chunk] /\ hit.channel = "hybrid"
    BY HitTypes
  <2>2. AddRanked(hits, chunk) = grown
    BY <1>3 DEF AddRanked
  <2> HIDE DEF hit
  <2>3. Grown(hits, hit, grown) /\ Distinct(grown)
    BY <1>1, <1>3, <2>1, AppendGrows
  <2> HIDE DEF grown
  <2>4. Len(grown) <= SourceLimit
    <3>1. Len(hits) <= SourceLimit
      BY DEF Sourced
    <3>2. Len(grown) = Len(hits) + 1
      BY <2>3 DEF Grown
    <3>3. SourceLimit \in Nat /\ Len(hits) \in Nat
      BY <1>1, RouteAssumption
    <3>4. Len(hits) # SourceLimit
      BY <1>3
    <3>5. QED
      BY <3>1, <3>2, <3>3, <3>4
  <2>5. \A i \in DOMAIN grown : grown[i].channel # "hybrid" => i \in DOMAIN hits /\ grown[i] = hits[i]
    BY <2>1, <2>3 DEF Grown
  <2>6. \A i \in DOMAIN hits : i \in DOMAIN grown /\ grown[i] = hits[i]
    BY <2>3 DEF Grown
  <2>7. NotRanked(grown) = NotRanked(hits)
    BY <2>5, <2>6 DEF NotRanked
  <2>8. \A i, j \in DOMAIN grown : i < j /\ grown[i].channel = "hybrid" => grown[j].channel # "routed"
    <3> SUFFICES ASSUME NEW i \in DOMAIN grown, NEW j \in DOMAIN grown, i < j,
                        grown[i].channel = "hybrid", grown[j].channel = "routed"
                 PROVE  FALSE
      OBVIOUS
    <3>1. j \in DOMAIN hits /\ grown[j] = hits[j]
      BY <2>5
    <3>2. i \in DOMAIN hits
      BY <1>1, <2>3, <3>1 DEF Grown
    <3>3. QED
      BY <2>6, <3>1, <3>2 DEF Sourced
  <2>9. /\ \A i \in DOMAIN grown : grown[i].channel = "pinned" => grown[i].doc \in {}
        /\ \A i \in DOMAIN grown : grown[i].channel = "routed" => grown[i].doc \in routed
    BY <2>5 DEF Sourced
  <2>10. grown \in Seq(HitShape)
    BY <2>3 DEF Grown
  <2>11. QED
    BY <2>2, <2>3, <2>4, <2>7, <2>8, <2>9, <2>10 DEF Sourced
<1>4. QED
  BY <1>2, <1>3

LEMMA RankedIs ==
  ASSUME NEW hits, NEW routed, Sourced(hits, routed, {}), NEW candidates \in Seq(ToSet(Chunks))
  PROVE  Sourced(FoldLeft(AddRanked, hits, candidates), routed, {})
<1> DEFINE n == Len(candidates)
<1>1. n \in Nat /\ DOMAIN candidates = 1..n /\ \A i \in 1..n : candidates[i] \in ToSet(Chunks)
  OBVIOUS
<1>2. hits \in Seq(HitShape)
  BY DEF Sourced
<1>3. PICK link : /\ FoldLeft(AddRanked, hits, candidates) = link[n]
                  /\ link[0] = hits
                  /\ \A i \in 1..n : link[i] = AddRanked(link[i - 1], candidates[i])
  BY <1>2, RankedChain
<1> DEFINE T == {k \in 0..n : Sourced(link[k], routed, {})}
<1>4. 0 \in T
  BY <1>1, <1>3
<1>5. ASSUME NEW k \in 1..n, k - 1 \in T PROVE k \in T
  <2>1. Sourced(link[k - 1], routed, {})
    BY <1>5
  <2>2. Sourced(link[k], routed, {})
    BY <1>1, <1>3, <2>1, AddRankedKeeps
  <2>3. k \in 0..n
    BY <1>1
  <2>4. QED
    BY <2>2, <2>3
<1>6. 0..n \subseteq T
  <2> HIDE DEF T, n
  <2> QED BY <1>1, <1>4, <1>5, UpTo
<1>7. Sourced(link[n], routed, {})
  <2>1. n \in 0..n
    BY <1>1
  <2>2. QED
    BY <1>6, <2>1
<1>8. QED
  BY <1>3, <1>7, Zenon

(* The routed documents of a service and the control documents.            *)
Fits(routed) ==
  \E R : /\ routed \subseteq R /\ IsFiniteSet(R)
         /\ ToSet(Pinned) \subseteq R /\ Cardinality(R) <= SourceLimit

LEMMA PinnedIs == ToSet(Pinned) = {"SEC-07", "OPS-12"}
<1>1. DOMAIN Pinned = {1, 2} /\ Pinned[1] = "SEC-07" /\ Pinned[2] = "OPS-12"
  BY DEF Pinned
<1>2. QED
  BY <1>1 DEF ToSet

(* Full sources without a control document hold a ranked document that is  *)
(* neither routed nor a control document.                                  *)
LEMMA Room ==
  ASSUME NEW hits, NEW routed, NEW done, Sourced(hits, routed, done), Fits(routed),
         done \subseteq ToSet(Pinned), NEW doc \in ToSet(Pinned), doc \notin DocsOf(hits),
         ~(Len(hits) < SourceLimit)
  PROVE  ~(DocsOf(hits) \subseteq routed \union ToSet(Pinned))
<1> SUFFICES ASSUME DocsOf(hits) \subseteq routed \union ToSet(Pinned) PROVE FALSE
  OBVIOUS
<1>1. PICK R : /\ routed \subseteq R /\ IsFiniteSet(R)
               /\ ToSet(Pinned) \subseteq R /\ Cardinality(R) <= SourceLimit
  BY DEF Fits
<1>2. DocsOf(hits) \in SUBSET (R \ {doc}) /\ doc \in R
  BY <1>1
<1>3. IsFiniteSet(R \ {doc}) /\ Cardinality(R \ {doc}) = Cardinality(R) - 1
  BY <1>1, <1>2, FS_RemoveElement
<1>4. Cardinality(DocsOf(hits)) <= Cardinality(R \ {doc})
  BY <1>2, <1>3, FS_Subset
<1>5. Cardinality(DocsOf(hits)) = Len(hits) /\ Len(hits) \in Nat
  <2>1. hits \in Seq(HitShape) /\ Distinct(hits)
    BY DEF Sourced
  <2>2. QED
    BY <2>1, HitsCount
<1>6. Cardinality(R) \in Nat /\ SourceLimit \in Nat
  BY <1>1, FS_CardinalityType, RouteAssumption
<1>7. QED
  BY <1>1, <1>3, <1>4, <1>5, <1>6

Victim(hits) == SelectLastInSeq(hits, LAMBDA h : ~Contains(Pinned, h.doc))

LEMMA VictimIs ==
  ASSUME NEW hits \in Seq(HitShape)
  PROVE  /\ Victim(hits) # 0 => /\ Victim(hits) \in DOMAIN hits
                                /\ hits[Victim(hits)].doc \notin ToSet(Pinned)
         /\ \A i \in DOMAIN hits : i > Victim(hits) => hits[i].doc \in ToSet(Pinned)
<1> DEFINE I == {i \in 1..Len(hits) : ~Contains(Pinned, hits[i].doc)}
<1>1. Victim(hits) = IF I # {} THEN Max(I) ELSE 0
  BY DEF Victim, SelectLastInSeq
<1>2. Len(hits) \in Nat /\ DOMAIN hits = 1..Len(hits)
  OBVIOUS
<1>3. \A doc : Contains(Pinned, doc) <=> doc \in ToSet(Pinned)
  <2>1. DOMAIN Pinned = 1..Len(Pinned)
    BY DEF Pinned
  <2>2. QED
    BY <2>1 DEF Contains, ToSet
<1>4. I # {} => Max(I) \in I /\ \A y \in I : Max(I) >= y
  <2>1. I \in SUBSET (1..Len(hits))
    OBVIOUS
  <2> HIDE DEF I
  <2>2. QED
    BY <1>2, <2>1, MaxInRange
<1>5. \A i \in DOMAIN hits : i \notin I => hits[i].doc \in ToSet(Pinned)
  BY <1>2, <1>3
<1>6. \A i \in I : i \in DOMAIN hits /\ i \in Int /\ hits[i].doc \notin ToSet(Pinned)
  BY <1>2, <1>3
<1> HIDE DEF I
<1>7. \A i \in DOMAIN hits : i > Victim(hits) => i \notin I
  BY <1>1, <1>4, <1>6
<1>8. QED
  BY <1>1, <1>4, <1>5, <1>6, <1>7

At(hits, doc) == SelectInSeq(hits, LAMBDA h : h.doc = doc)

LEMMA AtIs ==
  ASSUME NEW hits \in Seq(HitShape), NEW doc
  PROVE  /\ At(hits, doc) # 0 => At(hits, doc) \in DOMAIN hits /\ hits[At(hits, doc)].doc = doc
         /\ At(hits, doc) = 0 => doc \notin DocsOf(hits)
<1> DEFINE I == {i \in 1..Len(hits) : hits[i].doc = doc}
<1>1. At(hits, doc) = IF I # {} THEN Min(I) ELSE 0
  BY DEF At, SelectInSeq
<1>2. Len(hits) \in Nat /\ DOMAIN hits = 1..Len(hits)
  OBVIOUS
<1>3. I # {} => Min(I) \in I
  <2>1. I \in SUBSET (1..Len(hits))
    OBVIOUS
  <2> HIDE DEF I
  <2>2. QED
    BY <1>2, <2>1, MinInRange
<1>4. \A i \in I : i # 0 /\ i \in DOMAIN hits /\ hits[i].doc = doc
  BY <1>2
<1>5. I = {} => doc \notin DocsOf(hits)
  BY <1>2 DEF DocsOf
<1> HIDE DEF I
<1>6. QED
  BY <1>1, <1>3, <1>4, <1>5

(* Pin, with its cases named. *)
LEMMA PinIs ==
  ASSUME NEW hits, NEW doc
  PROVE  LET pinned == Hit(Chunks[BestForDoc(doc)], "pinned")
         IN Pin(hits, doc) =
              IF At(hits, doc) # 0 THEN [hits EXCEPT ![At(hits, doc)].channel = "pinned"]
              ELSE IF BestForDoc(doc) = 0 THEN hits
              ELSE IF Len(hits) < SourceLimit THEN Append(hits, pinned)
              ELSE IF Victim(hits) # 0 THEN [hits EXCEPT ![Victim(hits)] = pinned]
              ELSE hits
BY Zenon DEF Pin, At, Victim, ReplaceAt

(* What is not there for its rank, given where the control document went.  *)
LEMMA PinRetags ==
  ASSUME NEW hits, NEW routed, NEW done, Sourced(hits, routed, done), NEW doc,
         NEW at \in DOMAIN hits, hits[at].doc = doc
  PROVE  Sourced([hits EXCEPT ![at].channel = "pinned"], routed, done \union {doc})
<1> DEFINE new == [hits EXCEPT ![at].channel = "pinned"]
<1>1. /\ hits \in Seq(HitShape) /\ Len(hits) \in Nat /\ DOMAIN hits = 1..Len(hits)
      /\ hits[at] \in HitShape /\ doc \in Doc
  <2>1. hits \in Seq(HitShape)
    BY DEF Sourced
  <2>2. hits[at] \in HitShape
    BY <2>1
  <2>3. QED
    BY <2>1, <2>2 DEF HitShape
<1>2. /\ new \in Seq(HitShape) /\ Len(new) = Len(hits) /\ DOMAIN new = DOMAIN hits
  <2> DEFINE hit == [hits[at] EXCEPT !.channel = "pinned"]
  <2>1. hit \in HitShape
    BY <1>1 DEF HitShape
  <2>2. new = [hits EXCEPT ![at] = hit]
    OBVIOUS
  <2> HIDE DEF hit, new
  <2>3. QED
    BY <1>1, <2>1, <2>2
<1>3. /\ new[at].doc = doc /\ new[at].channel = "pinned"
      /\ \A i \in DOMAIN hits : i # at => new[i] = hits[i]
      /\ \A i \in DOMAIN hits : new[i].doc = hits[i].doc
  BY <1>1 DEF HitShape
<1> HIDE DEF new
<1>4. Distinct(new)
  <2>1. Distinct(hits)
    BY DEF Sourced
  <2>2. QED
    BY <1>2, <1>3, <2>1 DEF Distinct
<1>5. Len(new) <= SourceLimit
  BY <1>2 DEF Sourced
<1>6. \A i \in DOMAIN new : new[i].channel # "pinned" => new[i] = hits[i]
  BY <1>2, <1>3
<1>7. \A i, j \in DOMAIN new : i < j /\ new[i].channel = "hybrid" => new[j].channel # "routed"
  BY <1>2, <1>6 DEF Sourced
<1>8. \A i \in DOMAIN new : new[i].channel = "pinned" => new[i].doc \in done \union {doc}
  BY <1>2, <1>3 DEF Sourced
<1>9. \A i \in DOMAIN new : new[i].channel = "routed" => new[i].doc \in routed
  BY <1>2, <1>6 DEF Sourced
<1>10. NotRanked(new) = NotRanked(hits) \union {doc}
  <2>1. \A i \in DOMAIN hits : hits[i].channel # "hybrid" => new[i].channel # "hybrid"
    BY <1>3
  <2>2. \A i \in DOMAIN hits : new[i].channel # "hybrid" => hits[i].channel # "hybrid" \/ i = at
    BY <1>3
  <2>3. QED
    BY <1>2, <1>3, <2>1, <2>2 DEF NotRanked
<1>11. NotRanked(new) = routed \union ((done \union {doc}) \intersect Doc)
  BY <1>1, <1>10 DEF Sourced
<1>12. QED
  BY <1>2, <1>4, <1>5, <1>7, <1>8, <1>9, <1>11 DEF Sourced, new

LEMMA PinAppends ==
  ASSUME NEW hits, NEW routed, NEW done, Sourced(hits, routed, done), NEW doc \in Doc,
         doc \notin DocsOf(hits), Len(hits) < SourceLimit,
         NEW hit \in HitShape, hit.doc = doc, hit.channel = "pinned"
  PROVE  Sourced(Append(hits, hit), routed, done \union {doc})
<1> DEFINE new == Append(hits, hit)
<1>1. hits \in Seq(HitShape) /\ Len(hits) \in Nat /\ DOMAIN hits = 1..Len(hits) /\ Distinct(hits)
  BY DEF Sourced
<1>2. Grown(hits, hit, new) /\ Distinct(new)
  BY <1>1, AppendGrows
<1> HIDE DEF new
<1>3. new \in Seq(HitShape) /\ Len(new) = Len(hits) + 1
  BY <1>2 DEF Grown
<1>4. Len(new) <= SourceLimit
  <2>1. SourceLimit \in Nat
    BY RouteAssumption
  <2>2. Len(hits) \in Nat
    BY <1>1
  <2>3. QED
    BY <1>3, <2>1, <2>2
<1>5. \A i \in DOMAIN new : new[i].channel # "pinned" => i \in DOMAIN hits /\ new[i] = hits[i]
  BY <1>2 DEF Grown
<1>6. \A i \in DOMAIN hits : i \in DOMAIN new /\ new[i] = hits[i]
  BY <1>2 DEF Grown
<1>7. \A i, j \in DOMAIN new : i < j /\ new[i].channel = "hybrid" => new[j].channel # "routed"
  BY <1>5 DEF Sourced
<1>8. \A i \in DOMAIN new : \/ i \in DOMAIN hits /\ new[i] = hits[i]
                            \/ i = Len(hits) + 1 /\ new[i] = hit
  BY <1>2 DEF Grown
<1>9. \A i \in DOMAIN new : new[i].channel = "pinned" => new[i].doc \in done \union {doc}
  BY <1>8 DEF Sourced
<1>10. \A i \in DOMAIN new : new[i].channel = "routed" => new[i].doc \in routed
  BY <1>5 DEF Sourced
<1>11. NotRanked(new) = NotRanked(hits) \union {doc}
  <2>1. Len(hits) + 1 \in DOMAIN new /\ new[Len(hits) + 1] = hit
    BY <1>2 DEF Grown
  <2>2. QED
    BY <1>6, <1>8, <2>1 DEF NotRanked
<1>12. NotRanked(new) = routed \union ((done \union {doc}) \intersect Doc)
  BY <1>11 DEF Sourced
<1>13. QED
  BY <1>2, <1>3, <1>4, <1>7, <1>9, <1>10, <1>12 DEF Sourced, new

LEMMA PinReplaces ==
  ASSUME NEW hits, NEW routed, NEW done, Sourced(hits, routed, done), NEW doc \in Doc,
         doc \notin DocsOf(hits), NEW at \in DOMAIN hits, hits[at].channel = "hybrid",
         NEW hit \in HitShape, hit.doc = doc, hit.channel = "pinned"
  PROVE  Sourced([hits EXCEPT ![at] = hit], routed, done \union {doc})
<1> DEFINE new == [hits EXCEPT ![at] = hit]
<1>1. hits \in Seq(HitShape) /\ Len(hits) \in Nat /\ DOMAIN hits = 1..Len(hits) /\ Distinct(hits)
  BY DEF Sourced
<1>2. new \in Seq(HitShape) /\ Len(new) = Len(hits) /\ DOMAIN new = DOMAIN hits
  BY <1>1
<1>3. new[at] = hit /\ \A i \in DOMAIN hits : i # at => new[i] = hits[i]
  BY <1>1
<1> HIDE DEF new
<1>4. Distinct(new)
  <2>1. \A i \in DOMAIN hits : hits[i].doc # doc
    BY DEF DocsOf
  <2>2. QED
    BY <1>1, <1>2, <1>3, <2>1 DEF Distinct
<1>5. Len(new) <= SourceLimit
  BY <1>2 DEF Sourced
<1>6. \A i \in DOMAIN new : new[i].channel # "pinned" => new[i] = hits[i]
  BY <1>2, <1>3
<1>7. \A i, j \in DOMAIN new : i < j /\ new[i].channel = "hybrid" => new[j].channel # "routed"
  BY <1>2, <1>6 DEF Sourced
<1>8. \A i \in DOMAIN new : new[i].channel = "pinned" => new[i].doc \in done \union {doc}
  BY <1>2, <1>3 DEF Sourced
<1>9. \A i \in DOMAIN new : new[i].channel = "routed" => new[i].doc \in routed
  BY <1>2, <1>6 DEF Sourced
<1>10. NotRanked(new) = NotRanked(hits) \union {doc}
  <2>1. \A i \in DOMAIN hits : hits[i].channel # "hybrid" => i # at /\ new[i] = hits[i]
    BY <1>3
  <2>2. QED
    BY <1>2, <1>3, <2>1 DEF NotRanked
<1>11. NotRanked(new) = routed \union ((done \union {doc}) \intersect Doc)
  BY <1>10 DEF Sourced
<1>12. QED
  BY <1>2, <1>4, <1>5, <1>7, <1>8, <1>9, <1>11 DEF Sourced, new

LEMMA PinKeeps ==
  ASSUME NEW hits, NEW routed, NEW done, Sourced(hits, routed, done), Fits(routed),
         done \subseteq ToSet(Pinned), NEW doc \in ToSet(Pinned)
  PROVE  Sourced(Pin(hits, doc), routed, done \union {doc})
<1> DEFINE pinned == Hit(Chunks[BestForDoc(doc)], "pinned")
<1>1. hits \in Seq(HitShape) /\ Len(hits) \in Nat /\ DOMAIN hits = 1..Len(hits)
  BY DEF Sourced
<1>2. CASE At(hits, doc) # 0
  <2>1. At(hits, doc) \in DOMAIN hits /\ hits[At(hits, doc)].doc = doc
    BY <1>1, <1>2, AtIs
  <2>2. Sourced([hits EXCEPT ![At(hits, doc)].channel = "pinned"], routed, done \union {doc})
    BY <2>1, PinRetags
  <2>3. Pin(hits, doc) = [hits EXCEPT ![At(hits, doc)].channel = "pinned"]
    BY <1>2, PinIs
  <2>4. QED
    BY <2>2, <2>3
<1>3. CASE At(hits, doc) = 0 /\ BestForDoc(doc) = 0
  <2>1. Pin(hits, doc) = hits
    BY <1>3, PinIs
  <2>2. doc \notin Doc
    BY <1>3, BestIs
  <2>3. (done \union {doc}) \intersect Doc = done \intersect Doc
    BY <2>2
  <2>4. \A i \in DOMAIN hits : hits[i].channel = "pinned" => hits[i].doc \in done \union {doc}
    BY DEF Sourced
  <2>5. QED
    BY <2>1, <2>3, <2>4 DEF Sourced
<1>4. CASE At(hits, doc) = 0 /\ BestForDoc(doc) # 0
  <2>1. doc \notin DocsOf(hits)
    BY <1>1, <1>4, AtIs
  <2>2. /\ doc \in Doc /\ pinned \in HitShape /\ pinned.doc = doc /\ pinned.channel = "pinned"
    BY <1>4, BestIs, HitTypes
  <2>3. CASE Len(hits) < SourceLimit
    <3>1. Pin(hits, doc) = Append(hits, pinned)
      BY <1>4, <2>3, PinIs
    <3> HIDE DEF pinned
    <3>2. Sourced(Append(hits, pinned), routed, done \union {doc})
      BY <2>1, <2>2, <2>3, PinAppends
    <3>3. QED
      BY <3>1, <3>2
  <2>4. CASE ~(Len(hits) < SourceLimit)
    <3> DEFINE v == Victim(hits)
    <3>1. /\ v # 0 => v \in DOMAIN hits /\ hits[v].doc \notin ToSet(Pinned)
          /\ \A i \in DOMAIN hits : i > v => hits[i].doc \in ToSet(Pinned)
      BY <1>1, VictimIs
    <3>2. ~(DocsOf(hits) \subseteq routed \union ToSet(Pinned))
      BY <2>1, <2>4, Room
    <3>3. PICK w \in DOMAIN hits : hits[w].doc \notin routed /\ hits[w].doc \notin ToSet(Pinned)
      BY <3>2 DEF DocsOf
    <3> HIDE DEF v
    <3>4. hits[w].channel = "hybrid"
      <4>1. hits[w].channel \in {"hybrid", "routed", "pinned"}
        <5>1. hits[w] \in HitShape
          BY <1>1
        <5>2. QED
          BY <5>1 DEF HitShape
      <4>2. /\ hits[w].channel = "pinned" => hits[w].doc \in done
            /\ hits[w].channel = "routed" => hits[w].doc \in routed
        BY DEF Sourced
      <4>3. QED
        BY <3>3, <4>1, <4>2
    <3>5. v # 0 /\ v \in DOMAIN hits /\ w <= v
      <4>1. ~(w > v)
        BY <3>1, <3>3
      <4>2. v \in Int
        BY <1>1, <3>1
      <4>3. QED
        BY <1>1, <3>1, <4>1, <4>2
    <3>6. hits[v].channel = "hybrid"
      <4>1. hits[v].channel \in {"hybrid", "routed", "pinned"}
        <5>1. hits[v] \in HitShape
          BY <1>1, <3>5
        <5>2. QED
          BY <5>1 DEF HitShape
      <4>2. hits[v].channel # "pinned"
        BY <3>1, <3>5 DEF Sourced
      <4>3. hits[v].channel # "routed"
        <5>1. CASE w = v
          BY <3>4, <5>1
        <5>2. CASE w < v
          BY <3>4, <3>5, <5>2 DEF Sourced
        <5>3. QED
          BY <1>1, <3>5, <5>1, <5>2
      <4>4. QED
        BY <4>1, <4>2, <4>3
    <3>7. Pin(hits, doc) = [hits EXCEPT ![v] = pinned]
      BY <1>4, <2>4, <3>5, PinIs DEF v
    <3> HIDE DEF pinned
    <3>8. Sourced([hits EXCEPT ![v] = pinned], routed, done \union {doc})
      BY <2>1, <2>2, <3>5, <3>6, PinReplaces
    <3>9. QED
      BY <3>7, <3>8
  <2>5. QED
    BY <2>3, <2>4
<1>5. QED
  BY <1>2, <1>3, <1>4

LEMMA PinTypes ==
  ASSUME NEW hits \in Seq(HitShape), NEW doc
  PROVE  Pin(hits, doc) \in Seq(HitShape)
<1> DEFINE pinned == Hit(Chunks[BestForDoc(doc)], "pinned")
<1>1. BestForDoc(doc) # 0 => pinned \in HitShape
  BY BestIs, HitTypes
<1>2. ASSUME NEW i \in DOMAIN hits
      PROVE  [hits EXCEPT ![i].channel = "pinned"] \in Seq(HitShape)
  <2> DEFINE hit == [hits[i] EXCEPT !.channel = "pinned"]
  <2>1. hits[i] \in HitShape
    OBVIOUS
  <2>2. hit \in HitShape
    BY <2>1 DEF HitShape
  <2>3. [hits EXCEPT ![i].channel = "pinned"] = [hits EXCEPT ![i] = hit]
    OBVIOUS
  <2> HIDE DEF hit
  <2>4. QED
    BY <2>2, <2>3
<1> HIDE DEF pinned
<1>3. At(hits, doc) # 0 => At(hits, doc) \in DOMAIN hits
  BY AtIs
<1>4. ASSUME BestForDoc(doc) # 0
      PROVE  /\ Append(hits, pinned) \in Seq(HitShape)
             /\ \A i : [hits EXCEPT ![i] = pinned] \in Seq(HitShape)
  <2>1. pinned \in HitShape
    BY <1>1, <1>4
  <2>2. \A i \in DOMAIN hits : [hits EXCEPT ![i] = pinned] \in Seq(HitShape)
    BY <2>1
  <2>3. \A i : i \notin DOMAIN hits => [hits EXCEPT ![i] = pinned] = hits
    OBVIOUS
  <2>4. Append(hits, pinned) \in Seq(HitShape)
    BY <2>1
  <2>5. ASSUME NEW i PROVE [hits EXCEPT ![i] = pinned] \in Seq(HitShape)
    <3>1. CASE i \in DOMAIN hits
      BY <2>2, <3>1
    <3>2. CASE i \notin DOMAIN hits
      <4>1. [hits EXCEPT ![i] = pinned] = hits
        BY <2>3, <3>2
      <4>2. QED
        BY <4>1
    <3>3. QED
      BY <3>1, <3>2
  <2>6. QED
    BY <2>4, <2>5
<1>5. QED
  BY <1>2, <1>3, <1>4, PinIs DEF pinned

(* The loop of search over the control documents. *)
LEMMA PinnedChain ==
  ASSUME NEW hits \in Seq(HitShape), NEW documents \in Seq(ToSet(Pinned))
  PROVE  \E link : /\ FoldLeft(Pin, hits, documents) = link[Len(documents)]
                   /\ link[0] = hits
                   /\ \A i \in 1..Len(documents) : link[i] = Pin(link[i - 1], documents[i])
<1> DEFINE n == Len(documents)
           D == Seq(HitShape)
           turn == [p \in D \X (1..n) |-> Pin(p[1], documents[p[2]])]
           Iterates(iter) == iter = [s \in SUBSET (DOMAIN documents) |->
                               IF s = {} THEN hits
                               ELSE Pin(iter[s \ {Max(s)}], documents[Max(s)])]
<1>1. /\ n \in Nat /\ DOMAIN documents = 1..n
      /\ hits \in D
      /\ \A i \in 1..n : documents[i] \in ToSet(Pinned)
  OBVIOUS
<1>2. turn \in [D \X (1..n) -> D]
  BY <1>1, PinTypes
<1>3. PICK iter \in [SUBSET (1..n) -> D] : Folds(iter, n, hits, turn)
  <2> HIDE DEF D, turn, n
  <2> QED BY <1>1, <1>2, FoldExists
<1>4. Iterates(iter)
  <2>1. ASSUME NEW s \in SUBSET (1..n), s # {}
        PROVE  iter[s] = Pin(iter[s \ {Max(s)}], documents[Max(s)])
    <3>1. Max(s) \in 1..n
      <4>1. n \in Nat
        BY <1>1
      <4> HIDE DEF n
      <4>2. Max(s) \in s
        BY <2>1, <4>1, MaxInRange
      <4>3. QED
        BY <4>2
    <3>2. iter[s \ {Max(s)}] \in D
      OBVIOUS
    <3>3. iter[s] = turn[<<iter[s \ {Max(s)}], Max(s)>>]
      BY <1>3, <2>1 DEF Folds
    <3> HIDE DEF D
    <3>4. QED
      BY <3>1, <3>2, <3>3
  <2>2. iter[{}] = hits
    BY <1>3 DEF Folds
  <2> HIDE DEF D, n
  <2>3. QED
    BY <1>1, <2>1, <2>2
<1>5. PICK it : Iterates(it) /\ FoldLeft(Pin, hits, documents) = it[DOMAIN documents]
  <2> DEFINE it == CHOOSE it : Iterates(it)
  <2>1. Iterates(it)
    BY <1>4
  <2>2. FoldLeft(Pin, hits, documents) = it[DOMAIN documents]
    BY Zenon DEF FoldLeft, MapThenFoldSet
  <2>3. QED
    BY <2>1, <2>2
<1> DEFINE link == [i \in 0..n |-> it[1..i]]
<1>6. link[0] = hits
  <2>1. 1..0 = {} /\ 0 \in 0..n /\ {} \in SUBSET (DOMAIN documents)
    BY <1>1
  <2>2. it[{}] = hits
    BY <1>5, <2>1
  <2>3. QED
    BY <2>1, <2>2
<1>7. ASSUME NEW i \in 1..n PROVE link[i] = Pin(link[i - 1], documents[i])
  <2>1. 1..i \in SUBSET (DOMAIN documents) /\ 1..i # {} /\ i \in 1..i /\ i \in Nat
    <3>1. n \in Nat /\ DOMAIN documents = 1..n
      BY <1>1
    <3> HIDE DEF n, D, turn, link, Iterates
    <3>2. i \in Nat /\ 1 <= i /\ i <= n
      BY <3>1
    <3>3. \A j \in 1..i : j \in 1..n
      BY <3>1, <3>2
    <3>4. 1..i \subseteq DOMAIN documents
      BY <3>1, <3>3
    <3>5. i \in 1..i
      BY <3>2
    <3>6. QED
      BY <3>2, <3>4, <3>5
  <2>2. Max(1..i) = i /\ (1..i) \ {i} = 1..(i - 1)
    BY <2>1, MaxOfTop
  <2>3. it[1..i] = Pin(it[1..(i - 1)], documents[i])
    BY <1>5, <2>1, <2>2
  <2>4. link[i] = it[1..i] /\ link[i - 1] = it[1..(i - 1)]
    BY <1>1
  <2>5. QED
    BY <2>3, <2>4
<1>8. FoldLeft(Pin, hits, documents) = link[n]
  <2>1. link[n] = it[1..n]
    BY <1>1
  <2>2. link[n] = it[DOMAIN documents]
    BY <1>1, <2>1
  <2>3. QED
    BY <1>5, <2>2, Zenon
<1> HIDE DEF link
<1>9. QED
  BY <1>6, <1>7, <1>8

(* Retriever.search.                                                       *)
LEMMA RouteFits ==
  ASSUME NEW service
  PROVE  /\ RouteOf(service) \in Seq(ToSet(RouteOf(service)))
         /\ "SEC-07" \notin ToSet(RouteOf(service))
         /\ Fits(ToSet(RouteOf(service)) \intersect Doc)
<1> DEFINE preferred == RouteOf(service)
           R == ToSet(preferred) \union ToSet(Pinned)
<1>1. CASE service \in DOMAIN Route
  <2>1. preferred = Route[service]
    BY <1>1 DEF RouteOf
  <2>2. /\ preferred \in Seq(ToSet(preferred)) /\ ~Contains(preferred, "SEC-07")
        /\ Cardinality(R) <= SourceLimit
    BY <1>1, <2>1, RouteAssumption
  <2> HIDE DEF preferred
  <2>3. IsFiniteSet(ToSet(preferred))
    BY <2>2, FiniteRange
  <2>4. IsFiniteSet(ToSet(Pinned))
    <3>1. IsFiniteSet({"SEC-07"})
      BY FS_Singleton
    <3>2. IsFiniteSet({"SEC-07"} \union {"OPS-12"})
      BY <3>1, FS_AddElement
    <3>3. {"SEC-07"} \union {"OPS-12"} = ToSet(Pinned)
      BY PinnedIs
    <3>4. QED
      BY <3>2, <3>3
  <2>5. IsFiniteSet(R)
    BY <2>3, <2>4, FS_Union
  <2>6. Fits(ToSet(preferred) \intersect Doc)
    BY <2>2, <2>5 DEF Fits
  <2>7. "SEC-07" \notin ToSet(preferred)
    <3>1. DOMAIN preferred = 1..Len(preferred)
      BY <2>2
    <3>2. QED
      BY <2>2, <3>1 DEF Contains, ToSet
  <2>8. QED
    BY <2>2, <2>6, <2>7 DEF preferred
<1>2. CASE service \notin DOMAIN Route
  <2>1. preferred = <<>> /\ ToSet(<<>>) = {} /\ <<>> \in Seq({})
    BY <1>2 DEF RouteOf, ToSet
  <2> HIDE DEF preferred
  <2>2. /\ IsFiniteSet({"SEC-07"}) /\ Cardinality({"SEC-07"}) = 1
        /\ IsFiniteSet({"SEC-07"} \union {"OPS-12"})
        /\ Cardinality({"SEC-07"} \union {"OPS-12"}) = 2
    <3>1. IsFiniteSet({"SEC-07"}) /\ Cardinality({"SEC-07"}) = 1
      BY FS_Singleton
    <3>2. "OPS-12" \notin {"SEC-07"}
      OBVIOUS
    <3>3. QED
      BY <3>1, <3>2, FS_AddElement
  <2>3. {"SEC-07"} \union {"OPS-12"} = ToSet(Pinned)
    BY PinnedIs
  <2>4. Len(Pinned) = 2
    BY DEF Pinned
  <2>5. IsFiniteSet(ToSet(Pinned)) /\ Cardinality(ToSet(Pinned)) <= SourceLimit
    BY <2>2, <2>3, <2>4, RouteAssumption
  <2>6. Fits({} \intersect Doc)
    BY <2>5 DEF Fits
  <2>7. /\ preferred \in Seq(ToSet(preferred)) /\ "SEC-07" \notin ToSet(preferred)
        /\ Fits(ToSet(preferred) \intersect Doc)
    BY <2>1, <2>6
  <2>8. QED
    BY <2>7 DEF preferred
<1>3. QED
  BY <1>1, <1>2

LEMMA RoutedAreSourced ==
  ASSUME NEW hits, NEW docs, AfterRouted(hits, docs), Fits(docs \intersect Doc)
  PROVE  Sourced(hits, docs \intersect Doc, {})
<1>1. hits \in Seq(HitShape) /\ Distinct(hits) /\ DocsOf(hits) = docs \intersect Doc
  BY DEF AfterRouted
<1>2. PICK R : /\ DocsOf(hits) \subseteq R /\ IsFiniteSet(R) /\ Cardinality(R) <= SourceLimit
  BY <1>1 DEF Fits
<1>3. Cardinality(DocsOf(hits)) <= Cardinality(R) /\ Cardinality(DocsOf(hits)) = Len(hits)
  BY <1>1, <1>2, FS_Subset, HitsCount
<1>4. Len(hits) <= SourceLimit
  <2>1. Cardinality(R) \in Nat /\ SourceLimit \in Nat /\ Len(hits) \in Nat
    BY <1>1, <1>2, FS_CardinalityType, RouteAssumption
  <2>2. QED
    BY <1>2, <1>3, <2>1
<1>5. \A i \in DOMAIN hits : hits[i].channel = "routed"
  BY DEF AfterRouted
<1>6. NotRanked(hits) = DocsOf(hits)
  BY <1>5 DEF NotRanked, DocsOf
<1>7. \A i \in DOMAIN hits : hits[i].doc \in docs \intersect Doc
  BY <1>1 DEF DocsOf
<1>8. QED
  BY <1>1, <1>4, <1>5, <1>6, <1>7 DEF Sourced

LEMMA PinnedAre ==
  ASSUME NEW hits, NEW routed, Sourced(hits, routed, {}), Fits(routed)
  PROVE  Sourced(FoldLeft(Pin, hits, Pinned), routed, ToSet(Pinned))
<1>1. /\ Pinned \in Seq(ToSet(Pinned)) /\ Len(Pinned) = 2
      /\ Pinned[1] = "SEC-07" /\ Pinned[2] = "OPS-12"
  <2>1. Pinned \in Seq({"SEC-07", "OPS-12"})
    BY DEF Pinned
  <2>2. QED
    BY <2>1, PinnedIs DEF Pinned
<1>2. hits \in Seq(HitShape)
  BY DEF Sourced
<1>3. PICK link : /\ FoldLeft(Pin, hits, Pinned) = link[Len(Pinned)]
                  /\ link[0] = hits
                  /\ \A i \in 1..Len(Pinned) : link[i] = Pin(link[i - 1], Pinned[i])
  BY <1>1, <1>2, PinnedChain
<1>4. link[1] = Pin(hits, "SEC-07") /\ link[2] = Pin(link[1], "OPS-12")
  <2>1. 1 \in 1..2 /\ 2 \in 1..2 /\ 1 - 1 = 0 /\ 2 - 1 = 1
    OBVIOUS
  <2>2. link[1] = Pin(link[1 - 1], Pinned[1]) /\ link[2] = Pin(link[2 - 1], Pinned[2])
    BY <1>1, <1>3, <2>1
  <2>3. QED
    BY <1>1, <1>3, <2>1, <2>2
<1>5. Sourced(link[1], routed, {"SEC-07"})
  <2>1. Sourced(Pin(hits, "SEC-07"), routed, {} \union {"SEC-07"})
    BY PinnedIs, PinKeeps
  <2>2. {} \union {"SEC-07"} = {"SEC-07"}
    OBVIOUS
  <2>3. QED
    BY <1>4, <2>1, <2>2
<1>6. Sourced(link[2], routed, {"SEC-07", "OPS-12"})
  <2>1. Sourced(Pin(link[1], "OPS-12"), routed, {"SEC-07"} \union {"OPS-12"})
    BY <1>5, PinnedIs, PinKeeps
  <2>2. {"SEC-07"} \union {"OPS-12"} = {"SEC-07", "OPS-12"}
    OBVIOUS
  <2>3. QED
    BY <1>4, <2>1, <2>2
<1>7. Sourced(link[2], routed, ToSet(Pinned))
  BY <1>6, PinnedIs
<1>8. FoldLeft(Pin, hits, Pinned) = link[2]
  BY <1>1, <1>3, Zenon
<1>9. QED
  BY <1>7, <1>8, Zenon

LEMMA SearchIs ==
  ASSUME NEW ranking \in Seq(ToSet(Chunks)), NEW service
  PROVE  Sourced(Search(ranking, RouteOf(service)), ToSet(RouteOf(service)) \intersect Doc,
                 ToSet(Pinned))
<1> DEFINE preferred == RouteOf(service)
           candidates == SubSeq(ranking, 1, Min({Len(ranking), 3 * SourceLimit}))
           routed == FoldLeft(AddRouted, <<>>, preferred)
           ranked == FoldLeft(AddRanked, routed, candidates)
           pinned == FoldLeft(Pin, ranked, Pinned)
           docs == ToSet(preferred) \intersect Doc
<1>1. preferred \in Seq(ToSet(preferred)) /\ Fits(docs)
  BY RouteFits
<1>2. candidates \in Seq(ToSet(Chunks))
  <2>1. SourceLimit \in Nat /\ Len(ranking) \in Nat
    BY RouteAssumption
  <2>2. Min({Len(ranking), 3 * SourceLimit}) \in 0..Len(ranking)
    <3>1. 3 * SourceLimit \in Int
      BY <2>1
    <3>2. Min({Len(ranking), 3 * SourceLimit}) = IF Len(ranking) <= 3 * SourceLimit
                                                 THEN Len(ranking) ELSE 3 * SourceLimit
      BY <2>1, <3>1, MinOfTwo
    <3>3. QED
      BY <2>1, <3>2
  <2>3. \A m \in 0..Len(ranking) : SubSeq(ranking, 1, m) \in Seq(ToSet(Chunks))
    OBVIOUS
  <2>4. QED
    BY <2>2, <2>3
<1>3. Search(ranking, preferred) = SubSeq(pinned, 1, Min({Len(pinned), SourceLimit}))
  BY Zenon DEF Search
<1> HIDE DEF candidates, preferred
<1>4. AfterRouted(routed, ToSet(preferred))
  <2> HIDE DEF routed
  <2>1. AfterRouted(FoldLeft(AddRouted, <<>>, preferred), ToSet(preferred))
    BY <1>1, RoutedIs
  <2>2. QED
    BY <2>1, Zenon DEF routed
<1> HIDE DEF routed
<1>5. Sourced(routed, docs, {})
  BY <1>1, <1>4, RoutedAreSourced
<1> HIDE DEF docs
<1>6. Sourced(ranked, docs, {})
  <2>1. Sourced(FoldLeft(AddRanked, routed, candidates), docs, {})
    BY <1>2, <1>5, RankedIs
  <2>2. QED
    BY <2>1, Zenon DEF ranked
<1> HIDE DEF ranked
<1>7. Sourced(pinned, docs, ToSet(Pinned))
  <2>1. Sourced(FoldLeft(Pin, ranked, Pinned), docs, ToSet(Pinned))
    BY <1>1, <1>6, PinnedAre
  <2>2. QED
    BY <2>1, Zenon DEF pinned
<1> HIDE DEF pinned
<1>8. SubSeq(pinned, 1, Min({Len(pinned), SourceLimit})) = pinned
  <2>1. pinned \in Seq(HitShape) /\ Len(pinned) \in Nat /\ Len(pinned) <= SourceLimit /\ SourceLimit \in Nat
    BY <1>7, RouteAssumption DEF Sourced
  <2>2. Min({Len(pinned), SourceLimit}) = Len(pinned)
    BY <2>1, MinOfTwo
  <2>3. SubSeq(pinned, 1, Len(pinned)) = pinned
    BY <2>1
  <2>4. QED
    BY <2>2, <2>3
<1>9. QED
  BY <1>3, <1>7, <1>8 DEF preferred, docs
=============================================================================
