----------------------------- MODULE DivisionFacts -----------------------------
(***************************************************************************)
(* Multiples, quotients and rounding up, as the proofs about alignments,   *)
(* pages and packed words need them, the least and the greatest element of *)
(* a set of numbers, and the ranks of the members of a finite set.         *)
(***************************************************************************)
EXTENDS Integers, FiniteSetTheorems, TLAPS

(* A set of naturals has a least element.                                  *)
LEMMA LeastOfSet ==
  ASSUME NEW T \in SUBSET Nat, T # {}
  PROVE  \E x \in T : \A y \in T : x <= y
  <1>1. IsWellFoundedOn({p \in Nat \X Nat : p[1] < p[2]}, Nat)
    BY NatLessThanWellFounded DEF OpToRel
  <1>2. PICK x \in T : \A y \in T : <<y, x>> \notin {p \in Nat \X Nat : p[1] < p[2]}
    BY <1>1, WFMin
  <1>3. \A y \in T : ~(y < x)
    BY <1>2
  <1> QED
    BY <1>3

(* The remainder is zero where there is a quotient.                        *)
LEMMA MultipleOf ==
  ASSUME NEW a \in Nat \ {0}, NEW q \in Nat
  PROVE  (q * a) % a = 0 /\ q * a \in Nat
  OBVIOUS

LEMMA QuotientOf ==
  ASSUME NEW a \in Nat \ {0}, NEW b \in Nat, b % a = 0
  PROVE  \E q \in Nat : b = q * a
  <1>1. b \div a \in Nat /\ b = ((b \div a) * a) + (b % a)
    OBVIOUS
  <1>2. b = (b \div a) * a
    BY <1>1
  <1> QED
    BY <1>1, <1>2

LEMMA TwoMultiples ==
  ASSUME NEW a \in Nat, NEW b \in Nat, NEW q \in Nat, NEW r \in Nat, b = q * a
  PROVE  r * b = (r * q) * a /\ r * q \in Nat
  OBVIOUS

(* What divides a divisor divides.                                         *)
LEMMA DividesTransitive ==
  ASSUME NEW a \in Nat \ {0}, NEW b \in Nat \ {0}, NEW c \in Nat, b % a = 0, c % b = 0
  PROVE  c % a = 0
  <1>1. PICK q \in Nat : b = q * a
    BY QuotientOf
  <1>2. PICK r \in Nat : c = r * b
    BY QuotientOf
  <1>3. c = (r * q) * a /\ r * q \in Nat
    BY <1>1, <1>2, TwoMultiples
  <1>4. PICK t \in Nat : t = r * q
    BY <1>3
  <1> QED
    BY <1>3, <1>4, MultipleOf

(* A set of numbers up to n has a greatest element.                        *)
LEMMA GreatestOfSet ==
  ASSUME NEW n \in Nat, NEW T \in SUBSET (0 .. n), T # {}
  PROVE  \E x \in T : \A y \in T : x >= y
  <1> DEFINE M == {k \in 0 .. n : n - k \in T}
  <1>1. PICK t \in T : TRUE
    OBVIOUS
  <1>2. n - t \in M /\ M \in SUBSET Nat
    BY <1>1
  <1>3. PICK k \in M : \A j \in M : k <= j
    BY <1>2, LeastOfSet
  <1>4. \A y \in T : n - y \in M
    OBVIOUS
  <1>5. \A y \in T : k <= n - y
    BY <1>3, <1>4
  <1> QED
    BY <1>3, <1>5

(* A finite set of numbers has a bound.                                    *)
LEMMA FiniteIsBounded ==
  ASSUME NEW T \in SUBSET Nat, IsFiniteSet(T)
  PROVE  \E m \in Nat : \A x \in T : x <= m
  <1> DEFINE Bounded(U) == \E m \in Nat : \A x \in U : x <= m
             Bad == {n \in Nat : \E U \in SUBSET Nat :
                        IsFiniteSet(U) /\ Cardinality(U) = n /\ ~Bounded(U)}
  <1> HIDE DEF Bounded
  <1> SUFFICES Bad = {}
    <2>1. Cardinality(T) \in Nat
      BY FS_CardinalityType
    <2>2. Bounded(T)
      BY <2>1
    <2> QED
      BY <2>2 DEF Bounded
  <1> SUFFICES ASSUME Bad # {} PROVE FALSE
    OBVIOUS
  <1>1. Bad \in SUBSET Nat
    OBVIOUS
  <1>2. PICK n \in Bad : \A k \in Bad : n <= k
    BY <1>1, LeastOfSet
  <1>3. PICK U \in SUBSET Nat : IsFiniteSet(U) /\ Cardinality(U) = n /\ ~Bounded(U)
    OBVIOUS
  <1>4. PICK y \in U : TRUE
    BY <1>3 DEF Bounded
  <1>5. PICK V \in SUBSET Nat : V = U \ {y}
    OBVIOUS
  <1>6. IsFiniteSet(V) /\ Cardinality(V) = n - 1 /\ n \in Nat
    BY <1>3, <1>4, <1>5, FS_RemoveElement
  <1>7. n - 1 \in Nat
    BY <1>6, FS_CardinalityType
  <1>8. n - 1 \notin Bad
    BY <1>2, <1>7
  <1>9. Bounded(V)
    BY <1>6, <1>7, <1>8
  <1>10. PICK m \in Nat : \A x \in V : x <= m
    BY <1>9 DEF Bounded
  <1>11. PICK w \in Nat : m <= w /\ y <= w
    <2>1. m <= m + y /\ y <= m + y /\ m + y \in Nat
      BY <1>4
    <2> QED
      BY <2>1
  <1>12. ASSUME NEW x \in U PROVE x <= w
    <2>1. CASE x = y
      BY <1>11, <2>1
    <2>2. CASE x # y
      <3>1. x <= m /\ x \in Nat
        BY <1>5, <1>10, <2>2
      <3> QED
        BY <1>11, <3>1
    <2> QED
      BY <2>1, <2>2
  <1>13. Bounded(U)
    BY <1>12 DEF Bounded
  <1> QED
    BY <1>3, <1>13

(* Rounding v up to a multiple of a (align_up).                            *)
LEMMA RoundUp ==
  ASSUME NEW v \in Nat, NEW a \in Nat \ {0}
  PROVE  /\ ((v + a - 1) \div a) * a \in Nat
         /\ (((v + a - 1) \div a) * a) % a = 0
         /\ v <= ((v + a - 1) \div a) * a
  <1>1. PICK w \in Nat : w = v + a - 1
    OBVIOUS
  <1>2. PICK q \in Nat : q = w \div a
    OBVIOUS
  <1>3. w = q * a + (w % a) /\ w % a \in 0 .. a - 1
    BY <1>2
  <1>4. q * a \in Nat /\ (q * a) % a = 0
    BY MultipleOf
  <1>5. PICK m \in Nat : m = q * a
    BY <1>4
  <1>6. v <= m
    BY <1>1, <1>3, <1>5
  <1> QED
    BY <1>1, <1>2, <1>4, <1>5, <1>6

LEMMA SumOfMultiples ==
  ASSUME NEW a \in Nat \ {0}, NEW b \in Nat, NEW c \in Nat, b % a = 0, c % a = 0
  PROVE  (b + c) % a = 0
  <1>1. PICK q \in Nat : b = q * a
    BY QuotientOf
  <1>2. PICK r \in Nat : c = r * a
    BY QuotientOf
  <1>3. b + c = (q + r) * a
    BY <1>1, <1>2
  <1> QED
    BY <1>3, q + r \in Nat, MultipleOf

LEMMA DifferenceOfMultiples ==
  ASSUME NEW a \in Nat \ {0}, NEW b \in Nat, NEW c \in Nat, b % a = 0, c % a = 0, b <= c
  PROVE  \E k \in Nat : c - b = a * k
  <1>1. PICK q \in Nat : b = q * a
    BY QuotientOf
  <1>2. PICK r \in Nat : c = r * a
    BY QuotientOf
  <1>3. q <= r
    BY <1>1, <1>2
  <1>4. c - b = a * (r - q) /\ r - q \in Nat
    BY <1>1, <1>2, <1>3
  <1> QED
    BY <1>4

(* The next multiple is a whole step away.                                 *)
LEMMA NextMultiple ==
  ASSUME NEW a \in Nat \ {0}, NEW b \in Nat, NEW c \in Nat, b % a = 0, c % a = 0, b < c
  PROVE  b + a <= c
  <1>1. PICK k \in Nat : c - b = a * k
    BY b <= c, DifferenceOfMultiples
  <1>2. k # 0
    BY <1>1
  <1>3. a * k >= a
    BY <1>2
  <1> QED
    BY <1>1, <1>3

(* Which of n words from the multiple b on the multiple c is.              *)
LEMMA WordAmong ==
  ASSUME NEW a \in Nat \ {0}, NEW b \in Nat, NEW c \in Nat, NEW n \in Nat,
         b % a = 0, c % a = 0, b <= c, c - b < n * a
  PROVE  /\ (c - b) \div a \in 0 .. n - 1
         /\ c = b + a * ((c - b) \div a)
  <1>1. PICK k \in Nat : c - b = a * k
    BY DifferenceOfMultiples
  <1>2. a * k < n * a
    BY <1>1
  <1>3. k < n
    BY <1>2
  <1>4. (a * k) \div a = k
    OBVIOUS
  <1>5. (c - b) \div a = k
    BY <1>1, <1>4
  <1> QED
    BY <1>1, <1>3, <1>5

(* A number is in a run of whole pages when its page is.                   *)
LEMMA PageOfRun ==
  ASSUME NEW p \in Nat \ {0}, NEW b \in Nat, NEW q \in Nat
  PROVE  q * p <= b <=> q <= b \div p
  <1>1. PICK d \in Nat : d = b \div p
    OBVIOUS
  <1>2. PICK m \in 0 .. p - 1 : b = d * p + m
    <2>1. b % p \in 0 .. p - 1 /\ b = ((b \div p) * p) + (b % p)
      OBVIOUS
    <2> QED
      BY <1>1, <2>1
  <1>3. CASE q <= d
    <2>1. q * p <= d * p
      BY <1>3
    <2> QED
      BY <1>1, <1>2, <1>3, <2>1
  <1>4. CASE q > d
    <2>1. q * p >= (d + 1) * p
      BY <1>4
    <2>2. (d + 1) * p = d * p + p
      OBVIOUS
    <2> QED
      BY <1>1, <1>2, <1>4, <2>1, <2>2
  <1> QED
    BY <1>3, <1>4

(* No odd number but one divides a power of two.                           *)
IsPowerOfTwo(a) == a # 0 /\ \A d \in 1 .. a : (a % d = 0 /\ d % 2 = 1) => d = 1

LEMMA HalfOfPower ==
  ASSUME NEW a \in Nat, IsPowerOfTwo(a), a # 1
  PROVE  \E h \in Nat \ {0} : a = 2 * h /\ h < a /\ IsPowerOfTwo(h)
  <1>1. a % a = 0 /\ a \in 1 .. a
    BY DEF IsPowerOfTwo
  <1>2. a % 2 # 1
    BY <1>1 DEF IsPowerOfTwo
  <1>3. PICK h \in Nat : a = 2 * h
    BY <1>2
  <1>4. h # 0 /\ h < a
    BY <1>1, <1>3
  <1>5. ASSUME NEW d \in 1 .. h, h % d = 0, d % 2 = 1
        PROVE  d = 1
    <2>1. PICK q \in Nat : h = q * d
      BY <1>5, h \in Nat, d \in Nat \ {0}, QuotientOf
    <2>2. a = (2 * q) * d
      BY <1>3, <2>1
    <2>3. a % d = 0
      BY <2>2, MultipleOf
    <2>4. d \in 1 .. a
      BY <1>3
    <2> QED
      BY <1>5, <2>3, <2>4 DEF IsPowerOfTwo
  <1> QED
    BY <1>3, <1>4, <1>5 DEF IsPowerOfTwo

(* The smaller of two powers of two divides the other.                     *)
LEMMA SmallerPower ==
  ASSUME NEW a \in Nat, NEW b \in Nat, IsPowerOfTwo(a), IsPowerOfTwo(b), a <= b
  PROVE  b % a = 0
  <1> DEFINE Bad == {x \in Nat : IsPowerOfTwo(x) /\
                       \E y \in Nat : IsPowerOfTwo(y) /\ x <= y /\ y % x # 0}
  <1> SUFFICES ASSUME Bad # {} PROVE FALSE
    OBVIOUS
  <1>1. PICK x \in Bad : \A z \in Bad : x <= z
    BY LeastOfSet
  <1>2. PICK y \in Nat : IsPowerOfTwo(y) /\ x <= y /\ y % x # 0
    OBVIOUS
  <1>3. x \in Nat /\ IsPowerOfTwo(x)
    OBVIOUS
  <1>4. x # 1
    BY <1>2
  <1>5. PICK h \in Nat \ {0} : x = 2 * h /\ h < x /\ IsPowerOfTwo(h)
    BY <1>3, <1>4, HalfOfPower
  <1>6. y # 1
    BY <1>2, <1>3, <1>5
  <1>7. PICK k \in Nat \ {0} : y = 2 * k /\ k < y /\ IsPowerOfTwo(k)
    BY <1>2, <1>6, HalfOfPower
  <1>8. h <= k
    BY <1>2, <1>5, <1>7
  <1>9. h \notin Bad
    <2>1. h \in Nat /\ ~(x <= h)
      BY <1>3, <1>5
    <2> HIDE DEF Bad
    <2> QED
      BY <1>1, <2>1
  <1>10. k % h = 0
    BY <1>5, <1>7, <1>8, <1>9
  <1>11. PICK q \in Nat : k = q * h
    BY <1>10, QuotientOf
  <1>12. y = q * x
    BY <1>5, <1>7, <1>11
  <1>13. x \in Nat \ {0}
    BY <1>3, <1>5
  <1>14. y % x = 0
    BY <1>12, <1>13, MultipleOf
  <1> QED
    BY <1>2, <1>14

(* Multiples among the integers.                                           *)
LEMMA IntMultipleOf ==
  ASSUME NEW a \in Nat \ {0}, NEW q \in Int
  PROVE  (q * a) % a = 0 /\ q * a \in Int
  OBVIOUS

LEMMA IntQuotientOf ==
  ASSUME NEW a \in Nat \ {0}, NEW b \in Int, b % a = 0
  PROVE  \E q \in Int : b = q * a
  <1>1. b \div a \in Int /\ b = ((b \div a) * a) + (b % a)
    OBVIOUS
  <1>2. b = (b \div a) * a
    BY <1>1
  <1> QED
    BY <1>1, <1>2

LEMMA IntSumDifference ==
  ASSUME NEW a \in Nat \ {0}, NEW b \in Int, NEW c \in Int, b % a = 0, c % a = 0
  PROVE  (b + c) % a = 0 /\ (b - c) % a = 0
  <1>1. PICK q \in Int : b = q * a
    BY IntQuotientOf
  <1>2. PICK r \in Int : c = r * a
    BY IntQuotientOf
  <1>3. b + c = (q + r) * a /\ b - c = (q - r) * a
    BY <1>1, <1>2
  <1>4. ((q + r) * a) % a = 0
    BY q + r \in Int, IntMultipleOf
  <1>5. ((q - r) * a) % a = 0
    BY q - r \in Int, IntMultipleOf
  <1> QED
    BY <1>3, <1>4, <1>5

LEMMA IntDividesTransitive ==
  ASSUME NEW a \in Nat \ {0}, NEW b \in Nat \ {0}, NEW c \in Int, b % a = 0, c % b = 0
  PROVE  c % a = 0
  <1>1. PICK q \in Nat : b = q * a
    BY QuotientOf
  <1>2. PICK r \in Int : c = r * b
    BY IntQuotientOf
  <1>3. PICK t \in Int : t = r * q
    OBVIOUS
  <1>4. c = t * a
    BY <1>1, <1>2, <1>3
  <1> QED
    BY <1>4, IntMultipleOf

(* Two numbers less than a apart are equal if a divides the difference.    *)
LEMMA OneInWindow ==
  ASSUME NEW a \in Nat \ {0}, NEW l \in Int, NEW x \in Int, NEW y \in Int,
         l <= x, x < l + a, l <= y, y < l + a, (x - y) % a = 0
  PROVE  x = y
  <1>1. PICK q \in Int : x - y = q * a
    BY x - y \in Int, IntQuotientOf
  <1>2. ASSUME q >= 1 PROVE FALSE
    <2>1. q * a >= a
      BY <1>2
    <2> QED
      BY <1>1, <2>1
  <1>3. ASSUME q <= -1 PROVE FALSE
    <2>1. q * a <= -a
      BY <1>3
    <2> QED
      BY <1>1, <2>1
  <1>4. q = 0
    BY <1>2, <1>3
  <1> QED
    BY <1>1, <1>4

(* The first number from l on that is congruent to v.                      *)
LEMMA FirstCongruent ==
  ASSUME NEW a \in Nat \ {0}, NEW l \in Nat, NEW v \in Nat
  PROVE  \E c \in Nat : /\ c = l + ((v - l) % a)
                        /\ l <= c /\ c < l + a /\ (c - v) % a = 0
  <1>1. PICK d \in Int : d = v - l
    OBVIOUS
  <1>2. PICK q \in Int : q = d \div a
    OBVIOUS
  <1>3. PICK m \in 0 .. a - 1 : m = d % a
    OBVIOUS
  <1>4. d = q * a + m
    <2>1. d = ((d \div a) * a) + (d % a)
      OBVIOUS
    <2> QED
      BY <1>2, <1>3, <2>1
  <1>5. l + m - v = (-q) * a
    <2>1. l + m - v = m - d
      BY <1>1
    <2>2. (-q) * a = -(q * a)
      OBVIOUS
    <2> QED
      BY <1>4, <2>1, <2>2
  <1>6. ((-q) * a) % a = 0
    BY -q \in Int, IntMultipleOf
  <1>7. PICK c \in Nat : c = l + m
    OBVIOUS
  <1>8. (c - v) % a = 0
    BY <1>5, <1>6, <1>7
  <1>9. c = l + ((v - l) % a)
    BY <1>1, <1>3, <1>7
  <1> QED
    BY <1>7, <1>8, <1>9

-----------------------------------------------------------------------------
(* The members of a finite set, counted along a strict order.              *)

Orders(R, T) ==
    \A i, j, k \in T : /\ <<i, i>> \notin R
                       /\ i # j => <<i, j>> \in R \/ <<j, i>> \in R
                       /\ <<i, j>> \in R /\ <<j, k>> \in R => <<i, k>> \in R
UpTo(R, T, i) == {j \in T : j = i \/ <<j, i>> \in R}

Ranked(R, T) ==
    [n \in 1 .. Cardinality(T) |-> CHOOSE i \in T : Cardinality(UpTo(R, T, i)) = n]

(* The ranks of a total order on a finite set are the numbers from one to  *)
(* the set's size.                                                         *)
LEMMA RanksEnumerate ==
  ASSUME NEW T, IsFiniteSet(T), NEW R, Orders(R, T)
  PROVE  /\ \A i \in T : Cardinality(UpTo(R, T, i)) \in 1 .. Cardinality(T)
         /\ \A i, j \in T : <<i, j>> \in R =>
                Cardinality(UpTo(R, T, i)) < Cardinality(UpTo(R, T, j))
         /\ \A i, j \in T : Cardinality(UpTo(R, T, i)) = Cardinality(UpTo(R, T, j)) => i = j
         /\ \A n \in 1 .. Cardinality(T) : \E i \in T : Cardinality(UpTo(R, T, i)) = n
  <1>1. PICK c \in Nat : c = Cardinality(T)
    BY FS_CardinalityType
  <1> DEFINE rank(i) == Cardinality(UpTo(R, T, i))
             f == [i \in T |-> rank(i)]
  <1>2. ASSUME NEW i \in T PROVE IsFiniteSet(UpTo(R, T, i)) /\ rank(i) \in 1 .. c
    <2>1. UpTo(R, T, i) \in SUBSET T /\ i \in UpTo(R, T, i)
      BY DEF UpTo
    <2>2. IsFiniteSet(UpTo(R, T, i)) /\ rank(i) <= c
      BY <1>1, <2>1, FS_Subset
    <2>3. rank(i) \in Nat /\ rank(i) # 0
      BY <2>1, <2>2, FS_CardinalityType, FS_EmptySet
    <2> QED
      BY <2>2, <2>3
  <1>3. ASSUME NEW i \in T, NEW j \in T, <<i, j>> \in R PROVE rank(i) < rank(j)
    <2>1. UpTo(R, T, i) \in SUBSET UpTo(R, T, j)
      BY <1>3 DEF UpTo, Orders
    <2>2. j \in UpTo(R, T, j) /\ j \notin UpTo(R, T, i)
      BY <1>3 DEF UpTo, Orders
    <2>3. PICK x \in 1 .. c, y \in 1 .. c : x = rank(i) /\ y = rank(j)
      BY <1>2
    <2>4. x <= y /\ x # y
      BY <1>2, <2>1, <2>2, <2>3, FS_Subset
    <2>5. x < y
      BY <2>4
    <2> QED
      BY <2>3, <2>5
  <1>4. ASSUME NEW i \in T, NEW j \in T, rank(i) = rank(j) PROVE i = j
    <2>1. rank(i) \in Nat /\ ~(rank(i) < rank(j)) /\ ~(rank(j) < rank(i))
      BY <1>2, <1>4
    <2> QED
      BY <1>3, <2>1 DEF Orders
  <1>5. f \in Injection(T, 1 .. c)
    <2> HIDE DEF rank
    <2> QED
      BY <1>2, <1>4 DEF Injection, IsInjective
  <1>6. IsFiniteSet(1 .. c) /\ Cardinality(1 .. c) = c
    BY FS_Interval
  <1>7. f \in Surjection(T, 1 .. c)
    BY <1>1, <1>5, <1>6, FS_Injection
  <1>8. \A n \in 1 .. c : \E i \in T : f[i] = n
    BY <1>7 DEF Surjection
  <1> HIDE DEF rank
  <1>9. \A n \in 1 .. c : \E i \in T : rank(i) = n
    BY <1>8
  <1> USE DEF rank
  <1> QED
    BY <1>1, <1>2, <1>3, <1>4, <1>9

(* So the elements chosen by rank enumerate the set in its order.          *)
LEMMA Enumerated ==
  ASSUME NEW T, IsFiniteSet(T), NEW R, Orders(R, T),
         NEW e, e = Ranked(R, T)
  PROVE  /\ Cardinality(T) \in Nat
         /\ e \in [1 .. Cardinality(T) -> T]
         /\ \A i \in T : \E n \in 1 .. Cardinality(T) : e[n] = i
         /\ \A m, n \in 1 .. Cardinality(T) : m < n => <<e[m], e[n]>> \in R
  <1> DEFINE rank(i) == Cardinality(UpTo(R, T, i))
  <1>1. PICK c \in Nat : c = Cardinality(T)
    BY FS_CardinalityType
  <1>2. /\ \A i \in T : rank(i) \in 1 .. c
        /\ \A i, j \in T : <<i, j>> \in R => rank(i) < rank(j)
        /\ \A i, j \in T : rank(i) = rank(j) => i = j
        /\ \A n \in 1 .. c : \E i \in T : rank(i) = n
    BY <1>1, RanksEnumerate
  <1>3. e = [n \in 1 .. c |-> CHOOSE i \in T : rank(i) = n]
    BY <1>1 DEF Ranked
  <1> HIDE DEF rank
  <1>4. ASSUME NEW n \in 1 .. c PROVE e[n] \in T /\ rank(e[n]) = n
    <2>1. e[n] = CHOOSE i \in T : rank(i) = n
      BY <1>3
    <2>2. \E i \in T : rank(i) = n
      BY <1>2
    <2> QED
      BY <2>1, <2>2
  <1>5. e \in [1 .. c -> T]
    BY <1>3, <1>4
  <1>6. ASSUME NEW i \in T PROVE \E n \in 1 .. c : e[n] = i
    <2>1. rank(i) \in 1 .. c
      BY <1>2
    <2>2. e[rank(i)] \in T /\ rank(e[rank(i)]) = rank(i)
      BY <1>4, <2>1
    <2> QED
      BY <1>2, <2>1, <2>2
  <1>7. ASSUME NEW m \in 1 .. c, NEW n \in 1 .. c, m < n
        PROVE  <<e[m], e[n]>> \in R
    <2>1. e[m] \in T /\ e[n] \in T /\ rank(e[m]) = m /\ rank(e[n]) = n
      BY <1>4
    <2>2. e[m] # e[n] /\ ~(rank(e[n]) < rank(e[m]))
      BY <1>7, <2>1
    <2>3. <<e[n], e[m]>> \notin R
      BY <1>2, <2>1, <2>2
    <2> QED
      BY <2>1, <2>2, <2>3 DEF Orders
  <1> QED
    BY <1>1, <1>5, <1>6, <1>7

=============================================================================
