---------------------------- MODULE IntOpsProofs ----------------------------
(***************************************************************************)
(* Proofs about IntOps, for every even number of bits and significands of  *)
(* every size; what is said of floating-point inputs assumes significands  *)
(* larger than the class.                                                  *)
(***************************************************************************)
EXTENDS IntOps, FiniteSetTheorems, TLAPS

------------------------------------------------------------------------------
(* Powers of two                                                           *)

(* Every set of natural numbers that is not empty has a least one, the     *)
(* principle that stands for induction over exponents below.               *)
LEMMA LeastNumber ==
    ASSUME NEW S \in SUBSET Nat, S # {}
    PROVE  \E m \in S : \A k \in S : m =< k
<1> DEFINE R == {ss \in Nat \X Nat : ss[1] < ss[2]}
<1>1. IsWellFoundedOn(R, Nat)
  BY NatLessThanWellFounded, Zenon DEF OpToRel
<1>2. PICK m \in S : \A k \in S : ~(<<k, m>> \in R)
  <2> HIDE DEF R
  <2> QED
    BY <1>1, WFMin
<1>3. ASSUME NEW k \in S PROVE m =< k
  <2>1. k \in Nat /\ m \in Nat /\ <<k, m>> \notin R
    BY <1>2
  <2>2. <<k, m>> \in Nat \X Nat /\ <<k, m>>[1] = k /\ <<k, m>>[2] = m
    BY <2>1
  <2>3. ~(k < m)
    BY <2>1, <2>2
  <2> QED
    BY <2>1, <2>3
<1> QED
  BY <1>3

(* A table of the powers of two up to 2^n.                                 *)
Table(n, f) ==
    /\ f \in [0 .. n -> Nat]
    /\ f[0] = 1
    /\ \A i \in 1 .. n : f[i] = 2 * f[i - 1]

(* There is a table of every size ...                                      *)
LEMMA TableExists == \A n \in Nat : \E f : Table(n, f)
<1> DEFINE Bad == {n \in Nat : ~\E f : Table(n, f)}
<1> SUFFICES ASSUME Bad # {} PROVE FALSE
  OBVIOUS
<1>1. PICK m \in Bad : \A k \in Bad : m =< k
  <2> Bad \in SUBSET Nat
    OBVIOUS
  <2> HIDE DEF Bad
  <2> QED
    BY LeastNumber
<1>2. Table(0, [i \in 0 .. 0 |-> 1])
  BY DEF Table
<1>3. m \in Nat /\ m # 0
  BY <1>2
<1>4. m - 1 \in Nat /\ m - 1 \notin Bad
  BY <1>1, <1>3
<1>5. PICK f : Table(m - 1, f)
  BY <1>4
<1> DEFINE g == [i \in 0 .. m |-> IF i = m THEN 2 * f[m - 1] ELSE f[i]]
<1>6. f \in [0 .. m - 1 -> Nat] /\ f[0] = 1 /\ \A i \in 1 .. m - 1 : f[i] = 2 * f[i - 1]
  BY <1>5 DEF Table
<1>7. Table(m, g)
  <2>1. g \in [0 .. m -> Nat] /\ g[0] = 1
    BY <1>3, <1>6
  <2>2. ASSUME NEW i \in 1 .. m PROVE g[i] = 2 * g[i - 1]
    BY <1>3, <1>6
  <2> QED
    BY <2>1, <2>2 DEF Table
<1> QED
  BY <1>1, <1>7

(* ... and two tables agree where both are defined.                        *)
LEMMA TablesAgree ==
    ASSUME NEW m \in Nat, NEW n \in Nat, NEW f, NEW g, Table(m, f), Table(n, g)
    PROVE  \A i \in Nat : i =< m /\ i =< n => f[i] = g[i]
<1> DEFINE Bad == {i \in Nat : i =< m /\ i =< n /\ f[i] # g[i]}
<1> SUFFICES ASSUME Bad # {} PROVE FALSE
  OBVIOUS
<1>1. PICK k \in Bad : \A i \in Bad : k =< i
  <2> Bad \in SUBSET Nat
    OBVIOUS
  <2> HIDE DEF Bad
  <2> QED
    BY LeastNumber
<1>2. f[0] = 1 /\ g[0] = 1
  BY DEF Table
<1>3. k \in Nat /\ k # 0 /\ k =< m /\ k =< n /\ f[k] # g[k]
  BY <1>2
<1>4. f[k - 1] = g[k - 1]
  BY <1>1, <1>3
<1>5. f[k] = 2 * f[k - 1] /\ g[k] = 2 * g[k - 1]
  BY <1>3 DEF Table
<1> QED
  BY <1>3, <1>4, <1>5

(* So Pow2 is the function its definition describes.                       *)
LEMMA Pow2Def ==
    /\ Pow2 \in [Nat -> Nat]
    /\ Pow2[0] = 1
    /\ \A n \in Nat : n # 0 => Pow2[n] = 2 * Pow2[n - 1]
<1> DEFINE Fix(p) == p = [n \in Nat |-> IF n = 0 THEN 1 ELSE 2 * p[n - 1]]
           tab(n) == CHOOSE f : Table(n, f)
           F == [n \in Nat |-> tab(n)[n]]
<1>1. ASSUME NEW n \in Nat PROVE Table(n, tab(n))
  BY TableExists
<1> HIDE DEF tab
<1>2. F[0] = 1
  BY <1>1 DEF Table
<1>3. ASSUME NEW n \in Nat PROVE F[n] \in Nat
  BY <1>1 DEF Table
<1>4. ASSUME NEW n \in Nat, n # 0 PROVE F[n] = 2 * F[n - 1]
  <2>1. n - 1 \in Nat /\ Table(n, tab(n)) /\ Table(n - 1, tab(n - 1))
    BY <1>1, <1>4
  <2>2. tab(n)[n - 1] = tab(n - 1)[n - 1]
    BY <2>1, TablesAgree
  <2>3. tab(n)[n] = 2 * tab(n)[n - 1]
    BY <2>1, <1>4 DEF Table
  <2> QED
    BY <2>1, <2>2, <2>3
<1> HIDE DEF F
<1>5. F = [n \in Nat |-> F[n]]
  BY DEF F
<1>6. Fix(F)
  BY <1>2, <1>4, <1>5
<1> HIDE DEF Fix
<1>7. Fix(CHOOSE p : Fix(p))
  BY <1>6, Zenon
<1>8. Pow2 = CHOOSE p : Fix(p)
  BY DEF Pow2, Fix
<1>9. Fix(Pow2)
  BY <1>7, <1>8
<1>10. \A n \in Nat : Pow2[n] = IF n = 0 THEN 1 ELSE 2 * Pow2[n - 1]
  BY <1>9 DEF Fix
<1>11. DOMAIN Pow2 = Nat /\ Pow2 = [n \in Nat |-> Pow2[n]]
  BY <1>9 DEF Fix
<1>12. \A n \in Nat : Pow2[n] \in Nat
  <2> DEFINE Bad == {n \in Nat : Pow2[n] \notin Nat}
  <2> SUFFICES ASSUME Bad # {} PROVE FALSE
    OBVIOUS
  <2>1. PICK m \in Bad : \A k \in Bad : m =< k
    <3> Bad \in SUBSET Nat
      OBVIOUS
    <3> HIDE DEF Bad
    <3> QED
      BY LeastNumber
  <2>2. m \in Nat /\ m # 0 /\ Pow2[m] \notin Nat
    BY <1>10
  <2>3. m - 1 \in Nat /\ Pow2[m - 1] \in Nat
    BY <2>1, <2>2
  <2> QED
    BY <1>10, <2>2, <2>3
<1> QED
  BY <1>10, <1>11, <1>12

(* Every power is positive.                                                *)
LEMMA Pow2Positive == \A n \in Nat : Pow2[n] \in Nat /\ Pow2[n] > 0
<1> DEFINE Bad == {n \in Nat : ~(Pow2[n] > 0)}
<1> SUFFICES ASSUME Bad # {} PROVE FALSE
  BY Pow2Def
<1>1. PICK m \in Bad : \A k \in Bad : m =< k
  <2> Bad \in SUBSET Nat
    OBVIOUS
  <2> HIDE DEF Bad
  <2> QED
    BY LeastNumber
<1>2. m \in Nat /\ m # 0 /\ ~(Pow2[m] > 0)
  BY Pow2Def
<1>3. m - 1 \in Nat /\ Pow2[m - 1] > 0
  BY <1>1, <1>2
<1>4. Pow2[m] = 2 * Pow2[m - 1] /\ Pow2[m - 1] \in Nat
  BY <1>2, <1>3, Pow2Def
<1> QED
  BY <1>2, <1>3, <1>4

(* The power of a sum is the product of the powers.                        *)
LEMMA Pow2Sum ==
    ASSUME NEW m \in Nat
    PROVE  \A n \in Nat : Pow2[m + n] = Pow2[m] * Pow2[n]
<1> DEFINE Bad == {n \in Nat : Pow2[m + n] # Pow2[m] * Pow2[n]}
<1> SUFFICES ASSUME Bad # {} PROVE FALSE
  OBVIOUS
<1>1. PICK n \in Bad : \A k \in Bad : n =< k
  <2> Bad \in SUBSET Nat
    OBVIOUS
  <2> HIDE DEF Bad
  <2> QED
    BY LeastNumber
<1>2. Pow2[m + 0] = Pow2[m] * Pow2[0]
  BY Pow2Def
<1>3. n \in Nat /\ n # 0 /\ Pow2[m + n] # Pow2[m] * Pow2[n]
  BY <1>2
<1>4. n - 1 \in Nat /\ Pow2[m + (n - 1)] = Pow2[m] * Pow2[n - 1]
  BY <1>1, <1>3
<1>5. Pow2[n] = 2 * Pow2[n - 1] /\ Pow2[m + n] = 2 * Pow2[m + (n - 1)]
  <2>1. m + n \in Nat /\ m + n # 0 /\ (m + n) - 1 = m + (n - 1)
    BY <1>3
  <2> QED
    BY <1>3, <2>1, Pow2Def
<1>6. \A x, y \in Nat : 2 * (x * y) = x * (2 * y)
  OBVIOUS
<1>7. Pow2[m] \in Nat /\ Pow2[n - 1] \in Nat
  BY <1>4, Pow2Def
<1> QED
  BY <1>3, <1>4, <1>5, <1>6, <1>7

(* The limits of the types of W bits.                                      *)
LEMMA Widths ==
    /\ Half \in Nat /\ Half >= 2
    /\ Modulus = Half * Half
    /\ MAX \in Nat /\ MAX >= 1
    /\ MIN = -MAX - 1
    /\ Modulus = 2 * MAX + 2
    /\ UMAX = 2 * MAX + 1
<1> USE IntOpsAssumption
<1>1. W - 1 \in Nat /\ W # 0 /\ W \in Nat
  OBVIOUS
<1>2. W \div 2 \in Nat /\ W \div 2 # 0 /\ W = (W \div 2) + (W \div 2)
  OBVIOUS
<1>3. Pow2[W] = 2 * Pow2[W - 1] /\ Pow2[W - 1] \in Nat
  BY <1>1, Pow2Def
<1>4. Pow2[W] = Half * Half
  BY <1>2, Pow2Sum DEF Half
<1>5. Half \in Nat /\ Half >= 2
  <2>1. (W \div 2) - 1 \in Nat
    BY <1>2
  <2>2. Half = 2 * Pow2[(W \div 2) - 1]
    BY <1>2, Pow2Def DEF Half
  <2>3. Pow2[(W \div 2) - 1] \in Nat /\ Pow2[(W \div 2) - 1] > 0
    BY <2>1, Pow2Positive
  <2> QED
    BY <2>2, <2>3
<1>6. Half * Half >= 2 * Half
  BY <1>5
<1>7. Pow2[W - 1] >= 2
  BY <1>3, <1>4, <1>5, <1>6
<1> QED
  BY <1>3, <1>4, <1>5, <1>7 DEF Modulus, MAX, MIN, UMAX

------------------------------------------------------------------------------
(* Division                                                                *)

(* Multiplication by a positive number is monotonic.                       *)
LEMMA MultMonotonic ==
    ASSUME NEW d \in Nat, NEW x \in Int, NEW y \in Int, x =< y
    PROVE  d * x \in Int /\ d * y \in Int /\ d * x =< d * y
OBVIOUS

(* Division with remainder.                                                *)
LEMMA Divided ==
    ASSUME NEW a \in Int, NEW d \in Nat \ {0}
    PROVE  /\ a \div d \in Int
           /\ a % d \in 0 .. d - 1
           /\ a = d * (a \div d) + (a % d)
<1>1. d \in Int /\ d > 0
  OBVIOUS
<1>2. a = d * (a \div d) + (a % d)
  BY <1>1
<1> QED
  BY <1>1, <1>2

(* There is only one quotient and one remainder.                           *)
LEMMA DividedOnce ==
    ASSUME NEW a \in Int, NEW d \in Nat \ {0}, NEW q \in Int, NEW r \in 0 .. d - 1,
           a = d * q + r
    PROVE  a \div d = q /\ a % d = r
<1> DEFINE p == a \div d
           s == a % d
<1>1. p \in Int /\ s \in 0 .. d - 1 /\ a = d * p + s
  BY Divided
<1> HIDE DEF p, s
<1>2. ~(p < q)
  <2> SUFFICES ASSUME p < q PROVE FALSE
    OBVIOUS
  <2>1. p + 1 \in Int /\ p + 1 =< q
    BY <1>1
  <2>2. d * (p + 1) =< d * q
    BY <2>1, MultMonotonic
  <2>3. d * (p + 1) = d * p + d
    BY <1>1
  <2>4. d * p \in Int /\ d * q \in Int
    BY <1>1
  <2> QED
    BY <1>1, <2>2, <2>3, <2>4
<1>3. ~(q < p)
  <2> SUFFICES ASSUME q < p PROVE FALSE
    OBVIOUS
  <2>1. q + 1 \in Int /\ q + 1 =< p
    BY <1>1
  <2>2. d * (q + 1) =< d * p
    BY <1>1, <2>1, MultMonotonic
  <2>3. d * (q + 1) = d * q + d
    OBVIOUS
  <2>4. d * p \in Int /\ d * q \in Int
    BY <1>1
  <2> QED
    BY <1>1, <2>2, <2>3, <2>4
<1>4. p = q
  BY <1>1, <1>2, <1>3
<1>5. s = r
  BY <1>1, <1>4
<1> QED
  BY <1>4, <1>5 DEF p, s

(* The quotient of natural numbers is not larger than the dividend.        *)
LEMMA QuotientBound ==
    ASSUME NEW a \in Nat, NEW d \in Nat \ {0}
    PROVE  /\ a \div d \in Nat /\ a \div d =< a
           /\ d >= 2 => 2 * (a \div d) + (a % d) =< a
<1> DEFINE p == a \div d
           s == a % d
<1>1. p \in Int /\ s \in 0 .. d - 1 /\ a = d * p + s
  BY Divided
<1> HIDE DEF p, s
<1>2. p >= 0
  <2> SUFFICES ASSUME p =< -1 PROVE FALSE
    BY <1>1
  <2>1. d * p =< d * (-1)
    BY <1>1, MultMonotonic
  <2>2. d * p \in Int
    BY <1>1
  <2> QED
    BY <1>1, <2>1, <2>2
<1>3. p * 1 =< p * d
  BY <1>1, <1>2, MultMonotonic
<1>4. d >= 2 => p * 2 =< p * d
  BY <1>1, <1>2, MultMonotonic
<1>5. p * d = d * p /\ d * p \in Int
  BY <1>1
<1>6. p \in Nat /\ p =< a
  BY <1>1, <1>2, <1>3, <1>5
<1>7. d >= 2 => 2 * p + s =< a
  BY <1>1, <1>2, <1>4, <1>5
<1> QED
  BY <1>6, <1>7 DEF p, s

(* A reduction of a number within one modulus of the range.                *)
LEMMA Reduced ==
    ASSUME NEW m \in Nat \ {0}, NEW x \in Int
    PROVE  /\ x \in 0 .. m - 1 => x % m = x
           /\ x \in m .. 2 * m - 1 => x % m = x - m
           /\ x \in -m .. -1 => x % m = x + m
<1>1. ASSUME x \in 0 .. m - 1 PROVE x % m = x
  <2>1. x = m * 0 + x
    OBVIOUS
  <2> QED
    BY <1>1, <2>1, DividedOnce
<1>2. ASSUME x \in m .. 2 * m - 1 PROVE x % m = x - m
  <2>1. x = m * 1 + (x - m) /\ x - m \in 0 .. m - 1
    BY <1>2
  <2> QED
    BY <2>1, DividedOnce
<1>3. ASSUME x \in -m .. -1 PROVE x % m = x + m
  <2>1. x = m * (-1) + (x + m) /\ x + m \in 0 .. m - 1
    BY <1>3
  <2> QED
    BY <2>1, DividedOnce
<1> QED
  BY <1>1, <1>2, <1>3

(* Conversion to the unsigned and to the signed type: what it does to a    *)
(* result that is out of range by less than a modulus.                     *)
LEMMA UWrapFact ==
    ASSUME NEW x \in Int
    PROVE  /\ UWrap(x) \in 0 .. UMAX
           /\ x \in 0 .. UMAX => UWrap(x) = x
           /\ x \in Modulus .. 2 * Modulus - 1 => UWrap(x) = x - Modulus
           /\ x \in -Modulus .. -1 => UWrap(x) = x + Modulus
<1>1. Modulus \in Nat \ {0} /\ UMAX = Modulus - 1
  BY Widths
<1> QED
  BY <1>1, Divided, Reduced DEF UWrap

LEMMA WrapFact ==
    ASSUME NEW x \in Int
    PROVE  /\ Wrap(x) \in MIN .. MAX
           /\ x \in MIN .. MAX => Wrap(x) = x
           /\ x \in MAX + 1 .. MAX + Modulus => Wrap(x) = x - Modulus
           /\ x \in MIN - Modulus .. MIN - 1 => Wrap(x) = x + Modulus
<1>1. /\ Modulus \in Nat \ {0} /\ MIN \in Int /\ MAX \in Int
      /\ Modulus = 2 * MAX + 2 /\ MIN = -MAX - 1
  BY Widths
<1>2. x - MIN \in Int /\ (x - MIN) % Modulus \in 0 .. Modulus - 1
  BY <1>1, Divided
<1>3. /\ x - MIN \in 0 .. Modulus - 1 => (x - MIN) % Modulus = x - MIN
      /\ x - MIN \in Modulus .. 2 * Modulus - 1 => (x - MIN) % Modulus = x - MIN - Modulus
      /\ x - MIN \in -Modulus .. -1 => (x - MIN) % Modulus = x - MIN + Modulus
  BY <1>1, <1>2, Reduced
<1> QED
  BY <1>1, <1>2, <1>3 DEF Wrap

------------------------------------------------------------------------------
(* Sums                                                                    *)

LEMMA MagnitudeFact ==
    ASSUME NEW x \in Int
    PROVE  Magnitude(x) \in Nat /\ (x # 0 => Magnitude(x) # 0) /\ x \in {Magnitude(x), -Magnitude(x)}
BY DEF Magnitude

LEMMA AbsIntFact ==
    ASSUME NEW x \in MIN .. MAX
    PROVE  /\ AbsInt(x) \in MIN .. MAX
           /\ x # MIN => AbsInt(x) = Magnitude(x) /\ Magnitude(x) =< MAX
           /\ Kind = "small" \/ OverflowWraps => AbsInt(x) = Clamp(TRUE, Magnitude(x))
<1> DEFINE out == Wrap(Magnitude(x))
<1>1. /\ MAX \in Nat /\ MIN = -MAX - 1 /\ MIN \in Int /\ MIN < 0
      /\ Modulus = 2 * MAX + 2 /\ x \in Int /\ Magnitude(x) \in Nat
  BY Widths, MagnitudeFact
<1>2. AbsInt(x) = IF out < 0 /\ (Kind = "small" \/ OverflowWraps) THEN MAX ELSE out
  BY DEF AbsInt, Magnitude
<1>3. CASE x = MIN
  <2>1. Magnitude(x) = MAX + 1
    BY <1>1, <1>3 DEF Magnitude
  <2>2. MAX + 1 \in MAX + 1 .. MAX + Modulus
    BY <1>1
  <2>3. out = MIN
    BY <1>1, <2>1, <2>2, WrapFact
  <2>4. Clamp(TRUE, Magnitude(x)) = MAX
    BY <1>1, <2>1 DEF Clamp
  <2>5. AbsInt(x) = IF Kind = "small" \/ OverflowWraps THEN MAX ELSE MIN
    BY <1>1, <1>2, <2>3, Zenon
  <2>6. MIN \in MIN .. MAX /\ MAX \in MIN .. MAX
    BY <1>1
  <2> QED
    BY <1>3, <2>4, <2>5, <2>6, Zenon
<1>4. CASE x # MIN
  <2>1. Magnitude(x) =< MAX
    BY <1>1, <1>4 DEF Magnitude
  <2>2. Magnitude(x) \in MIN .. MAX
    BY <1>1, <2>1
  <2>3. out = Magnitude(x)
    BY <1>1, <2>2, WrapFact
  <2>4. ~(out < 0)
    BY <1>1, <2>3
  <2>5. Clamp(TRUE, Magnitude(x)) = Magnitude(x)
    BY <1>1, <2>1 DEF Clamp
  <2>6. AbsInt(x) = Magnitude(x)
    BY <1>2, <2>3, <2>4, Zenon
  <2> QED
    BY <2>1, <2>2, <2>5, <2>6
<1> QED
  BY <1>3, <1>4, Zenon

LEMMA NegIntFact ==
    ASSUME NEW x \in MIN .. MAX
    PROVE  NegInt(x) = Clamp(TRUE, -x)
BY Widths DEF NegInt, Clamp

(* Adding one to MAX gives MIN.                                            *)
LEMMA LimitFact == Wrap(MAX + (1 - 0)) = MIN /\ Wrap(MAX + (1 - 1)) = MAX
<1>1. MAX \in Nat /\ MIN = -MAX - 1 /\ Modulus = 2 * MAX + 2
  BY Widths
<1>2. MAX + (1 - 0) \in MAX + 1 .. MAX + Modulus /\ MAX + (1 - 1) \in MIN .. MAX
  BY <1>1
<1>3. Wrap(MAX + (1 - 0)) = MAX + (1 - 0) - Modulus
  BY <1>1, <1>2, WrapFact
<1>4. Wrap(MAX + (1 - 1)) = MAX + (1 - 1)
  BY <1>1, <1>2, WrapFact
<1> QED
  BY <1>1, <1>3, <1>4

LEMMA AddIntFact ==
    ASSUME NEW a \in MIN .. MAX, NEW b \in MIN .. MAX
    PROVE  AddInt(a, b) = Clamp(TRUE, a + b)
<1> DEFINE uadd == Wrap(a + b)
<1>1. MAX \in Nat /\ MIN = -MAX - 1 /\ Modulus = 2 * MAX + 2 /\ a \in Int /\ b \in Int
  BY Widths
<1>2. /\ a + b \in MIN .. MAX => uadd = a + b
      /\ a + b > MAX => uadd = a + b - Modulus
      /\ a + b < MIN => uadd = a + b + Modulus
  BY <1>1, WrapFact
<1>3. AddInt(a, b) = IF SignsDiffer(uadd, a) /\ SignsDiffer(uadd, b)
                     THEN Wrap(MAX + (1 - Sgn(uadd))) ELSE uadd
  BY DEF AddInt
<1>4. Wrap(MAX + (1 - Sgn(uadd))) = IF uadd < 0 THEN MAX ELSE MIN
  BY LimitFact DEF Sgn
<1> HIDE DEF uadd
<1> QED
  BY <1>1, <1>2, <1>3, <1>4 DEF SignsDiffer, Clamp

LEMMA SubIntFact ==
    ASSUME NEW a \in MIN .. MAX, NEW b \in MIN .. MAX
    PROVE  SubInt(a, b) = Clamp(TRUE, a - b)
<1> DEFINE usub == Wrap(a - b)
<1>1. MAX \in Nat /\ MIN = -MAX - 1 /\ Modulus = 2 * MAX + 2 /\ a \in Int /\ b \in Int
  BY Widths
<1>2. /\ a - b \in MIN .. MAX => usub = a - b
      /\ a - b > MAX => usub = a - b - Modulus
      /\ a - b < MIN => usub = a - b + Modulus
  BY <1>1, WrapFact
<1>3. SubInt(a, b) = IF SignsDiffer(usub, a) /\ ~SignsDiffer(usub, b)
                     THEN Wrap(MAX + (1 - Sgn(usub))) ELSE usub
  BY DEF SubInt
<1>4. Wrap(MAX + (1 - Sgn(usub))) = IF usub < 0 THEN MAX ELSE MIN
  BY LimitFact DEF Sgn
<1> HIDE DEF usub
<1> QED
  BY <1>1, <1>2, <1>3, <1>4 DEF SignsDiffer, Clamp

LEMMA UnsignedSumsFact ==
    ASSUME NEW a \in 0 .. UMAX, NEW b \in 0 .. UMAX
    PROVE  AddUInt(a, b) = Clamp(FALSE, a + b) /\ SubUInt(a, b) = Clamp(FALSE, a - b)
<1>1. Modulus \in Nat /\ UMAX = Modulus - 1 /\ UMAX \in Nat /\ a \in Int /\ b \in Int
  BY Widths
<1>2. /\ a + b =< UMAX => UWrap(a + b) = a + b
      /\ a + b > UMAX => UWrap(a + b) = a + b - Modulus
  BY <1>1, UWrapFact
<1>3. /\ a - b >= 0 => UWrap(a - b) = a - b
      /\ a - b < 0 => UWrap(a - b) = a - b + Modulus
  BY <1>1, UWrapFact
<1>4. AddUInt(a, b) = Clamp(FALSE, a + b)
  BY <1>1, <1>2 DEF AddUInt, Clamp
<1>5. SubUInt(a, b) = Clamp(FALSE, a - b)
  BY <1>1, <1>3 DEF SubUInt, Clamp
<1> QED
  BY <1>4, <1>5

(* A value that was clamped is one of the class.                           *)
LEMMA ClampFact ==
    ASSUME NEW signed \in BOOLEAN, NEW x \in Int
    PROVE  Clamp(signed, x) \in Values(signed)
BY Widths DEF Clamp, Values

------------------------------------------------------------------------------
(* Products                                                                *)

(* A carry is noticed: the sum of the shifted cross product and the        *)
(* product of the lower halves.                                            *)
LEMMA CarryFact ==
    ASSUME NEW upper \in 0 .. Half - 1, NEW lower \in 0 .. Modulus - 1
    PROVE  LET x == upper * Half + lower
           IN  /\ x >= 0
               /\ x =< UMAX => UWrap(x) = x /\ ~(UWrap(x) < upper * Half)
               /\ x > UMAX => UWrap(x) < upper * Half
<1> DEFINE u == upper * Half
<1>1. Half \in Nat /\ Half >= 2 /\ Modulus = Half * Half /\ UMAX = Modulus - 1
  BY Widths
<1>2. Half * upper =< Half * (Half - 1)
  BY <1>1, MultMonotonic
<1>3. u \in Nat /\ u =< Modulus - Half
  BY <1>1, <1>2
<1>4. Modulus \in Nat /\ lower \in Int
  BY <1>1
<1> HIDE DEF u
<1>5. u + lower =< UMAX => UWrap(u + lower) = u + lower
  BY <1>1, <1>3, <1>4, UWrapFact
<1>6. u + lower > UMAX => UWrap(u + lower) = u + lower - Modulus
  BY <1>1, <1>3, <1>4, UWrapFact
<1>7. /\ u + lower >= 0
      /\ u + lower =< UMAX => UWrap(u + lower) = u + lower /\ ~(UWrap(u + lower) < u)
      /\ u + lower > UMAX => UWrap(u + lower) < u
  BY <1>1, <1>3, <1>4, <1>5, <1>6
<1> QED
  BY <1>7 DEF u

(* The halves of a number.                                                 *)
LEMMA HalvesFact ==
    ASSUME NEW m \in 0 .. UMAX
    PROVE  /\ m \div Half \in 0 .. Half - 1 /\ m % Half \in 0 .. Half - 1
           /\ m = Half * (m \div Half) + (m % Half)
<1> DEFINE q == m \div Half
<1>1. Half \in Nat \ {0} /\ Modulus = Half * Half /\ UMAX = Modulus - 1 /\ Modulus \in Nat
  BY Widths
<1>2. q \in Int /\ m % Half \in 0 .. Half - 1 /\ m = Half * q + (m % Half)
  BY <1>1, Divided
<1>3. q \in Nat
  BY <1>1, QuotientBound
<1> HIDE DEF q
<1>4. q =< Half - 1
  <2> SUFFICES ASSUME q >= Half PROVE FALSE
    BY <1>1, <1>3
  <2>1. Half * Half =< Half * q
    BY <1>1, <1>3, MultMonotonic
  <2> QED
    BY <1>1, <1>2, <1>3, <2>1
<1> QED
  BY <1>1, <1>2, <1>3, <1>4 DEF q

(* x has an upper half, y has none.                                        *)
LEMMA CrossFact ==
    ASSUME NEW x \in 0 .. UMAX, NEW y \in 0 .. UMAX, y \div Half = 0
    PROVE  LET upper == (x \div Half) * (y % Half)
               lower == (x % Half) * (y % Half)
               uret  == UWrap(upper * Half + lower)
           IN  (IF upper \div Half > 0 \/ uret < upper * Half THEN Modulus ELSE uret)
                 = IF x * y > UMAX THEN Modulus ELSE x * y
<1> DEFINE xh == x \div Half
           xl == x % Half
           upper == xh * (y % Half)
           lower == xl * (y % Half)
           uret == UWrap(upper * Half + lower)
<1>1. Half \in Nat /\ Half >= 2 /\ Modulus = Half * Half /\ UMAX = Modulus - 1 /\ Modulus \in Nat
  BY Widths
<1>2. xh \in 0 .. Half - 1 /\ xl \in 0 .. Half - 1 /\ x = Half * xh + xl
  BY HalvesFact
<1>3. y % Half = y /\ y \in 0 .. Half - 1
  BY <1>1, HalvesFact
<1> HIDE DEF xh, xl
<1>4. upper = xh * y /\ lower = xl * y /\ upper \in Nat /\ lower \in Nat
  BY <1>2, <1>3
<1>5. x * y = upper * Half + lower
  <2>1. (Half * xh + xl) * y = (xh * y) * Half + xl * y
    BY <1>1, <1>2, <1>3
  <2> QED
    BY <1>2, <1>4, <2>1
<1>6. lower \in 0 .. Modulus - 1
  <2>1. xl * y =< xl * Half
    BY <1>1, <1>2, <1>3, MultMonotonic
  <2>2. Half * xl =< Half * (Half - 1)
    BY <1>1, <1>2, MultMonotonic
  <2> QED
    BY <1>1, <1>2, <1>4, <2>1, <2>2
<1> HIDE DEF upper, lower
<1>7. CASE upper >= Half
  <2>1. upper \div Half > 0
    <3>1. Half \in Nat \ {0} /\ upper \in Nat /\ upper \in Int
      BY <1>1, <1>4
    <3>2. upper \div Half \in Nat
      BY <3>1, QuotientBound
    <3>3. upper = Half * (upper \div Half) + (upper % Half) /\ upper % Half \in 0 .. Half - 1
      BY <3>1, Divided
    <3>4. upper \div Half # 0
      BY <1>1, <1>4, <1>7, <3>2, <3>3
    <3> QED
      BY <3>2, <3>4
  <2>2. Half * Half =< Half * upper
    BY <1>1, <1>4, <1>7, MultMonotonic
  <2>3. x * y > UMAX
    BY <1>1, <1>4, <1>5, <2>2
  <2> QED
    BY <2>1, <2>3 DEF upper, lower, xh, xl
<1>8. CASE upper < Half
  <2>1. upper = Half * 0 + upper /\ upper \in 0 .. Half - 1
    BY <1>1, <1>4, <1>8
  <2>2. upper \div Half = 0
    BY <1>1, <2>1, DividedOnce
  <2>3. /\ x * y =< UMAX => uret = x * y /\ ~(uret < upper * Half)
        /\ x * y > UMAX => uret < upper * Half
    BY <1>5, <1>6, <2>1, CarryFact
  <2>4. x * y \in Int /\ UMAX \in Int
    BY <1>1
  <2>5. (IF upper \div Half > 0 \/ uret < upper * Half THEN Modulus ELSE uret)
          = IF x * y > UMAX THEN Modulus ELSE x * y
    BY <2>2, <2>3, <2>4
  <2> QED
    BY <2>5 DEF upper, lower, xh, xl
<1> QED
  BY <1>1, <1>4, <1>7, <1>8

(* The product by halves is the product, or the modulus if it does not fit.*)
LEMMA ProductByHalvesFact ==
    ASSUME NEW m \in 0 .. UMAX, NEW n \in 0 .. UMAX
    PROVE  ProductByHalves(m, n) = IF m * n > UMAX THEN Modulus ELSE m * n
<1>1. Half \in Nat /\ Half >= 2 /\ Modulus = Half * Half /\ UMAX = Modulus - 1 /\ Modulus \in Nat
  BY Widths
<1>2. /\ m \div Half \in 0 .. Half - 1 /\ m % Half \in 0 .. Half - 1 /\ m = Half * (m \div Half) + (m % Half)
      /\ n \div Half \in 0 .. Half - 1 /\ n % Half \in 0 .. Half - 1 /\ n = Half * (n \div Half) + (n % Half)
  BY HalvesFact
<1>3. CASE m \div Half > 0 /\ n \div Half > 0
  <2>1. ProductByHalves(m, n) = Modulus
    BY <1>3 DEF ProductByHalves
  <2>2. m >= Half /\ n >= Half
    <3>1. \A q \in Int : q > 0 => Half * 1 =< Half * q /\ Half * q \in Int
      BY <1>1, MultMonotonic
    <3> QED
      BY <1>1, <1>2, <1>3, <3>1
  <2>3. Half * Half =< Half * n /\ n * Half =< n * m
    BY <1>1, <2>2, MultMonotonic
  <2>4. m * n > UMAX
    BY <1>1, <2>3
  <2> QED
    BY <2>1, <2>4
<1>4. CASE m \div Half > 0 /\ n \div Half = 0
  BY <1>4, CrossFact DEF ProductByHalves
<1>5. CASE m \div Half = 0 /\ n \div Half > 0
  <2>1. ProductByHalves(m, n) = IF n * m > UMAX THEN Modulus ELSE n * m
    BY <1>5, CrossFact DEF ProductByHalves
  <2>2. m * n = n * m
    OBVIOUS
  <2> QED
    BY <2>1, <2>2
<1>6. CASE m \div Half = 0 /\ n \div Half = 0
  <2>1. ProductByHalves(m, n) = UWrap(m * n)
    BY <1>6 DEF ProductByHalves
  <2>2. m \in 0 .. Half - 1 /\ n \in 0 .. Half - 1
    BY <1>1, <1>2, <1>6
  <2>3. m * n \in Nat /\ m * n =< m * Half /\ Half * m =< Half * (Half - 1)
    BY <1>1, <2>2, MultMonotonic
  <2>4. m * n \in 0 .. UMAX
    BY <1>1, <2>2, <2>3
  <2> QED
    BY <1>1, <2>1, <2>4, UWrapFact
<1> QED
  BY <1>2, <1>3, <1>4, <1>5, <1>6

(* From the product p of the magnitudes, as far as it fits, to the result. *)
LEMMA SignedProductFact ==
    ASSUME NEW p \in Nat, NEW uret, uret = IF p > UMAX THEN Modulus ELSE p
    PROVE  /\ (IF uret > MAX THEN MAX ELSE uret) = Clamp(TRUE, p)
           /\ (IF uret > -MIN THEN MIN ELSE Wrap(-Wrap(uret))) = Clamp(TRUE, -p)
<1>1. /\ MAX \in Nat /\ MIN = -MAX - 1 /\ MIN \in Int /\ UMAX = 2 * MAX + 1
      /\ Modulus = 2 * MAX + 2
  BY Widths
<1>2. (IF uret > MAX THEN MAX ELSE uret) = Clamp(TRUE, p)
  BY <1>1 DEF Clamp
<1>3. Clamp(TRUE, -p) = IF p > MAX + 1 THEN MIN ELSE -p
  BY <1>1 DEF Clamp
<1>4. CASE p > MAX + 1
  <2>1. uret > -MIN
    BY <1>1, <1>4
  <2> QED
    BY <1>2, <1>3, <1>4, <2>1, Zenon
<1>5. CASE p =< MAX
  <2>1. uret = p /\ uret \in MIN .. MAX /\ -uret \in MIN .. MAX /\ ~(uret > -MIN) /\ ~(p > MAX + 1)
    BY <1>1, <1>5
  <2>2. Wrap(uret) = uret /\ Wrap(-uret) = -uret
    BY <1>1, <2>1, WrapFact
  <2> QED
    BY <1>2, <1>3, <2>1, <2>2, Zenon
<1>6. CASE p = MAX + 1
  <2>1. uret = MAX + 1 /\ MAX + 1 \in MAX + 1 .. MAX + Modulus /\ -MIN = MAX + 1 /\ -(MAX + 1) = MIN
    BY <1>1, <1>6
  <2>2. Wrap(uret) = MIN
    BY <1>1, <2>1, WrapFact
  <2>3. Wrap(-MIN) = MIN
    BY <2>1, <2>2
  <2>4. ~(MAX + 1 > MAX + 1) /\ ~(uret > -MIN)
    BY <1>1, <2>1
  <2> QED
    BY <1>2, <1>3, <1>6, <2>1, <2>2, <2>3, <2>4, Zenon
<1>7. p > MAX + 1 \/ p =< MAX \/ p = MAX + 1
  BY <1>1
<1> QED
  BY <1>4, <1>5, <1>6, <1>7, Zenon

LEMMA MulInt64Fact ==
    ASSUME NEW a \in MIN .. MAX, NEW b \in MIN .. MAX, MIN \notin {a, b}
    PROVE  MulInt64(a, b) = Clamp(TRUE, a * b)
<1> DEFINE m == Magnitude(a)
           n == Magnitude(b)
           uret == ProductByHalves(m, n)
<1>1. /\ MAX \in Nat /\ MIN = -MAX - 1 /\ MIN \in Int /\ UMAX = 2 * MAX + 1
      /\ Modulus = 2 * MAX + 2 /\ a \in Int /\ b \in Int
  BY Widths
<1>2. AbsInt(a) = m /\ AbsInt(b) = n /\ m \in 0 .. MAX /\ n \in 0 .. MAX
  <2>1. m \in Nat /\ n \in Nat
    BY <1>1, MagnitudeFact
  <2>2. AbsInt(a) = m /\ m =< MAX
    BY AbsIntFact
  <2>3. AbsInt(b) = n /\ n =< MAX
    BY AbsIntFact
  <2> QED
    BY <1>1, <2>1, <2>2, <2>3
<1>3. UWrap(m) = m /\ UWrap(n) = n /\ m \in 0 .. UMAX /\ n \in 0 .. UMAX
  BY <1>1, <1>2, UWrapFact
<1>4. uret = (IF m * n > UMAX THEN Modulus ELSE m * n) /\ m * n \in Nat
  BY <1>2, <1>3, ProductByHalvesFact
<1>5. MulInt64(a, b) = IF (a < 0) = (b < 0)
                       THEN IF uret > MAX THEN MAX ELSE uret
                       ELSE IF uret > -MIN THEN MIN ELSE Wrap(-Wrap(uret))
  BY <1>2, <1>3 DEF MulInt64
<1> HIDE DEF uret
<1>6. MulInt64(a, b) = IF (a < 0) = (b < 0) THEN Clamp(TRUE, m * n) ELSE Clamp(TRUE, -(m * n))
  BY <1>4, <1>5, SignedProductFact
<1>7. CASE (a < 0) = (b < 0)
  <2>1. a * b = m * n
    <3>1. CASE a < 0
      <4>1. m = -a /\ n = -b
        BY <1>7, <3>1 DEF Magnitude
      <4> QED
        BY <1>1, <4>1
    <3>2. CASE ~(a < 0)
      <4>1. m = a /\ n = b
        BY <1>7, <3>2 DEF Magnitude
      <4> QED
        BY <4>1
    <3> QED
      BY <3>1, <3>2
  <2> QED
    BY <1>6, <1>7, <2>1
<1>8. CASE (a < 0) # (b < 0)
  <2>1. a * b = -(m * n)
    <3>1. CASE a < 0
      <4>1. m = -a /\ n = b
        BY <1>8, <3>1 DEF Magnitude
      <4> QED
        BY <1>1, <4>1
    <3>2. CASE ~(a < 0)
      <4>1. m = a /\ n = -b
        BY <1>8, <3>2 DEF Magnitude
      <4> QED
        BY <1>1, <4>1
    <3> QED
      BY <3>1, <3>2
  <2> QED
    BY <1>6, <1>8, <2>1
<1> QED
  BY <1>7, <1>8

LEMMA MulIntPromotedFact ==
    ASSUME NEW a \in MIN .. MAX, NEW b \in MIN .. MAX
    PROVE  MulIntPromoted(a, b) = Clamp(TRUE, a * b)
<1>1. MAX \in Nat /\ MIN = -MAX - 1 /\ a * b \in Int
  BY Widths
<1> QED
  BY <1>1 DEF MulIntPromoted, Clamp

LEMMA MulUIntFact ==
    ASSUME NEW a \in 0 .. UMAX, NEW b \in 0 .. UMAX
    PROVE  MulUIntPromoted(a, b) = Clamp(FALSE, a * b) /\ MulUInt64(a, b) = Clamp(FALSE, a * b)
<1>1. UMAX \in Nat /\ Modulus = UMAX + 1 /\ a * b \in Nat
  BY Widths
<1>2. Clamp(FALSE, a * b) = IF a * b > UMAX THEN UMAX ELSE a * b
  BY <1>1 DEF Clamp
<1>3. ProductByHalves(a, b) = IF a * b > UMAX THEN Modulus ELSE a * b
  BY ProductByHalvesFact
<1>4. MulUInt64(a, b) = IF a * b > UMAX THEN UMAX ELSE a * b
  BY <1>1, <1>3 DEF MulUInt64
<1> QED
  BY <1>2, <1>4 DEF MulUIntPromoted

------------------------------------------------------------------------------
(* Quotients and remainders                                                *)

(* Rounding to the nearest adds one when the remainder is at least half.   *)
LEMMA NearestFact ==
    ASSUME NEW m \in Nat, NEW d \in Nat \ {0}
    PROVE  (2 * m + d) \div (2 * d) = (m \div d) + (IF 2 * (m % d) >= d THEN 1 ELSE 0)
<1> DEFINE q == m \div d
           r == m % d
           up == IF 2 * r >= d THEN 1 ELSE 0
<1>1. q \in Int /\ r \in 0 .. d - 1 /\ m = d * q + r
  BY Divided
<1> HIDE DEF q, r
<1>2. 2 * m + d = (2 * d) * (q + up) + (2 * r + d - (2 * d) * up)
  <2>1. (2 * d) * (q + up) = 2 * (d * q) + (2 * d) * up
    BY <1>1
  <2>2. d * q \in Int /\ (2 * d) * up \in Int
    BY <1>1
  <2> HIDE DEF up
  <2> QED
    BY <1>1, <2>1, <2>2
<1>3. 2 * r + d - (2 * d) * up \in 0 .. 2 * d - 1
  BY <1>1
<1>4. q + up \in Int /\ 2 * d \in Nat \ {0} /\ 2 * m + d \in Int
  BY <1>1
<1>5. (2 * m + d) \div (2 * d) = q + up
  <2> HIDE DEF up
  <2> QED
    BY <1>2, <1>3, <1>4, DividedOnce
<1> QED
  BY <1>5 DEF q, r

(* ... and does not exceed the dividend, nor reach it unless the divisor   *)
(* is one.                                                                 *)
LEMMA NearestBound ==
    ASSUME NEW m \in Nat, NEW d \in Nat \ {0}
    PROVE  LET z == (m \div d) + (IF 2 * (m % d) >= d THEN 1 ELSE 0)
           IN  /\ z \in Nat /\ z =< m
               /\ d >= 2 /\ m >= 2 => z =< m - 1
               /\ m = 0 => z = 0
<1> DEFINE q == m \div d
           r == m % d
<1>1. q \in Nat /\ q =< m /\ (d >= 2 => 2 * q + r =< m) /\ r \in 0 .. d - 1
  <2>1. q \in Nat /\ q =< m /\ (d >= 2 => 2 * q + r =< m)
    BY QuotientBound
  <2>2. r \in 0 .. d - 1
    BY Divided
  <2> QED
    BY <2>1, <2>2, Zenon
<1>2. d = 1 => r = 0
  BY <1>1
<1>3. m = 0 => q = 0 /\ r = 0
  <2>1. ASSUME m = 0 PROVE m = d * 0 + 0
    BY <2>1
  <2> QED
    BY <2>1, DividedOnce
<1> HIDE DEF q, r
<1> QED
  BY <1>1, <1>2, <1>3 DEF q, r

(* C's quotient and remainder by sign and magnitude.                       *)
LEMMA TruncatedFact ==
    ASSUME NEW a \in Int, NEW b \in Int \ {0}
    PROVE  LET q == Magnitude(a) \div Magnitude(b)
               r == Magnitude(a) % Magnitude(b)
           IN  /\ Quotient(a, b) = IF SignsDiffer(a, b) THEN -q ELSE q
               /\ Remainder(a, b) = IF a < 0 THEN -r ELSE r
<1> DEFINE A == Magnitude(a)
           B == Magnitude(b)
           q == A \div B
           r == A % B
<1>1. A \in Nat /\ B \in Nat \ {0}
  BY MagnitudeFact
<1>2. A = (IF a < 0 THEN -a ELSE a) /\ B = (IF b < 0 THEN -b ELSE b)
  BY DEF Magnitude
<1>3. q \in Int /\ r \in Int /\ A = B * q + r
  <2> HIDE DEF A, B
  <2>1. A \in Int
    BY <1>1
  <2>2. q \in Int /\ r \in 0 .. B - 1 /\ A = B * q + r
    BY <1>1, <2>1, Divided
  <2> HIDE DEF q, r
  <2> QED
    BY <1>1, <2>2
<1>4. Quotient(a, b) = IF SignsDiffer(a, b) THEN -q ELSE q
  BY DEF Quotient, SignsDiffer
<1> HIDE DEF q, r
<1>5. Remainder(a, b) = a - b * (IF SignsDiffer(a, b) THEN -q ELSE q)
  BY <1>4 DEF Remainder
<1> HIDE DEF A, B
<1>6. CASE a < 0 /\ b < 0
  <2>1. A = -a /\ B = -b /\ ~SignsDiffer(a, b)
    BY <1>2, <1>6 DEF SignsDiffer
  <2>2. b * q = -(B * q)
    BY <1>1, <1>3, <2>1
  <2>3. Remainder(a, b) = a - b * q
    BY <1>5, <2>1
  <2>4. Remainder(a, b) = -r
    BY <1>1, <1>3, <2>1, <2>2, <2>3
  <2> QED
    BY <1>4, <1>6, <2>4 DEF A, B, q, r
<1>7. CASE a < 0 /\ ~(b < 0)
  <2>1. A = -a /\ B = b /\ SignsDiffer(a, b)
    BY <1>2, <1>7 DEF SignsDiffer
  <2>2. b * (-q) = -(B * q)
    BY <1>1, <1>3, <2>1
  <2>3. Remainder(a, b) = a - b * (-q)
    BY <1>5, <2>1
  <2>4. Remainder(a, b) = -r
    BY <1>1, <1>3, <2>1, <2>2, <2>3
  <2> QED
    BY <1>4, <1>7, <2>4 DEF A, B, q, r
<1>8. CASE ~(a < 0) /\ b < 0
  <2>1. A = a /\ B = -b /\ SignsDiffer(a, b)
    BY <1>2, <1>8 DEF SignsDiffer
  <2>2. b * (-q) = B * q
    BY <1>1, <1>3, <2>1
  <2>3. Remainder(a, b) = a - b * (-q)
    BY <1>5, <2>1
  <2>4. Remainder(a, b) = r
    BY <1>1, <1>3, <2>1, <2>2, <2>3
  <2> QED
    BY <1>4, <1>8, <2>4 DEF A, B, q, r
<1>9. CASE ~(a < 0) /\ ~(b < 0)
  <2>1. A = a /\ B = b /\ ~SignsDiffer(a, b)
    BY <1>2, <1>9 DEF SignsDiffer
  <2>2. b * q = B * q
    BY <2>1
  <2>3. Remainder(a, b) = a - b * q
    BY <1>5, <2>1
  <2>4. Remainder(a, b) = r
    BY <1>1, <1>3, <2>1, <2>2, <2>3
  <2> QED
    BY <1>4, <1>9, <2>4 DEF A, B, q, r
<1> QED
  BY <1>6, <1>7, <1>8, <1>9, Zenon

(* The rounded quotient by sign and magnitude.                             *)
LEMMA RoundedFact ==
    ASSUME NEW n \in Int, NEW d \in Nat \ {0}
    PROVE  LET z == (Magnitude(n) \div d) + (IF 2 * (Magnitude(n) % d) >= d THEN 1 ELSE 0)
           IN  Rounded(n, d) = IF n < 0 THEN -z ELSE z
<1> DEFINE m == Magnitude(n)
           num == 2 * n + (IF n < 0 THEN -d ELSE d)
           z == (m \div d) + (IF 2 * (m % d) >= d THEN 1 ELSE 0)
<1>1. m \in Nat /\ num \in Int /\ 2 * d \in Int \ {0} /\ ~(2 * d < 0)
  BY MagnitudeFact
<1>2. Magnitude(num) = 2 * m + d /\ Magnitude(2 * d) = 2 * d
  BY DEF Magnitude
<1>3. num < 0 <=> n < 0
  OBVIOUS
<1>4. (2 * m + d) \div (2 * d) = z
  BY <1>1, NearestFact
<1> HIDE DEF m, num, z
<1>5. Quotient(num, 2 * d) = IF SignsDiffer(num, 2 * d) THEN -z ELSE z
  BY <1>1, <1>2, <1>4, TruncatedFact
<1>6. Quotient(num, 2 * d) = IF n < 0 THEN -z ELSE z
  BY <1>1, <1>3, <1>5 DEF SignsDiffer
<1> QED
  BY <1>6 DEF Rounded, m, num, z

LEMMA DivIntFact ==
    ASSUME NEW a \in MIN .. MAX, NEW b \in (MIN .. MAX) \ {0}
    PROVE  DivInt(a, b) = Clamp(TRUE, Rounded(IF b < 0 THEN -a ELSE a, Magnitude(b)))
<1> DEFINE A == Magnitude(a)
           B == Magnitude(b)
           q == A \div B
           r == A % B
           z == q + (IF 2 * r >= B THEN 1 ELSE 0)
           n == IF b < 0 THEN -a ELSE a
           check == AbsInt(Remainder(a, b))
           ret == Quotient(a, b)
<1>1. MAX \in Nat /\ MAX >= 1 /\ MIN = -MAX - 1 /\ MIN \in Int /\ a \in Int /\ b \in Int \ {0}
  BY Widths
<1>2. A = (IF a < 0 THEN -a ELSE a) /\ B = (IF b < 0 THEN -b ELSE b)
  BY DEF Magnitude
<1>3. A \in Nat /\ B \in Nat \ {0} /\ A =< MAX + 1 /\ B =< MAX + 1
  BY <1>1, <1>2
<1>4. n \in Int /\ Magnitude(n) = A
  BY <1>1 DEF Magnitude
<1>5. Rounded(n, B) = IF n < 0 THEN -z ELSE z
  <2> HIDE DEF n, A, B
  <2> QED
    BY <1>3, <1>4, RoundedFact
<1>6. /\ ret = IF SignsDiffer(a, b) THEN -q ELSE q
      /\ Remainder(a, b) = IF a < 0 THEN -r ELSE r
  BY <1>1, TruncatedFact
<1>7. z \in Nat /\ z =< A /\ (B >= 2 /\ A >= 2 => z =< A - 1) /\ (A = 0 => z = 0)
  <2> HIDE DEF A, B
  <2> QED
    BY <1>3, NearestBound
<1>8. q \in Nat /\ r \in 0 .. B - 1
  <2> HIDE DEF A, B
  <2>1. q \in Nat
    BY <1>3, QuotientBound
  <2>2. r \in 0 .. B - 1
    BY <1>3, Divided
  <2> QED
    BY <2>1, <2>2, Zenon
<1>9. DivInt(a, b) = IF b < 0
                     THEN IF b = -1 /\ a = MIN THEN MAX
                          ELSE IF -check <= b - (-check) THEN ret - (1 - 2 * Sgn(a)) ELSE ret
                     ELSE IF check >= b - check THEN ret + (1 - 2 * Sgn(a)) ELSE ret
  BY <1>1 DEF DivInt
<1>10. check = r
  <2> HIDE DEF A, B, q, r
  <2>1. r \in Int /\ r =< MAX /\ r >= 0
    BY <1>1, <1>3, <1>8
  <2>2. Remainder(a, b) \in MIN .. MAX /\ Remainder(a, b) # MIN
    BY <1>1, <1>6, <2>1
  <2>3. Magnitude(Remainder(a, b)) = r
    BY <1>6, <2>1 DEF Magnitude
  <2> QED
    BY <2>2, <2>3, AbsIntFact
<1>11. A = 0 => q = 0
  <2> HIDE DEF A, B
  <2> QED
    BY <1>3, QuotientBound
<1> HIDE DEF A, B, q, r, check, ret
<1>12. CASE b = -1 /\ a = MIN
  <2>1. DivInt(a, b) = MAX
    BY <1>9, <1>12
  <2>2. A = MAX + 1 /\ B = 1 /\ n = MAX + 1
    <3>1. MIN < 0 /\ -MIN = MAX + 1
      BY <1>1
    <3>2. \A x \in Int : x + 1 = 0 => -x = 1 /\ x < 0
      OBVIOUS
    <3>3. b + 1 = 0
      BY <1>12
    <3>4. -b = 1 /\ b < 0
      BY <1>1, <3>2, <3>3
    <3> QED
      BY <1>2, <1>12, <3>1, <3>4, Zenon DEF n
  <2>3. q = MAX + 1 /\ r = 0
    <3>1. A = 1 * (MAX + 1) + 0
      BY <1>1, <2>2
    <3>2. A \div 1 = MAX + 1 /\ A % 1 = 0
      BY <1>1, <1>3, <3>1, DividedOnce
    <3> QED
      BY <2>2, <3>2 DEF q, r
  <2>4. Rounded(n, B) = MAX + 1
    BY <1>1, <1>5, <2>2, <2>3
  <2> QED
    BY <1>1, <2>1, <2>4 DEF Clamp, B
<1>13. CASE ~(b = -1 /\ a = MIN)
  <2>1. DivInt(a, b) = IF n < 0 THEN -z ELSE z
    <3>1. CASE b < 0
      <4>1. DivInt(a, b) = IF 2 * r >= B THEN ret - (1 - 2 * Sgn(a)) ELSE ret
        BY <1>1, <1>2, <1>8, <1>9, <1>10, <1>13, <3>1
      <4>2. ret = IF a < 0 THEN q ELSE -q
        BY <1>6, <3>1 DEF SignsDiffer
      <4>3. n < 0 <=> a > 0
        BY <1>1, <3>1
      <4>4. DivInt(a, b) = IF a < 0 THEN z ELSE -z
        BY <1>1, <1>8, <4>1, <4>2 DEF Sgn
      <4>5. a = 0 => z = 0
        BY <1>2, <1>7
      <4>6. z \in Nat
        BY <1>7
      <4> HIDE DEF z, n
      <4> QED
        BY <1>1, <4>3, <4>4, <4>5, <4>6
    <3>2. CASE ~(b < 0)
      <4>1. DivInt(a, b) = IF 2 * r >= B THEN ret + (1 - 2 * Sgn(a)) ELSE ret
        BY <1>1, <1>2, <1>8, <1>9, <1>10, <3>2
      <4>2. ret = IF a < 0 THEN -q ELSE q
        BY <1>6, <3>2 DEF SignsDiffer
      <4>3. DivInt(a, b) = IF a < 0 THEN -z ELSE z
        BY <1>1, <1>8, <4>1, <4>2 DEF Sgn
      <4> QED
        BY <3>2, <4>3
    <3> QED
      BY <3>1, <3>2
  <2>2. n >= 0 => z =< MAX
    <3> HIDE DEF z
    <3>1. CASE A =< MAX
      BY <1>1, <1>3, <1>7, <3>1
    <3>2. CASE A = MAX + 1 /\ n >= 0
      <4>1. a = MIN /\ b < 0
        BY <1>1, <1>2, <3>2
      <4>2. B >= 2 /\ A >= 2
        BY <1>1, <1>2, <1>13, <3>2, <4>1
      <4> QED
        BY <1>1, <1>3, <1>7, <3>2, <4>2
    <3> QED
      BY <1>1, <1>3, <3>1, <3>2
  <2>3. z \in Nat /\ z =< MAX + 1 /\ n \in Int
    <3> HIDE DEF z, n
    <3> QED
      BY <1>1, <1>3, <1>4, <1>7
  <2> HIDE DEF z, n
  <2>4. Clamp(TRUE, IF n < 0 THEN -z ELSE z) = IF n < 0 THEN -z ELSE z
    <3>1. (IF n < 0 THEN -z ELSE z) \in MIN .. MAX
      BY <1>1, <2>2, <2>3
    <3> QED
      BY <1>1, <3>1 DEF Clamp
  <2>5. DivInt(a, b) = Clamp(TRUE, Rounded(n, B))
    BY <1>5, <2>1, <2>4
  <2> QED
    BY <2>5 DEF n, B
<1> QED
  BY <1>12, <1>13

LEMMA DivUIntFact ==
    ASSUME NEW a \in 0 .. UMAX, NEW b \in (0 .. UMAX) \ {0}
    PROVE  DivUInt(a, b) = Clamp(FALSE, Rounded(IF b < 0 THEN -a ELSE a, Magnitude(b)))
<1> DEFINE z == (a \div b) + (IF 2 * (a % b) >= b THEN 1 ELSE 0)
<1>1. UMAX \in Nat /\ a \in Nat /\ b \in Nat \ {0}
  BY Widths
<1>2. Magnitude(a) = a /\ Magnitude(b) = b /\ ~(a < 0) /\ ~(b < 0)
  BY <1>1 DEF Magnitude
<1>3. Rounded(a, b) = z
  <2> DEFINE y == (Magnitude(a) \div b) + (IF 2 * (Magnitude(a) % b) >= b THEN 1 ELSE 0)
  <2>1. Rounded(a, b) = IF a < 0 THEN -y ELSE y
    BY <1>1, RoundedFact
  <2>2. y = z
    BY <1>2, Zenon
  <2> QED
    BY <1>2, <2>1, <2>2, Zenon
<1>4. z \in Nat /\ z =< a
  BY <1>1, NearestBound
<1>5. a \div b \in Int /\ a % b \in Int
  <2>1. a \div b \in Int /\ a % b \in 0 .. b - 1
    BY <1>1, Divided
  <2> QED
    BY <1>1, <2>1
<1>6. DivUInt(a, b) = z
  BY <1>1, <1>5 DEF DivUInt
<1> HIDE DEF z
<1>7. Clamp(FALSE, z) = z
  BY <1>1, <1>4 DEF Clamp
<1> QED
  BY <1>2, <1>3, <1>6, <1>7

(* Division that rounds down, seen from the magnitude of the dividend.     *)
LEMMA FlooredFact ==
    ASSUME NEW n \in Int, NEW d \in Nat \ {0}
    PROVE  LET r == Magnitude(n) % d
           IN  n % d = IF n < 0 /\ r # 0 THEN d - r ELSE r
<1> DEFINE m == Magnitude(n)
           q == m \div d
           r == m % d
<1>1. m \in Nat /\ m = IF n < 0 THEN -n ELSE n
  BY DEF Magnitude
<1>2. q \in Int /\ r \in 0 .. d - 1 /\ m = d * q + r
  <2> HIDE DEF m
  <2>1. m \in Int
    BY <1>1
  <2> QED
    BY <2>1, Divided
<1> HIDE DEF q, r
<1>3. CASE ~(n < 0)
  BY <1>1, <1>3 DEF q, r
<1>4. CASE n < 0 /\ r = 0
  <2>1. n = d * (-q) + 0 /\ -q \in Int
    BY <1>1, <1>2, <1>4
  <2>2. n % d = 0
    BY <2>1, DividedOnce
  <2> QED
    BY <1>4, <2>2 DEF r
<1>5. CASE n < 0 /\ r # 0
  <2>1. d * (-q - 1) = -(d * q) - d /\ d * q \in Int
    BY <1>2
  <2>2. n = d * (-q - 1) + (d - r) /\ -q - 1 \in Int /\ d - r \in 0 .. d - 1
    BY <1>1, <1>2, <1>5, <2>1
  <2>3. n % d = d - r
    BY <2>2, DividedOnce
  <2> QED
    BY <1>5, <2>3 DEF r
<1> QED
  BY <1>3, <1>4, <1>5, Zenon

LEMMA NegatedZero == \A x \in Int : x >= 0 /\ x =< 0 => -x = 0
OBVIOUS

(* Division that rounds down by the remainder of C.                        *)
LEMMA ModFact ==
    ASSUME NEW a \in Int, NEW b \in Int \ {0}
    PROVE  LET rem == Remainder(a, b)
           IN  /\ rem \in Int
               /\ Magnitude(rem) < Magnitude(b)
               /\ rem < 0 => a < 0
               /\ a < 0 => rem =< 0
               /\ a - b * ((IF b < 0 THEN -a ELSE a) \div Magnitude(b)) =
                     IF rem # 0 /\ SignsDiffer(rem, b) THEN rem + b ELSE rem
<1> DEFINE n == IF b < 0 THEN -a ELSE a
           B == Magnitude(b)
           f == n \div B
           g == n % B
           r == Magnitude(a) % B
           rem == Remainder(a, b)
<1>1. B \in Nat \ {0} /\ B = IF b < 0 THEN -b ELSE b
  BY DEF Magnitude
<1>2. n \in Int /\ Magnitude(n) = Magnitude(a) /\ Magnitude(a) \in Nat
  BY DEF Magnitude
<1>3. f \in Int /\ g \in Int /\ n = B * f + g
  <2> HIDE DEF n, B
  <2>1. f \in Int /\ g \in 0 .. B - 1 /\ n = B * f + g
    BY <1>1, <1>2, Divided
  <2> HIDE DEF g
  <2> QED
    BY <1>1, <2>1
<1>4. r \in 0 .. B - 1
  <2> HIDE DEF B
  <2>1. Magnitude(a) \in Int
    BY <1>2
  <2> QED
    BY <1>1, <2>1, Divided
<1>5. g = IF n < 0 /\ r # 0 THEN B - r ELSE r
  <2> HIDE DEF n, B
  <2> QED
    BY <1>1, <1>2, FlooredFact
<1>6. rem = IF a < 0 THEN -r ELSE r
  BY TruncatedFact
<1> HIDE DEF f, g, r, B, rem
<1>7. a - b * f = IF b < 0 THEN -g ELSE g
  <2>1. CASE b < 0
    <3>1. n = -a /\ B = -b
      BY <1>1, <2>1
    <3>2. b * f = -(B * f)
      BY <1>3, <3>1
    <3>3. B * f \in Int
      BY <1>1, <1>3
    <3> HIDE DEF n
    <3> QED
      BY <1>1, <1>3, <2>1, <3>1, <3>2, <3>3
  <2>2. CASE ~(b < 0)
    <3>1. n = a /\ B = b
      BY <1>1, <2>2
    <3>2. b * f \in Int
      BY <1>3
    <3> HIDE DEF n
    <3> QED
      BY <1>3, <2>2, <3>1, <3>2
  <2> QED
    BY <2>1, <2>2
<1>8. /\ r \in Int /\ r >= 0 /\ r < B /\ B \in Int /\ rem \in Int
      /\ Magnitude(rem) < B /\ (rem < 0 => a < 0) /\ (a < 0 => rem =< 0) /\ (rem = 0 <=> r = 0)
  BY <1>1, <1>4, <1>6 DEF Magnitude
<1>9. (IF b < 0 THEN -g ELSE g) = IF rem # 0 /\ SignsDiffer(rem, b) THEN rem + b ELSE rem
  <2>1. CASE r = 0
    <3>1. g = 0
      <4>1. g = r
        BY <1>5, <2>1, Zenon
      <4> QED
        BY <2>1, <4>1, Zenon
    <3>2. rem = 0
      BY <1>8, <2>1, Zenon
    <3>3. -g = 0
      <4>1. g >= 0 /\ g =< 0
        BY <3>1
      <4> QED
        BY <1>3, <4>1, NegatedZero, Zenon
    <3>4. (IF b < 0 THEN -g ELSE g) = 0
      BY <3>1, <3>3, Zenon
    <3>5. (IF rem # 0 /\ SignsDiffer(rem, b) THEN rem + b ELSE rem) = 0
      BY <3>2, Zenon
    <3> QED
      BY <3>4, <3>5, Zenon
  <2>2. CASE r # 0
    <3>1. rem # 0 /\ r > 0
      BY <1>8, <2>2
    <3>2. a # 0
      <4> SUFFICES ASSUME a = 0 PROVE FALSE
        OBVIOUS
      <4>1. Magnitude(a) = 0 /\ 0 = B * 0 + 0 /\ 0 \in 0 .. B - 1
        BY <1>1 DEF Magnitude
      <4>2. r = 0
        BY <1>1, <4>1, DividedOnce DEF r
      <4> QED
        BY <2>2, <4>2
    <3>3. rem < 0 <=> a < 0
      BY <1>6, <1>8, <3>1
    <3>4. n < 0 <=> SignsDiffer(rem, b)
      BY <3>2, <3>3 DEF SignsDiffer
    <3>5. CASE n < 0
      <4>1. g = B - r
        BY <1>5, <2>2, <3>5
      <4>2. b < 0 <=> ~(a < 0)
        BY <3>2, <3>5
      <4> QED
        BY <1>1, <1>6, <1>8, <3>1, <3>4, <3>5, <4>1, <4>2
    <3>6. CASE ~(n < 0)
      <4>1. g = r
        BY <1>5, <3>6
      <4>2. b < 0 <=> a < 0
        BY <3>2, <3>6
      <4> QED
        BY <1>6, <1>8, <3>4, <3>6, <4>1, <4>2
    <3> QED
      BY <3>5, <3>6
  <2> QED
    BY <2>1, <2>2
<1> QED
  BY <1>7, <1>8, <1>9 DEF f, B, rem

(* rem and mod of signed elements, but for the pair that traps.            *)
LEMMA RemIntFact ==
    ASSUME NEW a \in MIN .. MAX, NEW b \in MIN .. MAX,
           Kind = "small" \/ a # MIN \/ b # -1
    PROVE  IF b = 0 THEN RemInt(a, b) = 0 /\ ModInt(a, b) = a
           ELSE /\ RemInt(a, b) = Remainder(a, b)
                /\ ModInt(a, b) = a - b * ((IF b < 0 THEN -a ELSE a) \div Magnitude(b))
<1>1. CASE b = 0
  BY <1>1 DEF RemInt, ModInt
<1>2. CASE b # 0
  <2> DEFINE rem == Remainder(a, b)
             mod == a - b * ((IF b < 0 THEN -a ELSE a) \div Magnitude(b))
  <2>1. a \in Int /\ b \in Int \ {0}
    BY <1>2, Widths
  <2>2. rem \in Int /\ mod = IF rem # 0 /\ SignsDiffer(rem, b) THEN rem + b ELSE rem
    BY <2>1, ModFact
  <2>3. CRemainder(a, b) = rem
    BY DEF CRemainder
  <2> HIDE DEF rem, mod
  <2>4. RemInt(a, b) = rem
    BY <1>2, <2>3 DEF RemInt
  <2>5. rem # Trap
    BY <2>2, IntOpsAssumption
  <2>6. ModInt(a, b) = IF rem = 0 THEN 0 ELSE IF SignsDiffer(rem, b) THEN rem + b ELSE rem
    BY <1>2, <2>3, <2>5 DEF ModInt
  <2>7. ModInt(a, b) = mod
    BY <2>2, <2>6
  <2> QED
    BY <1>2, <2>4, <2>7 DEF rem, mod
<1> QED
  BY <1>1, <1>2

LEMMA RemUIntFact ==
    ASSUME NEW a \in 0 .. UMAX, NEW b \in 0 .. UMAX
    PROVE  IF b = 0 THEN RemUInt(a, b) = 0 /\ ModUInt(a, b) = a
           ELSE /\ RemUInt(a, b) = Remainder(a, b)
                /\ ModUInt(a, b) = a - b * ((IF b < 0 THEN -a ELSE a) \div Magnitude(b))
<1>1. CASE b = 0
  BY <1>1 DEF RemUInt, ModUInt
<1>2. CASE b # 0
  <2>1. UMAX \in Nat /\ a \in Nat /\ b \in Nat \ {0}
    BY <1>2, Widths
  <2>2. Magnitude(a) = a /\ Magnitude(b) = b /\ ~(a < 0) /\ ~(b < 0)
    BY <2>1 DEF Magnitude
  <2>3. Remainder(a, b) = a % b
    <3>1. Remainder(a, b) = IF a < 0 THEN -(Magnitude(a) % Magnitude(b)) ELSE Magnitude(a) % Magnitude(b)
      BY <2>1, TruncatedFact
    <3> QED
      BY <2>2, <3>1, Zenon
  <2>4. a % b = a - b * (a \div b)
    <3>1. a \div b \in Int /\ a % b \in 0 .. b - 1 /\ a = b * (a \div b) + (a % b)
      BY <2>1, Divided
    <3>2. \A x, y, z \in Int : x = y + z => z = x - y
      OBVIOUS
    <3>3. b * (a \div b) \in Int /\ a % b \in Int /\ a \in Int
      BY <2>1, <3>1
    <3> QED
      BY <3>1, <3>2, <3>3
  <2> QED
    BY <1>2, <2>2, <2>3, <2>4, Zenon DEF RemUInt, ModUInt
<1> QED
  BY <1>1, <1>2

------------------------------------------------------------------------------
(* Conversions and shifts                                                  *)

LEMMA FromWideFact ==
    ASSUME NEW signed \in BOOLEAN, NEW v \in Int
    PROVE  FromWide(signed, v) = Clamp(signed, v)
<1>1. MAX \in Nat /\ MIN = -MAX - 1 /\ UMAX \in Nat
  BY Widths
<1> QED
  BY <1>1 DEF FromWide, Clamp

LEMMA FromOtherFact ==
    ASSUME NEW signed \in BOOLEAN, NEW v \in Values(~signed)
    PROVE  /\ v =< MAX => FromOther(signed, v) = Clamp(signed, v)
           /\ v > MAX => FromOther(signed, v) = v - Modulus
           /\ FromOther(signed, v) \in Values(signed)
<1>1. MAX \in Nat /\ MIN = -MAX - 1 /\ UMAX = 2 * MAX + 1 /\ Modulus = 2 * MAX + 2
  BY Widths
<1>2. CASE signed
  <2>1. v \in 0 .. UMAX
    BY <1>2 DEF Values
  <2>2. FromOther(signed, v) = Wrap(v)
    BY <1>2 DEF FromOther
  <2>3. Wrap(v) \in Values(signed)
    BY <1>1, <1>2, <2>1, WrapFact DEF Values
  <2>4. v =< MAX => Wrap(v) = v /\ Clamp(signed, v) = v
    BY <1>1, <1>2, <2>1, WrapFact DEF Clamp
  <2>5. v > MAX => Wrap(v) = v - Modulus
    BY <1>1, <2>1, WrapFact
  <2> QED
    BY <2>2, <2>3, <2>4, <2>5
<1>3. CASE ~signed
  <2>1. v \in MIN .. MAX
    BY <1>3 DEF Values
  <2>2. FromOther(signed, v) = IF v < 0 THEN 0 ELSE v
    BY <1>3 DEF FromOther
  <2>3. Values(signed) = 0 .. UMAX
    BY <1>3 DEF Values
  <2>4. (IF v < 0 THEN 0 ELSE v) \in 0 .. UMAX /\ v =< MAX /\ ~(v > MAX)
    BY <1>1, <2>1
  <2>5. Clamp(signed, v) = IF v < 0 THEN 0 ELSE v
    BY <1>1, <1>3, <2>1 DEF Clamp
  <2> QED
    BY <2>2, <2>3, <2>4, <2>5
<1> QED
  BY <1>2, <1>3

(* Shifting to the right never leaves the range.                           *)
LEMMA ARSFact ==
    ASSUME NEW x \in Int, NEW n \in Nat, NEW lo \in Int, NEW hi \in Nat,
           lo =< 0, lo =< x, x =< hi
    PROVE  x \div Pow2[n] \in lo .. hi
<1> DEFINE p == Pow2[n]
           q == x \div p
<1>1. p \in Nat \ {0}
  BY Pow2Positive
<1>2. q \in Int /\ x % p \in 0 .. p - 1 /\ x = p * q + (x % p)
  <2> HIDE DEF p
  <2> QED
    BY <1>1, Divided
<1> HIDE DEF p, q
<1>3. q >= 0 => q =< x
  <2>1. q >= 0 => q * 1 =< q * p
    BY <1>1, <1>2, MultMonotonic
  <2>2. q * p = p * q /\ p * q \in Int
    BY <1>1, <1>2
  <2> QED
    BY <1>1, <1>2, <2>1, <2>2
<1>4. q < 0 => x =< q
  <2>1. -q \in Int /\ (q < 0 => (-q - 1) * 1 =< (-q - 1) * p)
    BY <1>1, <1>2, MultMonotonic
  <2>2. (-q - 1) * p = -(p * q) - p /\ p * q \in Int
    BY <1>1, <1>2
  <2> QED
    BY <1>1, <1>2, <2>1, <2>2
<1>5. q \in lo .. hi
  BY <1>2, <1>3, <1>4
<1> QED
  BY <1>5 DEF p, q

LEMMA ALSFact ==
    ASSUME NEW x \in Int, NEW n \in Nat
    PROVE  ALSInt(x, n) \in MIN .. MAX /\ ALSUInt(x, n) \in 0 .. UMAX
<1>1. x * Pow2[n] \in Int
  BY Pow2Positive
<1> QED
  BY <1>1, WrapFact, UWrapFact DEF ALSInt, ALSUInt

------------------------------------------------------------------------------
(* Floating-point numbers                                                  *)

(* A product by a positive number keeps a strict order.                    *)
LEMMA ProductOrder ==
    ASSUME NEW d \in Nat \ {0}, NEW x \in Int, NEW y \in Int, d * x < d * y
    PROVE  x < y
<1> SUFFICES ASSUME y =< x PROVE FALSE
  OBVIOUS
<1>1. d * y =< d * x /\ d * x \in Int /\ d * y \in Int
  BY MultMonotonic
<1> QED
  BY <1>1

(* The powers of two grow with the exponent.                               *)
LEMMA Pow2Grows ==
    ASSUME NEW m \in Nat, NEW n \in Nat, m =< n
    PROVE  Pow2[n] = Pow2[m] * Pow2[n - m] /\ Pow2[m] =< Pow2[n]
<1>1. n - m \in Nat /\ m + (n - m) = n
  OBVIOUS
<1>2. Pow2[m + (n - m)] = Pow2[m] * Pow2[n - m]
  BY <1>1, Pow2Sum
<1>3. Pow2[m] \in Nat /\ Pow2[n - m] \in Nat /\ 1 =< Pow2[n - m]
  BY <1>1, Pow2Positive
<1>4. Pow2[m] * 1 =< Pow2[m] * Pow2[n - m] /\ Pow2[m] * 1 = Pow2[m]
  BY <1>3, MultMonotonic
<1> QED
  BY <1>1, <1>2, <1>4

LEMMA Pow2Less ==
    ASSUME NEW m \in Nat, NEW n \in Nat, Pow2[m] < Pow2[n]
    PROVE  m < n
<1> SUFFICES ASSUME n =< m PROVE FALSE
  OBVIOUS
<1>1. Pow2[n] =< Pow2[m] /\ Pow2[n] \in Nat /\ Pow2[m] \in Nat
  BY Pow2Grows, Pow2Positive
<1> QED
  BY <1>1

(* A number has so many significant bits: as a product, and place by place *)
(* with respect to the numbers it may be a neighbour of.                   *)
Fits(bits, y) == \E m \in 0 .. Pow2[bits], j \in Nat : y = m * Pow2[j]

OnPlaces(bits, y) ==
    \A e \in Nat \ {0} : y > Pow2[bits + e - 1] => \E z \in Nat : y = z * Pow2[e]

LEMMA FitsOnPlaces ==
    ASSUME NEW bits \in Nat, NEW y, Fits(bits, y)
    PROVE  y \in Nat /\ OnPlaces(bits, y)
<1>1. PICK m \in 0 .. Pow2[bits], j \in Nat : y = m * Pow2[j]
  BY DEF Fits
<1>2. Pow2[bits] \in Nat /\ Pow2[j] \in Nat /\ m \in Nat
  BY <1>1, Pow2Positive
<1>3. y \in Nat
  BY <1>1, <1>2
<1>4. ASSUME NEW e \in Nat \ {0}, y > Pow2[bits + e - 1] PROVE \E z \in Nat : y = z * Pow2[e]
  <2>1. bits + j \in Nat /\ Pow2[bits + j] = Pow2[bits] * Pow2[j] /\ Pow2[bits + j] \in Nat
    <3>1. bits + j \in Nat
      BY <1>1
    <3> QED
      BY <1>1, <3>1, Pow2Sum, Pow2Positive
  <2>2. Pow2[j] * m =< Pow2[j] * Pow2[bits]
    BY <1>1, <1>2, MultMonotonic
  <2>3. Pow2[j] * m = m * Pow2[j] /\ Pow2[j] * Pow2[bits] = Pow2[bits] * Pow2[j]
    BY <1>2
  <2>4. y =< Pow2[bits + j]
    BY <1>1, <2>1, <2>2, <2>3, Zenon
  <2>5. bits + e - 1 \in Nat /\ Pow2[bits + e - 1] \in Nat
    BY Pow2Positive
  <2>6. Pow2[bits + e - 1] < Pow2[bits + j]
    BY <1>3, <1>4, <2>1, <2>4, <2>5
  <2>7. bits + e - 1 < bits + j
    BY <2>1, <2>5, <2>6, Pow2Less
  <2>8. e =< j /\ j - e \in Nat
    BY <2>7
  <2>9. Pow2[j] = Pow2[e] * Pow2[j - e] /\ Pow2[j - e] \in Nat /\ Pow2[e] \in Nat
    BY <2>8, Pow2Grows, Pow2Positive
  <2>10. \A a, b, c \in Nat : a * (b * c) = (a * c) * b /\ a * c \in Nat
    OBVIOUS
  <2>11. y = (m * Pow2[j - e]) * Pow2[e] /\ m * Pow2[j - e] \in Nat
    BY <1>1, <1>2, <2>9, <2>10
  <2> QED
    BY <2>11
<1> QED
  BY <1>3, <1>4 DEF OnPlaces

(* More significant bits hold more numbers.                                *)
LEMMA FitsMore ==
    ASSUME NEW bits \in Nat, NEW more \in Nat, bits =< more, NEW y, Fits(bits, y)
    PROVE  Fits(more, y)
<1>1. Pow2[bits] =< Pow2[more] /\ Pow2[bits] \in Nat /\ Pow2[more] \in Nat
  BY Pow2Grows, Pow2Positive
<1>2. 0 .. Pow2[bits] \subseteq 0 .. Pow2[more]
  BY <1>1
<1> QED
  BY <1>2 DEF Fits

(* Small numbers fit, and so do their products by a power of two.          *)
LEMMA FitsScaled ==
    ASSUME NEW bits \in Nat, NEW m \in 0 .. Pow2[bits], NEW j \in Nat
    PROVE  Fits(bits, m * Pow2[j]) /\ Fits(bits, m)
<1>1. m \in Nat /\ m = m * Pow2[0] /\ 0 \in Nat
  BY Pow2Positive, Pow2Def
<1> QED
  BY <1>1 DEF Fits

------------------------------------------------------------------------------
(* Rounding                                                                *)

LEMMA Sizes ==
    /\ SingleBits \in Nat \ {0} /\ DoubleBits \in Nat \ {0} /\ SingleBits < DoubleBits
    /\ DoubleBits >= 3
    /\ W \in Nat /\ W >= 2
    /\ MaxPlace \in Nat /\ MaxPlace = 2 * (W + DoubleBits)
    /\ Pow2[DoubleBits] \in Nat /\ Pow2[DoubleBits] >= 8
    /\ Unit = 2 * Pow2[DoubleBits] /\ Unit \in Nat \ {0} /\ Unit \div 2 = Pow2[DoubleBits]
    /\ \E h \in Nat : Pow2[DoubleBits] = 2 * h
<1>1. /\ SingleBits \in Nat \ {0} /\ DoubleBits \in Nat \ {0} /\ SingleBits < DoubleBits
      /\ DoubleBits >= 3 /\ W \in Nat /\ W >= 2
  BY IntOpsAssumption
<1>2. MaxPlace \in Nat /\ MaxPlace = 2 * (W + DoubleBits)
  BY <1>1 DEF MaxPlace
<1>3. Pow2[0] = 1 /\ Pow2[1] = 2 * Pow2[0] /\ Pow2[2] = 2 * Pow2[1] /\ Pow2[3] = 2 * Pow2[2]
  BY Pow2Def
<1>4. Pow2[3] = 8
  BY <1>3
<1>5. Pow2[3] =< Pow2[DoubleBits] /\ Pow2[DoubleBits] \in Nat
  BY <1>1, Pow2Grows, Pow2Positive
<1>6. DoubleBits + 1 \in Nat /\ DoubleBits + 1 # 0 /\ (DoubleBits + 1) - 1 = DoubleBits
  BY <1>1
<1>7. Unit = 2 * Pow2[DoubleBits]
  BY <1>6, Pow2Def DEF Unit
<1>8. DoubleBits - 1 \in Nat /\ Pow2[DoubleBits - 1] \in Nat /\ Pow2[DoubleBits] = 2 * Pow2[DoubleBits - 1]
  BY <1>1, Pow2Def, Pow2Positive
<1>9. Unit \div 2 = Pow2[DoubleBits]
  BY <1>5, <1>7
<1> QED
  BY <1>1, <1>2, <1>4, <1>5, <1>7, <1>8, <1>9

LEMMA LastPlaceFact ==
    ASSUME NEW bits \in Nat, NEW whole \in Nat, whole < Pow2[bits + MaxPlace]
    PROVE  LET e == LastPlace(bits, whole)
           IN  e \in Nat /\ whole < Pow2[bits + e] /\ (e > 0 => whole >= Pow2[bits + e - 1])
<1> DEFINE S == {i \in Nat : whole < Pow2[bits + i]}
<1>1. MaxPlace \in S /\ S \in SUBSET Nat
  BY Sizes
<1>2. PICK m \in S : \A i \in S : m =< i
  <2> HIDE DEF S
  <2> QED
    BY <1>1, LeastNumber
<1>3. m \in 0 .. MaxPlace /\ m \in Nat /\ whole < Pow2[bits + m]
  BY <1>1, <1>2, Sizes
<1>4. m > 0 => whole >= Pow2[bits + m - 1]
  <2> SUFFICES ASSUME m > 0, whole < Pow2[bits + m - 1] PROVE FALSE
    <3>1. ASSUME m > 0 PROVE Pow2[bits + m - 1] \in Nat
      <4>1. bits + m - 1 \in Nat
        BY <1>3, <3>1
      <4> QED
        BY <4>1, Pow2Positive
    <3> QED
      BY <3>1
  <2>1. m - 1 \in Nat /\ bits + (m - 1) = bits + m - 1
    BY <1>3
  <2>2. m - 1 \in S
    BY <2>1
  <2> QED
    BY <1>2, <1>3, <2>2
<1> DEFINE Last(e) == whole < Pow2[bits + e] /\ (e > 0 => whole >= Pow2[bits + e - 1])
<1>5. \E e \in 0 .. MaxPlace : Last(e)
  BY <1>3, <1>4
<1>6. LastPlace(bits, whole) = CHOOSE e \in 0 .. MaxPlace : Last(e)
  BY DEF LastPlace
<1> HIDE DEF Last
<1>7. LastPlace(bits, whole) \in 0 .. MaxPlace /\ Last(LastPlace(bits, whole))
  BY <1>5, <1>6, Zenon
<1> QED
  BY <1>7, Sizes DEF Last

(* The numbers of which a rounding is made: the place of the last bit, the *)
(* step between neighbours there, and n in steps with the rest.            *)
Parts(bits, n, d, e, s, k, rest) ==
    /\ s = d * Pow2[e] /\ s # 0
    /\ rest < s /\ n = s * k + rest
    /\ k < Pow2[bits] /\ (e > 0 => k >= Pow2[bits - 1])
    /\ RoundTo(bits, n, d) =
          (IF 2 * rest > s \/ (2 * rest = s /\ k % 2 = 1) THEN k + 1 ELSE k) * Pow2[e]

LEMMA RoundToParts ==
    ASSUME NEW bits \in Nat \ {0}, NEW n \in 0 .. Pow2[MaxPlace], NEW d \in Nat \ {0}
    PROVE  \E e, s, k, rest \in Nat : Parts(bits, n, d, e, s, k, rest)
<1> DEFINE w == n \div d
           e == LastPlace(bits, w)
           s == d * Pow2[e]
           k == n \div s
           rest == n % s
<1>1. n \in Nat /\ d \in Nat /\ bits \in Nat /\ bits - 1 \in Nat
  BY Pow2Positive, Sizes
<1>2. w \in Nat /\ w =< n /\ n % d \in 0 .. d - 1 /\ n = d * w + (n % d)
  <2>1. w \in Nat /\ w =< n
    BY <1>1, QuotientBound
  <2>2. n % d \in 0 .. d - 1 /\ n = d * w + (n % d)
    BY <1>1, Divided
  <2> QED
    BY <2>1, <2>2, Zenon
<1>3. w < Pow2[bits + MaxPlace]
  <2>1. MaxPlace \in Nat /\ bits + MaxPlace \in Nat /\ bits + MaxPlace >= MaxPlace + 1
    BY Sizes
  <2>2. Pow2[MaxPlace + 1] =< Pow2[bits + MaxPlace] /\ Pow2[MaxPlace + 1] = 2 * Pow2[MaxPlace]
    <3>1. MaxPlace + 1 \in Nat /\ MaxPlace + 1 # 0 /\ (MaxPlace + 1) - 1 = MaxPlace
      BY <2>1
    <3>2. Pow2[MaxPlace + 1] = 2 * Pow2[MaxPlace]
      BY <3>1, Pow2Def
    <3> QED
      BY <2>1, <3>1, <3>2, Pow2Grows
  <2>3. Pow2[MaxPlace] \in Nat /\ Pow2[MaxPlace] > 0 /\ Pow2[bits + MaxPlace] \in Nat
    BY <2>1, Pow2Positive
  <2> HIDE DEF w
  <2> QED
    BY <1>1, <1>2, <2>2, <2>3
<1>4. e \in Nat /\ w < Pow2[bits + e] /\ (e > 0 => w >= Pow2[bits + e - 1])
  <2> HIDE DEF w
  <2> QED
    BY <1>1, <1>2, <1>3, LastPlaceFact
<1>5. Magnitude(n) = n /\ Magnitude(d) = d /\ ~SignsDiffer(n, d)
  BY <1>1 DEF Magnitude, SignsDiffer
<1>6. RoundTo(bits, n, d) =
        (IF 2 * rest > s \/ (2 * rest = s /\ k % 2 = 1) THEN k + 1 ELSE k) * Pow2[e]
  BY <1>5 DEF RoundTo
<1> HIDE DEF e
<1>7. Pow2[e] \in Nat /\ Pow2[e] > 0
  BY <1>4, Pow2Positive
<1>8. s \in Nat /\ s # 0
  BY <1>1, <1>7
<1> HIDE DEF s
<1>9. k \in Nat /\ rest \in 0 .. s - 1 /\ n = s * k + rest
  <2>1. k \in Nat
    BY <1>1, <1>8, QuotientBound
  <2>2. rest \in 0 .. s - 1 /\ n = s * k + rest
    BY <1>1, <1>8, Divided
  <2> QED
    BY <2>1, <2>2, Zenon
<1> HIDE DEF w, k, rest
<1> DEFINE r == n % d
<1> HIDE DEF r
<1>10. w \in Nat /\ r \in 0 .. d - 1 /\ n = d * w + r
  BY <1>2 DEF r
<1>11. k < Pow2[bits]
  <2>1. Pow2[bits] \in Nat /\ Pow2[bits + e] = Pow2[bits] * Pow2[e]
    BY <1>1, <1>4, Pow2Sum, Pow2Positive
  <2>2. Pow2[bits] * Pow2[e] \in Nat
    BY <1>7, <2>1
  <2>3. w + 1 =< Pow2[bits] * Pow2[e]
    BY <1>4, <1>10, <2>1, <2>2
  <2>4. d * (w + 1) =< d * (Pow2[bits] * Pow2[e])
    BY <1>1, <1>10, <2>2, <2>3, MultMonotonic
  <2>5. d * (Pow2[bits] * Pow2[e]) = s * Pow2[bits] /\ s * Pow2[bits] \in Nat
    BY <1>1, <1>7, <1>8, <2>1 DEF s
  <2>6. d * (w + 1) = d * w + d /\ d * w \in Nat
    BY <1>1, <1>10
  <2>7. n < s * Pow2[bits]
    BY <1>1, <1>10, <2>4, <2>5, <2>6
  <2>8. s * k \in Nat /\ s * k =< n
    BY <1>8, <1>9
  <2>9. s * k < s * Pow2[bits]
    BY <1>1, <2>5, <2>7, <2>8
  <2> QED
    BY <1>8, <1>9, <2>1, <2>9, ProductOrder
<1>12. e > 0 => k >= Pow2[bits - 1]
  <2> SUFFICES ASSUME e > 0 PROVE k >= Pow2[bits - 1]
    OBVIOUS
  <2>1. Pow2[bits - 1] \in Nat /\ Pow2[(bits - 1) + e] = Pow2[bits - 1] * Pow2[e]
    BY <1>1, <1>4, Pow2Sum, Pow2Positive
  <2>2. (bits - 1) + e = bits + e - 1
    BY <1>1, <1>4
  <2>3. Pow2[bits - 1] * Pow2[e] \in Nat /\ Pow2[bits - 1] * Pow2[e] =< w
    BY <1>4, <1>7, <2>1, <2>2
  <2>4. d * (Pow2[bits - 1] * Pow2[e]) =< d * w
    BY <1>1, <1>10, <2>3, MultMonotonic
  <2>5. d * (Pow2[bits - 1] * Pow2[e]) = s * Pow2[bits - 1] /\ s * Pow2[bits - 1] \in Nat
    BY <1>1, <1>7, <1>8, <2>1 DEF s
  <2>6. d * w \in Nat /\ d * w =< n
    BY <1>1, <1>10
  <2>7. s * (k + 1) = s * k + s /\ s * k \in Nat
    BY <1>8, <1>9
  <2>8. s * Pow2[bits - 1] < s * (k + 1)
    BY <1>1, <1>8, <1>9, <2>4, <2>5, <2>6, <2>7
  <2>9. k + 1 \in Int /\ Pow2[bits - 1] \in Int
    BY <1>9, <2>1
  <2>10. Pow2[bits - 1] < k + 1
    BY <1>8, <2>8, <2>9, ProductOrder
  <2> QED
    BY <1>9, <2>1, <2>10
<1>13. rest \in Nat /\ rest < s
  BY <1>8, <1>9
<1>14. s = d * Pow2[e]
  BY DEF s
<1> HIDE DEF s
<1>15. Parts(bits, n, d, e, s, k, rest)
  BY <1>6, <1>8, <1>9, <1>11, <1>12, <1>13, <1>14 DEF Parts
<1> QED
  BY <1>4, <1>8, <1>9, <1>13, <1>15

(* A rounded number has the bits it was rounded to.                        *)
LEMMA RoundToFits ==
    ASSUME NEW bits \in Nat \ {0}, NEW n \in 0 .. Pow2[MaxPlace], NEW d \in Nat \ {0}
    PROVE  Fits(bits, RoundTo(bits, n, d))
<1>0. PICK e, s, k, rest \in Nat : Parts(bits, n, d, e, s, k, rest)
  BY RoundToParts
<1>1. /\ k < Pow2[bits]
      /\ RoundTo(bits, n, d) =
            (IF 2 * rest > s \/ (2 * rest = s /\ k % 2 = 1) THEN k + 1 ELSE k) * Pow2[e]
  BY <1>0 DEF Parts
<1> DEFINE up == 2 * rest > s \/ (2 * rest = s /\ k % 2 = 1)
           m == IF up THEN k + 1 ELSE k
<1>2. RoundTo(bits, n, d) = m * Pow2[e]
  BY <1>1
<1>3. Pow2[bits] \in Nat
  BY Pow2Positive
<1> HIDE DEF up
<1>4. m \in 0 .. Pow2[bits]
  BY <1>1, <1>3
<1> HIDE DEF m
<1> QED
  BY <1>1, <1>2, <1>4, FitsScaled

(* It is at least every number of so many bits that was not larger ...     *)
LEMMA RoundToAtLeast ==
    ASSUME NEW bits \in Nat \ {0}, NEW n \in 0 .. Pow2[MaxPlace], NEW d \in Nat \ {0},
           NEW y \in Nat, OnPlaces(bits, y), d * y =< n
    PROVE  y =< RoundTo(bits, n, d)
<1>0. PICK e, s, k, rest \in Nat : Parts(bits, n, d, e, s, k, rest)
  BY RoundToParts
<1>1. /\ s = d * Pow2[e] /\ s # 0
      /\ rest < s /\ n = s * k + rest
      /\ k < Pow2[bits] /\ (e > 0 => k >= Pow2[bits - 1])
      /\ RoundTo(bits, n, d) =
            (IF 2 * rest > s \/ (2 * rest = s /\ k % 2 = 1) THEN k + 1 ELSE k) * Pow2[e]
  BY <1>0 DEF Parts
<1> DEFINE p == Pow2[e]
           up == 2 * rest > s \/ (2 * rest = s /\ k % 2 = 1)
<1>2. p \in Nat /\ p > 0 /\ n \in Nat /\ Pow2[bits - 1] \in Nat
  BY <1>1, Pow2Positive, Sizes
<1>3. RoundTo(bits, n, d) >= k * p /\ RoundTo(bits, n, d) \in Nat /\ k * p \in Nat
  <2>1. k * p \in Nat /\ (k + 1) * p = k * p + p
    BY <1>1, <1>2
  <2> HIDE DEF up
  <2>2. RoundTo(bits, n, d) = IF up THEN (k + 1) * p ELSE k * p
    BY <1>1 DEF up
  <2> HIDE DEF p
  <2> QED
    BY <1>2, <2>1, <2>2
<1>4. ASSUME NEW z \in Nat, y = z * p PROVE y =< k * p
  <2>1. d * y = s * z
    BY <1>1, <1>2, <1>4
  <2>2. s * (k + 1) = s * k + s /\ s * k \in Nat /\ s * z \in Nat
    BY <1>1
  <2>3. s * z < s * (k + 1)
    BY <1>1, <1>2, <2>1, <2>2
  <2>4. z < k + 1
    BY <1>1, <2>3, ProductOrder
  <2>5. p * z =< p * k
    BY <1>2, <2>4, MultMonotonic
  <2> HIDE DEF p
  <2> QED
    BY <1>2, <1>4, <2>5
<1>5. CASE e = 0
  <2>1. p = 1 /\ y = y * p
    BY <1>5, Pow2Def
  <2> QED
    BY <1>2, <1>3, <1>4, <2>1
<1>6. CASE e > 0 /\ y =< Pow2[bits + e - 1]
  <2>1. (bits - 1) + e = bits + e - 1 /\ bits - 1 \in Nat
    BY <1>1
  <2>2. Pow2[bits + e - 1] = Pow2[bits - 1] * p
    BY <1>1, <2>1, Pow2Sum
  <2>3. p * Pow2[bits - 1] =< p * k
    BY <1>1, <1>2, <1>6, MultMonotonic
  <2> HIDE DEF p
  <2>4. Pow2[bits - 1] * p =< k * p /\ Pow2[bits - 1] * p \in Nat
    BY <1>2, <2>3
  <2> QED
    BY <1>3, <1>6, <2>2, <2>4
<1>7. CASE e > 0 /\ y > Pow2[bits + e - 1]
  <2>1. PICK z \in Nat : y = z * p
    BY <1>1, <1>7 DEF OnPlaces
  <2>2. y =< k * p
    BY <1>4, <2>1
  <2> QED
    BY <1>3, <2>2
<1>8. bits + e - 1 \in Nat /\ Pow2[bits + e - 1] \in Nat
  BY <1>1, Pow2Positive
<1> QED
  BY <1>1, <1>5, <1>6, <1>7, <1>8

(* ... and at most every one that was not smaller.                         *)
LEMMA RoundToAtMost ==
    ASSUME NEW bits \in Nat \ {0}, NEW n \in 0 .. Pow2[MaxPlace], NEW d \in Nat \ {0},
           NEW y \in Nat, OnPlaces(bits, y), n =< d * y
    PROVE  RoundTo(bits, n, d) =< y
<1>0. PICK e, s, k, rest \in Nat : Parts(bits, n, d, e, s, k, rest)
  BY RoundToParts
<1>1. /\ s = d * Pow2[e] /\ s # 0
      /\ rest < s /\ n = s * k + rest
      /\ k < Pow2[bits] /\ (e > 0 => k >= Pow2[bits - 1])
      /\ RoundTo(bits, n, d) =
            (IF 2 * rest > s \/ (2 * rest = s /\ k % 2 = 1) THEN k + 1 ELSE k) * Pow2[e]
  BY <1>0 DEF Parts
<1> DEFINE p == Pow2[e]
           up == 2 * rest > s \/ (2 * rest = s /\ k % 2 = 1)
<1>2. p \in Nat /\ p > 0 /\ n \in Nat /\ Pow2[bits - 1] \in Nat
  BY <1>1, Pow2Positive, Sizes
<1>3. RoundTo(bits, n, d) = IF up THEN (k + 1) * p ELSE k * p
  BY <1>1
<1>4. up => rest > 0
  BY <1>1
<1> HIDE DEF up, p
<1>5. ASSUME NEW z \in Nat, y = z * p PROVE RoundTo(bits, n, d) =< y
  <2>1. d * y = s * z /\ s * z \in Nat /\ s * k \in Nat
    BY <1>1, <1>2, <1>5 DEF p
  <2>2. CASE up
    <3>1. s * k < s * z
      BY <1>1, <1>2, <1>4, <2>1, <2>2
    <3>2. k < z
      BY <1>1, <3>1, ProductOrder
    <3>3. p * (k + 1) =< p * z
      BY <1>1, <1>2, <3>2, MultMonotonic
    <3>4. p * (k + 1) = (k + 1) * p /\ p * z = z * p
      BY <1>1, <1>2
    <3> QED
      BY <1>3, <1>5, <2>2, <3>3, <3>4
  <2>3. CASE ~up
    <3>1. s * k < s * (z + 1)
      <4>1. s * (z + 1) = s * z + s
        <5>1. \A a, b \in Nat : a * (b + 1) = a * b + a
          OBVIOUS
        <5> QED
          BY <1>5, <5>1
      <4> QED
        BY <1>1, <1>2, <2>1, <4>1
    <3>2. k < z + 1
      BY <1>1, <3>1, ProductOrder
    <3>3. p * k =< p * z
      BY <1>1, <1>2, <3>2, MultMonotonic
    <3>4. p * k = k * p /\ p * z = z * p
      BY <1>1, <1>2
    <3> QED
      BY <1>3, <1>5, <2>3, <3>3, <3>4
  <2> QED
    BY <2>2, <2>3
<1>6. CASE e = 0
  <2>1. p = 1 /\ y = y * p
    BY <1>6, Pow2Def DEF p
  <2> QED
    BY <1>5, <2>1
<1>7. CASE e > 0
  <2>1. (bits - 1) + e = bits + e - 1 /\ bits - 1 \in Nat
    BY <1>1
  <2>2. Pow2[bits + e - 1] = Pow2[bits - 1] * p
    BY <1>1, <2>1, Pow2Sum DEF p
  <2>3. Pow2[bits - 1] * p \in Nat /\ d * (Pow2[bits - 1] * p) = s * Pow2[bits - 1]
    BY <1>1, <1>2 DEF p
  <2>4. s * Pow2[bits - 1] =< s * k
    BY <1>1, <1>2, <1>7, MultMonotonic
  <2>5. s * k =< n /\ s * k \in Nat /\ d * y \in Nat
    BY <1>1
  <2>6. d * (Pow2[bits - 1] * p) < d * (y + 1)
    <3>1. d * (y + 1) = d * y + d
      OBVIOUS
    <3> QED
      BY <1>1, <1>2, <2>3, <2>4, <2>5, <3>1
  <2>7. Pow2[bits - 1] * p < y + 1
    BY <2>3, <2>6, ProductOrder
  <2>8. CASE y = Pow2[bits - 1] * p
    BY <1>2, <1>5, <2>8
  <2>9. CASE y > Pow2[bits - 1] * p
    <3>1. \E z \in Nat : y = z * Pow2[e]
      BY <1>1, <1>7, <2>2, <2>9 DEF OnPlaces
    <3> QED
      BY <1>5, <3>1 DEF p
  <2> QED
    BY <2>3, <2>7, <2>8, <2>9
<1> QED
  BY <1>1, <1>6, <1>7

(* Rounding is symmetric about zero.                                       *)
LEMMA RoundToSigned ==
    ASSUME NEW bits, NEW n \in Int, NEW d \in Int \ {0}
    PROVE  RoundTo(bits, n, d) =
              IF SignsDiffer(n, d) THEN -RoundTo(bits, Magnitude(n), Magnitude(d))
              ELSE RoundTo(bits, Magnitude(n), Magnitude(d))
<1>1. Magnitude(n) \in Nat /\ Magnitude(d) \in Nat
  BY MagnitudeFact
<1>2. /\ Magnitude(Magnitude(n)) = Magnitude(n) /\ Magnitude(Magnitude(d)) = Magnitude(d)
      /\ ~SignsDiffer(Magnitude(n), Magnitude(d))
  BY <1>1 DEF Magnitude, SignsDiffer
<1> QED
  BY <1>2, Zenon DEF RoundTo

(* What has the bits is not changed.                                       *)
LEMMA RoundToExact ==
    ASSUME NEW bits \in Nat \ {0}, NEW n \in Int, Magnitude(n) =< Pow2[MaxPlace],
           OnPlaces(bits, Magnitude(n))
    PROVE  RoundTo(bits, n, 1) = n
<1>1. Magnitude(n) \in Nat /\ n = (IF n < 0 THEN -Magnitude(n) ELSE Magnitude(n)) /\ Magnitude(1) = 1
  BY DEF Magnitude
<1> DEFINE m == Magnitude(n)
<1> HIDE DEF m
<1>2. m \in Nat /\ m \in 0 .. Pow2[MaxPlace] /\ OnPlaces(bits, m) /\ 1 \in Nat \ {0}
  BY <1>1, Sizes, Pow2Positive DEF m
<1>3. 1 * m = m
  BY <1>2
<1>4. m =< RoundTo(bits, m, 1)
  BY <1>2, <1>3, RoundToAtLeast
<1>5. RoundTo(bits, m, 1) =< m
  BY <1>2, <1>3, RoundToAtMost
<1>6. RoundTo(bits, m, 1) \in Nat
  BY <1>2, RoundToFits, FitsOnPlaces
<1>7. RoundTo(bits, m, 1) = m
  BY <1>2, <1>4, <1>5, <1>6
<1>8. RoundTo(bits, n, 1) = IF SignsDiffer(n, 1) THEN -RoundTo(bits, m, 1) ELSE RoundTo(bits, m, 1)
  BY <1>1, RoundToSigned DEF m
<1>9. SignsDiffer(n, 1) <=> n < 0
  BY DEF SignsDiffer
<1> QED
  BY <1>1, <1>7, <1>8, <1>9 DEF m

(* Every number met is below the largest the places allow for.             *)
LEMMA InRange ==
    ASSUME NEW i \in Nat, i =< MaxPlace, NEW x \in Nat, x =< Pow2[i]
    PROVE  x \in 0 .. Pow2[MaxPlace]
<1>1. Pow2[i] =< Pow2[MaxPlace] /\ Pow2[i] \in Nat /\ Pow2[MaxPlace] \in Nat
  BY Sizes, Pow2Grows, Pow2Positive
<1> QED
  BY <1>1

(* A whole number of units that fits in a word of W + 1 bits.              *)
LEMMA UnitsInRange ==
    ASSUME NEW x \in Nat, NEW c \in Nat, c =< 2 * Pow2[W], x =< c * Unit
    PROVE  x \in 0 .. Pow2[MaxPlace]
<1>1. Pow2[W] \in Nat /\ Pow2[W + 1] = 2 * Pow2[W] /\ W + 1 \in Nat
  <2>1. W \in Nat /\ W + 1 \in Nat /\ W + 1 # 0 /\ (W + 1) - 1 = W
    BY Sizes
  <2> QED
    BY <2>1, Pow2Def
<1>2. Unit * c =< Unit * (2 * Pow2[W]) /\ Unit \in Nat
  BY <1>1, Sizes, MultMonotonic
<1>3. DoubleBits + 1 \in Nat /\ Pow2[(W + 1) + (DoubleBits + 1)] = Pow2[W + 1] * Unit
  <2>1. DoubleBits + 1 \in Nat
    BY Sizes
  <2> QED
    BY <1>1, <2>1, Pow2Sum DEF Unit
<1>4. (W + 1) + (DoubleBits + 1) \in Nat /\ (W + 1) + (DoubleBits + 1) =< MaxPlace
  BY Sizes
<1>5. c * Unit = Unit * c /\ (2 * Pow2[W]) * Unit = Unit * (2 * Pow2[W]) /\ c * Unit \in Nat
  BY <1>1, <1>2
<1>6. (2 * Pow2[W]) * Unit \in Nat
  BY <1>1, <1>2
<1>7. x =< Pow2[(W + 1) + (DoubleBits + 1)]
  BY <1>1, <1>2, <1>3, <1>5, <1>6
<1> QED
  BY <1>4, <1>7, InRange

------------------------------------------------------------------------------
(* Conversion of floating-point numbers                                    *)

(* Rounding to the nearest whole number is adding one half.                *)
LEMMA RoundedHalf ==
    ASSUME NEW q \in Nat
    PROVE  Rounded(q, Unit) = (q + Pow2[DoubleBits]) \div Unit /\ Rounded(q, Unit) \in Nat
<1> DEFINE P == Pow2[DoubleBits]
           c == q \div Unit
           r == q % Unit
           up == IF 2 * r >= Unit THEN 1 ELSE 0
<1>1. P \in Nat /\ Unit = 2 * P /\ Unit \in Nat \ {0} /\ Magnitude(q) = q /\ ~(q < 0)
  BY Sizes DEF Magnitude
<1>2. Rounded(q, Unit) = c + up
  <2>1. LET z == (Magnitude(q) \div Unit) + (IF 2 * (Magnitude(q) % Unit) >= Unit THEN 1 ELSE 0)
        IN  Rounded(q, Unit) = IF q < 0 THEN -z ELSE z
    BY <1>1, RoundedFact
  <2> QED
    BY <1>1, <2>1
<1>3. c \in Nat /\ r \in 0 .. Unit - 1 /\ q = Unit * c + r
  <2>1. c \in Nat
    BY <1>1, QuotientBound
  <2>2. q \in Int
    OBVIOUS
  <2>3. r \in 0 .. Unit - 1 /\ q = Unit * c + r
    BY <1>1, <2>2, Divided, Zenon
  <2> QED
    BY <2>1, <2>3, Zenon
<1> HIDE DEF P, c, r
<1>4. q + P = Unit * (c + up) + (r + P - Unit * up) /\ r + P - Unit * up \in 0 .. Unit - 1
  <2>1. Unit * (c + up) = Unit * c + Unit * up
    BY <1>1, <1>3
  <2>2. Unit * c \in Nat
    BY <1>1, <1>3
  <2>3. Unit * up = IF 2 * r >= Unit THEN Unit ELSE 0
    BY <1>1, <1>3
  <2> HIDE DEF up
  <2> QED
    BY <1>1, <1>3, <2>1, <2>2, <2>3
<1>5. q + P \in Int /\ c + up \in Nat /\ c + up \in Int
  BY <1>1, <1>3
<1> HIDE DEF up
<1>6. (q + P) \div Unit = c + up
  BY <1>1, <1>4, <1>5, DividedOnce
<1> QED
  BY <1>2, <1>5, <1>6 DEF P

(* One half added to the largest double below one half is one.             *)
LEMMA BelowHalf == RoundTo(DoubleBits, Unit - 1, 1) = Unit
<1> DEFINE P == Pow2[DoubleBits]
           n == Unit - 1
<1>1. /\ P \in Nat /\ P >= 8 /\ Unit = 2 * P /\ n \in Nat /\ DoubleBits \in Nat \ {0} /\ 1 \in Nat \ {0}
      /\ DoubleBits - 1 \in Nat
  BY Sizes
<1>2. n \in 0 .. Pow2[MaxPlace]
  <2>1. 1 =< 2 * Pow2[W] /\ n =< 1 * Unit
    BY <1>1, Sizes, Pow2Positive
  <2> QED
    BY <1>1, <2>1, UnitsInRange
<1>3. PICK e, s, k, rest \in Nat : Parts(DoubleBits, n, 1, e, s, k, rest)
  BY <1>1, <1>2, RoundToParts
<1>4. /\ s = 1 * Pow2[e] /\ s # 0 /\ rest < s /\ n = s * k + rest
      /\ k < P /\ (e > 0 => k >= Pow2[DoubleBits - 1])
      /\ RoundTo(DoubleBits, n, 1) =
            (IF 2 * rest > s \/ (2 * rest = s /\ k % 2 = 1) THEN k + 1 ELSE k) * Pow2[e]
  BY <1>3 DEF Parts
<1>5. Pow2[0] = 1 /\ Pow2[1] = 2 /\ Pow2[2] = 4
  <2>1. Pow2[0] = 1 /\ Pow2[1] = 2 * Pow2[0] /\ Pow2[2] = 2 * Pow2[1]
    BY Pow2Def
  <2> QED
    BY <2>1
<1>6. PICK h \in Nat : P = 2 * h
  BY Sizes
<1>7. P = 2 * Pow2[DoubleBits - 1] /\ Pow2[DoubleBits - 1] \in Nat
  BY <1>1, Pow2Def
<1>8. e # 0
  <2> SUFFICES ASSUME e = 0 PROVE FALSE
    OBVIOUS
  <2>1. s = 1
    BY <1>4, <1>5
  <2>2. n = k
    BY <1>4, <2>1
  <2> QED
    BY <1>1, <1>4, <2>2
<1>9. Pow2[e] \in Nat /\ s = Pow2[e]
  BY <1>4, Pow2Positive
<1>10. s < 4
  <2> SUFFICES ASSUME s >= 4 PROVE FALSE
    BY <1>4
  <2>1. Pow2[DoubleBits - 1] * 4 =< Pow2[DoubleBits - 1] * s
    BY <1>7, MultMonotonic
  <2>2. s * Pow2[DoubleBits - 1] =< s * k
    BY <1>4, <1>7, <1>8, MultMonotonic
  <2>3. s * Pow2[DoubleBits - 1] = Pow2[DoubleBits - 1] * s /\ s * Pow2[DoubleBits - 1] \in Nat /\ s * k \in Nat
    BY <1>7
  <2>4. 2 * P =< s * k
    BY <1>1, <1>7, <2>1, <2>2, <2>3
  <2> QED
    BY <1>1, <1>4, <2>3, <2>4
<1>11. e = 1
  <2>1. e < 2
    BY <1>5, <1>9, <1>10, Pow2Less
  <2> QED
    BY <1>8, <2>1
<1>12. s = 2 /\ Pow2[e] = 2
  BY <1>5, <1>9, <1>11
<1> HIDE DEF P, n
<1>13. n = 2 * k + rest /\ rest < 2 /\ n = 2 * P - 1
  BY <1>1, <1>4, <1>12 DEF n
<1>14. rest = 1 /\ k = P - 1 /\ k = 2 * (h - 1) + 1
  BY <1>1, <1>6, <1>13
<1>15. k % 2 = 1
  BY <1>14
<1>16. RoundTo(DoubleBits, n, 1) = (k + 1) * 2
  BY <1>4, <1>12, <1>14, <1>15
<1> QED
  BY <1>1, <1>14, <1>16 DEF n

(* A sum with one half that is past a half lies on the places of the       *)
(* summand.                                                                *)
LEMMA PastHalf ==
    ASSUME W < DoubleBits, NEW n \in Nat \ {0}, n < Pow2[W], NEW r \in Nat, r > Pow2[DoubleBits], r < Unit,
           NEW q \in Nat, OnPlaces(DoubleBits, q), q + Pow2[DoubleBits] = Unit * n + r
    PROVE  OnPlaces(DoubleBits, q + Pow2[DoubleBits])
<1> DEFINE P == Pow2[DoubleBits]
<1>1. P \in Nat /\ P >= 8 /\ Unit = 2 * P /\ Unit \in Nat \ {0} /\ DoubleBits \in Nat /\ W \in Nat /\ Unit * n \in Nat
  BY Sizes
<1>2. q > Unit * n
  BY <1>1
<1>3. ASSUME NEW e \in Nat \ {0}, q + P > Pow2[DoubleBits + e - 1]
      PROVE  \E z \in Nat : q + P = z * Pow2[e]
  <2>1. CASE e = 1
    <3>1. Pow2[DoubleBits + e - 1] = P /\ Pow2[e] = 2
      <4>1. Pow2[0] = 1 /\ Pow2[1] = 2 * Pow2[0]
        BY Pow2Def
      <4> QED
        BY <1>1, <2>1, <4>1
    <3>2. Unit * 1 =< Unit * n
      BY <1>1, MultMonotonic
    <3>3. q > P
      BY <1>1, <1>2, <3>2
    <3>4. PICK z \in Nat : q = z * Pow2[e]
      BY <3>1, <3>3 DEF OnPlaces
    <3>5. PICK h \in Nat : P = 2 * h
      BY Sizes
    <3>6. q + P = (z + h) * Pow2[e] /\ z + h \in Nat
      BY <3>1, <3>4, <3>5
    <3> QED
      BY <3>6
  <2>2. CASE e # 1
    <3>1. e - 2 \in Nat /\ DoubleBits + 1 \in Nat /\ (DoubleBits + 1) + (e - 2) = DoubleBits + e - 1
      BY <1>1, <2>2
    <3>2. Pow2[DoubleBits + e - 1] = Unit * Pow2[e - 2] /\ Pow2[e - 2] \in Nat
      <4>1. Pow2[(DoubleBits + 1) + (e - 2)] = Unit * Pow2[e - 2]
        BY <3>1, Pow2Sum DEF Unit
      <4> QED
        BY <3>1, <4>1, Pow2Positive
    <3>3. Unit * Pow2[e - 2] < Unit * (n + 1)
      <4>1. Unit * (n + 1) = Unit * n + Unit
        BY <1>1
      <4>2. Unit * Pow2[e - 2] \in Nat
        BY <1>1, <3>2
      <4> QED
        BY <1>1, <1>3, <3>2, <4>1, <4>2
    <3>4. Pow2[e - 2] < n + 1
      BY <1>1, <3>2, <3>3, ProductOrder
    <3>5. Unit * Pow2[e - 2] =< Unit * n
      BY <1>1, <3>2, <3>4, MultMonotonic
    <3>6. q > Pow2[DoubleBits + e - 1]
      <4>1. Unit * Pow2[e - 2] \in Nat
        BY <1>1, <3>2
      <4> QED
        BY <1>1, <1>2, <3>2, <3>5, <4>1
    <3>7. PICK z \in Nat : q = z * Pow2[e]
      BY <3>6 DEF OnPlaces
    <3>8. Pow2[e - 2] < Pow2[W] /\ Pow2[W] \in Nat
      BY <1>1, <3>2, <3>4, Pow2Positive
    <3>9. e - 2 < W
      BY <1>1, <3>1, <3>8, Pow2Less
    <3>10. e =< DoubleBits /\ DoubleBits - e \in Nat
      BY <1>1, <3>9
    <3>11. P = Pow2[e] * Pow2[DoubleBits - e] /\ Pow2[e] \in Nat /\ Pow2[DoubleBits - e] \in Nat
      BY <1>1, <3>10, Pow2Grows, Pow2Positive
    <3>12. \A x, y, p \in Nat : x * p + p * y = (x + y) * p /\ x + y \in Nat
      OBVIOUS
    <3>13. q + P = (z + Pow2[DoubleBits - e]) * Pow2[e] /\ z + Pow2[DoubleBits - e] \in Nat
      BY <3>7, <3>11, <3>12
    <3> QED
      BY <3>13
  <2> QED
    BY <2>1, <2>2
<1> QED
  BY <1>3 DEF OnPlaces

(* The sum with one half, rounded and cut, is the nearest whole number.    *)
LEMMA HalfAdded ==
    ASSUME W < DoubleBits, NEW L \in Nat, L < Pow2[W],
           NEW q \in Nat \ {0}, q =< L * Unit, OnPlaces(DoubleBits, q)
    PROVE  /\ RoundTo(DoubleBits, q + Pow2[DoubleBits], 1) \div Unit = Nearest(q)
           /\ RoundTo(DoubleBits, q + Pow2[DoubleBits], 1) \in Nat
           /\ Nearest(q) \in 0 .. L
<1> DEFINE P == Pow2[DoubleBits]
           T == q + P
           n == T \div Unit
           r == T % Unit
           R == RoundTo(DoubleBits, T, 1)
<1>1. /\ P \in Nat /\ P >= 8 /\ Unit = 2 * P /\ Unit \in Nat \ {0} /\ DoubleBits \in Nat \ {0} /\ W \in Nat
      /\ Unit \div 2 = P /\ T \in Nat /\ Pow2[W] \in Nat /\ L * Unit \in Nat /\ 1 \in Nat \ {0} /\ q \in Nat
  BY Sizes, Pow2Positive
<1>2. 2 * Pow2[W] =< P
  <2>1. W + 1 \in Nat /\ W + 1 # 0 /\ (W + 1) - 1 = W /\ W + 1 =< DoubleBits
    BY <1>1
  <2>2. Pow2[W + 1] = 2 * Pow2[W] /\ Pow2[W + 1] =< P
    BY <1>1, <2>1, Pow2Def, Pow2Grows
  <2> QED
    BY <2>2
<1>3. L >= 1
  <2> SUFFICES ASSUME L = 0 PROVE FALSE
    OBVIOUS
  <2> QED
    BY <1>1
<1>4. Magnitude(q) = q /\ ~(q < 0)
  BY <1>1 DEF Magnitude
<1>5. Rounded(q, Unit) = n /\ n \in Nat
  BY <1>1, RoundedHalf
<1>6. r \in 0 .. Unit - 1 /\ T = Unit * n + r
  <2>1. T \in Int
    BY <1>1
  <2> QED
    BY <1>1, <2>1, Divided, Zenon
<1>7. T \in 0 .. Pow2[MaxPlace]
  <2>1. (L + 1) * Unit = L * Unit + Unit
    <3>1. \A a, b \in Nat : (a + 1) * b = a * b + b
      OBVIOUS
    <3> QED
      BY <1>1, <3>1
  <2>2. L + 1 =< 2 * Pow2[W] /\ L + 1 \in Nat
    BY <1>1
  <2>3. T =< (L + 1) * Unit
    BY <1>1, <2>1
  <2> HIDE DEF T
  <2> QED
    BY <1>1, <2>2, <2>3, UnitsInRange
<1>8. R \in Nat
  BY <1>1, <1>7, RoundToFits, FitsOnPlaces
<1> HIDE DEF R, r, n
<1>9. n =< L
  <2>1. Unit * n < Unit * (L + 1)
    <3>1. Unit * (L + 1) = L * Unit + Unit /\ Unit * n \in Nat
      BY <1>1, <1>5
    <3> QED
      BY <1>1, <1>5, <1>6, <3>1
  <2>2. n < L + 1
    BY <1>1, <1>5, <2>1, ProductOrder
  <2> QED
    BY <1>5, <2>2
<1>10. CASE q = P - 1
  <2>1. T = Unit - 1
    BY <1>1, <1>10
  <2>2. R = Unit
    BY <2>1, BelowHalf DEF R
  <2>3. Unit = Unit * 1 + 0
    BY <1>1
  <2>4. R \div Unit = 1
    BY <1>1, <2>2, <2>3, DividedOnce
  <2>5. Nearest(q) = 1
    BY <1>1, <1>4, <1>10 DEF Nearest
  <2> QED
    BY <1>3, <1>8, <2>4, <2>5 DEF R
<1>11. CASE q # P - 1
  <2>1. Nearest(q) = n
    BY <1>1, <1>4, <1>5, <1>11 DEF Nearest
  <2>2. Unit * n =< R
    <3>1. n \in 0 .. P
      BY <1>1, <1>2, <1>5, <1>9
    <3>2. DoubleBits + 1 \in Nat
      BY <1>1
    <3>3. Fits(DoubleBits, n * Unit)
      BY <1>1, <3>1, <3>2, FitsScaled DEF Unit
    <3>4. n * Unit \in Nat /\ OnPlaces(DoubleBits, n * Unit)
      BY <1>1, <3>3, FitsOnPlaces
    <3>5. 1 * (n * Unit) =< T /\ n * Unit = Unit * n
      BY <1>1, <1>5, <1>6, <3>4
    <3>6. n * Unit =< R
      BY <1>1, <1>7, <3>4, <3>5, RoundToAtLeast DEF R
    <3> QED
      BY <3>5, <3>6
  <2>3. \E y \in Nat : OnPlaces(DoubleBits, y) /\ T =< y /\ y < Unit * n + Unit
    <3>1. CASE n = 0
      <4> DEFINE h == (T + 1) \div 2
      <4>1. T < 2 * P /\ T # 2 * P - 1
        <5>1. Unit * n = 0
          BY <1>1, <3>1
        <5> QED
          BY <1>1, <1>6, <1>11, <5>1
      <4>2. h \in Nat /\ (h * 2 = T \/ h * 2 = T + 1)
        BY <1>1
      <4>3. h \in 0 .. P /\ h * 2 < Unit /\ T =< h * 2 /\ h * 2 \in Nat
        BY <1>1, <4>1, <4>2
      <4> HIDE DEF h
      <4>4. Pow2[1] = 2
        <5>1. Pow2[0] = 1 /\ Pow2[1] = 2 * Pow2[0]
          BY Pow2Def
        <5> QED
          BY <5>1
      <4>5. Fits(DoubleBits, h * 2)
        BY <1>1, <4>3, <4>4, FitsScaled
      <4>6. OnPlaces(DoubleBits, h * 2)
        BY <1>1, <4>5, FitsOnPlaces
      <4>7. Unit * n + Unit = Unit
        BY <1>1, <3>1
      <4> QED
        BY <4>3, <4>6, <4>7
    <3>2. CASE n # 0 /\ r =< P
      <4>1. 2 * n + 1 \in 0 .. P
        BY <1>1, <1>2, <1>5, <1>9
      <4>2. Fits(DoubleBits, (2 * n + 1) * P)
        BY <1>1, <4>1, FitsScaled
      <4>3. (2 * n + 1) * P = Unit * n + P /\ Unit * n \in Nat
        BY <1>1, <1>5
      <4>4. (2 * n + 1) * P \in Nat /\ OnPlaces(DoubleBits, (2 * n + 1) * P)
        BY <1>1, <4>2, FitsOnPlaces
      <4>5. T =< (2 * n + 1) * P /\ (2 * n + 1) * P < Unit * n + Unit
        BY <1>1, <1>6, <3>2, <4>3
      <4> QED
        BY <4>4, <4>5
    <3>3. CASE n # 0 /\ r > P
      <4>1. r \in Nat /\ r < Unit /\ n \in Nat \ {0} /\ n < Pow2[W] /\ T < Unit * n + Unit
        <5>1. Unit * n \in Nat
          BY <1>1, <1>5
        <5> QED
          BY <1>1, <1>5, <1>6, <1>9, <3>3, <5>1
      <4>2. OnPlaces(DoubleBits, T)
        BY <1>1, <1>6, <3>3, <4>1, PastHalf
      <4> HIDE DEF T
      <4>3. T =< T
        BY <1>1
      <4> QED
        BY <1>1, <4>1, <4>2, <4>3
    <3> QED
      BY <1>1, <1>5, <1>6, <3>1, <3>2, <3>3
  <2>4. PICK y \in Nat : OnPlaces(DoubleBits, y) /\ T =< y /\ y < Unit * n + Unit
    BY <2>3
  <2>5. R =< y
    <3>1. 1 * y = y
      OBVIOUS
    <3> HIDE DEF T
    <3> QED
      BY <1>1, <1>7, <2>4, <3>1, RoundToAtMost DEF R
  <2>6. R = Unit * n + (R - Unit * n) /\ R - Unit * n \in 0 .. Unit - 1
    <3>1. Unit * n \in Nat
      BY <1>1, <1>5
    <3> QED
      BY <1>1, <1>8, <2>2, <2>4, <2>5, <3>1
  <2>7. R \in Int /\ n \in Int
    BY <1>5, <1>8
  <2> DEFINE rest == R - Unit * n
  <2>8. R = Unit * n + rest /\ rest \in 0 .. Unit - 1
    BY <2>6, Zenon
  <2> HIDE DEF rest
  <2>9. R \div Unit = n
    BY <1>1, <2>7, <2>8, DividedOnce
  <2> QED
    BY <1>5, <1>8, <1>9, <2>1, <2>9 DEF R
<1> QED
  BY <1>10, <1>11

LEMMA Limits ==
    /\ MAX + 1 < Pow2[W] /\ UMAX < Pow2[W] /\ Pow2[W] \in Nat
    /\ UMAX = Pow2[W] - 1
<1>1. Modulus = Pow2[W] /\ Modulus = 2 * MAX + 2 /\ UMAX = 2 * MAX + 1 /\ MAX \in Nat /\ MAX >= 1
  BY Widths DEF Modulus
<1> QED
  BY <1>1

LEMMA NearestSigned ==
    ASSUME NEW q \in Int
    PROVE  /\ Nearest(q) \in Int
           /\ Nearest(q) = IF q < 0 THEN -Nearest(Magnitude(q)) ELSE Nearest(Magnitude(q))
           /\ Nearest(Magnitude(q)) \in Nat
<1> DEFINE m == Magnitude(q)
           z == (m \div Unit) + (IF 2 * (m % Unit) >= Unit THEN 1 ELSE 0)
<1>1. m \in Nat /\ Unit \in Nat \ {0} /\ Magnitude(m) = m /\ ~(m < 0) /\ m \in Int /\ m = IF q < 0 THEN -q ELSE q
  BY Sizes DEF Magnitude
<1>2. Rounded(q, Unit) = IF q < 0 THEN -z ELSE z
  BY <1>1, RoundedFact
<1>3. Rounded(m, Unit) = z
  <2> HIDE DEF z
  <2>1. LET y == (Magnitude(m) \div Unit) + (IF 2 * (Magnitude(m) % Unit) >= Unit THEN 1 ELSE 0)
        IN  Rounded(m, Unit) = IF m < 0 THEN -y ELSE y
    <3> HIDE DEF m
    <3> QED
      BY <1>1, RoundedFact
  <2> QED
    BY <1>1, <2>1 DEF z
<1>4. z \in Nat
  <2>1. Rounded(m, Unit) \in Nat
    BY <1>1, RoundedHalf
  <2> QED
    BY <1>3, <2>1
<1> HIDE DEF z, m
<1>5. Nearest(m) = IF m = Unit \div 2 - 1 THEN 1 ELSE z
  BY <1>1, <1>3 DEF Nearest
<1>6. Nearest(q) = IF m = Unit \div 2 - 1 THEN IF q < 0 THEN -1 ELSE 1 ELSE IF q < 0 THEN -z ELSE z
  BY <1>2 DEF Nearest, m
<1> QED
  BY <1>4, <1>5, <1>6 DEF m

LEMMA NearestLarge ==
    ASSUME NEW q \in Nat, NEW c \in Nat \ {0}, c * Unit =< q
    PROVE  Nearest(q) >= c
<1> DEFINE P == Pow2[DoubleBits]
           n == (q + P) \div Unit
<1>1. P \in Nat /\ Unit = 2 * P /\ Unit \in Nat \ {0} /\ Unit \div 2 = P /\ Magnitude(q) = q /\ c \in Nat
  BY Sizes DEF Magnitude
<1>2. Unit * 1 =< Unit * c
  BY <1>1, MultMonotonic
<1>3. Unit * c = c * Unit /\ c * Unit \in Nat
  BY <1>1
<1>4. q # P - 1
  BY <1>1, <1>2, <1>3
<1>5. Nearest(q) = Rounded(q, Unit)
  BY <1>1, <1>4 DEF Nearest
<1>6. Rounded(q, Unit) = n /\ n \in Nat
  BY RoundedHalf
<1>7. (q + P) % Unit \in 0 .. Unit - 1 /\ q + P = Unit * n + ((q + P) % Unit)
  <2>1. q + P \in Int
    BY <1>1
  <2> QED
    BY <1>1, <2>1, Divided, Zenon
<1> DEFINE r == (q + P) % Unit
<1> HIDE DEF r, n
<1>8. Unit * c < Unit * (n + 1)
  <2>1. Unit * (n + 1) = Unit * n + Unit /\ Unit * n \in Nat
    BY <1>1, <1>6
  <2>2. r \in 0 .. Unit - 1 /\ q + P = Unit * n + r
    BY <1>7 DEF r
  <2> QED
    BY <1>1, <1>3, <2>1, <2>2
<1>9. c < n + 1
  BY <1>1, <1>6, <1>8, ProductOrder
<1> QED
  BY <1>1, <1>5, <1>6, <1>9

(* A whole number is its own nearest.                                      *)
LEMMA NearestWhole ==
    ASSUME NEW k \in Int
    PROVE  Nearest(k * Unit) = k /\ k * Unit \in Int /\ Magnitude(k * Unit) = Magnitude(k) * Unit
<1> DEFINE m == Magnitude(k)
           P == Pow2[DoubleBits]
<1>1. P \in Nat /\ P >= 8 /\ Unit = 2 * P /\ Unit \in Nat \ {0} /\ Unit \div 2 = P /\ m \in Nat
  BY Sizes, MagnitudeFact
<1>2. k = (IF k < 0 THEN -m ELSE m) /\ (k = 0 => m = 0)
  BY DEF Magnitude
<1> HIDE DEF m
<1>3. k * Unit \in Int /\ Magnitude(k * Unit) = m * Unit /\ (k * Unit < 0 <=> k < 0) /\ m * Unit \in Nat
  <2>1. m * Unit \in Nat /\ (m > 0 => m * Unit > 0)
    <3>1. m > 0 => Unit * 1 =< Unit * m
      BY <1>1, MultMonotonic
    <3> QED
      BY <1>1, <3>1
  <2>2. (-m) * Unit = -(m * Unit)
    BY <1>1
  <2>3. CASE k < 0
    <3>1. k * Unit = -(m * Unit) /\ m > 0
      BY <1>1, <1>2, <2>2, <2>3
    <3> QED
      BY <2>1, <2>3, <3>1 DEF Magnitude
  <2>4. CASE ~(k < 0)
    <3>1. k * Unit = m * Unit
      BY <1>2, <2>4
    <3> QED
      BY <2>1, <2>4, <3>1 DEF Magnitude
  <2> QED
    BY <2>3, <2>4
<1>4. m * Unit # P - 1
  <2>1. m >= 1 => Unit * 1 =< Unit * m
    BY <1>1, MultMonotonic
  <2>2. Unit * m = m * Unit
    BY <1>1
  <2>3. m = 0 => m * Unit = 0
    BY <1>1
  <2> QED
    BY <1>1, <1>3, <2>1, <2>2, <2>3
<1>5. Rounded(m * Unit, Unit) = m
  <2>1. Rounded(m * Unit, Unit) = (m * Unit + P) \div Unit
    BY <1>3, RoundedHalf
  <2>2. m * Unit + P = Unit * m + P /\ P \in 0 .. Unit - 1 /\ m * Unit + P \in Int /\ m \in Int
    BY <1>1, <1>3
  <2>3. (m * Unit + P) \div Unit = m
    BY <1>1, <2>2, DividedOnce
  <2> QED
    BY <2>1, <2>3
<1>6. Magnitude(m * Unit) = m * Unit
  BY <1>3 DEF Magnitude
<1>7. Nearest(m * Unit) = m
  BY <1>1, <1>3, <1>4, <1>5, <1>6 DEF Nearest
<1>8. Nearest(k * Unit) = IF k < 0 THEN -m ELSE m
  BY <1>3, <1>7, NearestSigned
<1> QED
  BY <1>2, <1>3, <1>8 DEF m

LEMMA CastFact ==
    ASSUME NEW signed \in BOOLEAN, NEW R \in Nat
    PROVE  /\ R \div Unit \in Values(signed) => Cast(signed, R) = {R \div Unit}
           /\ -(R \div Unit) \in Values(signed) => Cast(signed, -R) = {-(R \div Unit)}
<1>1. Unit \in Nat \ {0} /\ Unit \in Nat
  BY Sizes
<1>2. Magnitude(R) = R /\ Magnitude(-R) = R /\ Magnitude(Unit) = Unit /\ ~(R < 0) /\ ~(Unit < 0)
  BY <1>1 DEF Magnitude
<1> DEFINE z == R \div Unit
<1>3. z \in Nat
  BY <1>1, QuotientBound
<1>4. R = 0 => z = 0
  <2>1. R = 0 => R = Unit * 0 + 0
    BY <1>1
  <2> QED
    BY <1>1, <2>1, DividedOnce
<1>5. Quotient(R, Unit) = z
  BY <1>2 DEF Quotient
<1>6. Quotient(-R, Unit) = -z
  <2> HIDE DEF z
  <2>1. Quotient(-R, Unit) = IF (-R < 0) # (Unit < 0) THEN -z ELSE z
    BY <1>2 DEF Quotient, z
  <2> QED
    BY <1>2, <1>3, <1>4, <2>1
<1> HIDE DEF z
<1> QED
  BY <1>5, <1>6, Zenon DEF Cast, z

(* Where the significand holds the class, a conversion gives the nearest   *)
(* value.                                                                  *)
LEMMA FromFloatFact ==
    ASSUME NEW signed \in BOOLEAN, NEW bits \in {SingleBits, DoubleBits}, W < bits,
           NEW q \in Int, Fits(bits, Magnitude(q))
    PROVE  FromFloat(signed, bits, q) = {Clamp(signed, Nearest(q))}
<1> DEFINE lo == IF signed THEN MIN ELSE 0
           hi == IF signed THEN MAX ELSE UMAX
           P == Pow2[DoubleBits]
           m == Magnitude(q)
           R == RoundTo(DoubleBits, m + P, 1)
<1>1. /\ bits \in Nat \ {0} /\ bits =< DoubleBits /\ DoubleBits \in Nat \ {0} /\ W \in Nat /\ W < DoubleBits
      /\ Unit \div 2 = P /\ P \in Nat /\ Unit \in Nat \ {0} /\ Unit \in Nat
  BY Sizes
<1>2. /\ lo \in Int /\ lo =< 0 /\ hi \in Nat /\ hi >= 1 /\ hi < Pow2[W] /\ -lo < Pow2[W] /\ -lo \in Nat
      /\ Pow2[W] \in Nat /\ Values(signed) = lo .. hi
  BY Widths, Limits DEF Values
<1>3. Clamp(signed, Nearest(q)) = IF Nearest(q) < lo THEN lo ELSE IF Nearest(q) > hi THEN hi ELSE Nearest(q)
  BY DEF Clamp
<1>4. FromFloat(signed, bits, q) =
        IF q > 0
        THEN IF q > RoundTo(bits, hi * Unit, 1) THEN {hi} ELSE Cast(signed, RoundTo(DoubleBits, q + P, 1))
        ELSE IF q < 0
        THEN IF q < RoundTo(bits, lo * Unit, 1) THEN {lo} ELSE Cast(signed, RoundTo(DoubleBits, q - P, 1))
        ELSE {0}
  BY <1>1, Zenon DEF FromFloat
<1> HIDE DEF lo, hi, P
<1>5. ASSUME NEW c \in Int, Magnitude(c) < Pow2[W] PROVE RoundTo(bits, c * Unit, 1) = c * Unit
  <2>1. Magnitude(c) \in Nat /\ Magnitude(c * Unit) = Magnitude(c) * Unit /\ c * Unit \in Int
    BY MagnitudeFact, NearestWhole
  <2>2. Pow2[W] =< Pow2[bits] /\ Pow2[bits] \in Nat
    BY <1>1, Pow2Grows, Pow2Positive
  <2>3. Magnitude(c) \in 0 .. Pow2[bits] /\ DoubleBits + 1 \in Nat
    BY <1>1, <1>2, <1>5, <2>1, <2>2
  <2>4. Fits(bits, Magnitude(c) * Unit)
    BY <1>1, <2>3, FitsScaled DEF Unit
  <2>5. OnPlaces(bits, Magnitude(c) * Unit) /\ Magnitude(c) * Unit \in Nat
    BY <1>1, <2>4, FitsOnPlaces
  <2>6. Magnitude(c) =< 2 * Pow2[W]
    BY <1>2, <1>5, <2>1
  <2>7. Magnitude(c) * Unit =< Magnitude(c) * Unit
    BY <2>5
  <2>8. Magnitude(c) * Unit \in 0 .. Pow2[MaxPlace]
    BY <2>1, <2>5, <2>6, <2>7, UnitsInRange
  <2>9. Magnitude(c * Unit) =< Pow2[MaxPlace]
    BY <2>1, <2>8
  <2> QED
    BY <1>1, <2>1, <2>5, <2>9, RoundToExact
<1>6. RoundTo(bits, hi * Unit, 1) = hi * Unit /\ RoundTo(bits, lo * Unit, 1) = lo * Unit
  <2>1. Magnitude(hi) = hi /\ Magnitude(lo) = -lo /\ hi \in Int
    BY <1>2 DEF Magnitude
  <2> QED
    BY <1>2, <1>5, <2>1
<1>7. hi * Unit \in Nat /\ lo * Unit = -((-lo) * Unit) /\ (-lo) * Unit \in Nat
  BY <1>1, <1>2
<1>8. m \in Nat /\ m = (IF q < 0 THEN -q ELSE q) /\ OnPlaces(DoubleBits, m)
  <2>1. Fits(DoubleBits, m)
    BY <1>1, FitsMore
  <2>2. OnPlaces(DoubleBits, m)
    BY <1>1, <2>1, FitsOnPlaces
  <2> QED
    BY <2>2 DEF Magnitude
<1>9. Nearest(q) = (IF q < 0 THEN -Nearest(m) ELSE Nearest(m)) /\ Nearest(m) \in Nat
  BY NearestSigned
<1>10. ASSUME NEW L \in Nat, L < Pow2[W], m # 0, m =< L * Unit
       PROVE  R \div Unit = Nearest(m) /\ R \in Nat /\ Nearest(m) \in 0 .. L
  <2> HIDE DEF m
  <2>1. m \in Nat \ {0}
    BY <1>8, <1>10
  <2> QED
    BY <1>1, <1>8, <1>10, <2>1, HalfAdded DEF P
<1>11. CASE q > 0
  <2>1. m = q /\ m # 0
    BY <1>8, <1>11
  <2>2. CASE q > hi * Unit
    <3>1. FromFloat(signed, bits, q) = {hi}
      BY <1>4, <1>6, <1>11, <2>2
    <3>2. hi \in Nat \ {0} /\ hi * Unit =< q /\ q \in Nat
      BY <1>2, <1>7, <1>11, <2>2
    <3>3. Nearest(q) >= hi /\ Nearest(q) \in Int
      BY <3>2, NearestLarge, NearestSigned
    <3>4. Clamp(signed, Nearest(q)) = hi
      BY <1>2, <1>3, <3>3
    <3> QED
      BY <3>1, <3>4
  <2>3. CASE ~(q > hi * Unit)
    <3>1. FromFloat(signed, bits, q) = Cast(signed, R)
      BY <1>4, <1>6, <1>11, <2>1, <2>3
    <3>2. R \div Unit = Nearest(m) /\ R \in Nat /\ Nearest(m) \in 0 .. hi
      BY <1>2, <1>7, <1>10, <2>1, <2>3
    <3>3. R \div Unit \in Values(signed)
      BY <1>2, <3>2
    <3>4. Cast(signed, R) = {R \div Unit}
      BY <3>2, <3>3, CastFact
    <3>5. Clamp(signed, Nearest(q)) = Nearest(m)
      BY <1>2, <1>3, <2>1, <3>2
    <3> QED
      BY <3>1, <3>2, <3>4, <3>5
  <2> QED
    BY <2>2, <2>3
<1>12. CASE q < 0
  <2>1. m = -q /\ m # 0 /\ m \in Nat
    BY <1>8, <1>12
  <2>2. CASE q < lo * Unit
    <3>1. FromFloat(signed, bits, q) = {lo}
      BY <1>4, <1>6, <1>12, <2>2
    <3>2. -lo # 0 => Nearest(m) >= -lo
      <4> SUFFICES ASSUME -lo # 0 PROVE Nearest(m) >= -lo
        OBVIOUS
      <4>1. -lo \in Nat \ {0} /\ (-lo) * Unit =< m
        BY <1>2, <1>7, <2>1, <2>2
      <4> HIDE DEF m
      <4> QED
        BY <2>1, <4>1, NearestLarge
    <3>3. Nearest(q) = -Nearest(m)
      BY <1>9, <1>12
    <3> HIDE DEF m
    <3>4. Clamp(signed, Nearest(q)) = lo
      BY <1>2, <1>3, <1>9, <3>2, <3>3
    <3> QED
      BY <3>1, <3>4
  <2>3. CASE ~(q < lo * Unit)
    <3>1. q - P = -(m + P) /\ m + P \in Nat /\ m + P # 0 /\ q - P < 0 /\ q - P \in Int
      BY <1>1, <2>1
    <3>2. RoundTo(DoubleBits, q - P, 1) = -R
      <4>1. Magnitude(q - P) = m + P /\ Magnitude(1) = 1 /\ SignsDiffer(q - P, 1) /\ 1 \in Int \ {0}
        BY <3>1 DEF Magnitude, SignsDiffer
      <4> HIDE DEF m
      <4> QED
        BY <3>1, <4>1, RoundToSigned
    <3>3. FromFloat(signed, bits, q) = Cast(signed, -R)
      <4> HIDE DEF R, m
      <4> QED
        BY <1>4, <1>6, <1>12, <2>3, <3>2
    <3>4. R \div Unit = Nearest(m) /\ R \in Nat /\ Nearest(m) \in 0 .. -lo
      <4>1. m =< (-lo) * Unit
        BY <1>7, <2>1, <2>3
      <4> HIDE DEF m
      <4> QED
        BY <1>2, <1>10, <2>1, <4>1
    <3>5. Nearest(q) = -Nearest(m)
      BY <1>9, <1>12
    <3> HIDE DEF R, m
    <3>6. -(R \div Unit) \in Values(signed)
      BY <1>2, <3>4
    <3>7. Cast(signed, -R) = {-(R \div Unit)}
      BY <3>4, <3>6, CastFact
    <3>8. Clamp(signed, Nearest(q)) = -Nearest(m)
      BY <1>2, <1>3, <3>4, <3>5
    <3> QED
      BY <3>3, <3>4, <3>7, <3>8
  <2> QED
    BY <2>2, <2>3
<1>13. CASE q = 0
  <2>1. FromFloat(signed, bits, q) = {0}
    BY <1>4, <1>13
  <2>2. q = 0 * Unit
    BY <1>1, <1>13
  <2>3. Nearest(q) = 0
    BY <2>2, NearestWhole
  <2>4. Clamp(signed, Nearest(q)) = 0
    BY <1>2, <1>3, <2>3
  <2> QED
    BY <2>1, <2>4
<1> QED
  BY <1>11, <1>12, <1>13

------------------------------------------------------------------------------
(* Operations with a double scalar                                         *)

(* The magnitudes of the values of a class.                                *)
LEMMA ValueSize ==
    ASSUME NEW signed \in BOOLEAN, NEW a \in Values(signed)
    PROVE  a \in Int /\ Magnitude(a) \in Nat /\ Magnitude(a) < Pow2[W]
BY Widths, Limits DEF Values, Magnitude

(* A whole number that is not too large survives a double.                 *)
LEMMA WholeExact ==
    ASSUME W < DoubleBits, NEW signed \in BOOLEAN, NEW x \in Int, Magnitude(x) =< 2 * Pow2[W]
    PROVE  /\ RoundTo(DoubleBits, x, 1) = x
           /\ RoundTo(DoubleBits, x * Unit, 1) = x * Unit
           /\ FromDouble(signed, x * Unit) = {Clamp(signed, x)}
<1> DEFINE m == Magnitude(x)
<1>1. /\ m \in Nat /\ x * Unit \in Int /\ Magnitude(x * Unit) = m * Unit /\ Nearest(x * Unit) = x
      /\ DoubleBits \in Nat \ {0} /\ DoubleBits + 1 \in Nat /\ W \in Nat /\ Pow2[W] \in Nat
      /\ Unit \in Nat \ {0} /\ m * Unit \in Nat
  BY NearestWhole, MagnitudeFact, Sizes, Limits
<1> HIDE DEF m
<1>2. 2 * Pow2[W] =< Pow2[DoubleBits] /\ Pow2[DoubleBits] \in Nat
  <2>1. W + 1 \in Nat /\ W + 1 # 0 /\ (W + 1) - 1 = W /\ W + 1 =< DoubleBits
    BY <1>1
  <2>2. Pow2[W + 1] = 2 * Pow2[W] /\ Pow2[W + 1] =< Pow2[DoubleBits]
    BY <1>1, <2>1, Pow2Def, Pow2Grows
  <2> QED
    BY <2>2, Sizes
<1>3. m \in 0 .. Pow2[DoubleBits] /\ m =< 2 * Pow2[W]
  BY <1>1, <1>2 DEF m
<1>4. Fits(DoubleBits, m * Unit) /\ Fits(DoubleBits, m)
  BY <1>1, <1>3, FitsScaled DEF Unit
<1>5. OnPlaces(DoubleBits, m * Unit) /\ OnPlaces(DoubleBits, m)
  BY <1>1, <1>4, FitsOnPlaces
<1>6. m * Unit \in 0 .. Pow2[MaxPlace]
  <2>1. m * Unit =< m * Unit
    BY <1>1
  <2> QED
    BY <1>1, <1>3, <2>1, UnitsInRange
<1>7. m =< Pow2[MaxPlace]
  <2>1. m * 1 =< m * Unit
    BY <1>1, MultMonotonic
  <2>2. Pow2[MaxPlace] \in Nat /\ m * 1 = m
    BY <1>1, Sizes, Pow2Positive
  <2> QED
    BY <1>1, <1>6, <2>1, <2>2
<1>8. RoundTo(DoubleBits, x * Unit, 1) = x * Unit
  BY <1>1, <1>5, <1>6, RoundToExact
<1>9. RoundTo(DoubleBits, x, 1) = x
  BY <1>1, <1>5, <1>7, RoundToExact DEF m
<1>10. FromDouble(signed, x * Unit) = {Clamp(signed, x)}
  <2>1. Fits(DoubleBits, Magnitude(x * Unit))
    BY <1>1, <1>4
  <2> QED
    BY <1>1, <2>1, FromFloatFact DEF FromDouble
<1> QED
  BY <1>8, <1>9, <1>10

LEMMA OldFact ==
    ASSUME W < DoubleBits, NEW signed \in BOOLEAN, NEW a \in Values(signed)
    PROVE  AsDouble(a) = a
<1>1. a \in Int /\ Magnitude(a) =< 2 * Pow2[W]
  BY ValueSize, Limits
<1> QED
  BY <1>1, WholeExact DEF AsDouble

LEMMA SumsByDouble ==
    ASSUME W < DoubleBits, NEW signed \in BOOLEAN, NEW a \in Values(signed), NEW b \in Values(signed)
    PROVE  /\ FromDouble(signed, AddDouble(a, b * Unit)) = {Clamp(signed, a + b)}
           /\ FromDouble(signed, SubDouble(a, b * Unit)) = {Clamp(signed, a - b)}
<1>1. a \in Int /\ b \in Int /\ Magnitude(a) < Pow2[W] /\ Magnitude(b) < Pow2[W] /\ Pow2[W] \in Nat
  BY ValueSize, Limits
<1>2. a + b \in Int /\ a - b \in Int /\ Magnitude(a + b) =< 2 * Pow2[W] /\ Magnitude(a - b) =< 2 * Pow2[W]
  BY <1>1 DEF Magnitude
<1>3. a * Unit + b * Unit = (a + b) * Unit /\ a * Unit - b * Unit = (a - b) * Unit
  <2>1. \A x, y, z \in Int : x * z + y * z = (x + y) * z /\ x * z - y * z = (x - y) * z
    OBVIOUS
  <2>2. Unit \in Int
    BY Sizes
  <2> QED
    BY <1>1, <2>1, <2>2
<1> QED
  BY <1>2, <1>3, WholeExact DEF AddDouble, SubDouble

(* Limiting depends only on the side on which a number is too large.       *)
LEMMA ClampBeyond ==
    ASSUME NEW signed \in BOOLEAN, NEW x \in Int, NEW y \in Int,
           Magnitude(x) >= Pow2[W], Magnitude(y) >= Pow2[W], x < 0 <=> y < 0
    PROVE  Clamp(signed, x) = Clamp(signed, y)
BY Widths, Limits DEF Clamp, Magnitude

LEMMA ProductByDouble ==
    ASSUME W < DoubleBits, NEW signed \in BOOLEAN, NEW a \in Values(signed), NEW b \in Values(signed)
    PROVE  FromDouble(signed, MulDouble(a, b * Unit)) = {Clamp(signed, a * b)}
<1> DEFINE p == a * b
           m == Magnitude(p)
           P == Pow2[DoubleBits]
           R == RoundTo(DoubleBits, m * Unit, 1)
<1>1. /\ a \in Int /\ b \in Int /\ Magnitude(a) < Pow2[W] /\ Magnitude(b) < Pow2[W] /\ Pow2[W] \in Nat
      /\ Magnitude(a) \in Nat /\ Magnitude(b) \in Nat
  BY ValueSize, Limits
<1>2. p \in Int /\ m \in Nat /\ m = Magnitude(a) * Magnitude(b)
  <2>1. p \in Int
    BY <1>1
  <2>2. CASE a = 0 \/ b = 0
    BY <1>1, <2>2 DEF Magnitude
  <2>3. CASE a # 0 /\ b # 0
    <3>1. Magnitude(a) # 0 /\ Magnitude(b) # 0
      BY <1>1, <2>3, MagnitudeFact
    <3>2. Magnitude(a) * 1 =< Magnitude(a) * Magnitude(b)
      BY <1>1, <3>1, MultMonotonic
    <3> DEFINE A == Magnitude(a)
               B == Magnitude(b)
    <3>3. a = (IF a < 0 THEN -A ELSE A) /\ b = (IF b < 0 THEN -B ELSE B)
      BY <1>1 DEF Magnitude
    <3>4. A \in Nat /\ B \in Nat /\ A * B \in Nat /\ A * B > 0
      BY <1>1, <3>1, <3>2
    <3> HIDE DEF A, B
    <3>5. (-A) * B = -(A * B) /\ A * (-B) = -(A * B) /\ (-A) * (-B) = A * B
      BY <3>4
    <3>6. p \in {A * B, -(A * B)}
      BY <3>3, <3>5
    <3>7. m = A * B
      <4> HIDE DEF p
      <4> QED
        BY <3>4, <3>6 DEF Magnitude
    <3> QED
      BY <2>1, <3>4, <3>7 DEF A, B
  <2> QED
    BY <2>2, <2>3
<1>3. MulDouble(a, b * Unit) = RoundTo(DoubleBits, p * Unit, 1)
  <2>1. \A x, y, z \in Int : x * (y * z) = (x * y) * z
    OBVIOUS
  <2>2. Unit \in Int
    BY Sizes
  <2>3. a * (b * Unit) = p * Unit
    BY <1>1, <2>1, <2>2
  <2> QED
    BY <2>3 DEF MulDouble
<1>4. /\ Unit \in Nat \ {0} /\ Unit \in Nat /\ P \in Nat /\ DoubleBits \in Nat \ {0} /\ DoubleBits + 1 \in Nat
      /\ W \in Nat /\ 1 \in Nat \ {0} /\ 1 \in Int \ {0}
  BY Sizes
<1>5. m * Unit \in 0 .. Pow2[MaxPlace]
  <2>1. Magnitude(a) * Magnitude(b) =< Magnitude(a) * Pow2[W]
    BY <1>1, MultMonotonic
  <2>2. Pow2[W] * Magnitude(a) =< Pow2[W] * Pow2[W]
    BY <1>1, MultMonotonic
  <2>3. Pow2[W] * Magnitude(a) = Magnitude(a) * Pow2[W] /\ Pow2[W] * Pow2[W] \in Nat /\ Magnitude(a) * Pow2[W] \in Nat
    BY <1>1
  <2>4. Pow2[W + W] = Pow2[W] * Pow2[W] /\ W + W \in Nat
    <3>1. W + W \in Nat
      BY <1>4
    <3>2. Pow2[W + W] = Pow2[W] * Pow2[W]
      BY <1>4, Pow2Sum
    <3> QED
      BY <3>1, <3>2
  <2>5. m =< Pow2[W + W]
    BY <1>2, <2>1, <2>2, <2>3, <2>4
  <2>6. Pow2[(W + W) + (DoubleBits + 1)] = Pow2[W + W] * Unit
    BY <1>4, <2>4, Pow2Sum DEF Unit
  <2> HIDE DEF m
  <2>7. Unit * m =< Unit * Pow2[W + W] /\ Pow2[W + W] \in Nat
    BY <1>2, <1>4, <2>3, <2>4, <2>5, MultMonotonic
  <2>8. m * Unit = Unit * m /\ Unit * Pow2[W + W] = Pow2[W + W] * Unit /\ m * Unit \in Nat
    BY <1>2, <1>4, <2>7
  <2>9. m * Unit =< Pow2[(W + W) + (DoubleBits + 1)]
    BY <2>6, <2>7, <2>8
  <2>10. (W + W) + (DoubleBits + 1) \in Nat /\ (W + W) + (DoubleBits + 1) =< MaxPlace
    BY Sizes
  <2> QED
    BY <2>8, <2>9, <2>10, InRange
<1> HIDE DEF p, m
<1>6. CASE m =< 2 * Pow2[W]
  <2>1. Magnitude(p) =< 2 * Pow2[W]
    BY <1>6 DEF m
  <2>2. RoundTo(DoubleBits, p * Unit, 1) = p * Unit /\ FromDouble(signed, p * Unit) = {Clamp(signed, p)}
    BY <1>2, <2>1, WholeExact
  <2> QED
    BY <1>3, <2>2 DEF p
<1>7. CASE m > 2 * Pow2[W]
  <2>1. R \in Nat /\ Fits(DoubleBits, R)
    BY <1>4, <1>5, RoundToFits, FitsOnPlaces
  <2>2. Pow2[W] * Unit =< R
    <3>1. Pow2[W] \in 0 .. P
      BY <1>1, <1>4, Pow2Grows
    <3>2. Fits(DoubleBits, Pow2[W] * Unit)
      BY <1>4, <3>1, FitsScaled DEF Unit
    <3>3. Pow2[W] * Unit \in Nat /\ OnPlaces(DoubleBits, Pow2[W] * Unit)
      BY <1>1, <1>4, <3>2, FitsOnPlaces
    <3>4. Unit * Pow2[W] =< Unit * m
      BY <1>1, <1>2, <1>4, <1>7, MultMonotonic
    <3>5. 1 * (Pow2[W] * Unit) =< m * Unit
      BY <1>1, <1>2, <1>4, <3>3, <3>4
    <3> QED
      BY <1>4, <1>5, <3>3, <3>5, RoundToAtLeast
  <2>3. Magnitude(p * Unit) = m * Unit /\ p * Unit \in Int
    BY <1>2, NearestWhole DEF m
  <2>4. p * Unit < 0 <=> p < 0
    <3>1. p > 0 => Unit * 1 =< Unit * p
      BY <1>2, <1>4, MultMonotonic
    <3>2. p < 0 => Unit * p =< Unit * (-1)
      BY <1>2, <1>4, MultMonotonic
    <3>3. p * Unit = Unit * p
      BY <1>2, <1>4
    <3> QED
      BY <1>2, <1>4, <2>3, <3>1, <3>2, <3>3
  <2> DEFINE q == IF p < 0 THEN -R ELSE R
  <2>5. RoundTo(DoubleBits, p * Unit, 1) = q
    <3>1. SignsDiffer(p * Unit, 1) <=> p < 0
      BY <2>4 DEF SignsDiffer
    <3>2. Magnitude(1) = 1
      BY DEF Magnitude
    <3>3. RoundTo(DoubleBits, p * Unit, 1) = IF SignsDiffer(p * Unit, 1) THEN -R ELSE R
      BY <1>4, <2>3, <3>2, RoundToSigned
    <3> HIDE DEF R
    <3> QED
      BY <3>1, <3>3
  <2> HIDE DEF R
  <2>6. q \in Int /\ Magnitude(q) = R /\ (q < 0 => p < 0) /\ (p < 0 /\ R > 0 => q < 0)
    BY <2>1 DEF Magnitude
  <2>7. R > 0
    <3>1. Pow2[W] > 0
      BY <1>4, Pow2Positive
    <3>2. Unit * 1 =< Unit * Pow2[W] /\ Unit * Pow2[W] = Pow2[W] * Unit /\ Pow2[W] * Unit \in Nat
      BY <1>1, <1>4, <3>1, MultMonotonic
    <3> QED
      BY <1>4, <2>1, <2>2, <3>2
  <2>8. FromDouble(signed, q) = {Clamp(signed, Nearest(q))}
    BY <1>4, <2>1, <2>6, FromFloatFact DEF FromDouble
  <2>9. Nearest(R) >= Pow2[W] /\ Nearest(R) \in Nat
    <3>1. Pow2[W] \in Nat \ {0}
      BY <1>4, Pow2Positive
    <3>2. Magnitude(R) = R
      BY <2>1 DEF Magnitude
    <3> QED
      BY <2>1, <2>2, <3>1, <3>2, NearestLarge, NearestSigned
  <2>10. Nearest(q) = IF q < 0 THEN -Nearest(R) ELSE Nearest(R)
    BY <2>6, NearestSigned
  <2> HIDE DEF q
  <2>11. Nearest(q) \in Int /\ Magnitude(Nearest(q)) >= Pow2[W] /\ (Nearest(q) < 0 <=> p < 0)
    BY <1>1, <1>2, <2>6, <2>7, <2>9, <2>10, Limits, Pow2Positive DEF Magnitude
  <2>12. Magnitude(p) >= Pow2[W]
    BY <1>1, <1>2, <1>7 DEF m
  <2>13. Clamp(signed, Nearest(q)) = Clamp(signed, p)
    BY <1>2, <2>11, <2>12, ClampBeyond
  <2> QED
    BY <1>3, <2>5, <2>8, <2>13 DEF p
<1> QED
  BY <1>1, <1>2, <1>6, <1>7

(* Rounding moves a number by at most half a step.                         *)
LEMMA HalfStep ==
    ASSUME NEW bits \in Nat \ {0}, NEW n \in 0 .. Pow2[MaxPlace], NEW d \in Nat \ {0}
    PROVE  \E e \in Nat :
              /\ 2 * (d * RoundTo(bits, n, d)) =< 2 * n + d * Pow2[e]
              /\ e > 0 => (d * Pow2[e]) * Pow2[bits - 1] =< n
<1>1. PICK e, s, k, rest \in Nat : Parts(bits, n, d, e, s, k, rest)
  BY RoundToParts
<1> DEFINE up == 2 * rest > s \/ (2 * rest = s /\ k % 2 = 1)
           p == Pow2[e]
<1>2. /\ s = d * p /\ s # 0 /\ rest < s /\ n = s * k + rest
      /\ (e > 0 => k >= Pow2[bits - 1])
      /\ RoundTo(bits, n, d) = (IF up THEN k + 1 ELSE k) * p
  BY <1>1 DEF Parts
<1>3. up => 2 * rest >= s
  OBVIOUS
<1>4. p \in Nat /\ Pow2[bits - 1] \in Nat /\ n \in Nat /\ s * k \in Nat
  <2>1. bits - 1 \in Nat
    OBVIOUS
  <2> QED
    BY <2>1, Sizes, Pow2Positive
<1> HIDE DEF up, p
<1>5. d * RoundTo(bits, n, d) = IF up THEN s * k + s ELSE s * k
  <2>1. \A x \in Nat : d * (x * p) = (d * p) * x
    BY <1>4
  <2>2. s * (k + 1) = s * k + s
    OBVIOUS
  <2>3. k + 1 \in Nat
    OBVIOUS
  <2> QED
    BY <1>2, <2>1, <2>2, <2>3
<1>6. 2 * (d * RoundTo(bits, n, d)) =< 2 * n + s
  BY <1>2, <1>3, <1>4, <1>5
<1>7. e > 0 => s * Pow2[bits - 1] =< n
  <2> SUFFICES ASSUME e > 0 PROVE s * Pow2[bits - 1] =< n
    OBVIOUS
  <2>1. s * Pow2[bits - 1] =< s * k /\ s * Pow2[bits - 1] \in Int
    BY <1>2, <1>4, MultMonotonic
  <2> QED
    BY <1>2, <1>4, <2>1
<1> QED
  BY <1>2, <1>6, <1>7 DEF p

(* A quotient of doubles is not rounded onto a half that it does not       *)
(* reach, as the operands have fewer bits than the result.                 *)
LEMMA QuotientNearest ==
    ASSUME W < DoubleBits, NEW A \in Nat, A < Pow2[W], NEW B \in Nat \ {0}, B < Pow2[W]
    PROVE  LET G == RoundTo(DoubleBits, A * Unit * Unit, B * Unit)
           IN  /\ G \in Nat /\ Fits(DoubleBits, G)
               /\ Nearest(G) = (2 * A + B) \div (2 * B)
<1> DEFINE P == Pow2[DoubleBits]
           n == A * Unit * Unit
           d == B * Unit
           G == RoundTo(DoubleBits, n, d)
           N == (2 * A + B) \div (2 * B)
           H == (2 * N + 1) * P
<1>1. /\ P \in Nat /\ P >= 8 /\ Unit = 2 * P /\ Unit \in Nat \ {0} /\ DoubleBits \in Nat \ {0} /\ W \in Nat
      /\ Unit \div 2 = P /\ Pow2[W] \in Nat /\ DoubleBits + 1 \in Nat /\ DoubleBits - 1 \in Nat
      /\ P = 2 * Pow2[DoubleBits - 1] /\ Pow2[DoubleBits - 1] \in Nat
  <2>1. /\ P \in Nat /\ P >= 8 /\ Unit = 2 * P /\ Unit \in Nat \ {0} /\ DoubleBits \in Nat \ {0} /\ W \in Nat
        /\ Unit \div 2 = P
    BY Sizes
  <2>2. DoubleBits + 1 \in Nat /\ DoubleBits - 1 \in Nat
    BY <2>1
  <2> QED
    BY <2>1, <2>2, Pow2Positive, Pow2Def
<1>2. 2 * Pow2[W] =< P /\ Pow2[W] =< Pow2[DoubleBits - 1]
  <2>1. W =< DoubleBits - 1
    BY <1>1
  <2>2. Pow2[W] =< Pow2[DoubleBits - 1]
    BY <1>1, <2>1, Pow2Grows
  <2> QED
    BY <1>1, <2>2
<1>3. N \in Nat /\ N =< A /\ 2 * N * B =< 2 * A + B /\ 2 * A + B < 2 * N * B + 2 * B
  <2>1. 2 * A + B \in Nat /\ 2 * A + B \in Int /\ 2 * B \in Nat \ {0}
    OBVIOUS
  <2>2. N \in Nat /\ (2 * A + B) % (2 * B) \in 0 .. 2 * B - 1 /\ 2 * A + B = (2 * B) * N + ((2 * A + B) % (2 * B))
    <3>1. N \in Nat
      BY <2>1, QuotientBound
    <3>2. (2 * A + B) % (2 * B) \in 0 .. 2 * B - 1 /\ 2 * A + B = (2 * B) * N + ((2 * A + B) % (2 * B))
      BY <2>1, Divided, Zenon
    <3> QED
      BY <3>1, <3>2, Zenon
  <2> DEFINE r == (2 * A + B) % (2 * B)
  <2> HIDE DEF r, N
  <2>3. (2 * B) * N = 2 * N * B /\ 2 * N * B \in Nat
    BY <2>2
  <2>4. N \in Nat /\ 2 * N * B =< 2 * A + B /\ 2 * A + B < 2 * N * B + 2 * B
    <3>1. r \in 0 .. 2 * B - 1 /\ 2 * A + B = (2 * B) * N + r
      BY <2>2 DEF r
    <3> QED
      BY <2>2, <2>3, <3>1
  <2>5. N =< A
    <3> SUFFICES ASSUME N >= A + 1 PROVE FALSE
      BY <2>4
    <3>1. N >= 1 /\ N \in Nat /\ 2 * N - 1 \in Nat
      BY <2>4
    <3>2. (2 * N - 1) * 1 =< (2 * N - 1) * B
      BY <3>1, <2>4, MultMonotonic
    <3>3. (2 * N - 1) * B = 2 * N * B - B
      BY <2>4
    <3> QED
      BY <2>3, <2>4, <3>2, <3>3
  <2> QED
    BY <2>4, <2>5
<1>4. n \in Nat /\ d \in Nat \ {0} /\ n = (2 * A) * (Unit * P)
  <2>1. n \in Nat /\ d \in Nat
    BY <1>1
  <2>2. Unit * 1 =< Unit * B
    BY <1>1, MultMonotonic
  <2>3. d = Unit * B
    BY <1>1
  <2>4. A * Unit * (2 * P) = (2 * A) * (Unit * P)
    BY <1>1
  <2> QED
    BY <1>1, <2>1, <2>2, <2>3, <2>4
<1>5. n \in 0 .. Pow2[MaxPlace]
  <2>1. W + (DoubleBits + 1) \in Nat /\ Pow2[W + (DoubleBits + 1)] = Pow2[W] * Unit
    <3>1. W + (DoubleBits + 1) \in Nat
      BY <1>1
    <3> QED
      BY <1>1, <3>1, Pow2Sum DEF Unit
  <2>2. Pow2[(W + (DoubleBits + 1)) + (DoubleBits + 1)] = Pow2[W] * Unit * Unit
    BY <1>1, <2>1, Pow2Sum DEF Unit
  <2>3. Unit * Unit \in Nat /\ (Unit * Unit) * A =< (Unit * Unit) * Pow2[W]
    <3>1. Unit * Unit \in Nat
      BY <1>1
    <3>2. A =< Pow2[W]
      BY <1>1
    <3> DEFINE uu == Unit * Unit
    <3> HIDE DEF uu
    <3>3. uu \in Nat
      BY <3>1 DEF uu
    <3>4. uu * A =< uu * Pow2[W]
      BY <1>1, <3>2, <3>3, MultMonotonic
    <3> QED
      BY <3>1, <3>4 DEF uu
  <2>4. \A x, y \in Nat : (y * y) * x = x * y * y
    OBVIOUS
  <2>5. n =< Pow2[(W + (DoubleBits + 1)) + (DoubleBits + 1)]
    BY <1>1, <2>2, <2>3, <2>4
  <2>6. (W + (DoubleBits + 1)) + (DoubleBits + 1) \in Nat /\ (W + (DoubleBits + 1)) + (DoubleBits + 1) =< MaxPlace
    BY <1>1, Sizes
  <2> HIDE DEF n
  <2> QED
    BY <1>4, <2>5, <2>6, InRange
<1> HIDE DEF n, N
<1>6. G \in Nat /\ Fits(DoubleBits, G)
  <2> HIDE DEF d
  <2> QED
    BY <1>1, <1>4, <1>5, RoundToFits, FitsOnPlaces
<1>7. Unit * P \in Nat \ {0} /\ \A x \in Nat : d * (x * P) = (x * B) * (Unit * P)
  <2>1. Unit * 1 =< Unit * P /\ Unit * P \in Nat
    BY <1>1, MultMonotonic
  <2> QED
    BY <1>1, <2>1
<1> DEFINE UP == Unit * P
<1>8. UP \in Nat \ {0} /\ n = (2 * A) * UP /\ \A x \in Nat : d * (x * P) = (x * B) * UP
  BY <1>4, <1>7
<1> HIDE DEF UP, d
<1>9. N # 0 => (2 * N - 1) * P =< G
  <2> SUFFICES ASSUME N # 0 PROVE (2 * N - 1) * P =< G
    OBVIOUS
  <2>1. 2 * N - 1 \in 0 .. P /\ 2 * N - 1 \in Nat
    BY <1>1, <1>2, <1>3
  <2>2. Fits(DoubleBits, (2 * N - 1) * P)
    BY <1>1, <2>1, FitsScaled
  <2>3. (2 * N - 1) * P \in Nat /\ OnPlaces(DoubleBits, (2 * N - 1) * P)
    BY <1>1, <2>2, FitsOnPlaces
  <2>4. (2 * N - 1) * B =< 2 * A /\ (2 * N - 1) * B \in Nat
    <3>1. (2 * N - 1) * B = 2 * N * B - B
      BY <1>3
    <3>2. (2 * N - 1) * B \in Nat /\ 2 * N * B \in Nat
      <4>1. \A x, y \in Nat : x * y \in Nat
        OBVIOUS
      <4>2. 2 * N \in Nat
        BY <1>3
      <4> QED
        BY <2>1, <4>1, <4>2
    <3> QED
      BY <1>3, <3>1, <3>2
  <2>5. UP * ((2 * N - 1) * B) =< UP * (2 * A)
    BY <1>8, <2>4, MultMonotonic
  <2>6. d * ((2 * N - 1) * P) =< n
    BY <1>8, <2>1, <2>4, <2>5
  <2> QED
    BY <1>1, <1>4, <1>5, <2>3, <2>6, RoundToAtLeast
<1>10. G =< H /\ H \in Nat /\ 2 * A + 1 =< (2 * N + 1) * B
  <2>1. 2 * N + 1 \in 0 .. P /\ 2 * N + 1 \in Nat
    BY <1>1, <1>2, <1>3
  <2>2. Fits(DoubleBits, H)
    BY <1>1, <2>1, FitsScaled
  <2>3. H \in Nat /\ OnPlaces(DoubleBits, H)
    BY <1>1, <2>2, FitsOnPlaces
  <2>4. 2 * A + 1 =< (2 * N + 1) * B /\ (2 * N + 1) * B \in Nat
    <3>1. (2 * N + 1) * B = 2 * N * B + B
      BY <1>3
    <3>2. (2 * N + 1) * B \in Nat /\ 2 * N * B \in Nat
      <4>1. \A x, y \in Nat : x * y \in Nat
        OBVIOUS
      <4>2. 2 * N \in Nat
        BY <1>3
      <4> QED
        BY <2>1, <4>1, <4>2
    <3> QED
      BY <1>3, <3>1, <3>2
  <2>5. UP * (2 * A) =< UP * ((2 * N + 1) * B)
    BY <1>8, <2>4, MultMonotonic
  <2>6. n =< d * H
    BY <1>8, <2>1, <2>4, <2>5
  <2>7. G =< H
    BY <1>1, <1>4, <1>5, <2>3, <2>6, RoundToAtMost
  <2> QED
    BY <2>3, <2>4, <2>7
<1>11. G # H
  <2> SUFFICES ASSUME G = H PROVE FALSE
    OBVIOUS
  <2>1. PICK e \in Nat : 2 * (d * G) =< 2 * n + d * Pow2[e] /\ (e > 0 => (d * Pow2[e]) * Pow2[DoubleBits - 1] =< n)
    BY <1>1, <1>4, <1>5, HalfStep
  <2> DEFINE p == Pow2[e]
  <2>2. p \in Nat /\ p > 0
    BY <2>1, Pow2Positive
  <2>3. d = B * Unit
    BY DEF d
  <2> HIDE DEF p
  <2>4. d * p = Unit * (B * p) /\ B * p \in Nat
    BY <1>1, <2>2, <2>3
  <2>5. d * G = ((2 * N + 1) * B) * UP
    BY <1>3, <1>8
  <2>6. UP * (2 * A + 1) =< UP * ((2 * N + 1) * B)
    <3>1. 2 * A + 1 \in Int /\ (2 * N + 1) * B \in Int
      BY <1>3
    <3> QED
      BY <1>8, <1>10, <3>1, MultMonotonic
  <2>7. 2 * UP =< d * p
    <3>1. UP * (2 * A + 1) = (2 * A) * UP + UP /\ (2 * A) * UP \in Nat
      BY <1>8
    <3>2. UP * ((2 * N + 1) * B) = ((2 * N + 1) * B) * UP /\ ((2 * N + 1) * B) * UP \in Nat
      BY <1>3, <1>8
    <3>3. d * p \in Nat
      BY <1>1, <2>4
    <3>4. 2 * (d * G) =< 2 * n + d * p
      BY <2>1 DEF p
    <3> QED
      BY <1>8, <2>5, <2>6, <3>1, <3>2, <3>3, <3>4
  <2>8. 2 * P =< B * p
    <3>1. 2 * UP = Unit * (2 * P)
      BY <1>1 DEF UP
    <3>2. B * p \in Int /\ 2 * P \in Int /\ B * p + 1 \in Int
      BY <1>1, <2>4
    <3>3. Unit * (B * p + 1) = Unit * (B * p) + Unit /\ Unit * (B * p) \in Nat /\ Unit * (2 * P) \in Nat
      BY <1>1, <2>4
    <3>4. Unit * (2 * P) < Unit * (B * p + 1)
      BY <1>1, <2>4, <2>7, <3>1, <3>3
    <3>5. 2 * P < B * p + 1
      BY <1>1, <3>2, <3>4, ProductOrder
    <3> QED
      BY <3>2, <3>5
  <2>9. CASE e = 0
    <3>1. p = 1
      BY <2>9, Pow2Def DEF p
    <3> QED
      BY <1>1, <1>2, <2>8, <3>1
  <2>10. CASE e > 0
    <3> DEFINE Q == Pow2[DoubleBits - 1]
    <3>1. Q \in Nat /\ P = 2 * Q /\ Pow2[W] =< Q
      BY <1>1, <1>2
    <3> HIDE DEF Q
    <3>2. (d * p) * Q =< n
      BY <2>1, <2>10 DEF p, Q
    <3>3. Q * (2 * UP) =< Q * (d * p)
      <4>1. d * p \in Int /\ 2 * UP \in Int
        BY <1>1, <1>8, <2>4
      <4> QED
        BY <2>7, <3>1, <4>1, MultMonotonic
    <3>4. Q * (2 * UP) = UP * P /\ Q * (d * p) = (d * p) * Q /\ Q * (d * p) \in Nat /\ UP * P \in Nat
      BY <1>1, <1>8, <2>4, <3>1
    <3>5. n = UP * (2 * A) /\ UP * (2 * A + 1) = UP * (2 * A) + UP /\ UP * (2 * A) \in Nat
      BY <1>8
    <3>6. UP * P < UP * (2 * A + 1)
      BY <1>8, <3>2, <3>3, <3>4, <3>5
    <3>7. 2 * A + 1 \in Int /\ P \in Int
      BY <1>1
    <3>8. P < 2 * A + 1
      BY <1>8, <3>6, <3>7, ProductOrder
    <3> QED
      BY <1>1, <1>2, <3>8
  <2> QED
    BY <2>1, <2>9, <2>10
<1>12. N = 0 => G =< P - 2
  <2> SUFFICES ASSUME N = 0 PROVE G =< P - 2
    OBVIOUS
  <2>1. P - 2 \in 0 .. P /\ P - 2 \in Nat /\ 0 \in Nat
    BY <1>1
  <2>2. Fits(DoubleBits, P - 2)
    BY <1>1, <2>1, FitsScaled
  <2>3. OnPlaces(DoubleBits, P - 2)
    BY <1>1, <2>2, FitsOnPlaces
  <2>4. 2 * A + 1 =< B
    BY <1>10, <2>1
  <2>5. P * (2 * A + 1) =< P * B
    BY <1>1, <2>4, MultMonotonic
  <2>6. P * (2 * A + 1) = P * (2 * A) + P /\ B * (P - 2) = P * B - 2 * B /\ P * (2 * A) \in Nat /\ P * B \in Nat
    BY <1>1
  <2>7. P * (2 * A) =< B * (P - 2) /\ B * (P - 2) \in Int
    BY <1>1, <1>2, <2>5, <2>6
  <2>8. Unit * (P * (2 * A)) =< Unit * (B * (P - 2))
    BY <1>1, <2>6, <2>7, MultMonotonic
  <2>9. Unit * (P * (2 * A)) = (2 * A) * UP /\ Unit * (B * (P - 2)) = d * (P - 2)
    BY <1>1, <2>1 DEF UP, d
  <2>10. n =< d * (P - 2)
    BY <1>8, <2>8, <2>9
  <2> QED
    BY <1>1, <1>4, <1>5, <2>1, <2>3, <2>10, RoundToAtMost
<1> HIDE DEF G
<1>13. Nearest(G) = N
  <2>1. (2 * N + 1) * P = Unit * N + P /\ Unit * N \in Nat /\ (N # 0 => (2 * N - 1) * P = Unit * N - P)
    BY <1>1, <1>3
  <2>2. G + P = Unit * N + (G + P - Unit * N) /\ G + P - Unit * N \in 0 .. Unit - 1
    <3>1. CASE N = 0
      <4>1. Unit * N = 0
        BY <1>1, <3>1
      <4> QED
        BY <1>1, <1>6, <1>12, <3>1, <4>1
    <3>2. CASE N # 0
      BY <1>1, <1>6, <1>9, <1>10, <1>11, <2>1, <3>2
    <3> QED
      BY <3>1, <3>2
  <2>3. (G + P) \div Unit = N
    <3> DEFINE rest == G + P - Unit * N
    <3>1. G + P = Unit * N + rest /\ rest \in 0 .. Unit - 1
      BY <2>2, Zenon
    <3> HIDE DEF rest
    <3>2. G + P \in Int /\ N \in Int
      BY <1>1, <1>3, <1>6
    <3> QED
      BY <1>1, <3>1, <3>2, DividedOnce
  <2>4. G # P - 1
    <3>1. CASE N = 0
      BY <1>1, <1>6, <1>12, <3>1
    <3>2. CASE N # 0
      <4>1. Unit * 1 =< Unit * N
        BY <1>1, <1>3, <3>2, MultMonotonic
      <4> QED
        BY <1>1, <1>6, <1>9, <2>1, <3>2, <4>1
    <3> QED
      BY <3>1, <3>2
  <2>5. Magnitude(G) = G
    BY <1>6 DEF Magnitude
  <2> QED
    BY <1>1, <1>6, <2>3, <2>4, <2>5, RoundedHalf DEF Nearest
<1> QED
  BY <1>6, <1>13 DEF G, n, d, N

(* Counting in units keeps the sign.                                       *)
LEMMA UnitSign ==
    ASSUME NEW x \in Int
    PROVE  (x * Unit < 0 <=> x < 0) /\ (x * Unit = 0 <=> x = 0) /\ x * Unit \in Int
<1>1. Unit \in Nat \ {0} /\ x * Unit = Unit * x /\ x * Unit \in Int
  BY Sizes
<1>2. x > 0 => Unit * 1 =< Unit * x
  BY <1>1, MultMonotonic
<1>3. x < 0 => Unit * x =< Unit * (-1)
  BY <1>1, MultMonotonic
<1>4. x = 0 => Unit * x = 0
  BY <1>1
<1> QED
  BY <1>1, <1>2, <1>3, <1>4

LEMMA QuotientByDouble ==
    ASSUME W < DoubleBits, NEW signed \in BOOLEAN, NEW a \in Values(signed), NEW b \in Values(signed) \ {0}
    PROVE  FromDouble(signed, DivDouble(a, b * Unit)) =
              {Clamp(signed, Rounded(IF b < 0 THEN -a ELSE a, Magnitude(b)))}
<1> DEFINE A == Magnitude(a)
           B == Magnitude(b)
           n == IF b < 0 THEN -a ELSE a
           G == RoundTo(DoubleBits, A * Unit * Unit, B * Unit)
           q == DivDouble(a, b * Unit)
           z == (A \div B) + (IF 2 * (A % B) >= B THEN 1 ELSE 0)
<1>1. /\ a \in Int /\ b \in Int \ {0} /\ A \in Nat /\ B \in Nat \ {0} /\ A < Pow2[W] /\ B < Pow2[W]
      /\ Unit \in Int
  BY ValueSize, MagnitudeFact, Sizes
<1>2. b * Unit \in Int \ {0} /\ Magnitude(b * Unit) = B * Unit /\ (b * Unit < 0 <=> b < 0) /\ b * Unit # 0
  BY <1>1, UnitSign, NearestWhole
<1>3. a * Unit * Unit \in Int /\ Magnitude(a * Unit * Unit) = A * Unit * Unit /\ (a * Unit * Unit < 0 <=> a < 0)
  <2>1. a * Unit \in Int /\ Magnitude(a * Unit) = A * Unit /\ (a * Unit < 0 <=> a < 0)
    BY <1>1, UnitSign, NearestWhole
  <2> DEFINE x == a * Unit
  <2>2. x \in Int /\ Magnitude(x) = A * Unit /\ (x < 0 <=> a < 0)
    BY <2>1
  <2> HIDE DEF x
  <2>3. x * Unit \in Int /\ Magnitude(x * Unit) = Magnitude(x) * Unit /\ (x * Unit < 0 <=> x < 0)
    BY <2>2, UnitSign, NearestWhole
  <2> QED
    BY <2>2, <2>3 DEF x
<1>4. q = IF SignsDiffer(a, b) THEN -G ELSE G
  <2> DEFINE x == a * Unit * Unit
             y == b * Unit
  <2>1. q = RoundTo(DoubleBits, x, y)
    BY <1>2 DEF DivDouble
  <2>2. SignsDiffer(x, y) <=> SignsDiffer(a, b)
    BY <1>2, <1>3 DEF SignsDiffer
  <2>3. x \in Int /\ y \in Int \ {0} /\ Magnitude(x) = A * Unit * Unit /\ Magnitude(y) = B * Unit
    BY <1>2, <1>3
  <2> HIDE DEF x, y, q
  <2>4. RoundTo(DoubleBits, x, y) =
           IF SignsDiffer(x, y) THEN -RoundTo(DoubleBits, Magnitude(x), Magnitude(y))
           ELSE RoundTo(DoubleBits, Magnitude(x), Magnitude(y))
    BY <2>3, RoundToSigned
  <2> QED
    BY <2>1, <2>2, <2>3, <2>4, Zenon
<1>5. G \in Nat /\ Fits(DoubleBits, G) /\ Nearest(G) = (2 * A + B) \div (2 * B)
  <2> HIDE DEF A, B
  <2> QED
    BY <1>1, QuotientNearest
<1>6. Nearest(G) = z /\ z \in Nat
  <2> HIDE DEF A, B
  <2>1. (2 * A + B) \div (2 * B) = z
    BY <1>1, NearestFact
  <2>2. z \in Nat
    BY <1>1, NearestBound
  <2> QED
    BY <1>5, <2>1, <2>2
<1>7. n \in Int /\ Magnitude(n) = A /\ Rounded(n, B) = IF n < 0 THEN -z ELSE z
  <2>1. n \in Int /\ Magnitude(n) = A
    BY <1>1 DEF Magnitude
  <2> HIDE DEF A, B, n
  <2> QED
    BY <1>1, <2>1, RoundedFact
<1> HIDE DEF G, q
<1>8. q \in Int /\ Magnitude(q) = G
  BY <1>4, <1>5 DEF Magnitude
<1>9. G = 0 => Nearest(G) = 0
  <2>1. 0 * Unit = 0
    BY <1>1
  <2> QED
    BY <2>1, NearestWhole
<1>10. a = 0 => z = 0
  <2> SUFFICES ASSUME a = 0 PROVE z = 0
    OBVIOUS
  <2>1. A = 0
    BY DEF Magnitude
  <2> HIDE DEF A, B
  <2>2. 0 \in Int /\ 0 = B * 0 + 0 /\ 0 \in 0 .. B - 1
    BY <1>1
  <2>3. 0 \div B = 0 /\ 0 % B = 0
    BY <1>1, <2>2, DividedOnce
  <2> QED
    BY <1>1, <2>1, <2>3
<1>11. Nearest(q) = IF q < 0 THEN -Nearest(G) ELSE Nearest(G)
  BY <1>8, NearestSigned
<1> HIDE DEF z
<1>12. Nearest(q) = Rounded(n, B)
  <2>1. CASE a = 0
    <3>1. -z = 0 /\ z = 0
      <4>1. z = 0 /\ z \in Int /\ z >= 0 /\ z =< 0
        BY <1>6, <1>10, <2>1
      <4> QED
        BY <4>1, NegatedZero, Zenon
    <3>2. Nearest(q) = 0
      BY <1>6, <1>11, <3>1, Zenon
    <3>3. Rounded(n, B) = 0
      BY <1>7, <3>1, Zenon
    <3> QED
      BY <3>2, <3>3, Zenon
  <2>2. CASE a # 0
    <3>1. n < 0 <=> SignsDiffer(a, b)
      BY <1>1, <2>2 DEF SignsDiffer
    <3> HIDE DEF n
    <3> QED
      BY <1>4, <1>5, <1>6, <1>7, <1>8, <1>9, <1>11, <3>1
  <2> QED
    BY <2>1, <2>2
<1>13. FromDouble(signed, q) = {Clamp(signed, Nearest(q))}
  <2>1. DoubleBits \in {SingleBits, DoubleBits}
    OBVIOUS
  <2> QED
    BY <1>5, <1>8, <2>1, FromFloatFact DEF FromDouble
<1> QED
  BY <1>12, <1>13 DEF q

(* The remainder of numbers counted in units is that of the numbers.       *)
LEMMA ScaledRemainder ==
    ASSUME NEW a \in Int, NEW b \in Int \ {0}
    PROVE  Remainder(a * Unit, b * Unit) = Remainder(a, b) * Unit /\ Remainder(a, b) \in Int
<1> DEFINE A == Magnitude(a)
           B == Magnitude(b)
<1>1. A \in Nat /\ B \in Nat \ {0} /\ Unit \in Nat \ {0} /\ Remainder(a, b) \in Int
  BY MagnitudeFact, Sizes, ModFact
<1>2. /\ a * Unit \in Int /\ b * Unit \in Int /\ b * Unit # 0
      /\ Magnitude(a * Unit) = A * Unit /\ Magnitude(b * Unit) = B * Unit
      /\ (a * Unit < 0 <=> a < 0) /\ (b * Unit < 0 <=> b < 0)
  BY UnitSign, NearestWhole
<1>3. A * Unit \in Nat /\ B * Unit \in Nat \ {0}
  <2>1. Unit * 1 =< Unit * B /\ B * Unit = Unit * B /\ B * Unit \in Nat /\ A * Unit \in Nat
    BY <1>1, MultMonotonic
  <2> QED
    BY <1>1, <2>1
<1>4. (A * Unit) \div (B * Unit) = A \div B
  <2> DEFINE c == A \div B
             r == A % B
  <2>1. c \in Int /\ r \in 0 .. B - 1 /\ A = B * c + r
    <3> HIDE DEF A, B
    <3> QED
      BY <1>1, Divided
  <2> HIDE DEF A, B, c, r
  <2>2. A * Unit = (B * Unit) * c + r * Unit
    <3>1. \A x, y, v, u \in Int : (x * y + v) * u = (x * u) * y + v * u
      OBVIOUS
    <3>2. A * Unit = (B * c + r) * Unit
      BY <2>1
    <3> QED
      BY <1>1, <2>1, <3>1, <3>2
  <2>3. r * Unit \in 0 .. B * Unit - 1
    <3>1. Unit * (r + 1) =< Unit * B
      BY <1>1, <2>1, MultMonotonic
    <3>2. Unit * (r + 1) = r * Unit + Unit /\ Unit * B = B * Unit /\ r * Unit \in Nat
      BY <1>1, <2>1
    <3> QED
      BY <1>1, <1>3, <3>1, <3>2
  <2> DEFINE x == A * Unit
             y == B * Unit
             v == r * Unit
  <2>4. x \in Int /\ y \in Nat \ {0} /\ v \in 0 .. y - 1 /\ x = y * c + v
    BY <1>3, <2>2, <2>3
  <2> HIDE DEF x, y, v
  <2>5. x \div y = c
    BY <2>1, <2>4, DividedOnce
  <2> QED
    BY <2>5 DEF x, y, c
<1>5. Quotient(a * Unit, b * Unit) = Quotient(a, b)
  <2>1. /\ Quotient(a * Unit, b * Unit) =
             IF (a * Unit < 0) # (b * Unit < 0)
             THEN -(Magnitude(a * Unit) \div Magnitude(b * Unit)) ELSE Magnitude(a * Unit) \div Magnitude(b * Unit)
        /\ Quotient(a, b) = IF (a < 0) # (b < 0) THEN -(A \div B) ELSE A \div B
    BY Zenon DEF Quotient
  <2>2. Magnitude(a * Unit) \div Magnitude(b * Unit) = A \div B
    BY <1>2, <1>4, Zenon
  <2>3. ((a * Unit < 0) # (b * Unit < 0)) <=> ((a < 0) # (b < 0))
    BY <1>2
  <2>4. CASE (a < 0) # (b < 0)
    BY <2>1, <2>2, <2>3, <2>4, Zenon
  <2>5. CASE ~((a < 0) # (b < 0))
    BY <2>1, <2>2, <2>3, <2>5, Zenon
  <2> QED
    BY <2>4, <2>5
<1>6. Quotient(a, b) \in Int
  <2>1. A \div B \in Int
    <3> HIDE DEF A, B
    <3> QED
      BY <1>1, Divided
  <2> QED
    BY <2>1 DEF Quotient
<1> DEFINE c == Quotient(a, b)
<1>7. Remainder(a, b) = a - b * c /\ Remainder(a * Unit, b * Unit) = a * Unit - (b * Unit) * c
  BY <1>5, Zenon DEF Remainder
<1>8. c \in Int
  BY <1>6
<1> HIDE DEF c
<1>9. a * Unit - (b * Unit) * c = (a - b * c) * Unit
  <2>1. \A x, y, v, u \in Int : x * u - (y * u) * v = (x - y * v) * u
    OBVIOUS
  <2> QED
    BY <1>1, <1>8, <2>1
<1> QED
  BY <1>1, <1>7, <1>9

LEMMA RemaindersByDouble ==
    ASSUME W < DoubleBits, NEW signed \in BOOLEAN, NEW a \in Values(signed), NEW b \in Values(signed)
    PROVE  LET rem == IF b = 0 THEN 0 ELSE Remainder(a, b)
               mod == IF b = 0 THEN a ELSE a - b * ((IF b < 0 THEN -a ELSE a) \div Magnitude(b))
           IN  FromDouble(signed, RemDouble(a, b * Unit)) = {rem} /\ FromDouble(signed, ModDouble(a, b * Unit)) = {mod}
<1>1. /\ a \in Int /\ b \in Int /\ Magnitude(a) < Pow2[W] /\ Magnitude(b) < Pow2[W] /\ Pow2[W] \in Nat
      /\ Unit \in Int /\ b * Unit \in Int /\ (b * Unit = 0 <=> b = 0) /\ (b * Unit < 0 <=> b < 0)
  BY ValueSize, Limits, UnitSign, Sizes
<1>2. ASSUME NEW x \in Values(signed) PROVE FromDouble(signed, x * Unit) = {x}
  <2>1. x \in Int /\ Magnitude(x) =< 2 * Pow2[W]
    BY ValueSize, Limits
  <2>2. FromDouble(signed, x * Unit) = {Clamp(signed, x)}
    BY <2>1, WholeExact
  <2>3. Clamp(signed, x) = x
    BY Widths DEF Clamp, Values
  <2> QED
    BY <2>2, <2>3
<1>3. CASE b = 0
  <2>1. 0 \in Values(signed) /\ 0 * Unit = 0
    BY <1>1, Widths DEF Values
  <2>2. RemDouble(a, b * Unit) = 0 * Unit /\ ModDouble(a, b * Unit) = a * Unit
    BY <1>1, <1>3, <2>1, Zenon DEF RemDouble, ModDouble
  <2>3. FromDouble(signed, 0 * Unit) = {0} /\ FromDouble(signed, a * Unit) = {a}
    BY <1>2, <2>1
  <2> QED
    BY <1>3, <2>2, <2>3, Zenon
<1>4. CASE b # 0
  <2> DEFINE rem == Remainder(a, b)
             mod == a - b * ((IF b < 0 THEN -a ELSE a) \div Magnitude(b))
  <2>1. /\ rem \in Int /\ Magnitude(rem) < Magnitude(b)
        /\ rem < 0 => a < 0
        /\ a < 0 => rem =< 0
        /\ mod = IF rem # 0 /\ SignsDiffer(rem, b) THEN rem + b ELSE rem
    BY <1>1, <1>4, ModFact
  <2>2. RemDouble(a, b * Unit) = rem * Unit
    <3>1. Remainder(a * Unit, b * Unit) = rem * Unit
      BY <1>1, <1>4, ScaledRemainder
    <3> HIDE DEF rem
    <3> QED
      BY <1>1, <1>4, <3>1, Zenon DEF RemDouble
  <2> HIDE DEF rem, mod
  <2>3. rem \in Values(signed)
    BY <1>1, <1>4, <2>1, Widths DEF Values, Magnitude
  <2>4. mod \in Values(signed)
    BY <1>1, <1>4, <2>1, <2>3, Widths DEF Values, Magnitude, SignsDiffer
  <2>5. rem + b \in Int /\ Magnitude(rem + b) =< 2 * Pow2[W] /\ rem * Unit + b * Unit = (rem + b) * Unit
    <3>1. rem + b \in Int /\ Magnitude(rem + b) =< 2 * Pow2[W]
      BY <1>1, <2>1 DEF Magnitude
    <3>2. \A x, y, v \in Int : x * v + y * v = (x + y) * v
      OBVIOUS
    <3> QED
      BY <1>1, <2>1, <3>1, <3>2
  <2>6. RoundTo(DoubleBits, rem * Unit + b * Unit, 1) = (rem + b) * Unit
    BY <2>5, WholeExact
  <2>7. (rem * Unit = 0 <=> rem = 0) /\ (SignsDiffer(rem * Unit, b * Unit) <=> SignsDiffer(rem, b))
    BY <1>1, <2>1, UnitSign DEF SignsDiffer
  <2>8. ModDouble(a, b * Unit) = mod * Unit
    <3>1. ModDouble(a, b * Unit) =
             IF rem * Unit # 0 /\ SignsDiffer(rem * Unit, b * Unit)
             THEN RoundTo(DoubleBits, rem * Unit + b * Unit, 1) ELSE rem * Unit
      BY <1>1, <1>4, <2>2, Zenon DEF ModDouble
    <3>2. CASE rem # 0 /\ SignsDiffer(rem, b)
      BY <2>1, <2>6, <2>7, <3>1, <3>2, Zenon
    <3>3. CASE ~(rem # 0 /\ SignsDiffer(rem, b))
      BY <2>1, <2>7, <3>1, <3>3, Zenon
    <3> QED
      BY <3>2, <3>3, Zenon
  <2>9. FromDouble(signed, rem * Unit) = {rem} /\ FromDouble(signed, mod * Unit) = {mod}
    BY <1>2, <2>3, <2>4
  <2> QED
    BY <1>4, <2>2, <2>8, <2>9, Zenon DEF rem, mod
<1> QED
  BY <1>3, <1>4

(* What a conversion gives is of the class, whatever the cast does.        *)
LEMMA FromFloatType ==
    ASSUME NEW signed \in BOOLEAN, NEW bits, NEW q
    PROVE  FromFloat(signed, bits, q) \subseteq Values(signed)
<1>1. \A r : Cast(signed, r) \subseteq Values(signed)
  BY DEF Cast
<1>2. (IF signed THEN MIN ELSE 0) \in Values(signed) /\ (IF signed THEN MAX ELSE UMAX) \in Values(signed) /\ 0 \in Values(signed)
  BY Widths DEF Values
<1> QED
  BY <1>1, <1>2, Zenon DEF FromFloat

(* The inputs at the limits are integers and floating-point numbers.       *)
LEMMA InputsFact ==
    /\ WideValues \in SUBSET Int
    /\ \A q \in Doubles : q \in Int /\ Fits(DoubleBits, Magnitude(q))
    /\ \A q \in Singles : q \in Int /\ Fits(SingleBits, Magnitude(q))
<1>1. MAX \in Int /\ MIN \in Int /\ UMAX \in Int
  BY Widths
<1>2. 2 * W - 1 \in Nat
  BY IntOpsAssumption
<1>3. Pow2[2 * W - 1] \in Int
  BY <1>2, Pow2Positive
<1>4. WideValues \in SUBSET Int
  <2>1. /\ -Pow2[2 * W - 1] \in Int /\ Pow2[2 * W - 1] - 1 \in Int
        /\ MIN - 1 \in Int /\ MAX + 1 \in Int /\ UMAX + 1 \in Int /\ -1 \in Int /\ 0 \in Int
    BY <1>1, <1>3
  <2> QED
    BY <1>1, <2>1, Zenon DEF WideValues
<1>5. ASSUME NEW bits \in Nat \ {0}, NEW q \in Floats(bits)
      PROVE  q \in Int /\ Fits(bits, Magnitude(q))
  <2> DEFINE gaps == {0} \cup {Pow2[i] : i \in 0 .. DoubleBits} \cup {-Pow2[i] : i \in 0 .. DoubleBits}
             P == Pow2[DoubleBits]
  <2>1. PICK c \in {MIN, -1, 0, 1, MAX, UMAX}, h \in 0 .. 2, g \in gaps :
           q = c * Unit + h * (Unit \div 2) + g /\ RoundTo(bits, q, 1) = q
    BY DEF Floats
  <2>2. Unit \in Nat \ {0} /\ Unit = 2 * P /\ Unit \div 2 = P /\ P \in Nat /\ DoubleBits \in Nat
    BY Sizes
  <2>3. g \in Int /\ Magnitude(g) =< P
    <3>1. ASSUME NEW i \in 0 .. DoubleBits PROVE Pow2[i] \in Nat /\ Pow2[i] =< P
      <4>1. i \in Nat /\ i =< DoubleBits
        BY <2>2
      <4> QED
        BY <2>2, <4>1, Pow2Grows, Pow2Positive
    <3> HIDE DEF P
    <3> QED
      BY <2>2, <3>1 DEF Magnitude
  <2>4. c \in Int /\ Magnitude(c) \in Nat /\ Magnitude(c) + 1 =< Pow2[W] /\ Pow2[W] \in Nat
    BY Widths, Limits DEF Magnitude
  <2>5. c * Unit \in Int /\ Magnitude(c * Unit) = Magnitude(c) * Unit /\ Magnitude(c) * Unit \in Nat
    BY <2>2, <2>4, NearestWhole
  <2>6. h * P \in Nat /\ h * P =< Unit
    <3>1. h \in {0, 1, 2}
      BY <2>1
    <3> HIDE DEF P
    <3> QED
      BY <2>2, <3>1
  <2> HIDE DEF gaps, P
  <2>7. q \in Int /\ Magnitude(q) \in Nat /\ Magnitude(q) =< (Magnitude(c) + 2) * Unit
    <3>1. q = c * Unit + h * P + g
      BY <2>1, <2>2
    <3>2. (Magnitude(c) + 2) * Unit = Magnitude(c) * Unit + 2 * Unit
      BY <2>2, <2>4
    <3> QED
      BY <2>2, <2>3, <2>5, <2>6, <3>1, <3>2 DEF Magnitude
  <2>8. Magnitude(q) \in 0 .. Pow2[MaxPlace]
    <3>1. Magnitude(c) + 2 \in Nat /\ Magnitude(c) + 2 =< 2 * Pow2[W]
      BY <2>4, Widths, Limits
    <3> QED
      BY <2>7, <3>1, UnitsInRange
  <2> DEFINE R == RoundTo(bits, Magnitude(q), 1)
  <2>9. Fits(bits, R)
    BY <2>8, RoundToFits
  <2>10. R \in Nat
    BY <2>9, FitsOnPlaces
  <2>11. q = IF SignsDiffer(q, 1) THEN -R ELSE R
    <3>1. 1 \in Int \ {0} /\ Magnitude(1) = 1
      BY DEF Magnitude
    <3> QED
      BY <2>1, <2>7, <3>1, RoundToSigned
  <2> HIDE DEF R
  <2>12. Magnitude(q) = R
    BY <2>7, <2>10, <2>11 DEF Magnitude
  <2> QED
    BY <2>7, <2>9, <2>12
<1> QED
  BY <1>4, <1>5, Sizes DEF Doubles, Singles

(* A single is not the double just below one half.                         *)
LEMMA SinglesNearest ==
    ASSUME NEW q \in Int, Fits(SingleBits, Magnitude(q))
    PROVE  Nearest(q) = Rounded(q, Unit)
<1> DEFINE P == Pow2[DoubleBits]
<1>1. PICK m \in 0 .. Pow2[SingleBits], j \in Nat : Magnitude(q) = m * Pow2[j]
  BY DEF Fits
<1>2. /\ P \in Nat /\ P >= 8 /\ Unit \div 2 = P /\ SingleBits \in Nat /\ DoubleBits \in Nat \ {0}
      /\ SingleBits < DoubleBits /\ \E h \in Nat : P = 2 * h
  BY Sizes
<1>3. Pow2[SingleBits] \in Nat /\ 2 * Pow2[SingleBits] =< P /\ Pow2[DoubleBits - 1] \in Nat
  <2>1. DoubleBits - 1 \in Nat /\ SingleBits =< DoubleBits - 1
    BY <1>2
  <2>2. Pow2[SingleBits] =< Pow2[DoubleBits - 1] /\ P = 2 * Pow2[DoubleBits - 1]
    BY <1>2, <2>1, Pow2Grows, Pow2Def
  <2>3. Pow2[SingleBits] \in Nat /\ Pow2[DoubleBits - 1] \in Nat
    BY <1>2, <2>1, Pow2Positive
  <2> HIDE DEF P
  <2> QED
    BY <2>2, <2>3
<1> HIDE DEF P
<1>4. Magnitude(q) # P - 1
  <2>1. CASE j = 0
    <3>1. Magnitude(q) = m
      BY <1>1, <2>1, Pow2Def
    <3> QED
      BY <1>1, <1>2, <1>3, <3>1
  <2>2. CASE j # 0
    <3>1. j - 1 \in Nat /\ Pow2[j] = 2 * Pow2[j - 1]
      BY <2>2, Pow2Def
    <3>2. Pow2[j - 1] \in Nat /\ m \in Nat
      BY <1>1, <1>3, <3>1, Pow2Positive
    <3>3. Magnitude(q) = 2 * (m * Pow2[j - 1]) /\ m * Pow2[j - 1] \in Nat
      BY <1>1, <3>1, <3>2
    <3> QED
      BY <1>2, <3>3
  <2> QED
    BY <2>1, <2>2
<1> QED
  BY <1>2, <1>4 DEF Nearest

------------------------------------------------------------------------------
(* The element stays in the range of its class                             *)

LEMMA SumsType ==
    /\ \A a, b \in MIN .. MAX : AddInt(a, b) \in MIN .. MAX /\ SubInt(a, b) \in MIN .. MAX
    /\ \A a, b \in 0 .. UMAX : AddUInt(a, b) \in 0 .. UMAX /\ SubUInt(a, b) \in 0 .. UMAX
<1>1. MAX \in Nat /\ MIN \in Int /\ UMAX \in Nat
  BY Widths
<1>2. /\ \A x \in Int : Clamp(TRUE, x) \in MIN .. MAX
      /\ \A x \in Int : Clamp(FALSE, x) \in 0 .. UMAX
  BY ClampFact DEF Values
<1>3. ASSUME NEW a \in MIN .. MAX, NEW b \in MIN .. MAX
      PROVE  AddInt(a, b) \in MIN .. MAX /\ SubInt(a, b) \in MIN .. MAX
  <2>1. a + b \in Int /\ a - b \in Int
    BY <1>1
  <2>2. AddInt(a, b) = Clamp(TRUE, a + b) /\ SubInt(a, b) = Clamp(TRUE, a - b)
    BY AddIntFact, SubIntFact
  <2> QED
    BY <1>2, <2>1, <2>2
<1>4. ASSUME NEW a \in 0 .. UMAX, NEW b \in 0 .. UMAX
      PROVE  AddUInt(a, b) \in 0 .. UMAX /\ SubUInt(a, b) \in 0 .. UMAX
  <2>1. a + b \in Int /\ a - b \in Int
    BY <1>1
  <2>2. AddUInt(a, b) = Clamp(FALSE, a + b) /\ SubUInt(a, b) = Clamp(FALSE, a - b)
    BY UnsignedSumsFact
  <2> QED
    BY <1>2, <2>1, <2>2
<1> QED
  BY <1>3, <1>4

LEMMA MulIntType ==
    ASSUME NEW a \in MIN .. MAX, NEW b \in MIN .. MAX
    PROVE  MulInt(a, b) \in MIN .. MAX
<1>1. a \in Int /\ b \in Int /\ a * b \in Int /\ MAX \in Nat /\ MIN \in Int
  BY Widths
<1>2. MulIntPromoted(a, b) \in MIN .. MAX
  BY <1>1, MulIntPromotedFact, ClampFact DEF Values
<1>3. MulInt64(a, b) \in MIN .. MAX
  <2> DEFINE m == UWrap(AbsInt(a))
             n == UWrap(AbsInt(b))
             p == m * n
             uret == ProductByHalves(m, n)
  <2>1. AbsInt(a) \in Int /\ AbsInt(b) \in Int
    <3>1. AbsInt(a) \in MIN .. MAX /\ AbsInt(b) \in MIN .. MAX
      BY AbsIntFact
    <3> QED
      BY <1>1, <3>1
  <2>2. m \in 0 .. UMAX /\ n \in 0 .. UMAX
    BY <2>1, UWrapFact
  <2> HIDE DEF m, n
  <2>3. p \in Nat
    BY <2>2
  <2>4. uret = IF p > UMAX THEN Modulus ELSE p
    BY <2>2, ProductByHalvesFact
  <2>5. MulInt64(a, b) = IF (a < 0) = (b < 0)
                         THEN IF uret > MAX THEN MAX ELSE uret
                         ELSE IF uret > -MIN THEN MIN ELSE Wrap(-Wrap(uret))
    BY DEF MulInt64, m, n
  <2> HIDE DEF p, uret
  <2>6. MulInt64(a, b) \in {Clamp(TRUE, p), Clamp(TRUE, -p)}
    BY <2>3, <2>4, <2>5, SignedProductFact
  <2>7. Clamp(TRUE, p) \in MIN .. MAX /\ Clamp(TRUE, -p) \in MIN .. MAX
    <3>1. p \in Int /\ -p \in Int /\ TRUE \in BOOLEAN
      BY <2>3
    <3>2. Clamp(TRUE, p) \in Values(TRUE) /\ Clamp(TRUE, -p) \in Values(TRUE)
      BY <3>1, ClampFact
    <3> QED
      BY <3>2 DEF Values
  <2> QED
    BY <2>6, <2>7, Zenon
<1> QED
  BY <1>2, <1>3 DEF MulInt

LEMMA DivIntType ==
    ASSUME NEW a \in MIN .. MAX, NEW b \in MIN .. MAX
    PROVE  DivInt(a, b) \in MIN .. MAX
<1>1. MAX \in Nat /\ MIN = -MAX - 1 /\ MIN \in Int
  BY Widths
<1>2. CASE b = 0
  BY <1>1, <1>2 DEF DivInt
<1>3. CASE b # 0
  <2> DEFINE x == Rounded(IF b < 0 THEN -a ELSE a, Magnitude(b))
  <2>1. DivInt(a, b) = Clamp(TRUE, x)
    BY <1>3, DivIntFact
  <2>2. x \in Int
    <3> DEFINE n == IF b < 0 THEN -a ELSE a
               d == Magnitude(b)
               z == (Magnitude(n) \div d) + (IF 2 * (Magnitude(n) % d) >= d THEN 1 ELSE 0)
    <3>1. n \in Int /\ d \in Nat \ {0} /\ Magnitude(n) \in Nat
      BY <1>1, <1>3, MagnitudeFact
    <3> HIDE DEF n, d
    <3>2. z \in Nat
      BY <3>1, NearestBound
    <3>3. Rounded(n, d) = IF n < 0 THEN -z ELSE z
      BY <3>1, RoundedFact
    <3> HIDE DEF z
    <3>4. Rounded(n, d) \in Int
      BY <3>2, <3>3
    <3> QED
      BY <3>4 DEF n, d
  <2> HIDE DEF x
  <2> QED
    BY <2>1, <2>2, ClampFact DEF Values
<1> QED
  BY <1>2, <1>3

LEMMA RemIntType ==
    ASSUME NEW a \in MIN .. MAX, NEW b \in MIN .. MAX
    PROVE  RemInt(a, b) \in (MIN .. MAX) \cup {Trap} /\ ModInt(a, b) \in (MIN .. MAX) \cup {Trap}
<1>1. MAX \in Nat /\ MIN = -MAX - 1 /\ MIN \in Int /\ a \in Int /\ b \in Int
  BY Widths
<1>2. CASE b = 0
  BY <1>1, <1>2 DEF RemInt, ModInt
<1>3. CASE b # 0
  <2> DEFINE rem == Remainder(a, b)
             B == Magnitude(b)
             r == Magnitude(a) % B
  <2>1. B \in Nat \ {0} /\ B =< MAX + 1 /\ Magnitude(a) \in Int
    BY <1>1, <1>3 DEF Magnitude
  <2>2. rem = IF a < 0 THEN -r ELSE r
    BY <1>1, <1>3, TruncatedFact
  <2>3. r \in 0 .. B - 1
    <3> HIDE DEF B
    <3> QED
      BY <2>1, Divided
  <2> HIDE DEF rem, B, r
  <2>4. rem \in -MAX .. MAX
    BY <1>1, <2>1, <2>2, <2>3
  <2>5. CRemainder(a, b) \in {rem, Trap}
    BY DEF CRemainder, rem
  <2>6. RemInt(a, b) \in {rem, Trap}
    BY <1>3, <2>5 DEF RemInt
  <2>7. ModInt(a, b) \in {0, Trap, rem} \/ (ModInt(a, b) = rem + b /\ SignsDiffer(rem, b))
    BY <1>3, <2>5 DEF ModInt
  <2>8. SignsDiffer(rem, b) => rem + b \in MIN .. MAX
    BY <1>1, <2>4 DEF SignsDiffer
  <2>9. rem \in MIN .. MAX /\ 0 \in MIN .. MAX
    BY <1>1, <2>4
  <2> QED
    BY <2>6, <2>7, <2>8, <2>9
<1> QED
  BY <1>2, <1>3

LEMMA UnsignedType ==
    ASSUME NEW a \in 0 .. UMAX, NEW b \in 0 .. UMAX
    PROVE  /\ MulUInt(a, b) \in 0 .. UMAX /\ DivUInt(a, b) \in 0 .. UMAX
           /\ RemUInt(a, b) \in 0 .. UMAX /\ ModUInt(a, b) \in 0 .. UMAX
<1>1. UMAX \in Nat /\ a \in Nat /\ b \in Nat /\ a * b \in Int
  BY Widths
<1>2. MulUInt(a, b) \in 0 .. UMAX
  <2>1. Clamp(FALSE, a * b) \in 0 .. UMAX
    BY <1>1, ClampFact DEF Values
  <2>2. MulUInt(a, b) = Clamp(FALSE, a * b)
    BY MulUIntFact DEF MulUInt
  <2> QED
    BY <2>1, <2>2
<1>3. CASE b = 0
  BY <1>1, <1>2, <1>3 DEF DivUInt, RemUInt, ModUInt
<1>4. CASE b # 0
  <2>1. a % b \in 0 .. b - 1 /\ b \in Nat \ {0}
    BY <1>1, <1>4, Divided
  <2>2. a % b \in 0 .. UMAX
    <3> DEFINE r == a % b
    <3> HIDE DEF r
    <3>1. r \in 0 .. b - 1 => r \in 0 .. UMAX
      BY <1>1
    <3> QED
      BY <2>1, <3>1 DEF r
  <2> DEFINE z == (a \div b) + (IF 2 * (a % b) >= b THEN 1 ELSE 0)
  <2>3. DivUInt(a, b) = z
    <3>1. a \div b \in Int /\ a % b \in Int
      BY <1>1, <2>1, Divided
    <3> QED
      BY <1>1, <1>4, <3>1 DEF DivUInt
  <2>4. z \in Nat /\ z =< a
    BY <1>1, <2>1, NearestBound
  <2> HIDE DEF z
  <2>5. DivUInt(a, b) \in 0 .. UMAX
    BY <1>1, <2>3, <2>4
  <2> QED
    BY <1>2, <1>4, <2>2, <2>5 DEF RemUInt, ModUInt
<1> QED
  BY <1>3, <1>4

(* The element holds a value of its class.                                 *)
ValueInv == accum \in [signed : BOOLEAN, val : Int] /\ accum.val \in Values(accum.signed)

(* What an operation puts is a value of the class or the trap that is      *)
(* never stored.                                                           *)
LEMMA PutFact ==
    ASSUME ValueInv, NEW v, v \in Values(accum.signed) \cup {Trap}, Put(v)
    PROVE  ValueInv'
<1>1. v \in Values(accum.signed) /\ accum' = [accum EXCEPT !.val = v]
  BY DEF Put
<1>2. v \in Int
  BY <1>1, Widths DEF Values
<1>3. accum'.signed = accum.signed /\ accum'.val = v /\ accum' \in [signed : BOOLEAN, val : Int]
  BY <1>1, <1>2 DEF ValueInv
<1> QED
  BY <1>1, <1>3 DEF ValueInv, Values

LEMMA PutDoubleFact ==
    ASSUME ValueInv, NEW q, PutDouble(q)
    PROVE  ValueInv'
<1>1. accum.signed \in BOOLEAN
  BY DEF ValueInv
<1>2. PICK v \in FromDouble(accum.signed, q) : Put(v)
  BY DEF PutDouble
<1>3. v \in Values(accum.signed)
  BY <1>1, <1>2, FromFloatType DEF FromDouble
<1> QED
  BY <1>2, <1>3, PutFact

(* Every operation keeps the element in the range of its class.            *)
LEMMA ValueStep == ValueInv /\ [Next]_accum => ValueInv'
<1> SUFFICES ASSUME ValueInv, [Next]_accum PROVE ValueInv'
  OBVIOUS
<1> DEFINE a == accum.val
<1>1. /\ MAX \in Nat /\ MIN = -MAX - 1 /\ MIN \in Int /\ UMAX = 2 * MAX + 1
      /\ accum.signed \in BOOLEAN /\ a \in Int /\ a \in Values(accum.signed)
  BY Widths DEF ValueInv
<1>2. ASSUME NEW s, NEW u, accum.signed => s \in (MIN .. MAX) \cup {Trap},
             ~accum.signed => u \in (0 .. UMAX) \cup {Trap},
             Put(OfClass(s, u))
      PROVE  ValueInv'
  <2>1. OfClass(s, u) \in Values(accum.signed) \cup {Trap}
    BY <1>2 DEF OfClass, Values
  <2> QED
    BY <1>2, <2>1, PutFact
<1>3. accum.signed => a \in MIN .. MAX
  BY <1>1 DEF Values
<1>4. ~accum.signed => a \in 0 .. UMAX
  BY <1>1 DEF Values
<1>5. CASE Abs
  <2>1. accum.signed => AbsInt(a) \in MIN .. MAX
    BY <1>3, AbsIntFact
  <2>2. ~accum.signed => AbsUInt(a) \in 0 .. UMAX
    BY <1>4 DEF AbsUInt
  <2> QED
    BY <1>2, <1>5, <2>1, <2>2 DEF Abs
<1>6. CASE Neg
  <2>1. accum.signed => NegInt(a) \in MIN .. MAX
    BY <1>1, <1>3 DEF NegInt
  <2>2. ~accum.signed => NegUInt(a) \in 0 .. UMAX
    BY <1>1 DEF NegUInt
  <2> QED
    BY <1>2, <1>6, <2>1, <2>2 DEF Neg
<1>7. ASSUME NEW in \in Inputs
      PROVE  (accum.signed => in \in MIN .. MAX) /\ (~accum.signed => in \in 0 .. UMAX)
  BY DEF Inputs, Values
<1>8. CASE Add
  <2>1. CASE \E q \in Doubles : PutDouble(AddDouble(Old, q))
    BY <2>1, PutDoubleFact
  <2>2. ASSUME NEW in \in Inputs, Put(OfClass(AddInt(a, in), AddUInt(a, in))) PROVE ValueInv'
    <3>1. accum.signed => AddInt(a, in) \in MIN .. MAX
      BY <1>3, <1>7, SumsType
    <3>2. ~accum.signed => AddUInt(a, in) \in 0 .. UMAX
      BY <1>4, <1>7, SumsType
    <3> QED
      BY <1>2, <2>2, <3>1, <3>2
  <2> QED
    BY <1>8, <2>1, <2>2 DEF Add
<1>9. CASE Sub
  <2>1. CASE \E q \in Doubles : PutDouble(SubDouble(Old, q))
    BY <2>1, PutDoubleFact
  <2>2. ASSUME NEW in \in Inputs, Put(OfClass(SubInt(a, in), SubUInt(a, in))) PROVE ValueInv'
    <3>1. accum.signed => SubInt(a, in) \in MIN .. MAX
      BY <1>3, <1>7, SumsType
    <3>2. ~accum.signed => SubUInt(a, in) \in 0 .. UMAX
      BY <1>4, <1>7, SumsType
    <3> QED
      BY <1>2, <2>2, <3>1, <3>2
  <2> QED
    BY <1>9, <2>1, <2>2 DEF Sub
<1>10. CASE Mul
  <2>1. CASE \E q \in Doubles : PutDouble(MulDouble(Old, q))
    BY <2>1, PutDoubleFact
  <2>2. ASSUME NEW in \in Inputs, Put(OfClass(MulInt(a, in), MulUInt(a, in))) PROVE ValueInv'
    <3>1. accum.signed => MulInt(a, in) \in MIN .. MAX
      BY <1>3, <1>7, MulIntType
    <3>2. ~accum.signed => MulUInt(a, in) \in 0 .. UMAX
      BY <1>4, <1>7, UnsignedType
    <3> QED
      BY <1>2, <2>2, <3>1, <3>2
  <2> QED
    BY <1>10, <2>1, <2>2 DEF Mul
<1>11. CASE Div
  <2>1. CASE \E q \in Doubles : PutDouble(DivDouble(Old, q))
    BY <2>1, PutDoubleFact
  <2>2. ASSUME NEW in \in Inputs, Put(OfClass(DivInt(a, in), DivUInt(a, in))) PROVE ValueInv'
    <3>1. accum.signed => DivInt(a, in) \in MIN .. MAX
      BY <1>3, <1>7, DivIntType
    <3>2. ~accum.signed => DivUInt(a, in) \in 0 .. UMAX
      BY <1>4, <1>7, UnsignedType
    <3> QED
      BY <1>2, <2>2, <3>1, <3>2
  <2> QED
    BY <1>11, <2>1, <2>2 DEF Div
<1>12. CASE Rem
  <2>1. CASE \E q \in Doubles : PutDouble(RemDouble(Old, q))
    BY <2>1, PutDoubleFact
  <2>2. ASSUME NEW in \in Inputs, Put(OfClass(RemInt(a, in), RemUInt(a, in))) PROVE ValueInv'
    <3>1. accum.signed => RemInt(a, in) \in (MIN .. MAX) \cup {Trap}
      BY <1>3, <1>7, RemIntType
    <3>2. ~accum.signed => RemUInt(a, in) \in 0 .. UMAX
      BY <1>4, <1>7, UnsignedType
    <3> QED
      BY <1>2, <2>2, <3>1, <3>2
  <2> QED
    BY <1>12, <2>1, <2>2 DEF Rem
<1>13. CASE Mod
  <2>1. CASE \E q \in Doubles : PutDouble(ModDouble(Old, q))
    BY <2>1, PutDoubleFact
  <2>2. ASSUME NEW in \in Inputs, Put(OfClass(ModInt(a, in), ModUInt(a, in))) PROVE ValueInv'
    <3>1. accum.signed => ModInt(a, in) \in (MIN .. MAX) \cup {Trap}
      BY <1>3, <1>7, RemIntType
    <3>2. ~accum.signed => ModUInt(a, in) \in 0 .. UMAX
      BY <1>4, <1>7, UnsignedType
    <3> QED
      BY <1>2, <2>2, <3>1, <3>2
  <2> QED
    BY <1>13, <2>1, <2>2 DEF Mod
<1>14. Shifts \in SUBSET Nat
  BY IntOpsAssumption DEF Shifts
<1>15. CASE ARS
  <2>1. CASE \E n \in Shifts : PutDouble(ARSDouble(Old, n))
    BY <2>1, PutDoubleFact
  <2>2. ASSUME NEW in \in Shifts, Put(OfClass(ARSInt(a, in), ARSUInt(a, in))) PROVE ValueInv'
    <3>1. accum.signed => ARSInt(a, in) \in MIN .. MAX
      BY <1>1, <1>3, <1>14, ARSFact DEF ARSInt
    <3>2. ~accum.signed => ARSUInt(a, in) \in 0 .. UMAX
      BY <1>1, <1>4, <1>14, ARSFact DEF ARSUInt
    <3> QED
      BY <1>2, <2>2, <3>1, <3>2
  <2> QED
    BY <1>15, <2>1, <2>2 DEF ARS
<1>16. CASE ALS
  <2>1. CASE \E n \in Shifts : PutDouble(ALSDouble(Old, n))
    BY <2>1, PutDoubleFact
  <2>2. ASSUME NEW in \in Shifts, Put(OfClass(ALSInt(a, in), ALSUInt(a, in))) PROVE ValueInv'
    <3>1. ALSInt(a, in) \in MIN .. MAX /\ ALSUInt(a, in) \in 0 .. UMAX
      BY <1>1, <1>14, ALSFact
    <3> QED
      BY <1>2, <2>2, <3>1
  <2> QED
    BY <1>16, <2>1, <2>2 DEF ALS
<1>17. CASE Cpy
  <2>1. CASE \E v \in Values(accum.signed) : Put(v)
    BY <2>1, PutFact
  <2>2. CASE \E v \in Values(~accum.signed) : Put(FromOther(accum.signed, v))
    BY <1>1, <2>2, PutFact, FromOtherFact
  <2>3. CASE \E v \in WideValues : Put(FromWide(accum.signed, v))
    <3>1. PICK v \in WideValues : Put(FromWide(accum.signed, v))
      BY <2>3
    <3>2. v \in Int
      BY InputsFact
    <3>3. FromWide(accum.signed, v) \in Values(accum.signed)
      BY <1>1, <3>2, FromWideFact, ClampFact
    <3> QED
      BY <3>1, <3>3, PutFact
  <2>4. CASE \E q \in Singles : \E v \in FromSingle(accum.signed, q) : Put(v)
    <3>1. PICK q \in Singles : \E v \in FromSingle(accum.signed, q) : Put(v)
      BY <2>4
    <3>2. FromSingle(accum.signed, q) \subseteq Values(accum.signed)
      BY <1>1, FromFloatType DEF FromSingle
    <3> QED
      BY <3>1, <3>2, PutFact
  <2>5. CASE \E q \in Doubles : PutDouble(q)
    BY <2>5, PutDoubleFact
  <2> QED
    BY <1>17, <2>1, <2>2, <2>3, <2>4, <2>5 DEF Cpy
<1>18. CASE UNCHANGED accum
  BY <1>18 DEF ValueInv, Values
<1> QED
  BY <1>5, <1>6, <1>8, <1>9, <1>10, <1>11, <1>12, <1>13, <1>15, <1>16, <1>17, <1>18 DEF Next

LEMMA ValueInit == Init => ValueInv
BY Widths DEF Init, ValueInv, Values

(* The element always holds a value of its class.                          *)
THEOREM ValueInvariant == Spec => []ValueInv
BY ValueInit, ValueStep, PTL DEF Spec

------------------------------------------------------------------------------
(* The properties                                                          *)

(* In every reachable state abs, neg, add and sub give the exact result,   *)
(* limited to the range of the class, for every input, provided that       *)
(* signed overflow wraps in the types that are not computed in int; add    *)
(* and sub also with a double scalar, where a double holds every value of  *)
(* the class.                                                              *)
THEOREM SumsSaturate ==
    ASSUME Kind = "small" \/ OverflowWraps
    PROVE  Spec => []SaturatingSums
<1>1. ASSUME ValueInv PROVE SaturatingSums
  <2> DEFINE a == accum.val
             sum(b) == Clamp(accum.signed, a + b)
             diff(b) == Clamp(accum.signed, a - b)
  <2>1. accum.signed \in BOOLEAN /\ a \in Values(accum.signed)
    BY <1>1 DEF ValueInv
  <2>2. ASSUME NEW b \in Values(accum.signed)
        PROVE  ByDouble(AddDouble(Old, b * Unit), sum(b)) /\ ByDouble(SubDouble(Old, b * Unit), diff(b))
    <3> HIDE DEF a
    <3> SUFFICES ASSUME W < DoubleBits
                 PROVE  /\ FromDouble(accum.signed, AddDouble(Old, b * Unit)) = {sum(b)}
                        /\ FromDouble(accum.signed, SubDouble(Old, b * Unit)) = {diff(b)}
      BY Zenon DEF ByDouble
    <3>1. Old = a
      BY <2>1, OldFact DEF Old, a
    <3> QED
      BY <2>1, <3>1, SumsByDouble
  <2>3. CASE accum.signed
    <3>1. a \in MIN .. MAX
      BY <1>1, <2>3 DEF ValueInv, Values
    <3>2. accum.signed = TRUE /\ Values(accum.signed) = MIN .. MAX
      BY <2>1, <2>3 DEF Values
    <3>3. AbsInt(a) = Clamp(TRUE, Magnitude(a)) /\ NegInt(a) = Clamp(TRUE, -a)
      BY <3>1, AbsIntFact, NegIntFact
    <3>4. \A b \in MIN .. MAX : AddInt(a, b) = Clamp(TRUE, a + b) /\ SubInt(a, b) = Clamp(TRUE, a - b)
      BY <3>1, AddIntFact, SubIntFact
    <3> QED
      BY <2>2, <3>2, <3>3, <3>4, Zenon DEF SaturatingSums
  <2>4. CASE ~accum.signed
    <3>1. a \in 0 .. UMAX
      BY <1>1, <2>4 DEF ValueInv, Values
    <3>2. accum.signed = FALSE /\ Values(accum.signed) = 0 .. UMAX
      BY <2>1, <2>4 DEF Values
    <3>3. \A b \in 0 .. UMAX : AddUInt(a, b) = Clamp(FALSE, a + b) /\ SubUInt(a, b) = Clamp(FALSE, a - b)
      BY <3>1, UnsignedSumsFact
    <3> QED
      BY <2>2, <3>2, <3>3, Zenon DEF SaturatingSums
  <2> QED
    BY <2>3, <2>4
<1> QED
  BY <1>1, ValueInvariant, PTL

(* In every reachable state multiplication by promotion, by halves and in  *)
(* double give the product limited to the range of the class, for every    *)
(* input; in double where it holds every value of the class.               *)
THEOREM ProductsSaturate == Spec => []SaturatingProducts
<1>1. ASSUME ValueInv PROVE SaturatingProducts
  <2> DEFINE a == accum.val
  <2>1. accum.signed \in BOOLEAN /\ a \in Values(accum.signed)
    BY <1>1 DEF ValueInv
  <2>2. ASSUME NEW b \in Values(accum.signed)
        PROVE  ByDouble(MulDouble(Old, b * Unit), Clamp(accum.signed, a * b))
    <3> HIDE DEF a
    <3> SUFFICES ASSUME W < DoubleBits
                 PROVE  FromDouble(accum.signed, MulDouble(Old, b * Unit)) = {Clamp(accum.signed, a * b)}
      BY Zenon DEF ByDouble
    <3>1. Old = a
      BY <2>1, OldFact DEF Old, a
    <3> QED
      BY <2>1, <3>1, ProductByDouble
  <2>3. CASE accum.signed
    <3>1. a \in MIN .. MAX
      BY <1>1, <2>3 DEF ValueInv, Values
    <3>2. accum.signed = TRUE /\ Values(accum.signed) = MIN .. MAX
      BY <1>1, <2>3 DEF ValueInv, Values
    <3>3. ASSUME NEW b \in Values(accum.signed)
          PROVE  /\ MulIntPromoted(a, b) = Clamp(accum.signed, a * b)
                 /\ MIN \in {a, b} \/ MulInt64(a, b) = Clamp(accum.signed, a * b)
      <4> HIDE DEF a
      <4>1. Clamp(accum.signed, a * b) = Clamp(TRUE, a * b)
        BY <3>2, Zenon
      <4>2. b \in MIN .. MAX
        BY <3>2
      <4>3. MulIntPromoted(a, b) = Clamp(TRUE, a * b)
        BY <3>1, <4>2, MulIntPromotedFact
      <4>4. ASSUME MIN \notin {a, b} PROVE MulInt64(a, b) = Clamp(TRUE, a * b)
        BY <3>1, <4>2, <4>4, MulInt64Fact
      <4> QED
        BY <4>1, <4>3, <4>4, Zenon
    <3> QED
      BY <2>2, <2>3, <3>3, Zenon DEF SaturatingProducts
  <2>4. CASE ~accum.signed
    <3>1. a \in 0 .. UMAX
      BY <1>1, <2>4 DEF ValueInv, Values
    <3>2. \A b \in 0 .. UMAX : MulUIntPromoted(a, b) = Clamp(FALSE, a * b) /\ MulUInt64(a, b) = Clamp(FALSE, a * b)
      BY <3>1, MulUIntFact
    <3>3. accum.signed = FALSE /\ Values(accum.signed) = 0 .. UMAX
      BY <1>1, <2>4 DEF ValueInv, Values
    <3> QED
      BY <2>2, <3>2, <3>3, Zenon DEF SaturatingProducts
  <2> QED
    BY <2>3, <2>4
<1> QED
  BY <1>1, ValueInvariant, PTL

(* In every reachable state division rounds to the nearest integer, halves *)
(* away from zero, and saturates on MIN/-1, for every input but zero; and  *)
(* so does division by a double scalar, though its quotient is rounded     *)
(* before it is converted, where a double holds every value of the class.  *)
THEOREM QuotientsRounded == Spec => []RoundedQuotients
<1>1. ASSUME ValueInv PROVE RoundedQuotients
  <2> DEFINE a == accum.val
             exact(b) == Rounded(IF b < 0 THEN -a ELSE a, Magnitude(b))
  <2>1. accum.signed \in BOOLEAN /\ a \in Values(accum.signed)
    BY <1>1 DEF ValueInv
  <2>2. ASSUME NEW b \in Values(accum.signed) \ {0}
        PROVE  ByDouble(DivDouble(Old, b * Unit), Clamp(accum.signed, exact(b)))
    <3> HIDE DEF a
    <3> SUFFICES ASSUME W < DoubleBits
                 PROVE  FromDouble(accum.signed, DivDouble(Old, b * Unit)) = {Clamp(accum.signed, exact(b))}
      BY Zenon DEF ByDouble
    <3>1. Old = a
      BY <2>1, OldFact DEF Old, a
    <3> QED
      BY <2>1, <3>1, QuotientByDouble
  <2>3. CASE accum.signed
    <3>1. a \in MIN .. MAX /\ accum.signed = TRUE /\ Values(accum.signed) = MIN .. MAX
      BY <1>1, <2>3 DEF ValueInv, Values
    <3>2. \A b \in (MIN .. MAX) \ {0} : DivInt(a, b) = Clamp(TRUE, exact(b))
      BY <3>1, DivIntFact
    <3> QED
      BY <2>2, <3>1, <3>2, Zenon DEF RoundedQuotients
  <2>4. CASE ~accum.signed
    <3>1. a \in 0 .. UMAX /\ accum.signed = FALSE /\ Values(accum.signed) = 0 .. UMAX
      BY <1>1, <2>4 DEF ValueInv, Values
    <3>2. \A b \in (0 .. UMAX) \ {0} : DivUInt(a, b) = Clamp(FALSE, exact(b))
      BY <3>1, DivUIntFact
    <3> QED
      BY <2>2, <3>1, <3>2, Zenon DEF RoundedQuotients
  <2> QED
    BY <2>3, <2>4
<1> QED
  BY <1>1, ValueInvariant, PTL

(* In every reachable state of the classes computed in int rem has the     *)
(* sign of the numerator and mod that of the denominator, and both differ  *)
(* from the numerator by a multiple of the denominator, for every input,   *)
(* be it of the class of the element or a double scalar.                   *)
THEOREM RemaindersAreExact ==
    ASSUME Kind = "small"
    PROVE  Spec => []RemaindersExact
<1>1. ASSUME ValueInv PROVE RemaindersExact
  <2> DEFINE a == accum.val
             rem(b) == IF b = 0 THEN 0 ELSE Remainder(a, b)
             mod(b) == IF b = 0 THEN a ELSE a - b * ((IF b < 0 THEN -a ELSE a) \div Magnitude(b))
  <2>1. accum.signed \in BOOLEAN /\ a \in Values(accum.signed)
    BY <1>1 DEF ValueInv
  <2>2. ASSUME NEW b \in Values(accum.signed)
        PROVE  ByDouble(RemDouble(Old, b * Unit), rem(b)) /\ ByDouble(ModDouble(Old, b * Unit), mod(b))
    <3> HIDE DEF a
    <3> SUFFICES ASSUME W < DoubleBits
                 PROVE  /\ FromDouble(accum.signed, RemDouble(Old, b * Unit)) = {rem(b)}
                        /\ FromDouble(accum.signed, ModDouble(Old, b * Unit)) = {mod(b)}
      BY Zenon DEF ByDouble
    <3>1. Old = a
      BY <2>1, OldFact DEF Old, a
    <3> QED
      BY <2>1, <3>1, RemaindersByDouble
  <2>3. CASE accum.signed
    <3>1. a \in MIN .. MAX /\ accum.signed = TRUE /\ Values(accum.signed) = MIN .. MAX
      BY <1>1, <2>3 DEF ValueInv, Values
    <3>2. ASSUME NEW b \in MIN .. MAX PROVE RemInt(a, b) = rem(b) /\ ModInt(a, b) = mod(b)
      <4> HIDE DEF a
      <4>1. IF b = 0 THEN RemInt(a, b) = 0 /\ ModInt(a, b) = a
            ELSE /\ RemInt(a, b) = Remainder(a, b)
                 /\ ModInt(a, b) = a - b * ((IF b < 0 THEN -a ELSE a) \div Magnitude(b))
        BY <3>1, RemIntFact
      <4> QED
        BY <4>1, Zenon
    <3> QED
      BY <2>2, <3>1, <3>2, Zenon DEF RemaindersExact
  <2>4. CASE ~accum.signed
    <3>1. a \in 0 .. UMAX /\ accum.signed = FALSE /\ Values(accum.signed) = 0 .. UMAX
      BY <1>1, <2>4 DEF ValueInv, Values
    <3>2. ASSUME NEW b \in 0 .. UMAX PROVE RemUInt(a, b) = rem(b) /\ ModUInt(a, b) = mod(b)
      <4> HIDE DEF a
      <4>1. IF b = 0 THEN RemUInt(a, b) = 0 /\ ModUInt(a, b) = a
            ELSE /\ RemUInt(a, b) = Remainder(a, b)
                 /\ ModUInt(a, b) = a - b * ((IF b < 0 THEN -a ELSE a) \div Magnitude(b))
        BY <3>1, RemUIntFact
      <4> QED
        BY <4>1, Zenon
    <3> QED
      BY <2>2, <3>1, <3>2, Zenon DEF RemaindersExact
  <2> QED
    BY <2>3, <2>4
<1> QED
  BY <1>1, ValueInvariant, PTL

(* What the signed remainders are where the operands are not MIN and -1.   *)
RemaindersUntrapped ==
    LET a == accum.val IN
    accum.signed =>
        \A b \in MIN .. MAX :
            a # MIN \/ b # -1 =>
                IF b = 0 THEN RemInt(a, b) = 0 /\ ModInt(a, b) = a
                ELSE /\ RemInt(a, b) = Remainder(a, b)
                     /\ ModInt(a, b) = a - b * ((IF b < 0 THEN -a ELSE a) \div Magnitude(b))

(* In the classes of the processor's own width the same holds of every     *)
(* pair of operands but MIN and -1, the one on which the program stops.    *)
THEOREM RemaindersExactUntrapped == Spec => []RemaindersUntrapped
<1>1. ASSUME ValueInv PROVE RemaindersUntrapped
  <2> DEFINE a == accum.val
  <2> SUFFICES ASSUME accum.signed, NEW b \in MIN .. MAX, a # MIN \/ b # -1
               PROVE  IF b = 0 THEN RemInt(a, b) = 0 /\ ModInt(a, b) = a
                      ELSE /\ RemInt(a, b) = Remainder(a, b)
                           /\ ModInt(a, b) = a - b * ((IF b < 0 THEN -a ELSE a) \div Magnitude(b))
    BY Zenon DEF RemaindersUntrapped
  <2>1. a \in MIN .. MAX
    BY <1>1 DEF ValueInv, Values
  <2> HIDE DEF a
  <2> QED
    BY <2>1, RemIntFact, Zenon
<1> QED
  BY <1>1, ValueInvariant, PTL

(* In every reachable state, and for classes of every width, an integer    *)
(* of another class becomes the nearest value of the class of the element, *)
(* but for the unsigned values of the same width above MAX: those are cast *)
(* to negative ones.                                                       *)
THEOREM IntegersAreNearest == Spec => []IntegersSaturate
<1>1. ASSUME ValueInv PROVE IntegersSaturate
  <2> DEFINE signed == accum.signed
  <2>1. signed \in BOOLEAN
    BY <1>1 DEF ValueInv
  <2> HIDE DEF signed
  <2>2. \A v \in WideValues : FromWide(signed, v) = Clamp(signed, v)
    BY <2>1, InputsFact, FromWideFact
  <2>3. \A v \in Values(~signed) :
           IF v =< MAX THEN FromOther(signed, v) = Clamp(signed, v)
           ELSE FromOther(signed, v) = v - Modulus
    <3> SUFFICES ASSUME NEW v \in Values(~signed)
                 PROVE  IF v =< MAX THEN FromOther(signed, v) = Clamp(signed, v)
                        ELSE FromOther(signed, v) = v - Modulus
      OBVIOUS
    <3>1. v \in Int /\ MAX \in Int
      BY Widths DEF Values
    <3>2. v =< MAX \/ v > MAX
      BY <3>1
    <3> QED
      BY <2>1, <3>2, FromOtherFact
  <2> QED
    BY <2>2, <2>3 DEF IntegersSaturate, signed
<1> QED
  BY <1>1, ValueInvariant, PTL

(* Where a double has more bits than the class (8 to 32 bits in the code), *)
(* in every reachable state a double, though it is compared with a rounded *)
(* limit and added to one half in double, becomes the nearest value of the *)
(* class, halves away from zero; but the largest double below one half     *)
(* becomes one.  It says nothing of the 64-bit classes.                    *)
THEOREM DoublesAreNearest ==
    ASSUME W < DoubleBits
    PROVE  Spec => []DoublesSaturate
<1>1. ASSUME ValueInv PROVE DoublesSaturate
  <2>1. accum.signed \in BOOLEAN /\ DoubleBits \in {SingleBits, DoubleBits}
    BY <1>1 DEF ValueInv
  <2> SUFFICES ASSUME NEW q \in Doubles
               PROVE  FromDouble(accum.signed, q) = {Clamp(accum.signed, Nearest(q))}
    BY DEF DoublesSaturate
  <2>2. q \in Int /\ Fits(DoubleBits, Magnitude(q))
    BY InputsFact
  <2> QED
    BY <2>1, <2>2, FromFloatFact DEF FromDouble
<1> QED
  BY <1>1, ValueInvariant, PTL

(* Where a single has more bits than the class too (8 and 16 bits in the   *)
(* code), all conversions are to the nearest value, with the two           *)
(* exceptions above.  For the 32-bit classes MAX + 1 as a single, and for  *)
(* the 64-bit ones MAX + 1 as a single or as a double, pass the comparison *)
(* with MAX and are cast out of range, so it says nothing of them.         *)
THEOREM ConversionsAreNearest ==
    ASSUME W < SingleBits
    PROVE  Spec => []ConversionsSaturate
<1>1. W < DoubleBits
  BY Sizes
<1>2. ASSUME ValueInv PROVE SinglesSaturate
  <2>1. accum.signed \in BOOLEAN /\ SingleBits \in {SingleBits, DoubleBits}
    BY <1>2 DEF ValueInv
  <2> SUFFICES ASSUME NEW q \in Singles
               PROVE  FromSingle(accum.signed, q) = {Clamp(accum.signed, Rounded(q, Unit))}
    BY DEF SinglesSaturate
  <2>2. q \in Int /\ Fits(SingleBits, Magnitude(q))
    BY InputsFact
  <2>3. Nearest(q) = Rounded(q, Unit)
    BY <2>2, SinglesNearest
  <2>4. FromSingle(accum.signed, q) = {Clamp(accum.signed, Nearest(q))}
    BY <2>1, <2>2, FromFloatFact DEF FromSingle
  <2> QED
    BY <2>3, <2>4
<1>3. IntegersSaturate /\ DoublesSaturate /\ SinglesSaturate => ConversionsSaturate
  BY DEF ConversionsSaturate
<1> QED
  BY <1>1, <1>2, <1>3, ValueInvariant, IntegersAreNearest, DoublesAreNearest, PTL
=============================================================================
