-------------------------- MODULE SharedLayoutProofs --------------------------
(***************************************************************************)
(* Proofs about SharedLayout, for arrays of every shape and nesting, every *)
(* alignment and every size of the headers.                                *)
(***************************************************************************)
EXTENDS SharedLayout, FiniteSetTheorems, SequenceTheorems, TLAPS

------------------------------------------------------------------------------
(* Induction and recursion over numbers                                    *)

(* Every set of natural numbers that is not empty has a least one, the     *)
(* principle that stands for induction over loops and nesting below.       *)
LEMMA LeastNumber ==
    ASSUME NEW S \in SUBSET Nat, S # {}
    PROVE  \E m \in S : \A k \in S : m =< k
<1> DEFINE R == {ss \in Nat \X Nat : ss[1] < ss[2]}
<1>1. IsWellFoundedOn(R, Nat)
  BY NatLessThanWellFounded, Zenon DEF OpToRel
<1>2. PICK m \in S : \A k \in S : ~(<<k, m>> \in R)
  <2> HIDE DEF R
  <2> QED
    BY <1>1, WFMin
<1>3. ASSUME NEW k \in S PROVE m =< k
  <2>1. k \in Nat /\ m \in Nat /\ <<k, m>> \notin R
    BY <1>2
  <2>2. <<k, m>> \in Nat \X Nat /\ <<k, m>>[1] = k /\ <<k, m>>[2] = m
    BY <2>1
  <2>3. ~(k < m)
    BY <2>1, <2>2
  <2> QED
    BY <2>1, <2>3
<1> QED
  BY <1>3

(* Induction over the numbers, for the members of a set.                   *)
LEMMA NumberInduction ==
    ASSUME NEW B, 0 \in B, \A k \in Nat : k \in B => k + 1 \in B
    PROVE  \A k \in Nat : k \in B
<1> DEFINE Bad == {k \in Nat : k \notin B}
<1> SUFFICES ASSUME Bad # {} PROVE FALSE
  OBVIOUS
<1>1. PICK m \in Bad : \A k \in Bad : m =< k
  <2>1. Bad \in SUBSET Nat
    OBVIOUS
  <2> HIDE DEF Bad
  <2> QED
    BY <2>1, LeastNumber
<1>2. m \in Nat /\ m # 0 /\ m \notin B
  OBVIOUS
<1>3. m - 1 \in Nat /\ m - 1 \notin Bad
  BY <1>1, <1>2
<1>4. m - 1 \in B /\ (m - 1) + 1 = m
  BY <1>2, <1>3
<1> QED
  BY <1>2, <1>3, <1>4

(* A loop that begins with a and whose step k makes G[<<x, k>>] of x.      *)
Loop(f, n, a, G) ==
    /\ f \in [0 .. n -> Nat]
    /\ f[0] = a
    /\ \A k \in 1 .. n : f[k] = G[<<f[k - 1], k>>]

(* It runs ...                                                             *)
LEMMA LoopExists ==
    ASSUME NEW n \in Nat, NEW a \in Nat, NEW G \in [Nat \X (1 .. n) -> Nat]
    PROVE  \E f : Loop(f, n, a, G)
<1> DEFINE B == {m \in Nat : m =< n => \E f : Loop(f, m, a, G)}
<1>1. 0 \in B
  <2>1. Loop([k \in 0 .. 0 |-> a], 0, a, G)
    BY DEF Loop
  <2> QED
    BY <2>1
<1>2. ASSUME NEW m \in Nat, m \in B PROVE m + 1 \in B
  <2> SUFFICES ASSUME m + 1 =< n PROVE \E f : Loop(f, m + 1, a, G)
    OBVIOUS
  <2>1. PICK f : Loop(f, m, a, G)
    BY <1>2
  <2>2. f[m] \in Nat /\ <<f[m], m + 1>> \in Nat \X (1 .. n)
    BY <2>1 DEF Loop
  <2>3. PICK y \in Nat : y = G[<<f[m], m + 1>>]
    BY <2>2
  <2>4. PICK g : g = [k \in 0 .. m + 1 |-> IF k = m + 1 THEN y ELSE f[k]]
    OBVIOUS
  <2>5. g \in [0 .. m + 1 -> Nat] /\ g[0] = a
    BY <2>1, <2>4 DEF Loop
  <2>6. ASSUME NEW k \in 1 .. m + 1 PROVE g[k] = G[<<g[k - 1], k>>]
    <3>1. g[k - 1] = f[k - 1]
      BY <2>4
    <3>2. CASE k = m + 1
      <4>1. g[m + 1] = y /\ (m + 1) - 1 = m
        BY <2>4
      <4> QED
        BY <2>3, <3>1, <3>2, <4>1
    <3>3. CASE k # m + 1
      BY <2>1, <2>4, <3>1, <3>3 DEF Loop
    <3> QED
      BY <3>2, <3>3
  <2> QED
    BY <2>5, <2>6 DEF Loop
<1>3. \A m \in Nat : m \in B
  <2> HIDE DEF B
  <2> QED
    BY <1>1, <1>2, NumberInduction
<1> QED
  BY <1>3

(* ... and only one way.                                                   *)
LEMMA LoopIs ==
    ASSUME NEW n \in Nat, NEW a \in Nat, NEW G \in [Nat \X (1 .. n) -> Nat],
           NEW g, g[0] = a, \A k \in 1 .. n : g[k - 1] \in Nat => g[k] = G[<<g[k - 1], k>>]
    PROVE  \A k \in 0 .. n : g[k] \in Nat
<1> DEFINE B == {k \in Nat : k =< n => g[k] \in Nat}
<1>1. 0 \in B
  OBVIOUS
<1>2. ASSUME NEW k \in Nat, k \in B PROVE k + 1 \in B
  <2> SUFFICES ASSUME k + 1 =< n PROVE g[k + 1] \in Nat
    OBVIOUS
  <2>1. g[k] \in Nat /\ k + 1 \in 1 .. n /\ (k + 1) - 1 = k
    BY <1>2
  <2>2. <<g[k], k + 1>> \in Nat \X (1 .. n) /\ g[k + 1] = G[<<g[k], k + 1>>]
    BY <2>1
  <2> QED
    BY <2>2
<1>3. \A k \in Nat : k \in B
  <2> HIDE DEF B
  <2> QED
    BY <1>1, <1>2, NumberInduction
<1> QED
  BY <1>3

------------------------------------------------------------------------------
(* Alignment                                                               *)

LEMMA Parameters ==
    /\ HeaderSize \in Nat \ {0} /\ SignatureSize \in Nat \ {0}
    /\ WordSize \in Nat \ {0} /\ Alignment \in Nat \ {0}
BY SharedLayoutAssumption

Aligned(x) == \E q \in Int : x = Alignment * q

(* Multiplication by a positive number is monotonic.                       *)
LEMMA MultMonotonic ==
    ASSUME NEW d \in Nat, NEW x \in Int, NEW y \in Int, x =< y
    PROVE  d * x \in Int /\ d * y \in Int /\ d * x =< d * y
OBVIOUS

(* Division with remainder.                                                *)
LEMMA Divided ==
    ASSUME NEW a \in Int, NEW d \in Nat \ {0}
    PROVE  \E q \in Int, r \in 0 .. d - 1 : r = a % d /\ a = d * q + r
<1>1. d \in Int /\ d > 0
  OBVIOUS
<1>2. a = d * (a \div d) + (a % d)
  BY <1>1
<1>3. a \div d \in Int /\ a % d \in 0 .. d - 1
  BY <1>1
<1> QED
  BY <1>2, <1>3

(* A multiple of the alignment leaves no remainder.                        *)
LEMMA AlignedRemainder ==
    ASSUME NEW x \in Int, Aligned(x)
    PROVE  x % Alignment = 0
<1>1. PICK q \in Int : x = Alignment * q
  BY DEF Aligned
<1>2. PICK d \in Nat \ {0} : d = Alignment
  BY Parameters
<1>3. PICK p \in Int, r \in 0 .. d - 1 : r = x % d /\ x = d * p + r
  BY Divided
<1>4. ~(p < q)
  <2> SUFFICES ASSUME p < q PROVE FALSE
    OBVIOUS
  <2>1. d * (p + 1) =< d * q
    BY MultMonotonic
  <2>2. d * (p + 1) = d * p + d /\ d * p \in Int /\ d * q \in Int
    OBVIOUS
  <2> QED
    BY <1>1, <1>2, <1>3, <2>1, <2>2
<1>5. ~(q < p)
  <2> SUFFICES ASSUME q < p PROVE FALSE
    OBVIOUS
  <2>1. d * (q + 1) =< d * p
    BY MultMonotonic
  <2>2. d * (q + 1) = d * q + d /\ d * p \in Int /\ d * q \in Int
    OBVIOUS
  <2> QED
    BY <1>1, <1>2, <1>3, <2>1, <2>2
<1>6. p = q
  BY <1>4, <1>5
<1>7. PICK m \in Int : m = d * p
  OBVIOUS
<1>8. x = m /\ x = m + r
  BY <1>1, <1>2, <1>3, <1>6, <1>7
<1>9. r = 0
  BY <1>8
<1> QED
  BY <1>2, <1>3, <1>9, Zenon

(* Sums of multiples are multiples.                                        *)
LEMMA AlignedSum ==
    ASSUME NEW x, NEW y, Aligned(x), Aligned(y)
    PROVE  Aligned(x + y) /\ Aligned(0)
<1>1. PICK d \in Nat : d = Alignment
  BY Parameters
<1>2. PICK p \in Int : x = d * p
  BY <1>1 DEF Aligned
<1>3. PICK q \in Int : y = d * q
  BY <1>1 DEF Aligned
<1>4. p + q \in Int /\ d * (p + q) = d * p + d * q /\ d * 0 = 0
  OBVIOUS
<1>5. x + y = Alignment * (p + q) /\ 0 = Alignment * 0
  BY <1>1, <1>2, <1>3, <1>4
<1> QED
  BY <1>4, <1>5 DEF Aligned

(* Padding leads to the next multiple.                                     *)
LEMMA PadFact ==
    ASSUME NEW x \in Nat
    PROVE  /\ PadToAlignData(x) \in Nat /\ PadToAlignData(x) >= x
           /\ Aligned(PadToAlignData(x))
<1>1. PICK d \in Nat \ {0} : d = Alignment
  BY Parameters
<1>2. PICK q \in Int, r \in 0 .. d - 1 : r = (x - 1) % d /\ x - 1 = d * q + r
  <2>1. x - 1 \in Int
    OBVIOUS
  <2> QED
    BY <2>1, Divided
<1>3. PadToAlignData(x) = x + ((d - 1) - r)
  BY <1>1, <1>2 DEF PadToAlignData
<1>4. d * (q + 1) = d * q + d /\ d * q \in Int /\ q + 1 \in Int
  OBVIOUS
<1>5. PICK m \in Int : m = d * q
  BY <1>4
<1>6. PadToAlignData(x) = m + d /\ PadToAlignData(x) \in Nat /\ PadToAlignData(x) >= x
  BY <1>2, <1>3, <1>5
<1>7. PadToAlignData(x) = Alignment * (q + 1)
  BY <1>1, <1>4, <1>5, <1>6
<1>8. Aligned(PadToAlignData(x))
  BY <1>4, <1>7 DEF Aligned
<1> QED
  BY <1>6, <1>8

(* What is longer is not padded to less.                                   *)
LEMMA PadMonotonic ==
    ASSUME NEW x \in Nat, NEW y \in Nat, x =< y
    PROVE  PadToAlignData(x) =< PadToAlignData(y)
<1>1. PICK d \in Nat \ {0} : d = Alignment
  BY Parameters
<1>2. PICK q \in Int, r \in 0 .. d - 1 : r = (x - 1) % d /\ x - 1 = d * q + r
  <2>1. x - 1 \in Int
    OBVIOUS
  <2> QED
    BY <2>1, Divided
<1>3. PICK p \in Int, s \in 0 .. d - 1 : s = (y - 1) % d /\ y - 1 = d * p + s
  <2>1. y - 1 \in Int
    OBVIOUS
  <2> QED
    BY <2>1, Divided
<1>4. /\ PadToAlignData(x) = x + ((d - 1) - r)
      /\ PadToAlignData(y) = y + ((d - 1) - s)
  BY <1>1, <1>2, <1>3 DEF PadToAlignData
<1>5. d * p \in Int /\ d * q \in Int
  OBVIOUS
<1>6. ~(p < q)
  <2> SUFFICES ASSUME p < q PROVE FALSE
    OBVIOUS
  <2>1. d * (p + 1) =< d * q
    BY MultMonotonic
  <2>2. d * (p + 1) = d * p + d
    OBVIOUS
  <2> QED
    BY <1>2, <1>3, <1>5, <2>1, <2>2
<1>7. d * q =< d * p
  BY <1>6, MultMonotonic
<1> QED
  BY <1>2, <1>3, <1>4, <1>5, <1>7

------------------------------------------------------------------------------
(* The loops of msh_FindSharedSize and msh_CopyVariable                    *)

LEMMA ArrayFacts ==
    ASSUME NEW v \in Var
    PROVE  /\ v.class \in {"full", "sparse", "struct", "cell"} /\ v.complex \in BOOLEAN
           /\ v.num_dims \in Nat /\ v.num_elems \in Nat /\ v.elem_size \in Nat
           /\ v.nzmax \in Nat /\ v.cols \in Nat
           /\ v.num_dims >= 2 /\ v.elem_size > 0 /\ (v.class = "sparse" => v.nzmax > 0)
           /\ v.fields \in Seq(Nat) /\ v.children \in Seq(Var)
           /\ Len(v.children) \in Nat /\ Len(v.fields) \in Nat
           /\ \A k \in 1 .. Len(v.children) :
                 v.children[k] \in Var /\ Depth[v.children[k]] < Depth[v]
<1>1. IsArray(v)
  BY SharedLayoutAssumption
<1>2. v.children \in Seq(Var) /\ v.fields \in Seq(Nat)
  BY <1>1 DEF IsArray
<1>3. \A k \in 1 .. Len(v.children) : v.children[k] \in Var
  BY <1>2
<1> QED
  BY <1>1, <1>2, <1>3, LenProperties DEF IsArray

(* Products of numbers.                                                    *)
LEMMA Product ==
    ASSUME NEW x \in Nat, NEW y \in Nat
    PROVE  x * y \in Nat /\ (x > 0 /\ y > 0 => x * y > 0)
OBVIOUS

(* The names take some room.                                               *)
LEMMA FieldNamesType == ASSUME NEW v \in Var PROVE FieldNamesSize(v) \in Nat
<1>1. PICK s \in Seq(Nat) : s = v.fields
  BY ArrayFacts
<1>2. PICK n \in Nat : n = Len(s)
  BY LenProperties
<1>3. \A k \in 1 .. n : s[k] \in Nat
  BY <1>2
<1> DEFINE Fix(h) == h = [k \in 0 .. n |-> IF k = 0 THEN 0 ELSE h[k - 1] + s[k] + 1]
           c == CHOOSE h : Fix(h)
<1>4. PICK G \in [Nat \X (1 .. n) -> Nat] : G = [p \in Nat \X (1 .. n) |-> p[1] + s[p[2]] + 1]
  <2>1. \A p \in Nat \X (1 .. n) : p[1] + s[p[2]] + 1 \in Nat
    BY <1>3
  <2> QED
    BY <2>1
<1>5. \A x \in Nat, k \in 1 .. n : G[<<x, k>>] = x + s[k] + 1
  BY <1>4
<1>6. PICK f : Loop(f, n, 0, G)
  BY LoopExists
<1>7. Fix(f)
  <2>1. f \in [0 .. n -> Nat] /\ f[0] = 0 /\ \A k \in 1 .. n : f[k] = f[k - 1] + s[k] + 1
    <3>1. f \in [0 .. n -> Nat] /\ f[0] = 0 /\ \A k \in 1 .. n : f[k] = G[<<f[k - 1], k>>]
      BY <1>6 DEF Loop
    <3>2. \A k \in 1 .. n : f[k - 1] \in Nat
      BY <3>1
    <3> QED
      BY <1>5, <3>1, <3>2
  <2>2. \A k \in 0 .. n : f[k] = IF k = 0 THEN 0 ELSE f[k - 1] + s[k] + 1
    BY <2>1
  <2> QED
    BY <2>1, <2>2
<1>8. Fix(c)
  <2> HIDE DEF Fix
  <2> QED
    BY <1>7, Zenon
<1>9. PICK d : d = c /\ Fix(d)
  <2> HIDE DEF Fix, c
  <2> QED
    BY <1>8
<1>10. \A k \in 0 .. n : d[k] \in Nat
  <2> HIDE DEF c
  <2>1. d[0] = 0 /\ \A k \in 1 .. n : d[k] = d[k - 1] + s[k] + 1
    BY <1>9
  <2>2. \A k \in 1 .. n : d[k - 1] \in Nat => d[k] = G[<<d[k - 1], k>>]
    BY <1>5, <2>1
  <2> HIDE DEF Fix
  <2> QED
    BY <2>1, <2>2, LoopIs, ZenonT(40)
<1>11. FieldNamesSize(v) = c[n]
  BY <1>1, <1>2, Zenon DEF FieldNamesSize, c, Fix
<1> HIDE DEF c, Fix
<1> QED
  BY <1>9, <1>10, <1>11

LEMMA PreambleType ==
    ASSUME NEW v \in Var
    PROVE  Preamble(v) \in Nat /\ Preamble(v) > HeaderSize
<1>1. v.num_dims * WordSize \in Nat /\ v.num_dims * WordSize > 0
  BY ArrayFacts, Parameters, Product
<1>2. Len(v.children) * WordSize \in Nat
  BY ArrayFacts, Parameters, Product
<1> QED
  BY <1>1, <1>2, FieldNamesType, Parameters, SMTT(30) DEF Preamble

(* The blocks of an array are different parts of it, and there is room for *)
(* each of them.                                                           *)
LEMMA BlocksFact ==
    ASSUME NEW v \in Var
    PROVE  /\ Len(Blocks(v)) \in Nat
           /\ \A k \in 1 .. Len(Blocks(v)) :
                 /\ Blocks(v)[k] \in {"data", "imag_data", "ir", "jc"}
                 /\ CopiedLen(v, Blocks(v)[k]) \in Nat /\ CopiedLen(v, Blocks(v)[k]) > 0
                 /\ SizedLen(v, Blocks(v)[k]) \in Nat
                 /\ CopiedLen(v, Blocks(v)[k]) =< SizedLen(v, Blocks(v)[k])
           /\ \A k, l \in 1 .. Len(Blocks(v)) : Blocks(v)[k] = Blocks(v)[l] => k = l
<1>1. PICK s : s = Blocks(v)
  OBVIOUS
<1>2. s \in {<<>>, <<"data">>, <<"data", "imag_data">>, <<"data", "ir", "jc">>,
             <<"data", "imag_data", "ir", "jc">>}
  BY <1>1, ArrayFacts DEF Blocks
<1>3. /\ s = <<>> \/ NumStored(v) > 0
      /\ \A k \in 1 .. Len(s) : s[k] = "ir" => v.class = "sparse"
  BY <1>1, ArrayFacts DEF Blocks, NumStored
<1>4. /\ Len(s) \in Nat
      /\ \A k \in 1 .. Len(s) : s[k] \in {"data", "imag_data", "ir", "jc"}
      /\ \A k, l \in 1 .. Len(s) : s[k] = s[l] => k = l
  BY <1>2
<1>5. ASSUME NEW x \in {"data", "imag_data", "ir", "jc"}, s # <<>>, x = "ir" => v.class = "sparse"
      PROVE  /\ CopiedLen(v, x) \in Nat /\ CopiedLen(v, x) > 0
             /\ SizedLen(v, x) \in Nat /\ CopiedLen(v, x) =< SizedLen(v, x)
  <2>1. NumStored(v) \in Nat /\ NumStored(v) > 0
    BY <1>3, <1>5, ArrayFacts DEF NumStored
  <2>2. CASE x = "jc"
    <3>1. WordSize * (v.cols + 1) \in Nat /\ WordSize * (v.cols + 1) > 0
      BY ArrayFacts, Parameters, Product
    <3> QED
      BY <2>2, <3>1 DEF CopiedLen, SizedLen, BlockLen
  <2>3. CASE x = "ir"
    <3>1. WordSize * v.nzmax \in Nat /\ WordSize * v.nzmax > 0
      BY <1>5, <2>3, ArrayFacts, Parameters, Product
    <3> QED
      BY <2>3, <3>1 DEF CopiedLen, SizedLen, BlockLen
  <2>4. CASE x \notin {"ir", "jc"}
    <3>1. PICK n \in Nat : n = NumStored(v) /\ n > 0
      BY <2>1
    <3>2. PICK e \in Nat : e = v.elem_size /\ e > 0
      BY ArrayFacts
    <3>3. PICK m \in Nat : m = IF v.class # "sparse" /\ v.num_elems = 1 THEN 2 ELSE n
      BY <3>1
    <3>4. n =< m
      BY <3>1, <3>3 DEF NumStored
    <3>5. e * n \in Nat /\ e * n > 0 /\ e * m \in Nat
      BY <3>1, <3>2, Product
    <3>6. e * n =< e * m
      BY <3>4, MultMonotonic
    <3>7. CopiedLen(v, x) = e * n
      BY <2>4, <3>1, <3>2 DEF CopiedLen, BlockLen
    <3>8. SizedLen(v, x) = e * m
      BY <2>4, <3>1, <3>2, <3>3 DEF SizedLen, BlockLen
    <3> QED
      BY <3>5, <3>6, <3>7, <3>8
  <2> QED
    BY <2>2, <2>3, <2>4
<1>6. \A k \in 1 .. Len(s) : s # <<>>
  OBVIOUS
<1> QED
  BY <1>1, <1>3, <1>4, <1>5, <1>6

(* Where children of these lengths end.                                    *)
LEMMA ChildEndsFact ==
    ASSUME NEW v \in Var, NEW lens \in Seq(Nat), NEW e, e = ChildEnds(v, lens)
    PROVE  /\ e \in [0 .. Len(lens) -> Nat] /\ e[0] = PadToAlignData(Preamble(v))
           /\ \A k \in 1 .. Len(lens) : e[k] = e[k - 1] + PadToAlignData(lens[k])
<1>1. PICK n \in Nat : n = Len(lens)
  BY LenProperties
<1>2. \A k \in 1 .. n : lens[k] \in Nat /\ PadToAlignData(lens[k]) \in Nat
  <2>1. \A k \in 1 .. n : lens[k] \in Nat
    BY <1>1
  <2> QED
    BY <2>1, PadFact
<1>3. PICK a \in Nat : a = PadToAlignData(Preamble(v))
  BY PreambleType, PadFact
<1> DEFINE Fix(h) == h = [k \in 0 .. n |-> IF k = 0 THEN PadToAlignData(Preamble(v)) ELSE ChildEnd(h[k - 1], lens[k])]
           c == CHOOSE h : Fix(h)
<1>4. PICK G \in [Nat \X (1 .. n) -> Nat] : G = [p \in Nat \X (1 .. n) |-> ChildEnd(p[1], lens[p[2]])]
  <2>1. \A p \in Nat \X (1 .. n) : ChildEnd(p[1], lens[p[2]]) \in Nat
    BY <1>2 DEF ChildEnd
  <2> QED
    BY <2>1
<1>5. \A x \in Nat, k \in 1 .. n : G[<<x, k>>] = ChildEnd(x, lens[k])
  BY <1>4
<1>6. PICK f : Loop(f, n, a, G)
  BY <1>3, LoopExists
<1>7. Fix(f)
  <2>1. f \in [0 .. n -> Nat] /\ f[0] = a /\ \A k \in 1 .. n : f[k] = G[<<f[k - 1], k>>]
    BY <1>6 DEF Loop
  <2>2. \A k \in 1 .. n : f[k - 1] \in Nat
    BY <2>1
  <2>3. \A k \in 1 .. n : f[k] = ChildEnd(f[k - 1], lens[k])
    BY <1>5, <2>1, <2>2
  <2>4. f = [k \in 0 .. n |-> f[k]]
    BY <2>1
  <2>5. ASSUME NEW k \in 0 .. n PROVE f[k] = IF k = 0 THEN PadToAlignData(Preamble(v)) ELSE ChildEnd(f[k - 1], lens[k])
    <3>1. k # 0 => k \in 1 .. n
      OBVIOUS
    <3> QED
      BY <1>3, <2>1, <2>3, <3>1
  <2> QED
    BY <2>4, <2>5
<1>8. Fix(c)
  <2> HIDE DEF Fix
  <2> QED
    BY <1>7, Zenon
<1>9. PICK d : d = c /\ Fix(d)
  <2> HIDE DEF Fix, c
  <2> QED
    BY <1>8
<1>10. d[0] = a /\ \A k \in 1 .. n : d[k] = ChildEnd(d[k - 1], lens[k])
  <2> HIDE DEF c
  <2> QED
    BY <1>3, <1>9
<1>11. \A k \in 0 .. n : d[k] \in Nat
  <2> HIDE DEF c, Fix
  <2>1. \A k \in 1 .. n : d[k - 1] \in Nat => d[k] = G[<<d[k - 1], k>>]
    BY <1>5, <1>10
  <2> QED
    BY <1>3, <1>10, <2>1, LoopIs
<1>12. d \in [0 .. n -> Nat]
  <2> HIDE DEF c
  <2>1. d = [k \in 0 .. n |-> d[k]]
    BY <1>9
  <2> QED
    BY <1>11, <2>1
<1>13. e = c
  BY <1>1, Zenon DEF ChildEnds, c, Fix
<1> HIDE DEF c, Fix
<1> QED
  BY <1>1, <1>2, <1>3, <1>9, <1>10, <1>12, <1>13 DEF ChildEnd

(* The size of an array that is no parent.                                 *)
LEMMA DataSizesFact ==
    ASSUME NEW v \in Var, NEW e, e = DataSizes(v)
    PROVE  /\ e \in [0 .. Len(Blocks(v)) -> Nat] /\ e[0] = Preamble(v)
           /\ \A k \in 1 .. Len(Blocks(v)) : e[k] = AddAlignedDataSize(e[k - 1], SizedLen(v, Blocks(v)[k]))
<1>1. PICK n \in Nat : n = Len(Blocks(v))
  BY BlocksFact
<1>2. \A k \in 1 .. n : SizedLen(v, Blocks(v)[k]) \in Nat
  BY <1>1, BlocksFact
<1>3. PICK a \in Nat : a = Preamble(v)
  BY PreambleType
<1> DEFINE Fix(h) == h = [k \in 0 .. n |-> IF k = 0 THEN Preamble(v) ELSE AddAlignedDataSize(h[k - 1], SizedLen(v, Blocks(v)[k]))]
           c == CHOOSE h : Fix(h)
<1>4. PICK G \in [Nat \X (1 .. n) -> Nat] : G = [p \in Nat \X (1 .. n) |-> AddAlignedDataSize(p[1], SizedLen(v, Blocks(v)[p[2]]))]
  <2>1. \A p \in Nat \X (1 .. n) : AddAlignedDataSize(p[1], SizedLen(v, Blocks(v)[p[2]])) \in Nat
    <3> SUFFICES ASSUME NEW x \in Nat, NEW k \in 1 .. n
                 PROVE  AddAlignedDataSize(x, SizedLen(v, Blocks(v)[k])) \in Nat
      OBVIOUS
    <3>1. PadToAlignData(x + SignatureSize) \in Nat
      BY Parameters, PadFact
    <3>2. PadToAlignData(SizedLen(v, Blocks(v)[k])) \in Nat
      BY <1>2, PadFact
    <3> QED
      BY <3>1, <3>2 DEF AddAlignedDataSize
  <2> QED
    BY <2>1
<1>5. \A x \in Nat, k \in 1 .. n : G[<<x, k>>] = AddAlignedDataSize(x, SizedLen(v, Blocks(v)[k]))
  BY <1>4
<1>6. PICK f : Loop(f, n, a, G)
  BY <1>3, LoopExists
<1>7. Fix(f)
  <2>1. f \in [0 .. n -> Nat] /\ f[0] = a /\ \A k \in 1 .. n : f[k] = G[<<f[k - 1], k>>]
    BY <1>6 DEF Loop
  <2>2. \A k \in 1 .. n : f[k - 1] \in Nat
    BY <2>1
  <2>3. \A k \in 1 .. n : f[k] = AddAlignedDataSize(f[k - 1], SizedLen(v, Blocks(v)[k]))
    BY <1>5, <2>1, <2>2
  <2>4. f = [k \in 0 .. n |-> f[k]]
    BY <2>1
  <2>5. ASSUME NEW k \in 0 .. n PROVE f[k] = IF k = 0 THEN Preamble(v) ELSE AddAlignedDataSize(f[k - 1], SizedLen(v, Blocks(v)[k]))
    <3>1. k # 0 => k \in 1 .. n
      OBVIOUS
    <3> QED
      BY <1>3, <2>1, <2>3, <3>1
  <2> QED
    BY <2>4, <2>5
<1>8. Fix(c)
  <2> HIDE DEF Fix
  <2> QED
    BY <1>7, Zenon
<1>9. PICK d : d = c /\ Fix(d)
  <2> HIDE DEF Fix, c
  <2> QED
    BY <1>8
<1>10. d[0] = a /\ \A k \in 1 .. n : d[k] = AddAlignedDataSize(d[k - 1], SizedLen(v, Blocks(v)[k]))
  <2> HIDE DEF c
  <2> QED
    BY <1>3, <1>9
<1>11. \A k \in 0 .. n : d[k] \in Nat
  <2> HIDE DEF c, Fix
  <2>1. \A k \in 1 .. n : d[k - 1] \in Nat => d[k] = G[<<d[k - 1], k>>]
    BY <1>5, <1>10
  <2> QED
    BY <1>3, <1>10, <2>1, LoopIs
<1>12. d \in [0 .. n -> Nat]
  <2> HIDE DEF c
  <2>1. d = [k \in 0 .. n |-> d[k]]
    BY <1>9
  <2> QED
    BY <1>11, <2>1
<1>13. e = c
  BY <1>1, Zenon DEF DataSizes, c, Fix
<1> HIDE DEF c, Fix
<1> QED
  BY <1>1, <1>2, <1>3, <1>9, <1>10, <1>12, <1>13

(* Where the blocks of an array end.                                       *)
LEMMA BlockEndsFact ==
    ASSUME NEW v \in Var, NEW e, e = BlockEnds(v)
    PROVE  /\ e \in [0 .. Len(Blocks(v)) -> Nat] /\ e[0] = Preamble(v)
           /\ \A k \in 1 .. Len(Blocks(v)) : e[k] = PlaceBlock(e[k - 1]) + PadToAlignData(CopiedLen(v, Blocks(v)[k]))
<1>1. PICK n \in Nat : n = Len(Blocks(v))
  BY BlocksFact
<1>2. \A k \in 1 .. n : CopiedLen(v, Blocks(v)[k]) \in Nat
  BY <1>1, BlocksFact
<1>3. PICK a \in Nat : a = Preamble(v)
  BY PreambleType
<1> DEFINE Fix(h) == h = [k \in 0 .. n |-> IF k = 0 THEN Preamble(v) ELSE PlaceBlock(h[k - 1]) + PadToAlignData(CopiedLen(v, Blocks(v)[k]))]
           c == CHOOSE h : Fix(h)
<1>4. PICK G \in [Nat \X (1 .. n) -> Nat] : G = [p \in Nat \X (1 .. n) |-> PlaceBlock(p[1]) + PadToAlignData(CopiedLen(v, Blocks(v)[p[2]]))]
  <2>1. \A p \in Nat \X (1 .. n) : PlaceBlock(p[1]) + PadToAlignData(CopiedLen(v, Blocks(v)[p[2]])) \in Nat
    <3> SUFFICES ASSUME NEW x \in Nat, NEW k \in 1 .. n
                 PROVE  PlaceBlock(x) + PadToAlignData(CopiedLen(v, Blocks(v)[k])) \in Nat
      OBVIOUS
    <3>1. PlaceBlock(x) \in Nat
      BY Parameters, PadFact DEF PlaceBlock
    <3>2. PadToAlignData(CopiedLen(v, Blocks(v)[k])) \in Nat
      BY <1>2, PadFact
    <3> QED
      BY <3>1, <3>2
  <2> QED
    BY <2>1
<1>5. \A x \in Nat, k \in 1 .. n : G[<<x, k>>] = PlaceBlock(x) + PadToAlignData(CopiedLen(v, Blocks(v)[k]))
  BY <1>4
<1>6. PICK f : Loop(f, n, a, G)
  BY <1>3, LoopExists
<1>7. Fix(f)
  <2>1. f \in [0 .. n -> Nat] /\ f[0] = a /\ \A k \in 1 .. n : f[k] = G[<<f[k - 1], k>>]
    BY <1>6 DEF Loop
  <2>2. \A k \in 1 .. n : f[k - 1] \in Nat
    BY <2>1
  <2>3. \A k \in 1 .. n : f[k] = PlaceBlock(f[k - 1]) + PadToAlignData(CopiedLen(v, Blocks(v)[k]))
    BY <1>5, <2>1, <2>2
  <2>4. f = [k \in 0 .. n |-> f[k]]
    BY <2>1
  <2>5. ASSUME NEW k \in 0 .. n PROVE f[k] = IF k = 0 THEN Preamble(v) ELSE PlaceBlock(f[k - 1]) + PadToAlignData(CopiedLen(v, Blocks(v)[k]))
    <3>1. k # 0 => k \in 1 .. n
      OBVIOUS
    <3> QED
      BY <1>3, <2>1, <2>3, <3>1
  <2> QED
    BY <2>4, <2>5
<1>8. Fix(c)
  <2> HIDE DEF Fix
  <2> QED
    BY <1>7, Zenon
<1>9. PICK d : d = c /\ Fix(d)
  <2> HIDE DEF Fix, c
  <2> QED
    BY <1>8
<1>10. d[0] = a /\ \A k \in 1 .. n : d[k] = PlaceBlock(d[k - 1]) + PadToAlignData(CopiedLen(v, Blocks(v)[k]))
  <2> HIDE DEF c
  <2> QED
    BY <1>3, <1>9
<1>11. \A k \in 0 .. n : d[k] \in Nat
  <2> HIDE DEF c, Fix
  <2>1. \A k \in 1 .. n : d[k - 1] \in Nat => d[k] = G[<<d[k - 1], k>>]
    BY <1>5, <1>10
  <2> QED
    BY <1>3, <1>10, <2>1, LoopIs
<1>12. d \in [0 .. n -> Nat]
  <2> HIDE DEF c
  <2>1. d = [k \in 0 .. n |-> d[k]]
    BY <1>9
  <2> QED
    BY <1>11, <2>1
<1>13. e = c
  BY <1>1, Zenon DEF BlockEnds, c, Fix
<1> HIDE DEF c, Fix
<1> QED
  BY <1>1, <1>2, <1>3, <1>9, <1>10, <1>12, <1>13

------------------------------------------------------------------------------
(* The recursion over nested arrays                                        *)

(* Arrays nested less than d deep.                                         *)
Upto(d) == {v \in Var : Depth[v] < d}

LEMMA UptoFacts ==
    /\ \A u \in Upto(0) : FALSE
    /\ \A d \in Nat : \A u \in Upto(d) : u \in Var /\ u \in Upto(d + 1)
    /\ \A d \in Nat : \A u \in Upto(d + 1) :
          u \in Var /\ \A k \in 1 .. Len(u.children) : u.children[k] \in Upto(d)
    /\ Upto(MaxDepth + 1) = Var
<1>1. MaxDepth \in Nat /\ \A v \in Var : Depth[v] \in 0 .. MaxDepth
  BY SharedLayoutAssumption
<1>2. ASSUME NEW d \in Nat, NEW u \in Upto(d + 1), NEW k \in 1 .. Len(u.children)
      PROVE  u.children[k] \in Upto(d)
  <2>1. u \in Var /\ Depth[u] < d + 1
    BY DEF Upto
  <2>2. u.children[k] \in Var /\ Depth[u.children[k]] < Depth[u]
    BY <2>1, ArrayFacts
  <2> QED
    BY <1>1, <2>1, <2>2 DEF Upto
<1>3. \A d \in Nat : \A u \in Upto(d) : u \in Var /\ u \in Upto(d + 1)
  BY <1>1 DEF Upto
<1>4. \A u \in Upto(0) : FALSE
  BY <1>1 DEF Upto
<1>5. Upto(MaxDepth + 1) = Var
  BY <1>1 DEF Upto
<1>6. \A d \in Nat : \A u \in Upto(d + 1) : u \in Var
  BY SMTT(30) DEF Upto
<1> QED
  BY <1>2, <1>3, <1>4, <1>5, <1>6

(* The size of an array by those of its children.                          *)
SizeOf(v, sizes) ==
    IF IsParent(v) THEN ChildEnds(v, sizes)[Len(sizes)] ELSE DataSizes(v)[Len(Blocks(v))]

SizeOfTable(g, S) ==
    \A u \in S : g[u] = SizeOf(u, [k \in 1 .. Len(u.children) |-> g[u.children[k]]])

LEMMA FindSharedSizeEquation ==
    ASSUME NEW v \in Var
    PROVE  FindSharedSize[v] = SizeOf(v, [k \in 1 .. Len(v.children) |-> FindSharedSize[v.children[k]]])
<1> DEFINE Fix(h) == h = [u \in Var |-> IF IsParent(u)
                         THEN ChildEnds(u, [k \in 1 .. Len(u.children) |-> h[u.children[k]]])
                                  [Len([k \in 1 .. Len(u.children) |-> h[u.children[k]]])]
                         ELSE DataSizes(u)[Len(Blocks(u))]]
           c == CHOOSE h : Fix(h)
           B == {d \in Nat : \E g : SizeOfTable(g, Upto(d))}
<1>1. 0 \in B
  <2>1. \A u \in Upto(0) : FALSE
    BY UptoFacts
  <2>2. SizeOfTable(0, Upto(0))
    BY <2>1 DEF SizeOfTable
  <2> QED
    BY <2>2
<1>2. ASSUME NEW d \in Nat, d \in B PROVE d + 1 \in B
  <2>1. PICK g : SizeOfTable(g, Upto(d))
    BY <1>2
  <2>2. PICK f : f = [u \in Upto(d + 1) |-> SizeOf(u, [k \in 1 .. Len(u.children) |-> g[u.children[k]]])]
    OBVIOUS
  <2>3. \A u \in Upto(d) : u \in Upto(d + 1) /\ f[u] = g[u]
    BY <2>1, <2>2, UptoFacts DEF SizeOfTable
  <2>4. ASSUME NEW u \in Upto(d + 1)
        PROVE  f[u] = SizeOf(u, [k \in 1 .. Len(u.children) |-> f[u.children[k]]])
    <3>1. \A k \in 1 .. Len(u.children) : u.children[k] \in Upto(d)
      BY UptoFacts
    <3>2. \A k \in 1 .. Len(u.children) : f[u.children[k]] = g[u.children[k]]
      BY <2>3, <3>1
    <3>3. [k \in 1 .. Len(u.children) |-> f[u.children[k]]] = [k \in 1 .. Len(u.children) |-> g[u.children[k]]]
      BY <3>2
    <3> QED
      BY <2>2, <3>3
  <2>5. SizeOfTable(f, Upto(d + 1))
    BY <2>4 DEF SizeOfTable
  <2> QED
    BY <2>5
<1>3. \A d \in Nat : d \in B
  <2> HIDE DEF B
  <2> QED
    BY <1>1, <1>2, NumberInduction
<1>4. PICK g : SizeOfTable(g, Var)
  <2>1. MaxDepth + 1 \in Nat
    BY SharedLayoutAssumption
  <2>2. \E g : SizeOfTable(g, Upto(MaxDepth + 1))
    BY <1>3, <2>1
  <2> QED
    BY <2>2, UptoFacts
<1>5. PICK f : f = [u \in Var |-> g[u]]
  OBVIOUS
<1>6. Fix(f)
  <2>1. ASSUME NEW u \in Var PROVE f[u] = IF IsParent(u)
                         THEN ChildEnds(u, [k \in 1 .. Len(u.children) |-> f[u.children[k]]])
                                  [Len([k \in 1 .. Len(u.children) |-> f[u.children[k]]])]
                         ELSE DataSizes(u)[Len(Blocks(u))]
    <3>1. \A k \in 1 .. Len(u.children) : f[u.children[k]] = g[u.children[k]]
      BY <1>5, ArrayFacts
    <3>2. [k \in 1 .. Len(u.children) |-> f[u.children[k]]] = [k \in 1 .. Len(u.children) |-> g[u.children[k]]]
      BY <3>1
    <3>3. f[u] = SizeOf(u, [k \in 1 .. Len(u.children) |-> f[u.children[k]]])
      BY <1>4, <1>5, <3>2 DEF SizeOfTable
    <3> QED
      BY <3>3 DEF SizeOf
  <2> QED
    BY <1>5, <2>1
<1>7. Fix(c)
  <2> HIDE DEF Fix
  <2> QED
    BY <1>6, Zenon
<1>8. FindSharedSize = c
  BY Zenon DEF FindSharedSize, c, Fix
<1>9. Fix(FindSharedSize)
  <2> HIDE DEF Fix, c
  <2> QED
    BY <1>7, <1>8
<1> QED
  BY <1>9, Zenon DEF SizeOf

(* The copy of an array by those of its children.                          *)
CopyOf(v, copies) == IF IsParent(v) THEN CopyChildren(v, copies) ELSE CopyData(v)

CopyOfTable(g, S) ==
    \A u \in S : g[u] = CopyOf(u, [k \in 1 .. Len(u.children) |-> g[u.children[k]]])

LEMMA CopyVariableEquation ==
    ASSUME NEW v \in Var
    PROVE  CopyVariable[v] = CopyOf(v, [k \in 1 .. Len(v.children) |-> CopyVariable[v.children[k]]])
<1> DEFINE Fix(h) == h = [u \in Var |-> IF IsParent(u)
                         THEN CopyChildren(u, [k \in 1 .. Len(u.children) |-> h[u.children[k]]])
                         ELSE CopyData(u)]
           c == CHOOSE h : Fix(h)
           B == {d \in Nat : \E g : CopyOfTable(g, Upto(d))}
<1>1. 0 \in B
  <2>1. \A u \in Upto(0) : FALSE
    BY UptoFacts
  <2>2. CopyOfTable(0, Upto(0))
    BY <2>1 DEF CopyOfTable
  <2> QED
    BY <2>2
<1>2. ASSUME NEW d \in Nat, d \in B PROVE d + 1 \in B
  <2>1. PICK g : CopyOfTable(g, Upto(d))
    BY <1>2
  <2>2. PICK f : f = [u \in Upto(d + 1) |-> CopyOf(u, [k \in 1 .. Len(u.children) |-> g[u.children[k]]])]
    OBVIOUS
  <2>3. \A u \in Upto(d) : u \in Upto(d + 1) /\ f[u] = g[u]
    BY <2>1, <2>2, UptoFacts DEF CopyOfTable
  <2>4. ASSUME NEW u \in Upto(d + 1)
        PROVE  f[u] = CopyOf(u, [k \in 1 .. Len(u.children) |-> f[u.children[k]]])
    <3>1. \A k \in 1 .. Len(u.children) : u.children[k] \in Upto(d)
      BY UptoFacts
    <3>2. \A k \in 1 .. Len(u.children) : f[u.children[k]] = g[u.children[k]]
      BY <2>3, <3>1
    <3>3. [k \in 1 .. Len(u.children) |-> f[u.children[k]]] = [k \in 1 .. Len(u.children) |-> g[u.children[k]]]
      BY <3>2
    <3> QED
      BY <2>2, <3>3
  <2>5. CopyOfTable(f, Upto(d + 1))
    BY <2>4 DEF CopyOfTable
  <2> QED
    BY <2>5
<1>3. \A d \in Nat : d \in B
  <2> HIDE DEF B
  <2> QED
    BY <1>1, <1>2, NumberInduction
<1>4. PICK g : CopyOfTable(g, Var)
  <2>1. MaxDepth + 1 \in Nat
    BY SharedLayoutAssumption
  <2>2. \E g : CopyOfTable(g, Upto(MaxDepth + 1))
    BY <1>3, <2>1
  <2> QED
    BY <2>2, UptoFacts
<1>5. PICK f : f = [u \in Var |-> g[u]]
  OBVIOUS
<1>6. Fix(f)
  <2>1. ASSUME NEW u \in Var PROVE f[u] = IF IsParent(u)
                         THEN CopyChildren(u, [k \in 1 .. Len(u.children) |-> f[u.children[k]]])
                         ELSE CopyData(u)
    <3>1. \A k \in 1 .. Len(u.children) : f[u.children[k]] = g[u.children[k]]
      BY <1>5, ArrayFacts
    <3>2. [k \in 1 .. Len(u.children) |-> f[u.children[k]]] = [k \in 1 .. Len(u.children) |-> g[u.children[k]]]
      BY <3>1
    <3>3. f[u] = CopyOf(u, [k \in 1 .. Len(u.children) |-> f[u.children[k]]])
      BY <1>4, <1>5, <3>2 DEF CopyOfTable
    <3> QED
      BY <3>3 DEF CopyOf
  <2> QED
    BY <1>5, <2>1
<1>7. Fix(c)
  <2> HIDE DEF Fix
  <2> QED
    BY <1>6, Zenon
<1>8. CopyVariable = c
  BY Zenon DEF CopyVariable, c, Fix
<1>9. Fix(CopyVariable)
  <2> HIDE DEF Fix, c
  <2> QED
    BY <1>7, <1>8
<1> QED
  BY <1>9 DEF CopyOf

(* What holds of an array if it holds of its children holds of all.        *)
LEMMA TreeInduction ==
    ASSUME NEW S,
           \A v \in Var : (\A k \in 1 .. Len(v.children) : v.children[k] \in S) => v \in S
    PROVE  \A v \in Var : v \in S
<1> DEFINE B == {d \in Nat : \A v \in Upto(d) : v \in S}
<1>1. 0 \in B
  BY UptoFacts
<1>2. ASSUME NEW d \in Nat, d \in B PROVE d + 1 \in B
  <2> SUFFICES ASSUME NEW v \in Upto(d + 1) PROVE v \in S
    OBVIOUS
  <2>1. v \in Var /\ \A k \in 1 .. Len(v.children) : v.children[k] \in Upto(d)
    BY UptoFacts
  <2> QED
    BY <1>2, <2>1
<1>3. \A d \in Nat : d \in B
  <2> HIDE DEF B
  <2> QED
    BY <1>1, <1>2, NumberInduction
<1>4. MaxDepth + 1 \in Nat
  BY SharedLayoutAssumption
<1> QED
  BY <1>3, <1>4, UptoFacts

------------------------------------------------------------------------------
(* Areas between two offsets, none of which overlap                        *)

Laid(areas, low, high) ==
    /\ \A a \in areas : /\ a.at \in Nat /\ a.len \in Nat /\ a.len > 0
                        /\ low =< a.at /\ a.at + a.len =< high
    /\ \A a, b \in areas : a # b => a.at + a.len =< b.at \/ b.at + b.len =< a.at

(* A row of ends that do not decrease.                                     *)
LEMMA Increasing ==
    ASSUME NEW n \in Nat, NEW e \in [0 .. n -> Nat], \A k \in 1 .. n : e[k - 1] =< e[k]
    PROVE  \A i, j \in 0 .. n : i =< j => e[i] =< e[j]
<1> SUFFICES ASSUME NEW i \in 0 .. n PROVE \A j \in 0 .. n : i =< j => e[i] =< e[j]
  OBVIOUS
<1> DEFINE B == {j \in Nat : i =< j /\ j =< n => e[i] =< e[j]}
<1>1. 0 \in B
  OBVIOUS
<1>2. ASSUME NEW j \in Nat, j \in B PROVE j + 1 \in B
  <2> SUFFICES ASSUME i =< j + 1, j + 1 =< n PROVE e[i] =< e[j + 1]
    OBVIOUS
  <2>1. CASE i = j + 1
    BY <2>1
  <2>2. CASE i =< j
    <3>1. j \in 0 .. n /\ j + 1 \in 1 .. n /\ (j + 1) - 1 = j
      OBVIOUS
    <3>2. e[i] =< e[j] /\ e[j] =< e[j + 1]
      BY <1>2, <2>2, <3>1
    <3> QED
      BY <3>1, <3>2
  <2> QED
    BY <2>1, <2>2
<1>3. \A j \in Nat : j \in B
  <2> HIDE DEF B
  <2> QED
    BY <1>1, <1>2, NumberInduction
<1> QED
  BY <1>3

(* The areas of P and of n rows; each row lies between two of the ends e.  *)
AllRows(P, R, n) == P \cup UNION {R[k] : k \in 1 .. n}

RowsLaid(R, e, n) == \A k \in 1 .. n : e[k - 1] =< e[k] /\ Laid(R[k], e[k - 1], e[k])

(* Areas laid one behind the other.                                        *)
LEMMA LaidTogether ==
    ASSUME NEW n \in Nat, NEW e \in [0 .. n -> Nat], NEW P, NEW R,
           Laid(P, 0, e[0]), RowsLaid(R, e, n)
    PROVE  Laid(AllRows(P, R, n), 0, e[n])
<1>1. \A k \in 1 .. n : e[k - 1] =< e[k] /\ Laid(R[k], e[k - 1], e[k])
  BY DEF RowsLaid
<1>2. \A i, j \in 0 .. n : i =< j => e[i] =< e[j]
  BY <1>1, Increasing
<1>3. \A i \in 0 .. n : e[i] \in Nat /\ 0 =< e[i]
  OBVIOUS
<1>4. PICK A : A = AllRows(P, R, n)
  OBVIOUS
<1>5. \A a \in A : a \in P \/ \E k \in 1 .. n : a \in R[k]
  BY <1>4 DEF AllRows
<1>6. ASSUME NEW k \in 1 .. n
      PROVE  k - 1 \in 0 .. n /\ k \in 0 .. n /\ 0 =< e[k - 1] /\ e[0] =< e[k - 1] /\ e[k] =< e[n]
  BY <1>2, <1>3
<1>7. ASSUME NEW a \in A
      PROVE  /\ a.at \in Nat /\ a.len \in Nat /\ a.len > 0
             /\ 0 =< a.at /\ a.at + a.len =< e[n]
  <2>1. CASE a \in P
    <3>1. /\ a.at \in Nat /\ a.len \in Nat /\ a.len > 0
          /\ 0 =< a.at /\ a.at + a.len =< e[0]
      BY <2>1 DEF Laid
    <3>2. e[0] =< e[n]
      BY <1>2
    <3> QED
      BY <1>3, <3>1, <3>2
  <2>2. ASSUME NEW k \in 1 .. n, a \in R[k]
        PROVE  /\ a.at \in Nat /\ a.len \in Nat /\ a.len > 0
               /\ 0 =< a.at /\ a.at + a.len =< e[n]
    <3>1. /\ a.at \in Nat /\ a.len \in Nat /\ a.len > 0
          /\ e[k - 1] =< a.at /\ a.at + a.len =< e[k]
      BY <1>1, <2>2 DEF Laid
    <3> QED
      BY <1>3, <1>6, <3>1
  <2> QED
    BY <1>5, <2>1, <2>2
<1>8. ASSUME NEW a \in P, NEW k \in 1 .. n, NEW b \in R[k]
      PROVE  a.at + a.len =< b.at
  <2>1. a.at + a.len =< e[0] /\ a.at \in Nat /\ a.len \in Nat
    BY <1>1 DEF Laid
  <2>2. e[k - 1] =< b.at /\ b.at \in Nat
    BY <1>1 DEF Laid
  <2> QED
    BY <1>3, <1>6, <2>1, <2>2
<1>9. ASSUME NEW k \in 1 .. n, NEW l \in 1 .. n, k < l, NEW a \in R[k], NEW b \in R[l]
      PROVE  a.at + a.len =< b.at
  <2>1. a.at + a.len =< e[k] /\ a.at \in Nat /\ a.len \in Nat
    BY <1>1 DEF Laid
  <2>2. e[l - 1] =< b.at /\ b.at \in Nat
    BY <1>1 DEF Laid
  <2>3. e[k] =< e[l - 1] /\ e[k] \in Nat /\ e[l - 1] \in Nat
    <3>1. l - 1 \in 0 .. n /\ k \in 0 .. n /\ k =< l - 1
      BY <1>9
    <3> QED
      BY <1>2, <1>3, <3>1
  <2> QED
    BY <2>1, <2>2, <2>3
<1>10. ASSUME NEW a \in A, NEW b \in A, a # b
      PROVE  a.at + a.len =< b.at \/ b.at + b.len =< a.at
  <2>1. CASE a \in P /\ b \in P
    BY <1>10, <2>1 DEF Laid
  <2>2. ASSUME NEW k \in 1 .. n, (a \in P /\ b \in R[k]) \/ (a \in R[k] /\ b \in P)
        PROVE  a.at + a.len =< b.at \/ b.at + b.len =< a.at
    BY <1>8, <2>2
  <2>3. ASSUME NEW k \in 1 .. n, NEW l \in 1 .. n, a \in R[k], b \in R[l]
        PROVE  a.at + a.len =< b.at \/ b.at + b.len =< a.at
    <3>1. CASE k = l
      BY <1>1, <1>10, <2>3, <3>1 DEF Laid
    <3>2. CASE k < l
      BY <1>9, <2>3, <3>2
    <3>3. CASE l < k
      BY <1>9, <2>3, <3>3
    <3> QED
      BY <3>1, <3>2, <3>3
  <2>4. /\ a \in P \/ \E k \in 1 .. n : a \in R[k]
        /\ b \in P \/ \E k \in 1 .. n : b \in R[k]
    BY <1>5
  <2>5. CASE a \in P
    BY <2>1, <2>2, <2>4, <2>5
  <2>6. CASE a \notin P
    <3>1. PICK k \in 1 .. n : a \in R[k]
      BY <2>4, <2>6
    <3> QED
      BY <2>2, <2>3, <2>4, <3>1
  <2> QED
    BY <2>5, <2>6
<1>11. Laid(A, 0, e[n])
  BY <1>7, <1>10 DEF Laid
<1> QED
  BY <1>4, <1>11

(* A copy that is moved.                                                   *)
LEMMA MovedLaid ==
    ASSUME NEW areas, NEW len \in Nat, NEW off \in Nat, Laid(areas, 0, len)
    PROVE  Laid(Moved(areas, off), off, off + len)
<1>1. ASSUME NEW a \in Moved(areas, off)
      PROVE  \E x \in areas : a = Area(x.at + off, x.len, x.what)
  BY DEF Moved
<1>2. ASSUME NEW a \in Moved(areas, off)
      PROVE  /\ a.at \in Nat /\ a.len \in Nat /\ a.len > 0
             /\ off =< a.at /\ a.at + a.len =< off + len
  <2>1. PICK x \in areas : a = Area(x.at + off, x.len, x.what)
    BY <1>1
  <2>2. a.at = x.at + off /\ a.len = x.len
    BY <2>1 DEF Area
  <2>3. x.at \in Nat /\ x.len \in Nat /\ x.len > 0 /\ 0 =< x.at /\ x.at + x.len =< len
    BY DEF Laid
  <2> QED
    BY <2>2, <2>3
<1>3. ASSUME NEW a \in Moved(areas, off), NEW b \in Moved(areas, off), a # b
      PROVE  a.at + a.len =< b.at \/ b.at + b.len =< a.at
  <2>1. PICK x \in areas : a = Area(x.at + off, x.len, x.what)
    BY <1>1
  <2>2. PICK y \in areas : b = Area(y.at + off, y.len, y.what)
    BY <1>1
  <2>3. x # y
    BY <1>3, <2>1, <2>2
  <2>4. a.at = x.at + off /\ a.len = x.len /\ b.at = y.at + off /\ b.len = y.len
    BY <2>1, <2>2 DEF Area
  <2>5. x.at \in Nat /\ x.len \in Nat /\ y.at \in Nat /\ y.len \in Nat
    BY DEF Laid
  <2>6. x.at + x.len =< y.at \/ y.at + y.len =< x.at
    BY <2>3 DEF Laid
  <2> QED
    BY <2>4, <2>5, <2>6
<1> QED
  BY <1>2, <1>3 DEF Laid

------------------------------------------------------------------------------
(* The copy of an array that is no parent                                  *)

(* Where its blocks are: behind one another, each with its signature       *)
(* before it.                                                              *)
LEMMA BlockPlaces ==
    ASSUME NEW v \in Var, NEW n, n = Len(Blocks(v)), NEW e, e = BlockEnds(v), NEW k \in 1 .. n
    PROVE  /\ e[k - 1] \in Nat /\ e[k] \in Nat /\ e[k - 1] =< e[k]
           /\ BlockOff(v, k) \in Nat /\ Aligned(BlockOff(v, k))
           /\ e[k - 1] =< BlockOff(v, k) - SignatureSize
           /\ BlockOff(v, k) + CopiedLen(v, Blocks(v)[k]) =< e[k]
<1>1. /\ n \in Nat /\ e \in [0 .. n -> Nat]
      /\ e[k] = PlaceBlock(e[k - 1]) + PadToAlignData(CopiedLen(v, Blocks(v)[k]))
  BY BlocksFact, BlockEndsFact
<1>2. PICK x \in Nat : x = e[k - 1]
  BY <1>1
<1>3. PICK len \in Nat : len = CopiedLen(v, Blocks(v)[k])
  BY BlocksFact
<1>4. PICK at \in Nat : /\ at = PadToAlignData(x + SignatureSize)
                        /\ at >= x + SignatureSize /\ Aligned(at)
  <2>1. x + SignatureSize \in Nat
    BY Parameters
  <2> QED
    BY <2>1, PadFact
<1>5. PadToAlignData(len) \in Nat /\ PadToAlignData(len) >= len
  BY PadFact
<1>6. BlockOff(v, k) = at /\ e[k] = at + PadToAlignData(len)
  BY <1>1, <1>2, <1>3, <1>4 DEF BlockOff, PlaceBlock
<1> QED
  BY <1>2, <1>3, <1>4, <1>5, <1>6, Parameters, SMTT(30)

(* A block and its signature lie in the room of the block.                 *)
LEMMA BlockLaid ==
    ASSUME NEW v \in Var, NEW n, n = Len(Blocks(v)), NEW e, e = BlockEnds(v), NEW k \in 1 .. n
    PROVE  Laid(CopyBlock(v, k), e[k - 1], e[k])
<1>1. PICK at \in Nat, len \in Nat, x \in {"data", "imag_data", "ir", "jc"} :
        /\ at = BlockOff(v, k) /\ x = Blocks(v)[k] /\ len = CopiedLen(v, x) /\ len > 0
        /\ e[k - 1] =< at - SignatureSize /\ at + len =< e[k]
        /\ e[k - 1] \in Nat /\ e[k] \in Nat
  BY BlockPlaces, BlocksFact
<1>2. PICK s : s = Area(at - SignatureSize, SignatureSize, <<"signature", FindPaddedDataSize(len)>>)
  OBVIOUS
<1>3. PICK d : d = Area(at, len, <<x, v>>)
  OBVIOUS
<1>4. CopyBlock(v, k) = {s, d}
  BY <1>1, <1>2, <1>3 DEF CopyBlock
<1>5. s.at = at - SignatureSize /\ s.len = SignatureSize /\ d.at = at /\ d.len = len
  BY <1>2, <1>3 DEF Area
<1>6. s.at \in Nat /\ s.len \in Nat /\ s.len > 0
  BY <1>1, <1>5, Parameters, SMTT(30)
<1>7. s.at + s.len = d.at /\ e[k - 1] =< s.at /\ s.at =< d.at
  BY <1>1, <1>5, Parameters
<1>8. d.at + d.len =< e[k] /\ s.at + s.len =< e[k] /\ e[k - 1] =< d.at
  BY <1>1, <1>5, <1>6, <1>7, SMTT(30)
<1> QED
  BY <1>1, <1>4, <1>5, <1>6, <1>7, <1>8, SMTT(30) DEF Laid

(* The header and what follows it fill the preamble.                       *)
LEMMA PreamblesLaid ==
    ASSUME NEW v \in Var, NEW header
    PROVE  Laid(Preambles(v, header), 0, Preamble(v))
<1>1. PICK h : h = Area(0, HeaderSize, <<"header", v, header>>)
  OBVIOUS
<1>2. PICK d : d = Area(HeaderSize, Preamble(v) - HeaderSize, <<"preamble", v>>)
  OBVIOUS
<1>3. Preambles(v, header) = {h, d}
  BY <1>1, <1>2 DEF Preambles
<1>4. h.at = 0 /\ h.len = HeaderSize /\ d.at = HeaderSize /\ d.len = Preamble(v) - HeaderSize
  BY <1>1, <1>2 DEF Area
<1> QED
  BY <1>3, <1>4, PreambleType, Parameters DEF Laid

LEMMA DataLaid ==
    ASSUME NEW v \in Var
    PROVE  /\ CopyData(v).len \in Nat
           /\ Laid(CopyData(v).areas, 0, CopyData(v).len)
<1>1. PICK n \in Nat : n = Len(Blocks(v))
  BY BlocksFact
<1>2. PICK e \in [0 .. n -> Nat] : e = BlockEnds(v) /\ e[0] = Preamble(v)
  BY <1>1, BlockEndsFact
<1>3. PICK P : P = Preambles(v, Header(v, DataOffs(v), <<>>))
  OBVIOUS
<1>4. PICK R : R = [k \in 1 .. n |-> CopyBlock(v, k)]
  OBVIOUS
<1>5. Laid(P, 0, e[0])
  BY <1>2, <1>3, PreamblesLaid
<1>6. ASSUME NEW k \in 1 .. n PROVE e[k - 1] =< e[k] /\ Laid(R[k], e[k - 1], e[k])
  <2>1. e[k - 1] =< e[k]
    BY <1>1, <1>2, BlockPlaces
  <2>2. Laid(CopyBlock(v, k), e[k - 1], e[k])
    BY <1>1, <1>2, BlockLaid
  <2> QED
    BY <1>4, <2>1, <2>2
<1>7. RowsLaid(R, e, n)
  BY <1>6 DEF RowsLaid
<1>8. Laid(AllRows(P, R, n), 0, e[n])
  BY <1>5, <1>7, LaidTogether
<1>9. {R[k] : k \in 1 .. n} = {CopyBlock(v, k) : k \in 1 .. n}
  BY <1>4
<1>10. CopyData(v).len = e[n] /\ CopyData(v).areas = AllRows(P, R, n)
  BY <1>1, <1>2, <1>3, <1>9 DEF CopyData, AllRows
<1> QED
  BY <1>2, <1>8, <1>10

(* The room for the blocks is enough.                                      *)
LEMMA DataFits ==
    ASSUME NEW v \in Var
    PROVE  /\ DataSizes(v)[Len(Blocks(v))] \in Nat
           /\ CopyData(v).len =< DataSizes(v)[Len(Blocks(v))]
<1>1. PICK n \in Nat : n = Len(Blocks(v))
  BY BlocksFact
<1>2. PICK e \in [0 .. n -> Nat] :
        /\ e = BlockEnds(v) /\ e[0] = Preamble(v)
        /\ \A k \in 1 .. n : e[k] = PlaceBlock(e[k - 1]) + PadToAlignData(CopiedLen(v, Blocks(v)[k]))
  BY <1>1, BlockEndsFact
<1>3. PICK s \in [0 .. n -> Nat] :
        /\ s = DataSizes(v) /\ s[0] = Preamble(v)
        /\ \A k \in 1 .. n : s[k] = AddAlignedDataSize(s[k - 1], SizedLen(v, Blocks(v)[k]))
  BY <1>1, DataSizesFact
<1> DEFINE B == {k \in Nat : k =< n => e[k] =< s[k]}
<1>4. 0 \in B
  BY <1>2, <1>3, PreambleType
<1>5. ASSUME NEW k \in Nat, k \in B PROVE k + 1 \in B
  <2> SUFFICES ASSUME k + 1 =< n PROVE e[k + 1] =< s[k + 1]
    OBVIOUS
  <2>1. k + 1 \in 1 .. n /\ (k + 1) - 1 = k /\ k \in 0 .. n
    OBVIOUS
  <2>2. PICK x \in Nat, y \in Nat : x = e[k] /\ y = s[k] /\ x =< y
    BY <1>5, <2>1
  <2>3. PICK c \in Nat, d \in Nat : /\ c = CopiedLen(v, Blocks(v)[k + 1])
                                    /\ d = SizedLen(v, Blocks(v)[k + 1]) /\ c =< d
    BY <1>1, <2>1, BlocksFact
  <2>4. e[k + 1] = PadToAlignData(x + SignatureSize) + PadToAlignData(c)
    BY <1>2, <2>1, <2>2, <2>3 DEF PlaceBlock
  <2>5. s[k + 1] = PadToAlignData(y + SignatureSize) + PadToAlignData(d)
    BY <1>3, <2>1, <2>2, <2>3 DEF AddAlignedDataSize
  <2>6. x + SignatureSize \in Nat /\ y + SignatureSize \in Nat /\ x + SignatureSize =< y + SignatureSize
    BY <2>2, Parameters
  <2>7. PadToAlignData(x + SignatureSize) =< PadToAlignData(y + SignatureSize)
    BY <2>6, PadMonotonic
  <2>8. PadToAlignData(c) =< PadToAlignData(d)
    BY <2>3, PadMonotonic
  <2>9. /\ PadToAlignData(x + SignatureSize) \in Nat /\ PadToAlignData(y + SignatureSize) \in Nat
        /\ PadToAlignData(c) \in Nat /\ PadToAlignData(d) \in Nat
    BY <2>3, <2>6, PadFact
  <2> QED
    BY <2>4, <2>5, <2>7, <2>8, <2>9
<1>6. n \in B
  <2> HIDE DEF B
  <2> QED
    BY <1>4, <1>5, NumberInduction
<1>7. e[n] =< s[n] /\ s[n] \in Nat
  BY <1>6
<1>8. CopyData(v).len = e[n]
  BY <1>1, <1>2 DEF CopyData
<1> QED
  BY <1>1, <1>3, <1>7, <1>8

------------------------------------------------------------------------------
(* Alignment and signatures of areas                                       *)

InPlace(areas) ==
    \A a \in areas :
        /\ a.what[1] \notin {"preamble", "signature"} => Aligned(a.at)
        /\ a.what[1] \in {"data", "imag_data", "ir", "jc"} =>
              Area(a.at - SignatureSize, SignatureSize, <<"signature", FindPaddedDataSize(a.len)>>) \in areas

LEMMA PreamblesInPlace ==
    ASSUME NEW v \in Var, NEW header
    PROVE  InPlace(Preambles(v, header))
<1>1. PICK h : h = Area(0, HeaderSize, <<"header", v, header>>)
  OBVIOUS
<1>2. PICK d : d = Area(HeaderSize, Preamble(v) - HeaderSize, <<"preamble", v>>)
  OBVIOUS
<1>3. Preambles(v, header) = {h, d}
  BY <1>1, <1>2 DEF Preambles
<1>4. h.at = 0 /\ h.what[1] = "header" /\ d.what[1] = "preamble"
  BY <1>1, <1>2 DEF Area
<1>5. Aligned(0)
  BY Parameters DEF Aligned
<1> QED
  BY <1>3, <1>4, <1>5 DEF InPlace

LEMMA BlockInPlace ==
    ASSUME NEW v \in Var, NEW k \in 1 .. Len(Blocks(v))
    PROVE  InPlace(CopyBlock(v, k))
<1>1. PICK at \in Nat, len \in Nat, x \in {"data", "imag_data", "ir", "jc"} :
        /\ at = BlockOff(v, k) /\ x = Blocks(v)[k] /\ len = CopiedLen(v, x) /\ Aligned(at)
  BY BlockPlaces, BlocksFact
<1>2. PICK s : s = Area(at - SignatureSize, SignatureSize, <<"signature", FindPaddedDataSize(len)>>)
  OBVIOUS
<1>3. PICK d : d = Area(at, len, <<x, v>>)
  OBVIOUS
<1>4. CopyBlock(v, k) = {s, d}
  BY <1>1, <1>2, <1>3 DEF CopyBlock
<1>5. s.what[1] = "signature"
  BY <1>2 DEF Area
<1>6. d.at = at /\ d.len = len
  BY <1>3 DEF Area
<1> QED
  BY <1>1, <1>2, <1>4, <1>5, <1>6 DEF InPlace

LEMMA RowsInPlace ==
    ASSUME NEW P, NEW R, NEW n, InPlace(P), \A k \in 1 .. n : InPlace(R[k])
    PROVE  InPlace(AllRows(P, R, n))
BY DEF InPlace, AllRows

LEMMA MovedInPlace ==
    ASSUME NEW areas, NEW len, NEW off \in Nat, Laid(areas, 0, len), InPlace(areas), Aligned(off)
    PROVE  InPlace(Moved(areas, off))
<1> SUFFICES ASSUME NEW a \in Moved(areas, off)
             PROVE  /\ a.what[1] \notin {"preamble", "signature"} => Aligned(a.at)
                    /\ a.what[1] \in {"data", "imag_data", "ir", "jc"} =>
                          Area(a.at - SignatureSize, SignatureSize,
                               <<"signature", FindPaddedDataSize(a.len)>>) \in Moved(areas, off)
  BY DEF InPlace
<1>1. PICK x \in areas : a = Area(x.at + off, x.len, x.what)
  BY DEF Moved
<1>2. a.at = x.at + off /\ a.len = x.len /\ a.what = x.what
  BY <1>1 DEF Area
<1>3. x.at \in Nat
  BY DEF Laid
<1>4. ASSUME a.what[1] \notin {"preamble", "signature"} PROVE Aligned(a.at)
  <2>1. Aligned(x.at)
    BY <1>2, <1>4 DEF InPlace
  <2> QED
    BY <1>2, <1>3, <2>1, AlignedSum
<1>5. ASSUME a.what[1] \in {"data", "imag_data", "ir", "jc"}
      PROVE  Area(a.at - SignatureSize, SignatureSize, <<"signature", FindPaddedDataSize(a.len)>>)
                \in Moved(areas, off)
  <2>1. PICK w : w = <<"signature", FindPaddedDataSize(a.len)>>
    OBVIOUS
  <2>2. PICK s \in areas : s = Area(x.at - SignatureSize, SignatureSize, w)
    BY <1>2, <1>5, <2>1 DEF InPlace
  <2>3. s.at = x.at - SignatureSize /\ s.len = SignatureSize /\ s.what = w
    BY <2>2 DEF Area
  <2>4. (x.at - SignatureSize) + off = a.at - SignatureSize
    BY <1>2, <1>3, Parameters
  <2>5. Area(s.at + off, s.len, s.what) = Area(a.at - SignatureSize, SignatureSize, w)
    BY <2>3, <2>4
  <2>6. Area(s.at + off, s.len, s.what) \in Moved(areas, off)
    BY DEF Moved
  <2> QED
    BY <2>1, <2>5, <2>6
<1> QED
  BY <1>4, <1>5

LEMMA DataInPlace ==
    ASSUME NEW v \in Var
    PROVE  InPlace(CopyData(v).areas)
<1>1. PICK P : P = Preambles(v, Header(v, DataOffs(v), <<>>))
  OBVIOUS
<1>2. PICK n \in Nat : n = Len(Blocks(v))
  BY BlocksFact
<1>3. PICK R : R = [k \in 1 .. n |-> CopyBlock(v, k)]
  OBVIOUS
<1>4. InPlace(P)
  BY <1>1, PreamblesInPlace
<1>5. \A k \in 1 .. n : InPlace(R[k])
  BY <1>2, <1>3, BlockInPlace
<1>6. {R[k] : k \in 1 .. n} = {CopyBlock(v, k) : k \in 1 .. n}
  BY <1>3
<1>7. CopyData(v).areas = AllRows(P, R, n)
  BY <1>1, <1>2, <1>6 DEF CopyData, AllRows
<1> QED
  BY <1>4, <1>5, <1>7, RowsInPlace

------------------------------------------------------------------------------
(* The copy of an array with children                                      *)

LEMMA Widened ==
    ASSUME NEW areas, NEW low \in Nat, NEW high \in Nat, NEW more \in Nat, Laid(areas, low, high), high =< more
    PROVE  Laid(areas, low, more)
<1>1. ASSUME NEW a \in areas PROVE a.at + a.len =< more
  BY DEF Laid
<1> QED
  BY <1>1 DEF Laid

(* Children begin at multiples of the alignment, each behind the one       *)
(* before it.                                                              *)
LEMMA ChildPlaces ==
    ASSUME NEW v \in Var, NEW n \in Nat, NEW lens \in Seq(Nat), Len(lens) = n,
           NEW e, e = ChildEnds(v, lens)
    PROVE  /\ e \in [0 .. n -> Nat] /\ e[0] >= Preamble(v)
           /\ \A k \in 0 .. n : e[k] \in Nat /\ Aligned(e[k])
           /\ \A k \in 1 .. n : e[k - 1] + lens[k] =< e[k]
<1>1. /\ e \in [0 .. n -> Nat] /\ e[0] = PadToAlignData(Preamble(v))
      /\ \A k \in 1 .. n : e[k] = e[k - 1] + PadToAlignData(lens[k])
  BY ChildEndsFact
<1>2. e[0] >= Preamble(v) /\ Aligned(e[0])
  BY <1>1, PreambleType, PadFact
<1>3. ASSUME NEW k \in 1 .. n
      PROVE  /\ lens[k] \in Nat /\ PadToAlignData(lens[k]) >= lens[k] /\ PadToAlignData(lens[k]) \in Nat
             /\ Aligned(PadToAlignData(lens[k])) /\ e[k - 1] \in Nat /\ e[k] \in Nat
  <2>1. lens[k] \in Nat
    OBVIOUS
  <2>2. e[k - 1] \in Nat /\ e[k] \in Nat
    BY <1>1
  <2> QED
    BY <2>1, <2>2, PadFact
<1>4. \A k \in 1 .. n : e[k - 1] + lens[k] =< e[k]
  BY <1>1, <1>3
<1> DEFINE B == {k \in Nat : k =< n => Aligned(e[k])}
<1>5. 0 \in B
  BY <1>2
<1>6. ASSUME NEW k \in Nat, k \in B PROVE k + 1 \in B
  <2> SUFFICES ASSUME k + 1 =< n PROVE Aligned(e[k + 1])
    OBVIOUS
  <2>1. k + 1 \in 1 .. n /\ (k + 1) - 1 = k /\ Aligned(e[k])
    BY <1>6
  <2>2. e[k + 1] = e[k] + PadToAlignData(lens[k + 1])
    BY <1>1, <2>1
  <2>3. Aligned(PadToAlignData(lens[k + 1]))
    BY <1>3, <2>1
  <2> QED
    BY <2>1, <2>2, <2>3, AlignedSum
<1>7. \A k \in Nat : k \in B
  <2> HIDE DEF B
  <2> QED
    BY <1>5, <1>6, NumberInduction
<1>8. \A k \in 0 .. n : e[k] \in Nat /\ Aligned(e[k])
  BY <1>1, <1>7
<1> QED
  BY <1>1, <1>2, <1>4, <1>8

(* What the copy of an array is to be.                                     *)
Packed(c) == c.len \in Nat /\ Laid(c.areas, 0, c.len) /\ InPlace(c.areas)

LEMMA DataPacked ==
    ASSUME NEW v \in Var
    PROVE  Packed(CopyData(v))
BY DataLaid, DataInPlace DEF Packed

LEMMA ChildrenPacked ==
    ASSUME NEW v \in Var, NEW n \in Nat, NEW copies, Len(copies) = n, \A k \in 1 .. n : Packed(copies[k])
    PROVE  Packed(CopyChildren(v, copies))
<1>1. PICK lens \in Seq(Nat) : /\ Len(lens) = n /\ lens = [k \in 1 .. n |-> copies[k].len]
                               /\ \A k \in 1 .. n : lens[k] = copies[k].len
  <2>1. \A k \in 1 .. n : copies[k].len \in Nat
    BY DEF Packed
  <2>2. [k \in 1 .. n |-> copies[k].len] \in Seq(Nat) /\ Len([k \in 1 .. n |-> copies[k].len]) = n
    BY <2>1
  <2> QED
    BY <2>2
<1>2. PICK e : e = ChildEnds(v, lens)
  OBVIOUS
<1>3. /\ e \in [0 .. n -> Nat] /\ e[0] >= Preamble(v)
      /\ \A k \in 0 .. n : e[k] \in Nat /\ Aligned(e[k])
      /\ \A k \in 1 .. n : e[k - 1] + lens[k] =< e[k]
  BY <1>1, <1>2, ChildPlaces
<1>4. PICK P : P = Preambles(v, Header(v, [x \in {} |-> 0], [k \in 1 .. n |-> e[k - 1]]))
  OBVIOUS
<1>5. PICK R : R = [k \in 1 .. n |-> Moved(copies[k].areas, e[k - 1])]
  OBVIOUS
<1>6. Laid(P, 0, e[0]) /\ InPlace(P)
  <2>1. Laid(P, 0, Preamble(v)) /\ InPlace(P)
    BY <1>4, PreamblesLaid, PreamblesInPlace
  <2>2. e[0] \in Nat /\ Preamble(v) \in Nat /\ Preamble(v) =< e[0]
    BY <1>3, PreambleType
  <2> QED
    BY <2>1, <2>2, Widened
<1>7. ASSUME NEW k \in 1 .. n
      PROVE  e[k - 1] =< e[k] /\ Laid(R[k], e[k - 1], e[k]) /\ InPlace(R[k])
  <2>1. PICK areas : areas = copies[k].areas
    OBVIOUS
  <2>2. PICK off \in Nat, end \in Nat, len \in Nat :
          /\ off = e[k - 1] /\ end = e[k] /\ len = copies[k].len
          /\ Aligned(off) /\ off + len =< end /\ Laid(areas, 0, len) /\ InPlace(areas)
    <3>1. k - 1 \in 0 .. n /\ k \in 0 .. n
      OBVIOUS
    <3>2. Packed(copies[k])
      OBVIOUS
    <3> QED
      BY <1>1, <1>3, <2>1, <3>1, <3>2 DEF Packed
  <2>3. R[k] = Moved(areas, off)
    BY <1>5, <2>1, <2>2
  <2>4. Laid(R[k], off, off + len) /\ InPlace(R[k])
    BY <2>2, <2>3, MovedLaid, MovedInPlace
  <2>5. Laid(R[k], off, end)
    <3>1. off + len \in Nat
      OBVIOUS
    <3> QED
      BY <2>2, <2>4, <3>1, Widened
  <2> QED
    BY <2>2, <2>4, <2>5
<1>8. RowsLaid(R, e, n)
  BY <1>7 DEF RowsLaid
<1>9. Laid(AllRows(P, R, n), 0, e[n])
  BY <1>3, <1>6, <1>8, LaidTogether
<1>10. InPlace(AllRows(P, R, n))
  BY <1>6, <1>7, RowsInPlace
<1>11. {R[k] : k \in 1 .. n} = {Moved(copies[k].areas, e[k - 1]) : k \in 1 .. n}
  BY <1>5
<1>12. /\ CopyChildren(v, copies).len = e[n]
       /\ CopyChildren(v, copies).areas = AllRows(P, R, n)
  BY <1>1, <1>2, <1>4, <1>11 DEF CopyChildren, AllRows
<1> QED
  BY <1>3, <1>9, <1>10, <1>12 DEF Packed

(* The ends e of n children of the lengths lens.                           *)
EndsOf(e, v, lens, n) ==
    /\ e = ChildEnds(v, lens) /\ e[0] = PadToAlignData(Preamble(v))
    /\ \A k \in 1 .. n : e[k] = e[k - 1] + PadToAlignData(lens[k])

LEMMA ChildEndsExist ==
    ASSUME NEW v \in Var, NEW n \in Nat, NEW lens \in Seq(Nat), Len(lens) = n
    PROVE  \E e \in [0 .. n -> Nat] : EndsOf(e, v, lens, n)
<1>1. PICK e : e = ChildEnds(v, lens)
  OBVIOUS
<1>2. /\ e \in [0 .. n -> Nat] /\ e[0] = PadToAlignData(Preamble(v))
      /\ \A k \in 1 .. n : e[k] = e[k - 1] + PadToAlignData(lens[k])
  BY <1>1, ChildEndsFact
<1> QED
  BY <1>1, <1>2 DEF EndsOf

(* The room for children is enough if that for each of them is.            *)
LEMMA ChildrenFit ==
    ASSUME NEW v \in Var, NEW n \in Nat, NEW lens \in Seq(Nat), NEW sizes \in Seq(Nat),
           Len(lens) = n, Len(sizes) = n, \A k \in 1 .. n : lens[k] =< sizes[k]
    PROVE  /\ ChildEnds(v, lens)[n] \in Nat /\ ChildEnds(v, sizes)[n] \in Nat
           /\ ChildEnds(v, lens)[n] =< ChildEnds(v, sizes)[n]
<1>1. PICK e \in [0 .. n -> Nat] : EndsOf(e, v, lens, n)
  BY ChildEndsExist
<1>2. PICK s \in [0 .. n -> Nat] : EndsOf(s, v, sizes, n)
  BY ChildEndsExist
<1> DEFINE B == {k \in Nat : k =< n => e[k] =< s[k]}
<1>3. 0 \in B
  BY <1>1, <1>2 DEF EndsOf
<1>4. ASSUME NEW k \in Nat, k \in B PROVE k + 1 \in B
  <2> SUFFICES ASSUME k + 1 =< n PROVE e[k + 1] =< s[k + 1]
    OBVIOUS
  <2>1. k + 1 \in 1 .. n /\ (k + 1) - 1 = k /\ k \in 0 .. n
    OBVIOUS
  <2>2. PICK x \in Nat, y \in Nat : x = e[k] /\ y = s[k] /\ x =< y
    BY <1>4, <2>1
  <2>3. PICK c \in Nat, d \in Nat : c = lens[k + 1] /\ d = sizes[k + 1] /\ c =< d
    <3>1. lens[k + 1] \in Nat /\ sizes[k + 1] \in Nat /\ lens[k + 1] =< sizes[k + 1]
      BY <2>1
    <3> QED
      BY <3>1
  <2>4. e[k + 1] = x + PadToAlignData(c) /\ s[k + 1] = y + PadToAlignData(d)
    BY <1>1, <1>2, <2>1, <2>2, <2>3 DEF EndsOf
  <2>5. PadToAlignData(c) =< PadToAlignData(d)
    BY <2>3, PadMonotonic
  <2>6. PadToAlignData(c) \in Nat /\ PadToAlignData(d) \in Nat
    BY PadFact
  <2> QED
    BY <2>2, <2>4, <2>5, <2>6
<1>5. n \in B
  <2> HIDE DEF B
  <2> QED
    BY <1>3, <1>4, NumberInduction
<1> QED
  BY <1>1, <1>2, <1>5 DEF EndsOf

(* Every copy is packed and fits the size that is asked for.               *)
LEMMA CopiesPacked ==
    \A v \in Var : /\ Packed(CopyVariable[v]) /\ FindSharedSize[v] \in Nat
                   /\ CopyVariable[v].len =< FindSharedSize[v]
<1> DEFINE S == {v \in Var : /\ Packed(CopyVariable[v]) /\ FindSharedSize[v] \in Nat
                             /\ CopyVariable[v].len =< FindSharedSize[v]}
<1>1. ASSUME NEW v \in Var, \A k \in 1 .. Len(v.children) : v.children[k] \in S
      PROVE  v \in S
  <2>1. PICK n \in Nat : n = Len(v.children)
    BY ArrayFacts
  <2>2. PICK copies : copies = [k \in 1 .. n |-> CopyVariable[v.children[k]]]
    OBVIOUS
  <2>3. PICK sizes : sizes = [k \in 1 .. n |-> FindSharedSize[v.children[k]]]
    OBVIOUS
  <2>4. ASSUME NEW k \in 1 .. n
        PROVE  /\ Packed(copies[k]) /\ copies[k].len \in Nat /\ sizes[k] \in Nat /\ copies[k].len =< sizes[k]
    <3>1. v.children[k] \in S
      BY <1>1, <2>1
    <3> QED
      BY <2>2, <2>3, <3>1 DEF Packed
  <2>5. CopyVariable[v] = CopyOf(v, copies) /\ FindSharedSize[v] = SizeOf(v, sizes)
    <3>1. CopyVariable[v] = CopyOf(v, copies)
      BY <2>1, <2>2, CopyVariableEquation
    <3>2. FindSharedSize[v] = SizeOf(v, sizes)
      BY <2>1, <2>3, FindSharedSizeEquation
    <3> QED
      BY <3>1, <3>2
  <2>6. Len(copies) = n /\ Len(sizes) = n /\ sizes \in Seq(Nat)
    BY <2>2, <2>3, <2>4
  <2>7. PICK lens \in Seq(Nat) : /\ Len(lens) = n /\ lens = [k \in 1 .. n |-> copies[k].len]
                                 /\ \A k \in 1 .. n : lens[k] =< sizes[k]
    <3>1. PICK lens : lens = [k \in 1 .. n |-> copies[k].len]
      OBVIOUS
    <3>2. lens \in Seq(Nat) /\ Len(lens) = n
      BY <2>4, <3>1
    <3> QED
      BY <2>4, <3>1, <3>2
  <2>8. /\ Packed(CopyOf(v, copies)) /\ SizeOf(v, sizes) \in Nat
        /\ CopyOf(v, copies).len =< SizeOf(v, sizes)
    <3>1. CASE IsParent(v)
      <4>1. Packed(CopyChildren(v, copies))
        BY <2>4, <2>6, ChildrenPacked
      <4>2. CopyChildren(v, copies).len = ChildEnds(v, lens)[n]
        BY <2>6, <2>7 DEF CopyChildren
      <4>3. /\ ChildEnds(v, sizes)[n] \in Nat
            /\ ChildEnds(v, lens)[n] =< ChildEnds(v, sizes)[n]
        BY <2>6, <2>7, ChildrenFit
      <4> QED
        BY <2>6, <3>1, <4>1, <4>2, <4>3 DEF CopyOf, SizeOf
    <3>2. CASE ~IsParent(v)
      BY <3>2, DataPacked, DataFits DEF CopyOf, SizeOf
    <3> QED
      BY <3>1, <3>2
  <2> QED
    BY <2>5, <2>8
<1>2. \A v \in Var : v \in S
  <2> HIDE DEF S
  <2> QED
    BY <1>1, TreeInduction
<1> QED
  BY <1>2

------------------------------------------------------------------------------
(* The invariants                                                          *)

(* The segment is empty or holds the copy of an array.                     *)
Holds(v) == segment = [var |-> v, size |-> FindSharedSize[v], areas |-> CopyVariable[v].areas]

Shared == segment = NoSegment \/ \E v \in Var : Holds(v)

THEOREM SharedInvariant == Spec => []Shared
<1>1. Init => Shared
  BY DEF Init, Shared
<1>2. Shared /\ [Next]_segment => Shared'
  BY DEF Shared, Holds, Next, Share, Clear
<1> QED
  BY <1>1, <1>2, PTL DEF Spec

(* Nothing msh_CopyVariable writes lies outside the segment whose size     *)
(* msh_FindSharedSize computed, whatever the array.                        *)
THEOREM CopyWithinSegment == Spec => []WithinSegment
<1>1. Shared => WithinSegment
  <2>1. ASSUME segment = NoSegment PROVE WithinSegment
    BY <2>1 DEF WithinSegment, NoSegment
  <2>2. ASSUME NEW v \in Var, Holds(v) PROVE WithinSegment
    <3>1. segment.areas = CopyVariable[v].areas /\ segment.size = FindSharedSize[v]
      BY <2>2 DEF Holds
    <3>2. PICK size \in Nat, len \in Nat : /\ size = FindSharedSize[v] /\ len = CopyVariable[v].len /\ len =< size
                                           /\ Laid(CopyVariable[v].areas, 0, len)
      BY CopiesPacked DEF Packed
    <3>3. ASSUME NEW a \in segment.areas PROVE a.at >= 0 /\ a.at + a.len =< segment.size
      <4>1. a.at \in Nat /\ a.len \in Nat /\ a.at + a.len =< len
        BY <3>1, <3>2 DEF Laid
      <4> QED
        BY <3>1, <3>2, <4>1
    <3> QED
      BY <3>3 DEF WithinSegment
  <2> QED
    BY <2>1, <2>2 DEF Shared
<1> QED
  BY <1>1, SharedInvariant, PTL

(* No two parts of the array share a byte of the segment.                  *)
THEOREM PartsDisjoint == Spec => []AreasDisjoint
<1>1. Shared => AreasDisjoint
  <2>1. ASSUME segment = NoSegment PROVE AreasDisjoint
    BY <2>1 DEF AreasDisjoint, NoSegment
  <2>2. ASSUME NEW v \in Var, Holds(v) PROVE AreasDisjoint
    <3>1. segment.areas = CopyVariable[v].areas
      BY <2>2 DEF Holds
    <3>2. Laid(CopyVariable[v].areas, 0, CopyVariable[v].len)
      BY CopiesPacked DEF Packed
    <3> QED
      BY <3>1, <3>2 DEF Laid, AreasDisjoint
  <2> QED
    BY <2>1, <2>2 DEF Shared
<1> QED
  BY <1>1, SharedInvariant, PTL

(* Headers and data begin at multiples of the alignment, and mxFree finds  *)
(* a signature before all data.                                            *)
THEOREM PartsAligned == Spec => []DataAligned
<1>1. Shared => DataAligned
  <2>1. ASSUME segment = NoSegment PROVE DataAligned
    BY <2>1 DEF DataAligned, NoSegment
  <2>2. ASSUME NEW v \in Var, Holds(v) PROVE DataAligned
    <3>1. segment.areas = CopyVariable[v].areas
      BY <2>2 DEF Holds
    <3>2. InPlace(segment.areas) /\ Laid(segment.areas, 0, CopyVariable[v].len)
      BY <3>1, CopiesPacked DEF Packed
    <3>3. ASSUME NEW a \in segment.areas, a.what[1] \notin {"preamble", "signature"}
          PROVE  a.at % Alignment = 0
      <4>1. a.at \in Int
        BY <3>2 DEF Laid
      <4>2. Aligned(a.at)
        BY <3>2, <3>3 DEF InPlace
      <4> QED
        BY <4>1, <4>2, AlignedRemainder
    <3> QED
      BY <3>2, <3>3 DEF InPlace, DataAligned
  <2> QED
    BY <2>1, <2>2 DEF Shared
<1> QED
  BY <1>1, SharedInvariant, PTL

------------------------------------------------------------------------------
(* What another process fetches                                            *)

(* What an array has by what its children have.                            *)
ContentOf(v, parts) ==
    IF IsParent(v) THEN [class |-> v.class, fields |-> v.fields, children |-> parts] ELSE DataContent(v)

ContentOfTable(g, S) ==
    \A u \in S : g[u] = ContentOf(u, [k \in 1 .. Len(u.children) |-> g[u.children[k]]])

LEMMA ContentEquation ==
    ASSUME NEW v \in Var
    PROVE  Content[v] = ContentOf(v, [k \in 1 .. Len(v.children) |-> Content[v.children[k]]])
<1> DEFINE Fix(h) == h = [u \in Var |-> IF IsParent(u)
                         THEN [class |-> u.class, fields |-> u.fields,
                               children |-> [k \in 1 .. Len(u.children) |-> h[u.children[k]]]]
                         ELSE DataContent(u)]
           c == CHOOSE h : Fix(h)
           B == {d \in Nat : \E g : ContentOfTable(g, Upto(d))}
<1>1. 0 \in B
  <2>1. \A u \in Upto(0) : FALSE
    BY UptoFacts
  <2>2. ContentOfTable(0, Upto(0))
    BY <2>1 DEF ContentOfTable
  <2> QED
    BY <2>2
<1>2. ASSUME NEW d \in Nat, d \in B PROVE d + 1 \in B
  <2>1. PICK g : ContentOfTable(g, Upto(d))
    BY <1>2
  <2>2. PICK f : f = [u \in Upto(d + 1) |-> ContentOf(u, [k \in 1 .. Len(u.children) |-> g[u.children[k]]])]
    OBVIOUS
  <2>3. \A u \in Upto(d) : u \in Upto(d + 1) /\ f[u] = g[u]
    BY <2>1, <2>2, UptoFacts DEF ContentOfTable
  <2>4. ASSUME NEW u \in Upto(d + 1)
        PROVE  f[u] = ContentOf(u, [k \in 1 .. Len(u.children) |-> f[u.children[k]]])
    <3>1. \A k \in 1 .. Len(u.children) : u.children[k] \in Upto(d)
      BY UptoFacts
    <3>2. \A k \in 1 .. Len(u.children) : f[u.children[k]] = g[u.children[k]]
      BY <2>3, <3>1
    <3>3. [k \in 1 .. Len(u.children) |-> f[u.children[k]]] = [k \in 1 .. Len(u.children) |-> g[u.children[k]]]
      BY <3>2
    <3> QED
      BY <2>2, <3>3
  <2>5. ContentOfTable(f, Upto(d + 1))
    BY <2>4 DEF ContentOfTable
  <2> QED
    BY <2>5
<1>3. \A d \in Nat : d \in B
  <2> HIDE DEF B
  <2> QED
    BY <1>1, <1>2, NumberInduction
<1>4. PICK g : ContentOfTable(g, Var)
  <2>1. MaxDepth + 1 \in Nat
    BY SharedLayoutAssumption
  <2>2. \E g : ContentOfTable(g, Upto(MaxDepth + 1))
    BY <1>3, <2>1
  <2> QED
    BY <2>2, UptoFacts
<1>5. PICK f : f = [u \in Var |-> g[u]]
  OBVIOUS
<1>6. Fix(f)
  <2>1. ASSUME NEW u \in Var PROVE f[u] = IF IsParent(u)
                         THEN [class |-> u.class, fields |-> u.fields,
                               children |-> [k \in 1 .. Len(u.children) |-> f[u.children[k]]]]
                         ELSE DataContent(u)
    <3>1. \A k \in 1 .. Len(u.children) : f[u.children[k]] = g[u.children[k]]
      BY <1>5, ArrayFacts
    <3>2. [k \in 1 .. Len(u.children) |-> f[u.children[k]]] = [k \in 1 .. Len(u.children) |-> g[u.children[k]]]
      BY <3>1
    <3>3. f[u] = ContentOf(u, [k \in 1 .. Len(u.children) |-> f[u.children[k]]])
      BY <1>4, <1>5, <3>2 DEF ContentOfTable
    <3> QED
      BY <3>3 DEF ContentOf
  <2> QED
    BY <1>5, <2>1
<1>7. Fix(c)
  <2> HIDE DEF Fix
  <2> QED
    BY <1>6, Zenon
<1>8. Content = c
  BY Zenon DEF Content, c, Fix
<1>9. Fix(Content)
  <2> HIDE DEF Fix, c
  <2> QED
    BY <1>7, <1>8
<1> QED
  BY <1>9 DEF ContentOf

(* Where the children of v begin, and the header that is written for v.    *)
ChildPlace(v) ==
    LET lens == [k \in 1 .. Len(v.children) |-> CopyVariable[v.children[k]].len]
    IN  [k \in 1 .. Len(v.children) |-> ChildEnds(v, lens)[k - 1]]

StoredHeader(v) ==
    IF IsParent(v) THEN Header(v, [x \in {} |-> 0], ChildPlace(v)) ELSE Header(v, DataOffs(v), <<>>)

HeaderArea(v) == Area(0, HeaderSize, <<"header", v, StoredHeader(v)>>)

(* The array u is stored in areas at a place.                              *)
Stored(areas, u, at) == Moved(CopyVariable[u].areas, at) \subseteq areas

LEMMA AreaFields ==
    ASSUME NEW at, NEW len, NEW what
    PROVE  /\ Area(at, len, what).at = at /\ Area(at, len, what).len = len
           /\ Area(at, len, what).what = what
BY DEF Area

LEMMA MovedTwice ==
    ASSUME NEW areas, NEW x \in Nat, NEW y \in Nat, \A a \in areas : a.at \in Nat
    PROVE  Moved(areas, x + y) \subseteq Moved(Moved(areas, x), y)
<1> SUFFICES ASSUME NEW a \in areas
             PROVE  Area(a.at + (x + y), a.len, a.what) \in Moved(Moved(areas, x), y)
  BY DEF Moved
<1>1. PICK b \in Moved(areas, x) : b = Area(a.at + x, a.len, a.what)
  BY DEF Moved
<1>2. b.at = a.at + x /\ b.len = a.len /\ b.what = a.what
  BY <1>1, AreaFields
<1>3. a.at + (x + y) = b.at + y
  BY <1>2
<1>4. Area(b.at + y, b.len, b.what) \in Moved(Moved(areas, x), y)
  BY DEF Moved
<1> QED
  BY <1>2, <1>3, <1>4

LEMMA MovedLess ==
    ASSUME NEW areas, NEW others, areas \subseteq others, NEW x
    PROVE  Moved(areas, x) \subseteq Moved(others, x)
BY DEF Moved

(* The places of all parts of a copy.                                      *)
LEMMA CopyPlaces ==
    ASSUME NEW v \in Var, NEW a \in CopyVariable[v].areas
    PROVE  a.at \in Nat /\ a.len \in Nat
BY CopiesPacked DEF Packed, Laid

(* The parts of the copy of an array with children.                        *)
LEMMA ParentContents ==
    ASSUME NEW v \in Var, IsParent(v), NEW n \in Nat, n = Len(v.children)
    PROVE  /\ Len(ChildPlace(v)) = n
           /\ \A k \in 1 .. n : ChildPlace(v)[k] \in Nat
           /\ CopyVariable[v].areas =
                Preambles(v, StoredHeader(v))
                  \cup UNION {Moved(CopyVariable[v.children[k]].areas, ChildPlace(v)[k]) : k \in 1 .. n}
<1>1. PICK copies : copies = [k \in 1 .. n |-> CopyVariable[v.children[k]]]
  OBVIOUS
<1>2. CopyVariable[v] = CopyChildren(v, copies)
  <2>1. CopyVariable[v] = CopyOf(v, copies)
    BY <1>1, CopyVariableEquation
  <2> QED
    BY <2>1 DEF CopyOf
<1>3. Len(copies) = n
  BY <1>1
<1>4. PICK lens : lens = [k \in 1 .. n |-> CopyVariable[v.children[k]].len]
  OBVIOUS
<1>5. lens = [k \in 1 .. n |-> copies[k].len]
  BY <1>1, <1>4
<1>6. lens \in Seq(Nat) /\ Len(lens) = n
  <2>1. \A k \in 1 .. n : CopyVariable[v.children[k]].len \in Nat
    BY ArrayFacts, CopiesPacked DEF Packed
  <2> QED
    BY <1>4, <2>1
<1>7. PICK e \in [0 .. n -> Nat] : e = ChildEnds(v, lens)
  BY <1>6, ChildEndsExist DEF EndsOf
<1>8. ChildPlace(v) = [k \in 1 .. n |-> e[k - 1]]
  BY <1>4, <1>7 DEF ChildPlace
<1>9. \A k \in 1 .. n : e[k - 1] \in Nat /\ ChildPlace(v)[k] = e[k - 1]
  BY <1>8, SMTT(30)
<1>10. CopyVariable[v].areas =
         Preambles(v, Header(v, [x \in {} |-> 0], [k \in 1 .. n |-> e[k - 1]]))
           \cup UNION {Moved(copies[k].areas, e[k - 1]) : k \in 1 .. n}
  BY <1>2, <1>3, <1>5, <1>7 DEF CopyChildren
<1>11. StoredHeader(v) = Header(v, [x \in {} |-> 0], [k \in 1 .. n |-> e[k - 1]])
  BY <1>8 DEF StoredHeader
<1>12. \A k \in 1 .. n :
         Moved(copies[k].areas, e[k - 1]) = Moved(CopyVariable[v.children[k]].areas, ChildPlace(v)[k])
  BY <1>1, <1>9
<1>13. {Moved(copies[k].areas, e[k - 1]) : k \in 1 .. n} =
         {Moved(CopyVariable[v.children[k]].areas, ChildPlace(v)[k]) : k \in 1 .. n}
  BY <1>12
<1>14. Len(ChildPlace(v)) = n
  BY <1>8
<1> QED
  BY <1>9, <1>10, <1>11, <1>13, <1>14

LEMMA DataContents ==
    ASSUME NEW v \in Var, ~IsParent(v)
    PROVE  CopyVariable[v].areas =
             Preambles(v, StoredHeader(v)) \cup UNION {CopyBlock(v, k) : k \in 1 .. Len(Blocks(v))}
<1>1. CopyVariable[v] = CopyData(v)
  BY CopyVariableEquation DEF CopyOf
<1> QED
  BY <1>1 DEF CopyData, StoredHeader

(* The header is the first part of a copy.                                 *)
LEMMA HeaderStored ==
    ASSUME NEW v \in Var
    PROVE  HeaderArea(v) \in CopyVariable[v].areas
<1>1. HeaderArea(v) \in Preambles(v, StoredHeader(v))
  BY DEF HeaderArea, Preambles
<1>2. Preambles(v, StoredHeader(v)) \subseteq CopyVariable[v].areas
  <2>1. CASE IsParent(v)
    <3>1. PICK n \in Nat : n = Len(v.children)
      BY ArrayFacts
    <3> QED
      BY <2>1, <3>1, ParentContents
  <2>2. CASE ~IsParent(v)
    BY <2>2, DataContents
  <2> QED
    BY <2>1, <2>2
<1> QED
  BY <1>1, <1>2

(* The other headers of a copy are those of its children.                  *)
LEMMA HeaderOwner ==
    ASSUME NEW v \in Var, NEW a \in CopyVariable[v].areas, a.what[1] = "header"
    PROVE  \/ a = HeaderArea(v)
           \/ /\ IsParent(v)
              /\ \E k \in 1 .. Len(v.children) :
                    a \in Moved(CopyVariable[v.children[k]].areas, ChildPlace(v)[k])
<1>1. ASSUME a \in Preambles(v, StoredHeader(v)) PROVE a = HeaderArea(v)
  BY <1>1 DEF Preambles, HeaderArea, Area
<1>2. ASSUME NEW k \in 1 .. Len(Blocks(v)), a \in CopyBlock(v, k) PROVE FALSE
  <2>1. Blocks(v)[k] # "header"
    BY BlocksFact
  <2> QED
    BY <1>2, <2>1 DEF CopyBlock, Area
<1>3. CASE IsParent(v)
  BY <1>1, <1>3, ParentContents, ArrayFacts, SMTT(30)
<1>4. CASE ~IsParent(v)
  BY <1>1, <1>2, <1>4, DataContents
<1> QED
  BY <1>3, <1>4

(* A copy that is not moved.                                               *)
LEMMA StoredInItself ==
    ASSUME NEW v \in Var
    PROVE  Stored(CopyVariable[v].areas, v, 0)
<1> SUFFICES ASSUME NEW a \in CopyVariable[v].areas
             PROVE  Area(a.at + 0, a.len, a.what) = a
  BY DEF Stored, Moved
<1>1. \E at, len, what : a = Area(at, len, what)
  <2>1. ASSUME a \in Preambles(v, StoredHeader(v)) PROVE \E at, len, what : a = Area(at, len, what)
    BY <2>1 DEF Preambles
  <2>2. ASSUME NEW areas, NEW x, a \in Moved(areas, x) PROVE \E at, len, what : a = Area(at, len, what)
    BY <2>2 DEF Moved
  <2>3. ASSUME NEW k, a \in CopyBlock(v, k) PROVE \E at, len, what : a = Area(at, len, what)
    BY <2>3 DEF CopyBlock
  <2>4. CASE IsParent(v)
    <3>1. \/ a \in Preambles(v, StoredHeader(v))
          \/ \E k \in 1 .. Len(v.children) :
                a \in Moved(CopyVariable[v.children[k]].areas, ChildPlace(v)[k])
      BY <2>4, ParentContents, ArrayFacts, SMTT(30)
    <3> QED
      BY <2>1, <2>2, <3>1
  <2>5. CASE ~IsParent(v)
    <3>1. \/ a \in Preambles(v, StoredHeader(v))
          \/ \E k \in 1 .. Len(Blocks(v)) : a \in CopyBlock(v, k)
      BY <2>5, DataContents
    <3> QED
      BY <2>1, <2>3, <3>1
  <2> QED
    BY <2>4, <2>5
<1>2. PICK at, len, what : a = Area(at, len, what)
  BY <1>1
<1>3. a.at = at /\ a.len = len /\ a.what = what
  BY <1>2, AreaFields
<1>4. a.at \in Nat
  BY CopyPlaces
<1> QED
  BY <1>2, <1>3, <1>4

(* Every header in a copy is that of an array which is stored there.       *)
Owned(areas) ==
    \A a \in areas : a.what[1] = "header" =>
        \E u \in Var : a.what = <<"header", u, StoredHeader(u)>> /\ Stored(areas, u, a.at)

LEMMA ChildStored ==
    ASSUME NEW v \in Var, IsParent(v), NEW k \in 1 .. Len(v.children)
    PROVE  ChildPlace(v)[k] \in Nat /\ Stored(CopyVariable[v].areas, v.children[k], ChildPlace(v)[k])
<1>1. PICK n \in Nat : n = Len(v.children)
  BY ArrayFacts
<1>2. ChildPlace(v)[k] \in Nat
  BY <1>1, ParentContents
<1>3. Moved(CopyVariable[v.children[k]].areas, ChildPlace(v)[k]) \subseteq CopyVariable[v].areas
  BY <1>1, ParentContents
<1> QED
  BY <1>2, <1>3 DEF Stored

LEMMA StoredWithin ==
    ASSUME NEW areas, NEW v \in Var, NEW u \in Var, NEW x \in Nat, NEW y \in Nat,
           Stored(CopyVariable[v].areas, u, x), Stored(areas, v, y)
    PROVE  Stored(areas, u, x + y)
<1>1. Moved(CopyVariable[u].areas, x + y) \subseteq Moved(Moved(CopyVariable[u].areas, x), y)
  BY CopyPlaces, MovedTwice
<1>2. Moved(Moved(CopyVariable[u].areas, x), y) \subseteq Moved(CopyVariable[v].areas, y)
  BY MovedLess DEF Stored
<1> QED
  BY <1>1, <1>2 DEF Stored

LEMMA HeadersOwned == \A v \in Var : Owned(CopyVariable[v].areas)
<1> DEFINE S == {v \in Var : Owned(CopyVariable[v].areas)}
<1>1. ASSUME NEW v \in Var, \A k \in 1 .. Len(v.children) : v.children[k] \in S
      PROVE  v \in S
  <2> SUFFICES ASSUME NEW a \in CopyVariable[v].areas, a.what[1] = "header"
               PROVE  \E u \in Var : /\ a.what = <<"header", u, StoredHeader(u)>>
                                     /\ Stored(CopyVariable[v].areas, u, a.at)
    BY DEF Owned
  <2>1. CASE a = HeaderArea(v)
    <3>1. a.at = 0 /\ a.what = <<"header", v, StoredHeader(v)>>
      BY <2>1, AreaFields DEF HeaderArea
    <3> QED
      BY <3>1, StoredInItself
  <2>2. ASSUME IsParent(v), NEW k \in 1 .. Len(v.children),
               a \in Moved(CopyVariable[v.children[k]].areas, ChildPlace(v)[k])
        PROVE  \E u \in Var : /\ a.what = <<"header", u, StoredHeader(u)>>
                              /\ Stored(CopyVariable[v].areas, u, a.at)
    <3>1. PICK c \in Var, y \in Nat : /\ c = v.children[k] /\ y = ChildPlace(v)[k]
                                      /\ Stored(CopyVariable[v].areas, c, y)
      BY <2>2, ChildStored, ArrayFacts
    <3>2. PICK b \in CopyVariable[c].areas : a = Area(b.at + y, b.len, b.what)
      BY <2>2, <3>1 DEF Moved
    <3>3. a.at = b.at + y /\ a.what = b.what /\ b.at \in Nat
      BY <3>1, <3>2, AreaFields, CopyPlaces
    <3>4. Owned(CopyVariable[c].areas)
      BY <1>1, <3>1
    <3>5. PICK u \in Var : b.what = <<"header", u, StoredHeader(u)>> /\ Stored(CopyVariable[c].areas, u, b.at)
      BY <3>2, <3>3, <3>4 DEF Owned
    <3>6. Stored(CopyVariable[v].areas, u, b.at + y)
      BY <3>1, <3>3, <3>5, StoredWithin
    <3> QED
      BY <3>3, <3>5, <3>6
  <2> QED
    BY <2>1, <2>2, HeaderOwner
<1>2. \A v \in Var : v \in S
  <2> HIDE DEF S
  <2> QED
    BY <1>1, TreeInduction
<1> QED
  BY <1>2

(* What is needed of areas to find arrays in them.                         *)
Sound(areas) == (\E len : Laid(areas, 0, len)) /\ Owned(areas)

LEMMA PlaceUnique ==
    ASSUME NEW areas, Sound(areas), NEW a \in areas, NEW b \in areas, a.at = b.at
    PROVE  a = b
<1>1. PICK len : Laid(areas, 0, len)
  BY DEF Sound
<1>2. a.at \in Nat /\ a.len \in Nat /\ a.len > 0 /\ b.at \in Nat /\ b.len \in Nat /\ b.len > 0
  BY <1>1 DEF Laid
<1>3. a # b => a.at + a.len =< b.at \/ b.at + b.len =< a.at
  BY <1>1 DEF Laid
<1> QED
  BY <1>2, <1>3

(* The header of an array is found where it is stored.                     *)
LEMMA HeaderFound ==
    ASSUME Sound(segment.areas), NEW u \in Var, NEW at \in Nat, Stored(segment.areas, u, at)
    PROVE  at \in HeaderPlaces /\ HeaderAt(at) = StoredHeader(u)
<1>1. PICK h : h = HeaderArea(u)
  OBVIOUS
<1>2. h \in CopyVariable[u].areas /\ h.at = 0 /\ h.what = <<"header", u, StoredHeader(u)>>
  BY <1>1, HeaderStored, AreaFields DEF HeaderArea
<1>3. PICK b \in segment.areas : b = Area(h.at + at, h.len, h.what)
  BY <1>2 DEF Stored, Moved
<1>4. b.at = at /\ b.what = <<"header", u, StoredHeader(u)>>
  BY <1>2, <1>3, AreaFields
<1>5. b.what[1] = "header" /\ b.what[3] = StoredHeader(u)
  BY <1>4
<1>6. \A a \in segment.areas : a.at = at => a = b
  BY <1>4, PlaceUnique
<1>7. (CHOOSE a \in segment.areas : a.at = at /\ a.what[1] = "header") = b
  BY <1>4, <1>5, <1>6
<1>8. at \in HeaderPlaces
  BY <1>4, <1>5 DEF HeaderPlaces
<1> QED
  BY <1>5, <1>7, <1>8 DEF HeaderAt

(* The pointer to a block leads to its data.                               *)
LEMMA DataFound ==
    ASSUME Sound(segment.areas), NEW u \in Var, ~IsParent(u), NEW at \in Nat, Stored(segment.areas, u, at),
           NEW k \in 1 .. Len(Blocks(u))
    PROVE  Pointer(at, BlockOff(u, k)) = <<Blocks(u)[k], u>>
<1>1. PICK off \in Nat : off = BlockOff(u, k)
  BY BlockPlaces, BlocksFact
<1>2. PICK d : d = Area(off, CopiedLen(u, Blocks(u)[k]), <<Blocks(u)[k], u>>)
  OBVIOUS
<1>3. d \in CopyVariable[u].areas
  <2>1. d \in CopyBlock(u, k)
    BY <1>1, <1>2 DEF CopyBlock
  <2> QED
    BY <2>1, DataContents
<1>4. d.at = off /\ d.what = <<Blocks(u)[k], u>>
  BY <1>2, AreaFields
<1>5. PICK b \in segment.areas : b = Area(d.at + at, d.len, d.what)
  BY <1>3 DEF Stored, Moved
<1>6. b.at = at + off /\ b.what = <<Blocks(u)[k], u>>
  BY <1>4, <1>5, AreaFields
<1>7. \A a \in segment.areas : a.at = at + off => a = b
  BY <1>6, PlaceUnique
<1>8. (CHOOSE a \in segment.areas : a.at = at + off) = b
  BY <1>6, <1>7
<1>9. off # SizeMax
  BY SharedLayoutAssumption
<1> QED
  BY <1>1, <1>6, <1>8, <1>9 DEF Pointer

(* What msh_FetchVariable builds at a place if g has what it builds at the *)
(* places of the children.                                                 *)
FetchOf(g, at) ==
    IF HeaderAt(at).class \in {"struct", "cell"}
    THEN [class |-> HeaderAt(at).class, fields |-> HeaderAt(at).fields,
          children |-> [k \in 1 .. Len(HeaderAt(at).children) |-> g[at + HeaderAt(at).children[k]]]]
    ELSE FetchData(at, HeaderAt(at))

LEMMA FetchedData ==
    ASSUME Sound(segment.areas), NEW u \in Var, ~IsParent(u), NEW at \in Nat, Stored(segment.areas, u, at)
    PROVE  FetchData(at, StoredHeader(u)) = DataContent(u)
<1>1. PICK h : h = StoredHeader(u)
  OBVIOUS
<1>2. PICK n \in Nat : n = Len(Blocks(u))
  BY BlocksFact
<1>3. PICK s : s = Blocks(u)
  OBVIOUS
<1>4. PICK offs : offs = DataOffs(u)
  OBVIOUS
<1>5. /\ h.class = u.class /\ h.elem_size = u.elem_size /\ h.ne_nz = NumStored(u)
      /\ h.offs = offs
  BY <1>1, <1>4 DEF StoredHeader, Header
<1>6. DOMAIN offs = {"data", "imag_data", "ir", "jc"}
  BY <1>4 DEF DataOffs
<1>7. ASSUME NEW k \in 1 .. n
      PROVE  /\ s[k] \in {"data", "imag_data", "ir", "jc"}
             /\ offs[s[k]] = BlockOff(u, k) /\ offs[s[k]] # SizeMax
             /\ Pointer(at, offs[s[k]]) = <<s[k], u>>
  <2>1. s[k] \in {"data", "imag_data", "ir", "jc"} /\ \A l \in 1 .. n : s[l] = s[k] => l = k
    BY <1>2, <1>3, BlocksFact
  <2>2. (CHOOSE l \in 1 .. n : s[l] = s[k]) = k
    BY <2>1
  <2>3. offs[s[k]] = BlockOff(u, k)
    BY <1>2, <1>3, <1>4, <2>1, <2>2 DEF DataOffs
  <2>4. BlockOff(u, k) \in Nat
    BY <1>2, BlockPlaces
  <2>5. Pointer(at, BlockOff(u, k)) = <<s[k], u>>
    BY <1>2, <1>3, DataFound
  <2> QED
    BY <2>1, <2>3, <2>4, <2>5, SharedLayoutAssumption
<1>8. ASSUME NEW x \in {"data", "imag_data", "ir", "jc"}, x \notin Parts(u)
      PROVE  offs[x] = SizeMax /\ Pointer(at, offs[x]) = "none"
  <2>1. ~ \E k \in 1 .. Len(Blocks(u)) : Blocks(u)[k] = x
    BY <1>8 DEF Parts
  <2>2. offs[x] = SizeMax
    BY <1>4, <2>1 DEF DataOffs
  <2> QED
    BY <2>2 DEF Pointer
<1>9. ASSUME NEW x \in {"data", "imag_data", "ir", "jc"}
      PROVE  /\ (offs[x] # SizeMax) = (x \in Parts(u))
             /\ Pointer(at, offs[x]) = IF x \in Parts(u) THEN <<x, u>> ELSE "none"
  <2>1. CASE x \in Parts(u)
    <3>1. PICK k \in 1 .. n : s[k] = x
      BY <1>2, <1>3, <2>1 DEF Parts
    <3> QED
      BY <1>7, <2>1, <3>1
  <2>2. CASE x \notin Parts(u)
    BY <1>8, <2>2
  <2> QED
    BY <2>1, <2>2
<1>10. "imag_data" \in Parts(u) => u.complex
  BY DEF Parts, Blocks
<1>11. GetIsComplex(h) = (u.complex /\ "imag_data" \in Parts(u))
  BY <1>5, <1>9, <1>10, ArrayFacts DEF GetIsComplex
<1>12. [x \in DOMAIN h.offs |-> Pointer(at, h.offs[x])] =
         [x \in {"data", "imag_data", "ir", "jc"} |-> IF x \in Parts(u) THEN <<x, u>> ELSE "none"]
  BY <1>5, <1>6, <1>9
<1> QED
  BY <1>1, <1>5, <1>11, <1>12 DEF FetchData, DataContent

(* Where an array is stored, it is built if its children are.              *)
LEMMA FetchStep ==
    ASSUME Sound(segment.areas), NEW u \in Var, NEW at \in Nat, Stored(segment.areas, u, at), NEW g,
           IsParent(u) => \A k \in 1 .. Len(u.children) :
                             g[at + ChildPlace(u)[k]] = Content[u.children[k]]
    PROVE  FetchOf(g, at) = Content[u]
<1>1. PICK h : h = StoredHeader(u) /\ h = HeaderAt(at)
  BY HeaderFound
<1>2. PICK n \in Nat : n = Len(u.children)
  BY ArrayFacts
<1>3. h.class = u.class /\ h.fields = u.fields
  BY <1>1 DEF StoredHeader, Header
<1>4. PICK parts : parts = [k \in 1 .. n |-> Content[u.children[k]]]
  OBVIOUS
<1>5. Content[u] = ContentOf(u, parts)
  BY <1>2, <1>4, ContentEquation
<1>6. CASE IsParent(u)
  <2>1. h.children = ChildPlace(u) /\ Len(h.children) = n
    BY <1>1, <1>2, <1>6, ParentContents DEF StoredHeader, Header
  <2>2. \A k \in 1 .. n : g[at + h.children[k]] = Content[u.children[k]]
    BY <1>2, <1>6, <2>1
  <2>3. [k \in 1 .. Len(h.children) |-> g[at + h.children[k]]] = parts
    BY <1>4, <2>1, <2>2
  <2>4. FetchOf(g, at) = [class |-> u.class, fields |-> u.fields, children |-> parts]
    BY <1>1, <1>3, <1>6, <2>3 DEF FetchOf, IsParent
  <2> QED
    BY <1>5, <1>6, <2>4 DEF ContentOf
<1>7. CASE ~IsParent(u)
  <2>1. FetchOf(g, at) = FetchData(at, h)
    BY <1>1, <1>3, <1>7 DEF FetchOf, IsParent
  <2>2. FetchData(at, h) = DataContent(u)
    BY <1>1, <1>7, FetchedData
  <2> QED
    BY <1>5, <1>7, <2>1, <2>2 DEF ContentOf
<1> QED
  BY <1>6, <1>7

(* Every place of a header is that of an array which is stored there.      *)
LEMMA PlaceOwned ==
    ASSUME Sound(segment.areas), NEW at \in HeaderPlaces
    PROVE  at \in Nat /\ \E u \in Var : Stored(segment.areas, u, at)
<1>1. PICK a \in segment.areas : a.what[1] = "header" /\ a.at = at
  BY DEF HeaderPlaces
<1>2. \E u \in Var : Stored(segment.areas, u, at)
  BY <1>1 DEF Sound, Owned
<1>3. at \in Nat
  BY <1>1 DEF Sound, Laid
<1> QED
  BY <1>2, <1>3

(* The header that is stored at a place has the array in it.               *)
OwnerOf(at) == (CHOOSE a \in segment.areas : a.at = at /\ a.what[1] = "header").what[2]

LEMMA OwnerFound ==
    ASSUME Sound(segment.areas), NEW u \in Var, NEW at \in Nat, Stored(segment.areas, u, at)
    PROVE  OwnerOf(at) = u
<1>1. PICK h : h = HeaderArea(u)
  OBVIOUS
<1>2. h \in CopyVariable[u].areas /\ h.at = 0 /\ h.what = <<"header", u, StoredHeader(u)>>
  BY <1>1, HeaderStored, AreaFields DEF HeaderArea
<1>3. PICK b \in segment.areas : b = Area(h.at + at, h.len, h.what)
  BY <1>2 DEF Stored, Moved
<1>4. b.at = at /\ b.what = <<"header", u, StoredHeader(u)>>
  BY <1>2, <1>3, AreaFields
<1>5. b.what[1] = "header" /\ b.what[2] = u
  BY <1>4
<1>6. \A a \in segment.areas : a.at = at => a = b
  BY <1>4, PlaceUnique
<1>7. (CHOOSE a \in segment.areas : a.at = at /\ a.what[1] = "header") = b
  BY <1>4, <1>5, <1>6
<1> QED
  BY <1>5, <1>7 DEF OwnerOf

(* A child of a stored array is stored at its place.                       *)
LEMMA ChildStoredThere ==
    ASSUME NEW areas, NEW u \in Var, IsParent(u), NEW at \in Nat, Stored(areas, u, at),
           NEW k \in 1 .. Len(u.children)
    PROVE  /\ u.children[k] \in Var /\ at + ChildPlace(u)[k] \in Nat
           /\ Stored(areas, u.children[k], at + ChildPlace(u)[k])
<1>1. PICK c \in Var, x \in Nat : c = u.children[k] /\ x = ChildPlace(u)[k] /\ Stored(CopyVariable[u].areas, c, x)
  BY ChildStored, ArrayFacts
<1>2. Stored(areas, c, x + at)
  BY <1>1, StoredWithin
<1>3. x + at = at + x /\ at + x \in Nat
  BY <1>1
<1> QED
  BY <1>1, <1>2, <1>3

LEMMA FetchVariableEquation ==
    ASSUME Sound(segment.areas), NEW at \in HeaderPlaces
    PROVE  FetchVariable[at] = FetchOf(FetchVariable, at)
<1> DEFINE Fix(f) == f = [x \in HeaderPlaces |->
                            IF HeaderAt(x).class \in {"struct", "cell"}
                            THEN [class |-> HeaderAt(x).class, fields |-> HeaderAt(x).fields,
                                  children |-> [k \in 1 .. Len(HeaderAt(x).children) |->
                                                   f[x + HeaderAt(x).children[k]]]]
                            ELSE FetchData(x, HeaderAt(x))]
           c == CHOOSE f : Fix(f)
<1>1. PICK f : f = [x \in HeaderPlaces |-> Content[OwnerOf(x)]]
  OBVIOUS
<1>2. ASSUME NEW x \in HeaderPlaces PROVE f[x] = FetchOf(f, x)
  <2>1. PICK u \in Var : x \in Nat /\ Stored(segment.areas, u, x)
    BY PlaceOwned
  <2>2. f[x] = Content[u]
    BY <1>1, <2>1, OwnerFound
  <2>3. ASSUME IsParent(u), NEW k \in 1 .. Len(u.children)
        PROVE  f[x + ChildPlace(u)[k]] = Content[u.children[k]]
    <3>1. PICK w \in Var, y \in Nat : /\ w = u.children[k] /\ y = x + ChildPlace(u)[k]
                                      /\ Stored(segment.areas, w, y)
      BY <2>1, <2>3, ChildStoredThere
    <3>2. y \in HeaderPlaces /\ OwnerOf(y) = w
      BY <3>1, HeaderFound, OwnerFound
    <3> QED
      BY <1>1, <3>1, <3>2
  <2> QED
    BY <2>1, <2>2, <2>3, FetchStep
<1>3. Fix(f)
  <2>1. \A x \in HeaderPlaces : f[x] = IF HeaderAt(x).class \in {"struct", "cell"}
                            THEN [class |-> HeaderAt(x).class, fields |-> HeaderAt(x).fields,
                                  children |-> [k \in 1 .. Len(HeaderAt(x).children) |->
                                                   f[x + HeaderAt(x).children[k]]]]
                            ELSE FetchData(x, HeaderAt(x))
    BY <1>2 DEF FetchOf
  <2> QED
    BY <1>1, <2>1
<1>4. Fix(c)
  <2> HIDE DEF Fix
  <2> QED
    BY <1>3, Zenon
<1>5. FetchVariable = c
  BY Zenon DEF FetchVariable, c, Fix
<1>6. Fix(FetchVariable)
  <2> HIDE DEF Fix, c
  <2> QED
    BY <1>4, <1>5
<1> QED
  BY <1>6 DEF FetchOf

(* The array is built from what is stored at its place.                    *)
LEMMA FetchedAt ==
    ASSUME Sound(segment.areas)
    PROVE  \A v \in Var : \A at \in Nat : Stored(segment.areas, v, at) => FetchVariable[at] = Content[v]
<1> DEFINE S == {v \in Var : \A at \in Nat : Stored(segment.areas, v, at) => FetchVariable[at] = Content[v]}
<1>1. ASSUME NEW v \in Var, \A k \in 1 .. Len(v.children) : v.children[k] \in S
      PROVE  v \in S
  <2> SUFFICES ASSUME NEW at \in Nat, Stored(segment.areas, v, at)
               PROVE  FetchVariable[at] = Content[v]
    OBVIOUS
  <2>1. ASSUME IsParent(v), NEW k \in 1 .. Len(v.children)
        PROVE  FetchVariable[at + ChildPlace(v)[k]] = Content[v.children[k]]
    <3>1. /\ at + ChildPlace(v)[k] \in Nat
          /\ Stored(segment.areas, v.children[k], at + ChildPlace(v)[k])
      BY <2>1, ChildStoredThere
    <3> QED
      BY <1>1, <3>1
  <2>2. FetchOf(FetchVariable, at) = Content[v]
    BY <2>1, FetchStep
  <2>3. at \in HeaderPlaces
    BY HeaderFound
  <2> QED
    BY <2>2, <2>3, FetchVariableEquation
<1>2. \A v \in Var : v \in S
  <2> HIDE DEF S
  <2> QED
    BY <1>1, TreeInduction
<1> QED
  BY <1>2

(* Another process that follows the offsets of the segment gets the array  *)
(* that was shared, with its children at every depth.                      *)
THEOREM FetchedAsShared == Spec => []FetchedIsShared
<1>1. Shared => FetchedIsShared
  <2>1. ASSUME segment = NoSegment PROVE FetchedIsShared
    BY <2>1 DEF FetchedIsShared
  <2>2. ASSUME NEW v \in Var, Holds(v) PROVE FetchedIsShared
    <3>1. segment.areas = CopyVariable[v].areas /\ segment.var = v
      BY <2>2 DEF Holds
    <3>2. Sound(segment.areas)
      BY <3>1, CopiesPacked, HeadersOwned DEF Packed, Sound
    <3>3. Stored(segment.areas, v, 0)
      BY <3>1, StoredInItself
    <3>4. FetchVariable[0] = Content[v]
      BY <3>2, <3>3, FetchedAt
    <3> QED
      BY <3>1, <3>4 DEF FetchedIsShared
  <2> QED
    BY <2>1, <2>2 DEF Shared
<1> QED
  BY <1>1, SharedInvariant, PTL
=============================================================================
