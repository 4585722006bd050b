------------------------- MODULE SegmentListProofs -------------------------
(***************************************************************************)
(* Proofs about SegmentList, for any nodes, numbers and names.             *)
(***************************************************************************)
EXTENDS SegmentList, FiniteSetTheorems, SequenceTheorems, TLAPS

(* Every set of natural numbers that is not empty has a least one, the     *)
(* principle that stands for induction over a list below.                  *)
LEMMA LeastNumber ==
    ASSUME NEW S \in SUBSET Nat, S # {}
    PROVE  \E m \in S : \A k \in S : m =< k
<1> DEFINE R == {ss \in Nat \X Nat : ss[1] < ss[2]}
<1>1. IsWellFoundedOn(R, Nat)
  BY NatLessThanWellFounded, Zenon DEF OpToRel
<1>2. PICK m \in S : \A k \in S : ~(<<k, m>> \in R)
  <2> HIDE DEF R
  <2> QED
    BY <1>1, WFMin
<1>3. ASSUME NEW k \in S PROVE m =< k
  <2>1. k \in Nat /\ m \in Nat /\ <<k, m>> \notin R
    BY <1>2
  <2>2. <<k, m>> \in Nat \X Nat /\ <<k, m>>[1] = k /\ <<k, m>>[2] = m
    BY <2>1
  <2>3. ~(k < m)
    BY <2>1, <2>2
  <2> QED
    BY <2>1, <2>3
<1> QED
  BY <1>3

(* Induction over the numbers, for the members of a set.                   *)
LEMMA NumberInduction ==
    ASSUME NEW B, 0 \in B, \A k \in Nat : k \in B => k + 1 \in B
    PROVE  \A k \in Nat : k \in B
<1> DEFINE Bad == {k \in Nat : k \notin B}
<1> SUFFICES ASSUME Bad # {} PROVE FALSE
  OBVIOUS
<1>1. PICK m \in Bad : \A k \in Bad : m =< k
  <2>1. Bad \in SUBSET Nat
    OBVIOUS
  <2> HIDE DEF Bad
  <2> QED
    BY <2>1, LeastNumber
<1>2. m \in Nat /\ m # 0 /\ m \notin B
  OBVIOUS
<1>3. m - 1 \in Nat /\ m - 1 \notin Bad
  BY <1>1, <1>2
<1>4. m - 1 \in B /\ (m - 1) + 1 = m
  BY <1>2, <1>3
<1> QED
  BY <1>2, <1>3, <1>4

(* Induction over the sequences, for the members of a set.                 *)
LEMMA SeqInduction ==
    ASSUME NEW D, NEW B, <<>> \in B,
           \A s \in Seq(D), x \in D : s \in B => Append(s, x) \in B
    PROVE  \A s \in Seq(D) : s \in B
<1> DEFINE C == {k \in Nat : \A s \in Seq(D) : Len(s) = k => s \in B}
<1>1. 0 \in C
  <2>1. ASSUME NEW s \in Seq(D), Len(s) = 0 PROVE s = <<>>
    BY <2>1, EmptySeq
  <2> QED
    BY <2>1
<1>2. ASSUME NEW k \in Nat, k \in C PROVE k + 1 \in C
  <2> SUFFICES ASSUME NEW s \in Seq(D), Len(s) = k + 1 PROVE s \in B
    OBVIOUS
  <2>1. s # <<>>
    OBVIOUS
  <2>2. PICK r \in Seq(D), x \in D : s = Append(r, x)
    BY <2>1, SequenceEmptyOrAppend
  <2>3. Len(r) = k
    BY <2>2, AppendProperties
  <2> QED
    BY <1>2, <2>2, <2>3
<1>3. \A k \in Nat : k \in C
  <2> HIDE DEF C
  <2> QED
    BY <1>1, <1>2, NumberInduction
<1> QED
  BY <1>3, LenProperties

(* The members of a sequence.                                              *)
LEMMA MembersOf ==
    ASSUME NEW D, NEW s \in Seq(D), NEW x
    PROVE  /\ x \in ToSet(s) <=> \E i \in 1 .. Len(s) : s[i] = x
           /\ x \in ToSet(s) => x \in D
           /\ Contains(s, x) <=> x \in ToSet(s)
BY DEF ToSet, Contains

(* The members after one is appended.                                      *)
LEMMA AppendMembers ==
    ASSUME NEW D, NEW s \in Seq(D), NEW y \in D
    PROVE  /\ Append(s, y) \in Seq(D)
           /\ \A x : x \in ToSet(Append(s, y)) <=> x \in ToSet(s) \/ x = y
           /\ IsInjective(Append(s, y)) <=> IsInjective(s) /\ y \notin ToSet(s)
<1> DEFINE t == Append(s, y)
<1>1. /\ t \in Seq(D) /\ Len(t) = Len(s) + 1 /\ Len(s) \in Nat
      /\ DOMAIN t = 1 .. Len(t) /\ DOMAIN s = 1 .. Len(s)
      /\ t[Len(s) + 1] = y /\ \A i \in 1 .. Len(s) : t[i] = s[i]
  BY AppendProperties, LenProperties
<1> HIDE DEF t
<1>2. \A x : x \in ToSet(t) <=> x \in ToSet(s) \/ x = y
  BY <1>1 DEF ToSet
<1>3. ASSUME IsInjective(t) PROVE IsInjective(s) /\ y \notin ToSet(s)
  BY <1>1, <1>3 DEF IsInjective, ToSet
<1>4. ASSUME IsInjective(s), y \notin ToSet(s) PROVE IsInjective(t)
  <2>1. \A i \in 1 .. Len(s) : s[i] # y
    BY <1>1, <1>4 DEF ToSet
  <2>2. \A i, j \in 1 .. Len(s) : s[i] = s[j] => i = j
    BY <1>1, <1>4 DEF IsInjective
  <2>3. \A i \in 1 .. Len(t) : i = Len(s) + 1 \/ i \in 1 .. Len(s)
    BY <1>1
  <2>4. \A i, j \in 1 .. Len(t) : t[i] = t[j] => i = j
    BY <1>1, <2>1, <2>2, <2>3
  <2> QED
    BY <1>1, <2>4 DEF IsInjective
<1> QED
  BY <1>1, <1>2, <1>3, <1>4 DEF t

(* The members of a concatenation.                                         *)
LEMMA ConcatMembers ==
    ASSUME NEW D, NEW s \in Seq(D), NEW t \in Seq(D)
    PROVE  /\ s \o t \in Seq(D)
           /\ \A x : x \in ToSet(s \o t) <=> x \in ToSet(s) \/ x \in ToSet(t)
<1>1. /\ s \o t \in Seq(D) /\ Len(s \o t) = Len(s) + Len(t)
      /\ \A i \in 1 .. Len(s) + Len(t) : (s \o t)[i] = IF i =< Len(s) THEN s[i] ELSE t[i - Len(s)]
  BY ConcatProperties
<1>2. Len(s) \in Nat /\ Len(t) \in Nat
  BY LenProperties
<1>3. ASSUME NEW x, x \in ToSet(s \o t) PROVE x \in ToSet(s) \/ x \in ToSet(t)
  <2>1. PICK i \in 1 .. Len(s) + Len(t) : (s \o t)[i] = x
    BY <1>1, <1>3, MembersOf
  <2>2. CASE i =< Len(s)
    BY <1>1, <1>2, <2>1, <2>2, MembersOf
  <2>3. CASE i > Len(s)
    <3>1. i - Len(s) \in 1 .. Len(t) /\ t[i - Len(s)] = x
      BY <1>1, <1>2, <2>1, <2>3
    <3> QED
      BY <3>1, MembersOf
  <2> QED
    BY <1>2, <2>2, <2>3
<1>4. ASSUME NEW x, x \in ToSet(s) PROVE x \in ToSet(s \o t)
  <2>1. PICK i \in 1 .. Len(s) : s[i] = x
    BY <1>4, MembersOf
  <2>2. i \in 1 .. Len(s \o t) /\ (s \o t)[i] = x
    BY <1>1, <1>2, <2>1
  <2> QED
    BY <1>1, <2>2, MembersOf
<1>5. ASSUME NEW x, x \in ToSet(t) PROVE x \in ToSet(s \o t)
  <2>1. PICK i \in 1 .. Len(t) : t[i] = x
    BY <1>5, MembersOf
  <2>2. /\ Len(s) + i \in 1 .. Len(s) + Len(t) /\ ~(Len(s) + i =< Len(s))
        /\ (Len(s) + i) - Len(s) = i
    BY <1>2
  <2>3. Len(s) + i \in 1 .. Len(s \o t) /\ (s \o t)[Len(s) + i] = x
    BY <1>1, <2>1, <2>2
  <2> QED
    BY <1>1, <2>3, MembersOf, ZenonT(40)
<1> QED
  BY <1>1, <1>3, <1>4, <1>5

(* Injective sequences next to each other.                                 *)
LEMMA ConcatInjective ==
    ASSUME NEW D, NEW s \in Seq(D), NEW t \in Seq(D), IsInjective(s), IsInjective(t),
           \A x : ~(x \in ToSet(s) /\ x \in ToSet(t))
    PROVE  IsInjective(s \o t)
<1>1. /\ s \o t \in Seq(D) /\ Len(s \o t) = Len(s) + Len(t)
      /\ \A i \in 1 .. Len(s) + Len(t) : (s \o t)[i] = IF i =< Len(s) THEN s[i] ELSE t[i - Len(s)]
  BY ConcatProperties
<1>2. Len(s) \in Nat /\ Len(t) \in Nat /\ DOMAIN (s \o t) = 1 .. Len(s) + Len(t)
      /\ DOMAIN s = 1 .. Len(s) /\ DOMAIN t = 1 .. Len(t)
  BY <1>1, LenProperties
<1>3. PICK u : u = s \o t
  OBVIOUS
<1> SUFFICES ASSUME NEW i \in 1 .. Len(s) + Len(t), NEW j \in 1 .. Len(s) + Len(t), u[i] = u[j]
             PROVE  i = j
  BY <1>2, <1>3 DEF IsInjective
<1>4. \A k \in 1 .. Len(s) : s[k] \in ToSet(s)
  BY <1>2 DEF ToSet
<1>5. \A k \in 1 .. Len(t) : t[k] \in ToSet(t)
  BY <1>2 DEF ToSet
<1>6. \A k \in 1 .. Len(s) + Len(t) :
         \/ k \in 1 .. Len(s) /\ u[k] = s[k]
         \/ k - Len(s) \in 1 .. Len(t) /\ u[k] = t[k - Len(s)]
  BY <1>1, <1>2, <1>3
<1>7. CASE i \in 1 .. Len(s) /\ u[i] = s[i] /\ j \in 1 .. Len(s) /\ u[j] = s[j]
  BY <1>2, <1>7 DEF IsInjective
<1>8. CASE /\ i - Len(s) \in 1 .. Len(t) /\ u[i] = t[i - Len(s)]
           /\ j - Len(s) \in 1 .. Len(t) /\ u[j] = t[j - Len(s)]
  <2>1. \A a, b \in 1 .. Len(t) : t[a] = t[b] => a = b
    BY <1>2 DEF IsInjective
  <2>2. i - Len(s) = j - Len(s)
    BY <1>8, <2>1
  <2> QED
    BY <1>2, <2>2
<1>9. CASE /\ i \in 1 .. Len(s) /\ u[i] = s[i]
           /\ j - Len(s) \in 1 .. Len(t) /\ u[j] = t[j - Len(s)]
  BY <1>4, <1>5, <1>9
<1>10. CASE /\ j \in 1 .. Len(s) /\ u[j] = s[j]
            /\ i - Len(s) \in 1 .. Len(t) /\ u[i] = t[i - Len(s)]
  BY <1>4, <1>5, <1>10
<1> QED
  BY <1>6, <1>7, <1>8, <1>9, <1>10, Zenon

(* The equations of the function in Keep.                                  *)
Keeps(g, s, S) ==
    \A i \in 0 .. Len(s) :
        g[i] = IF i = 0 THEN <<>>
               ELSE IF s[i] \in S THEN Append(g[i - 1], s[i]) ELSE g[i - 1]

(* Any function with these equations ends in Keep.                         *)
LEMMA KeepIs ==
    ASSUME NEW D, NEW s \in Seq(D), NEW S, NEW g, Keeps(g, s, S)
    PROVE  Keep(s, S) = g[Len(s)]
<1> DEFINE Fix(h) == h = [i \in 0 .. Len(s) |->
                            IF i = 0 THEN <<>>
                            ELSE IF s[i] \in S THEN Append(h[i - 1], s[i]) ELSE h[i - 1]]
           c == CHOOSE h : Fix(h)
<1>0. Len(s) \in Nat
  BY LenProperties
<1>1. Fix([i \in 0 .. Len(s) |-> g[i]])
  <2>1. \A i \in 1 .. Len(s) : i - 1 \in 0 .. Len(s)
    BY <1>0
  <2> QED
    BY <1>0, <2>1 DEF Keeps
<1>2. Fix(c)
  <2> HIDE DEF Fix
  <2> QED
    BY <1>1, Zenon
<1>3. PICK d : d = c /\ Fix(d)
  <2> HIDE DEF Fix, c
  <2> QED
    BY <1>2
<1>4. \A i \in 0 .. Len(s) :
        d[i] = IF i = 0 THEN <<>>
               ELSE IF s[i] \in S THEN Append(d[i - 1], s[i]) ELSE d[i - 1]
  <2> HIDE DEF c
  <2> QED
    BY <1>3
<1> HIDE DEF c, Fix
<1> DEFINE B == {k \in Nat : k =< Len(s) => d[k] = g[k]}
<1>5. 0 \in B
  BY <1>0, <1>4 DEF Keeps
<1>6. ASSUME NEW k \in Nat, k \in B PROVE k + 1 \in B
  <2> SUFFICES ASSUME k + 1 =< Len(s) PROVE d[k + 1] = g[k + 1]
    OBVIOUS
  <2>1. k + 1 \in 0 .. Len(s) /\ k + 1 # 0 /\ (k + 1) - 1 = k /\ d[k] = g[k]
    BY <1>0, <1>6
  <2> QED
    BY <1>4, <2>1 DEF Keeps
<1>7. Len(s) \in B
  <2> HIDE DEF B
  <2> QED
    BY <1>0, <1>5, <1>6, NumberInduction
<1>8. d[Len(s)] = g[Len(s)]
  BY <1>0, <1>7
<1>9. Keep(s, S) = c[Len(s)]
  BY DEF Keep, c, Fix
<1> QED
  BY <1>3, <1>8, <1>9

(* There is one for every sequence.                                        *)
LEMMA KeepExists ==
    ASSUME NEW D, NEW S
    PROVE  \A s \in Seq(D) : \E g : Keeps(g, s, S)
<1> DEFINE B == {s \in Seq(D) : \E g : Keeps(g, s, S)}
<1>1. <<>> \in B
  <2>1. Keeps([i \in {0} |-> <<>>], <<>>, S)
    BY DEF Keeps
  <2> QED
    BY <2>1, EmptySeq
<1>2. ASSUME NEW s \in Seq(D), NEW x \in D, s \in B PROVE Append(s, x) \in B
  <2>1. PICK g : Keeps(g, s, S)
    BY <1>2
  <2> DEFINE r == Append(s, x)
             h == [i \in 0 .. (Len(s) + 1) |->
                      IF i =< Len(s) THEN g[i]
                      ELSE IF x \in S THEN Append(g[Len(s)], x) ELSE g[Len(s)]]
  <2>2. /\ r \in Seq(D) /\ Len(r) = Len(s) + 1 /\ Len(s) \in Nat
        /\ r[Len(s) + 1] = x /\ \A i \in 1 .. Len(s) : r[i] = s[i]
    BY AppendProperties, LenProperties
  <2>3. /\ \A i \in 0 .. Len(s) : h[i] = g[i]
        /\ h[Len(s) + 1] = IF x \in S THEN Append(g[Len(s)], x) ELSE g[Len(s)]
    BY <2>2
  <2> HIDE DEF h, r
  <2>4. ASSUME NEW i \in 0 .. Len(r)
        PROVE  h[i] = IF i = 0 THEN <<>>
                      ELSE IF r[i] \in S THEN Append(h[i - 1], r[i]) ELSE h[i - 1]
    <3>1. CASE i = 0
      BY <2>1, <2>2, <2>3, <3>1 DEF Keeps
    <3>2. CASE i \in 1 .. Len(s)
      <4>1. i - 1 \in 0 .. Len(s) /\ i \in 0 .. Len(s) /\ i # 0
        BY <2>2, <3>2
      <4> QED
        BY <2>1, <2>2, <2>3, <3>2, <4>1 DEF Keeps
    <3>3. CASE i = Len(s) + 1
      <4>1. i - 1 = Len(s) /\ Len(s) \in 0 .. Len(s) /\ i # 0
        BY <2>2, <3>3
      <4> QED
        BY <2>2, <2>3, <3>3, <4>1
    <3> QED
      BY <2>2, <3>1, <3>2, <3>3
  <2>5. Keeps(h, r, S)
    BY <2>4 DEF Keeps
  <2> QED
    BY <2>2, <2>5 DEF r
<1> HIDE DEF B
<1>3. \A s \in Seq(D) : s \in B
  BY <1>1, <1>2, SeqInduction
<1> QED
  BY <1>3 DEF B

(* What is kept when a node is appended.                                   *)
LEMMA KeepAppend ==
    ASSUME NEW D, NEW S, NEW s \in Seq(D), NEW x \in D
    PROVE  Keep(Append(s, x), S) = IF x \in S THEN Append(Keep(s, S), x) ELSE Keep(s, S)
<1> DEFINE r == Append(s, x)
<1>1. /\ r \in Seq(D) /\ Len(r) = Len(s) + 1 /\ Len(s) \in Nat
      /\ r[Len(s) + 1] = x /\ \A i \in 1 .. Len(s) : r[i] = s[i]
  BY AppendProperties, LenProperties
<1> HIDE DEF r
<1>2. PICK g : Keeps(g, r, S)
  BY <1>1, KeepExists
<1>3. Keeps(g, s, S)
  <2>1. \A i \in 0 .. Len(s) : i \in 0 .. Len(r) /\ (i # 0 => i \in 1 .. Len(s))
    BY <1>1
  <2> QED
    BY <1>1, <1>2, <2>1 DEF Keeps
<1>4. Keep(s, S) = g[Len(s)] /\ Keep(r, S) = g[Len(s) + 1]
  BY <1>1, <1>2, <1>3, KeepIs
<1>5. Len(s) + 1 \in 0 .. Len(r) /\ Len(s) + 1 # 0 /\ (Len(s) + 1) - 1 = Len(s)
  BY <1>1
<1> QED
  BY <1>1, <1>2, <1>4, <1>5 DEF Keeps, r

(* Nothing is kept of nothing.                                             *)
LEMMA KeepEmpty == ASSUME NEW S PROVE Keep(<<>>, S) = <<>>
<1>1. <<>> \in Seq({})
  BY EmptySeq
<1>2. Keeps([i \in {0} |-> <<>>], <<>>, S)
  BY DEF Keeps
<1>3. Keep(<<>>, S) = [i \in {0} |-> <<>>][Len(<<>>)]
  BY <1>1, <1>2, KeepIs
<1> QED
  BY <1>3

(* The nodes kept are those in the set, each as often as before.           *)
LEMMA KeepMembers ==
    ASSUME NEW D, NEW S
    PROVE  \A s \in Seq(D) :
              /\ Keep(s, S) \in Seq(D)
              /\ \A x : x \in ToSet(Keep(s, S)) <=> x \in ToSet(s) /\ x \in S
              /\ IsInjective(s) => IsInjective(Keep(s, S))
<1> DEFINE B == {s \in Seq(D) :
                   /\ Keep(s, S) \in Seq(D)
                   /\ \A x : x \in ToSet(Keep(s, S)) <=> x \in ToSet(s) /\ x \in S
                   /\ IsInjective(s) => IsInjective(Keep(s, S))}
<1>1. <<>> \in B
  <2>1. <<>> \in Seq(D) /\ Keep(<<>>, S) = <<>> /\ \A x : x \notin ToSet(<<>>)
    BY EmptySeq, KeepEmpty DEF ToSet
  <2> QED
    BY <2>1
<1>2. ASSUME NEW s \in Seq(D), NEW x \in D, s \in B PROVE Append(s, x) \in B
  <2>1. /\ Keep(s, S) \in Seq(D)
        /\ \A y : y \in ToSet(Keep(s, S)) <=> y \in ToSet(s) /\ y \in S
        /\ IsInjective(s) => IsInjective(Keep(s, S))
    BY <1>2
  <2>2. /\ Append(s, x) \in Seq(D)
        /\ \A y : y \in ToSet(Append(s, x)) <=> y \in ToSet(s) \/ y = x
        /\ IsInjective(Append(s, x)) <=> IsInjective(s) /\ x \notin ToSet(s)
    BY AppendMembers
  <2>3. PICK k : k = Keep(s, S)
    OBVIOUS
  <2>4. /\ Append(k, x) \in Seq(D)
        /\ \A y : y \in ToSet(Append(k, x)) <=> y \in ToSet(k) \/ y = x
        /\ IsInjective(Append(k, x)) <=> IsInjective(k) /\ x \notin ToSet(k)
    BY <2>1, <2>3, AppendMembers
  <2>5. Keep(Append(s, x), S) = IF x \in S THEN Append(k, x) ELSE k
    BY <2>3, KeepAppend
  <2>6. CASE x \in S
    BY <2>1, <2>2, <2>3, <2>4, <2>5, <2>6
  <2>7. CASE x \notin S
    BY <2>1, <2>2, <2>3, <2>5, <2>7
  <2> QED
    BY <2>6, <2>7
<1> HIDE DEF B
<1>3. \A s \in Seq(D) : s \in B
  BY <1>1, <1>2, SeqInduction
<1> QED
  BY <1>3 DEF B

(* What is kept of a concatenation.                                        *)
LEMMA KeepConcat ==
    ASSUME NEW D, NEW S, NEW s \in Seq(D)
    PROVE  \A t \in Seq(D) : Keep(s \o t, S) = Keep(s, S) \o Keep(t, S)
<1> DEFINE B == {t \in Seq(D) : Keep(s \o t, S) = Keep(s, S) \o Keep(t, S)}
<1>0. Keep(s, S) \in Seq(D)
  BY KeepMembers
<1>1. <<>> \in B
  BY <1>0, EmptySeq, KeepEmpty, ConcatEmptySeq
<1>2. ASSUME NEW t \in Seq(D), NEW x \in D, t \in B PROVE Append(t, x) \in B
  <2>0. PICK a, b : a = Keep(s, S) /\ b = Keep(t, S)
    OBVIOUS
  <2>1. s \o t \in Seq(D) /\ a \in Seq(D) /\ b \in Seq(D) /\ Keep(s \o t, S) = a \o b
    BY <1>2, <2>0, KeepMembers, ConcatProperties
  <2>2. s \o Append(t, x) = Append(s \o t, x)
    BY <2>1, AppendIsConcat, ConcatAssociative
  <2>3. a \o Append(b, x) = Append(a \o b, x)
    <3>1. a \o b \in Seq(D)
      BY <2>1, ConcatProperties
    <3> QED
      BY <2>1, <3>1, AppendIsConcat, ConcatAssociative
  <2>4. Keep(Append(s \o t, x), S) = IF x \in S THEN Append(a \o b, x) ELSE a \o b
    <3>1. PICK r \in Seq(D) : r = s \o t /\ Keep(r, S) = a \o b
      BY <2>1
    <3>2. Keep(Append(r, x), S) = IF x \in S THEN Append(Keep(r, S), x) ELSE Keep(r, S)
      BY KeepAppend
    <3> QED
      BY <3>1, <3>2
  <2>5. Keep(Append(t, x), S) = IF x \in S THEN Append(b, x) ELSE b
    BY <2>0, KeepAppend
  <2>6. Append(t, x) \in Seq(D)
    BY AppendProperties
  <2> QED
    BY <2>0, <2>2, <2>3, <2>4, <2>5, <2>6
<1> HIDE DEF B
<1>3. \A t \in Seq(D) : t \in B
  BY <1>1, <1>2, SeqInduction
<1> QED
  BY <1>3 DEF B

(* Keeping twice, the second time in a smaller set, is keeping that.       *)
LEMMA KeepKeep ==
    ASSUME NEW D, NEW S, NEW T \in SUBSET S
    PROVE  \A s \in Seq(D) : Keep(Keep(s, S), T) = Keep(s, T)
<1> DEFINE B == {s \in Seq(D) : Keep(Keep(s, S), T) = Keep(s, T)}
<1>1. <<>> \in B
  BY EmptySeq, KeepEmpty
<1>2. ASSUME NEW s \in Seq(D), NEW x \in D, s \in B PROVE Append(s, x) \in B
  <2>1. PICK a : a = Keep(s, S) /\ a \in Seq(D) /\ Keep(a, T) = Keep(s, T)
    BY <1>2, KeepMembers
  <2>2. Keep(Append(a, x), T) = IF x \in T THEN Append(Keep(a, T), x) ELSE Keep(a, T)
    BY <2>1, KeepAppend
  <2>3. /\ Keep(Append(s, x), S) = IF x \in S THEN Append(a, x) ELSE a
        /\ Keep(Append(s, x), T) = IF x \in T THEN Append(Keep(s, T), x) ELSE Keep(s, T)
    BY <2>1, KeepAppend
  <2>4. Append(s, x) \in Seq(D)
    BY AppendProperties
  <2> QED
    BY <2>1, <2>2, <2>3, <2>4
<1> HIDE DEF B
<1>3. \A s \in Seq(D) : s \in B
  BY <1>1, <1>2, SeqInduction
<1> QED
  BY <1>3 DEF B

(* Nothing is kept of a sequence without members of the set.               *)
LEMMA KeepNone ==
    ASSUME NEW D, NEW s \in Seq(D), NEW S, \A x \in S : x \notin ToSet(s)
    PROVE  Keep(s, S) = <<>>
<1>1. Keep(s, S) \in Seq(D) /\ \A x : x \notin ToSet(Keep(s, S))
  BY KeepMembers
<1>2. PICK k : k = Keep(s, S)
  OBVIOUS
<1>3. Len(k) = 0
  <2>1. Len(k) \in Nat /\ \A i \in 1 .. Len(k) : k[i] \in ToSet(k)
    BY <1>1, <1>2, LenProperties DEF ToSet
  <2>2. ASSUME Len(k) # 0 PROVE FALSE
    <3>1. 1 \in 1 .. Len(k)
      BY <2>1, <2>2
    <3> QED
      BY <1>1, <1>2, <2>1, <3>1
  <2> QED
    BY <2>2
<1> QED
  BY <1>1, <1>2, <1>3, EmptySeq

(* Removing the first occurrence, from a sequence in two parts around it.  *)
LEMMA RemoveSplit ==
    ASSUME NEW D, NEW a \in Seq(D), NEW b \in Seq(D), NEW n \in D, n \notin ToSet(a)
    PROVE  RemoveFirst(Append(a, n) \o b, n) = a \o b
<1> DEFINE s == Append(a, n) \o b
           k == Len(a) + 1
<1>1. /\ Append(a, n) \in Seq(D) /\ Len(Append(a, n)) = k /\ Len(a) \in Nat /\ Len(b) \in Nat
      /\ Append(a, n)[k] = n /\ \A i \in 1 .. Len(a) : Append(a, n)[i] = a[i] /\ a[i] # n
  BY AppendProperties, LenProperties, MembersOf
<1>2. /\ s \in Seq(D) /\ Len(s) = k + Len(b)
      /\ \A i \in 1 .. k + Len(b) : s[i] = IF i =< k THEN Append(a, n)[i] ELSE b[i - k]
  BY <1>1, ConcatProperties
<1>3. PICK u : u = s
  OBVIOUS
<1> HIDE DEF s
<1>4. /\ Len(u) = k + Len(b) /\ k \in 1 .. Len(u) /\ u[k] = n
      /\ \A i \in 1 .. Len(u) : i < k => u[i] = a[i] /\ u[i] # n
      /\ \A i \in 1 .. Len(u) : i > k => u[i] = b[i - k]
  BY <1>1, <1>2, <1>3
<1>5. RemoveFirst(u, n) = RemoveAt(u, k)
  <2> DEFINE I == {i \in 1 .. Len(u) : u[i] = n}
  <2>1. k \in I /\ \A y \in I : k =< y
    BY <1>1, <1>4
  <2>2. \A x \in I : (\A y \in I : x =< y) => x = k
    BY <1>1, <1>4, <2>1
  <2>3. Min(I) = k
    <3> HIDE DEF I
    <3>1. Min(I) \in I /\ \A y \in I : Min(I) =< y
      BY <2>1 DEF Min
    <3> QED
      BY <2>2, <3>1
  <2> QED
    BY <2>1, <2>3 DEF RemoveFirst, SelectInSeq
<1>6. SubSeq(u, 1, k - 1) = a
  <2>1. \A i \in 1 .. (k - 1) : u[i] = a[i] /\ u[i] \in D
    BY <1>1, <1>4
  <2>2. /\ SubSeq(u, 1, k - 1) \in Seq(D)
        /\ Len(SubSeq(u, 1, k - 1)) = IF 1 <= k - 1 THEN (k - 1) - 1 + 1 ELSE 0
        /\ \A i \in 1 .. (k - 1) - 1 + 1 : SubSeq(u, 1, k - 1)[i] = u[1 + i - 1]
    BY <1>1, <2>1, SubSeqProperties
  <2>3. Len(SubSeq(u, 1, k - 1)) = Len(a) /\ \A i \in 1 .. Len(a) : SubSeq(u, 1, k - 1)[i] = a[i]
    BY <1>1, <2>1, <2>2
  <2> QED
    BY <2>2, <2>3, SeqEqual
<1>7. SubSeq(u, k + 1, Len(u)) = b
  <2>1. \A i \in (k + 1) .. Len(u) : u[i] = b[i - k] /\ u[i] \in D
    <3>1. \A i \in (k + 1) .. Len(u) : i \in 1 .. Len(u) /\ i > k /\ i - k \in 1 .. Len(b)
      BY <1>1, <1>4
    <3> QED
      BY <1>4, <3>1, ElementOfSeq
  <2>2. /\ SubSeq(u, k + 1, Len(u)) \in Seq(D)
        /\ Len(SubSeq(u, k + 1, Len(u))) = IF k + 1 <= Len(u) THEN Len(u) - (k + 1) + 1 ELSE 0
        /\ \A i \in 1 .. Len(u) - (k + 1) + 1 : SubSeq(u, k + 1, Len(u))[i] = u[(k + 1) + i - 1]
    BY <1>1, <1>4, <2>1, SubSeqProperties
  <2>3. Len(SubSeq(u, k + 1, Len(u))) = Len(b)
    BY <1>1, <1>4, <2>2
  <2>4. ASSUME NEW i \in 1 .. Len(b) PROVE SubSeq(u, k + 1, Len(u))[i] = b[i]
    <3>1. /\ i \in 1 .. Len(u) - (k + 1) + 1 /\ (k + 1) + i - 1 \in (k + 1) .. Len(u)
          /\ ((k + 1) + i - 1) - k = i
      BY <1>1, <1>4
    <3> QED
      BY <2>1, <2>2, <3>1
  <2> QED
    BY <2>2, <2>3, <2>4, SeqEqual
<1> QED
  BY <1>3, <1>5, <1>6, <1>7 DEF RemoveAt, s

(* The parts of s before and after n.                                     *)
Around(s, n, a, b) == n \notin ToSet(a) /\ s = Append(a, n) \o b

(* Every sequence with n has such parts.                                   *)
LEMMA SplitAround ==
    ASSUME NEW D, NEW n \in D
    PROVE  \A s \in Seq(D) : n \in ToSet(s) =>
              \E a \in Seq(D), b \in Seq(D) : Around(s, n, a, b)
<1> DEFINE Parts(s) == \E a \in Seq(D), b \in Seq(D) : Around(s, n, a, b)
           B == {s \in Seq(D) : n \in ToSet(s) => Parts(s)}
<1>1. <<>> \in B
  BY EmptySeq DEF ToSet
<1>2. ASSUME NEW s \in Seq(D), NEW x \in D, s \in B PROVE Append(s, x) \in B
  <2>1. Append(s, x) \in Seq(D) /\ \A y : y \in ToSet(Append(s, x)) <=> y \in ToSet(s) \/ y = x
    BY AppendMembers
  <2> SUFFICES ASSUME n \in ToSet(Append(s, x)) PROVE Parts(Append(s, x))
    BY <2>1
  <2>2. CASE n \in ToSet(s)
    <3>1. PICK a \in Seq(D), b \in Seq(D) : Around(s, n, a, b)
      BY <1>2, <2>2
    <3>2. /\ Append(a, n) \in Seq(D) /\ Append(a, n) \o b \in Seq(D) /\ Append(b, x) \in Seq(D)
          /\ Append(Append(a, n) \o b, x) = (Append(a, n) \o b) \o <<x>>
          /\ Append(b, x) = b \o <<x>>
      BY <3>1, AppendProperties, AppendIsConcat, ConcatProperties
    <3>3. <<x>> \in Seq(D)
      OBVIOUS
    <3>4. Append(s, x) = Append(a, n) \o Append(b, x)
      BY <3>1, <3>2, <3>3, ConcatAssociative DEF Around
    <3> QED
      BY <3>1, <3>2, <3>4 DEF Around
  <2>3. CASE n \notin ToSet(s)
    <3>1. x = n /\ Append(s, n) \in Seq(D)
      BY <2>1, <2>3
    <3>2. Append(s, n) \o <<>> = Append(s, n) /\ <<>> \in Seq(D)
      BY <3>1, ConcatEmptySeq, EmptySeq
    <3> QED
      BY <2>3, <3>1, <3>2 DEF Around
  <2> QED
    BY <2>2, <2>3
<1> HIDE DEF B
<1>3. \A s \in Seq(D) : s \in B
  BY <1>1, <1>2, SeqInduction
<1> QED
  BY <1>3 DEF B

(* A sequence without n stays as it is.                                    *)
LEMMA RemoveNone ==
    ASSUME NEW D, NEW s \in Seq(D), NEW n, n \notin ToSet(s)
    PROVE  RemoveFirst(s, n) = s
BY MembersOf DEF RemoveFirst

(* The members after a removal, where none is there twice.                 *)
LEMMA RemoveMembers ==
    ASSUME NEW D, NEW s \in Seq(D), NEW n \in D, IsInjective(s)
    PROVE  /\ RemoveFirst(s, n) \in Seq(D)
           /\ \A x : x \in ToSet(RemoveFirst(s, n)) <=> x \in ToSet(s) /\ x # n
           /\ IsInjective(RemoveFirst(s, n))
<1>1. CASE n \notin ToSet(s)
  BY <1>1, RemoveNone
<1>2. CASE n \in ToSet(s)
  <2>0. PICK a \in Seq(D), b \in Seq(D) : Around(s, n, a, b)
    BY <1>2, SplitAround
  <2>1. n \notin ToSet(a) /\ s = Append(a, n) \o b
    BY <2>0 DEF Around
  <2>2. RemoveFirst(s, n) = a \o b
    BY <2>1, RemoveSplit
  <2>3. /\ Append(a, n) \in Seq(D)
        /\ \A x : x \in ToSet(Append(a, n)) <=> x \in ToSet(a) \/ x = n
    BY AppendMembers
  <2>4. /\ \A x : x \in ToSet(s) <=> x \in ToSet(a) \/ x = n \/ x \in ToSet(b)
        /\ a \o b \in Seq(D)
        /\ \A x : x \in ToSet(a \o b) <=> x \in ToSet(a) \/ x \in ToSet(b)
    BY <2>1, <2>3, ConcatMembers
  <2>5. /\ IsInjective(a) /\ IsInjective(b) /\ n \notin ToSet(b)
        /\ \A x : ~(x \in ToSet(a) /\ x \in ToSet(b))
    <3>1. /\ Len(Append(a, n)) = Len(a) + 1 /\ Len(a) \in Nat /\ Len(b) \in Nat
          /\ Append(a, n)[Len(a) + 1] = n /\ \A i \in 1 .. Len(a) : Append(a, n)[i] = a[i]
      BY AppendProperties, LenProperties
    <3>2. /\ Len(s) = Len(a) + 1 + Len(b)
          /\ \A i \in 1 .. Len(a) + 1 + Len(b) :
                s[i] = IF i =< Len(a) + 1 THEN Append(a, n)[i] ELSE b[i - (Len(a) + 1)]
      BY <2>1, <2>3, <3>1, ConcatProperties
    <3>3. \A i, j \in 1 .. Len(a) + 1 + Len(b) : s[i] = s[j] => i = j
      BY <3>1, <3>2, LenProperties DEF IsInjective
    <3>4. \A i \in 1 .. Len(a) + 1 : i \in 1 .. Len(a) + 1 + Len(b) /\ s[i] = Append(a, n)[i]
      BY <3>1, <3>2
    <3>5. \A i \in 1 .. Len(b) :
             /\ Len(a) + 1 + i \in 1 .. Len(a) + 1 + Len(b)
             /\ s[Len(a) + 1 + i] = b[i]
      <4>1. \A i \in 1 .. Len(b) :
               /\ Len(a) + 1 + i \in 1 .. Len(a) + 1 + Len(b)
               /\ ~(Len(a) + 1 + i =< Len(a) + 1)
               /\ (Len(a) + 1 + i) - (Len(a) + 1) = i
        BY <3>1
      <4> QED
        BY <3>2, <4>1
    <3>6. \A i, j \in 1 .. Len(a) + 1 : Append(a, n)[i] = Append(a, n)[j] => i = j
      BY <3>3, <3>4
    <3>7. \A i, j \in 1 .. Len(b) : b[i] = b[j] => i = j
      <4> SUFFICES ASSUME NEW i \in 1 .. Len(b), NEW j \in 1 .. Len(b), b[i] = b[j] PROVE i = j
        OBVIOUS
      <4>1. Len(a) + 1 + i = Len(a) + 1 + j
        BY <3>3, <3>5
      <4> QED
        BY <3>1, <4>1
    <3>8. \A i \in 1 .. Len(a) + 1, j \in 1 .. Len(b) : Append(a, n)[i] # b[j]
      <4> SUFFICES ASSUME NEW i \in 1 .. Len(a) + 1, NEW j \in 1 .. Len(b),
                          Append(a, n)[i] = b[j]
                   PROVE  FALSE
        OBVIOUS
      <4>1. i = Len(a) + 1 + j
        BY <3>3, <3>4, <3>5
      <4> QED
        BY <3>1, <4>1
    <3>9. IsInjective(Append(a, n)) /\ IsInjective(b)
      BY <2>3, <3>1, <3>6, <3>7, LenProperties, ZenonT(40) DEF IsInjective
    <3>10. ASSUME NEW x, x \in ToSet(Append(a, n)), x \in ToSet(b) PROVE FALSE
      <4>1. PICK i \in 1 .. Len(a) + 1 : Append(a, n)[i] = x
        BY <2>3, <3>1, <3>10, MembersOf
      <4>2. PICK j \in 1 .. Len(b) : b[j] = x
        BY <3>10, MembersOf
      <4> QED
        BY <3>8, <4>1, <4>2
    <3> QED
      BY <2>3, <3>9, <3>10, AppendMembers
  <2>6. IsInjective(a \o b)
    BY <2>5, ConcatInjective
  <2> QED
    BY <2>1, <2>2, <2>4, <2>5, <2>6
<1> QED
  BY <1>1, <1>2

(* Removing and keeping commute.                                           *)
LEMMA KeepRemove ==
    ASSUME NEW D, NEW S, NEW s \in Seq(D), NEW n \in D
    PROVE  Keep(RemoveFirst(s, n), S) = RemoveFirst(Keep(s, S), n)
<1>0. /\ Keep(s, S) \in Seq(D)
      /\ \A x : x \in ToSet(Keep(s, S)) <=> x \in ToSet(s) /\ x \in S
  BY KeepMembers
<1>1. CASE n \notin ToSet(s)
  BY <1>0, <1>1, RemoveNone
<1>2. CASE n \in ToSet(s)
  <2>0. PICK a \in Seq(D), b \in Seq(D) : Around(s, n, a, b)
    BY <1>2, SplitAround
  <2>1. n \notin ToSet(a) /\ s = Append(a, n) \o b
    BY <2>0 DEF Around
  <2>2. RemoveFirst(s, n) = a \o b
    BY <2>1, RemoveSplit
  <2>3. PICK ka, kb : ka = Keep(a, S) /\ kb = Keep(b, S)
    OBVIOUS
  <2>4. /\ ka \in Seq(D) /\ kb \in Seq(D)
        /\ n \notin ToSet(ka)
    BY <2>1, <2>3, KeepMembers
  <2>5. Keep(a \o b, S) = ka \o kb
    BY <2>3, KeepConcat
  <2>6. Keep(s, S) = Keep(Append(a, n), S) \o kb
    <3>1. PICK r \in Seq(D) : r = Append(a, n)
      BY AppendProperties
    <3>2. Keep(r \o b, S) = Keep(r, S) \o Keep(b, S)
      BY KeepConcat
    <3> QED
      BY <2>1, <2>3, <3>1, <3>2
  <2>7. Keep(Append(a, n), S) = IF n \in S THEN Append(ka, n) ELSE ka
    BY <2>3, KeepAppend
  <2>8. CASE n \in S
    BY <2>2, <2>4, <2>5, <2>6, <2>7, <2>8, RemoveSplit
  <2>9. CASE n \notin S
    BY <1>0, <2>2, <2>5, <2>6, <2>7, <2>9, RemoveNone
  <2> QED
    BY <2>8, <2>9
<1> QED
  BY <1>1, <1>2

(* The equations of the function in FlattenSeq.                            *)
Flattens(g, ss) ==
    \A i \in 1 .. Len(ss) : g[i] = IF i = 1 THEN ss[i] ELSE g[i - 1] \o ss[i]

(* Any function with these equations ends in FlattenSeq.                   *)
LEMMA FlattenIs ==
    ASSUME NEW D, NEW ss \in Seq(D), Len(ss) # 0, NEW g, Flattens(g, ss)
    PROVE  FlattenSeq(ss) = g[Len(ss)]
<1> DEFINE Fix(h) == h = [i \in 1 .. Len(ss) |-> IF i = 1 THEN ss[i] ELSE h[i - 1] \o ss[i]]
           c == CHOOSE h : Fix(h)
<1>0. Len(ss) \in Nat
  BY LenProperties
<1>1. Fix([i \in 1 .. Len(ss) |-> g[i]])
  <2>1. \A i \in 1 .. Len(ss) : i # 1 => i - 1 \in 1 .. Len(ss)
    BY <1>0
  <2> QED
    BY <1>0, <2>1 DEF Flattens
<1>2. Fix(c)
  <2> HIDE DEF Fix
  <2> QED
    BY <1>1, Zenon
<1>3. PICK d : d = c /\ Fix(d)
  <2> HIDE DEF Fix, c
  <2> QED
    BY <1>2
<1>4. \A i \in 1 .. Len(ss) : d[i] = IF i = 1 THEN ss[i] ELSE d[i - 1] \o ss[i]
  <2> HIDE DEF c
  <2> QED
    BY <1>3
<1> HIDE DEF c, Fix
<1> DEFINE B == {k \in Nat : k + 1 =< Len(ss) => d[k + 1] = g[k + 1]}
<1>5. 0 \in B
  BY <1>0, <1>4 DEF Flattens
<1>6. ASSUME NEW k \in Nat, k \in B PROVE k + 1 \in B
  <2> SUFFICES ASSUME (k + 1) + 1 =< Len(ss) PROVE d[(k + 1) + 1] = g[(k + 1) + 1]
    OBVIOUS
  <2>1. /\ (k + 1) + 1 \in 1 .. Len(ss) /\ (k + 1) + 1 # 1 /\ ((k + 1) + 1) - 1 = k + 1
        /\ d[k + 1] = g[k + 1]
    BY <1>0, <1>6
  <2> QED
    BY <1>4, <2>1 DEF Flattens
<1>7. \A k \in Nat : k \in B
  <2> HIDE DEF B
  <2> QED
    BY <1>5, <1>6, NumberInduction
<1>8. d[Len(ss)] = g[Len(ss)]
  <2>1. Len(ss) - 1 \in Nat /\ Len(ss) - 1 \in B
    BY <1>0, <1>7
  <2> QED
    BY <1>0, <2>1
<1>9. FlattenSeq(ss) = c[Len(ss)]
  BY DEF FlattenSeq, c, Fix
<1> QED
  BY <1>3, <1>8, <1>9

(* There is one for every sequence of sequences, and it concatenates.      *)
LEMMA FlattenExists ==
    ASSUME NEW D
    PROVE  \A ss \in Seq(D) : \E g : Flattens(g, ss)
<1> DEFINE B == {ss \in Seq(D) : \E g : Flattens(g, ss)}
<1>1. <<>> \in B
  <2>1. Flattens([i \in {0} |-> <<>>], <<>>)
    BY DEF Flattens
  <2> QED
    BY <2>1, EmptySeq
<1>2. ASSUME NEW ss \in Seq(D), NEW s \in D, ss \in B PROVE Append(ss, s) \in B
  <2>1. PICK g : Flattens(g, ss)
    BY <1>2
  <2> DEFINE r == Append(ss, s)
             h == [i \in 1 .. (Len(ss) + 1) |->
                      IF i =< Len(ss) THEN g[i] ELSE IF i = 1 THEN s ELSE g[i - 1] \o s]
  <2>2. /\ r \in Seq(D) /\ Len(r) = Len(ss) + 1 /\ Len(ss) \in Nat
        /\ r[Len(ss) + 1] = s /\ \A i \in 1 .. Len(ss) : r[i] = ss[i]
    BY AppendProperties, LenProperties
  <2>3. /\ \A i \in 1 .. Len(ss) : h[i] = g[i]
        /\ h[Len(ss) + 1] = IF Len(ss) + 1 = 1 THEN s ELSE g[Len(ss)] \o s
    BY <2>2
  <2> HIDE DEF h, r
  <2>4. ASSUME NEW i \in 1 .. Len(r)
        PROVE  h[i] = IF i = 1 THEN r[i] ELSE h[i - 1] \o r[i]
    <3>1. CASE i \in 1 .. Len(ss)
      <4>1. i # 1 => i - 1 \in 1 .. Len(ss)
        BY <2>2, <3>1
      <4> QED
        BY <2>1, <2>2, <2>3, <3>1, <4>1 DEF Flattens
    <3>2. CASE i = Len(ss) + 1
      <4>1. i - 1 = Len(ss) /\ (i # 1 => Len(ss) \in 1 .. Len(ss))
        BY <2>2, <3>2
      <4>2. i # 1 => h[i - 1] = g[Len(ss)]
        BY <2>3, <4>1
      <4> QED
        BY <2>2, <2>3, <3>2, <4>1, <4>2
    <3> QED
      BY <2>2, <3>1, <3>2
  <2>5. Flattens(h, r)
    BY <2>4 DEF Flattens
  <2> QED
    BY <2>2, <2>5 DEF r
<1> HIDE DEF B
<1>3. \A ss \in Seq(D) : ss \in B
  BY <1>1, <1>2, SeqInduction
<1> QED
  BY <1>3 DEF B

(* One more sequence at the end.                                           *)
LEMMA FlattenAppend ==
    ASSUME NEW D, NEW ss \in Seq(Seq(D)), NEW s \in Seq(D)
    PROVE  FlattenSeq(Append(ss, s)) = IF ss = <<>> THEN s ELSE FlattenSeq(ss) \o s
<1> DEFINE r == Append(ss, s)
<1>1. /\ r \in Seq(Seq(D)) /\ Len(r) = Len(ss) + 1 /\ Len(ss) \in Nat
      /\ r[Len(ss) + 1] = s /\ \A i \in 1 .. Len(ss) : r[i] = ss[i]
  BY AppendProperties, LenProperties
<1>2. ss = <<>> <=> Len(ss) = 0
  BY EmptySeq
<1> HIDE DEF r
<1>3. PICK g : Flattens(g, r)
  BY <1>1, FlattenExists
<1>4. FlattenSeq(r) = g[Len(ss) + 1]
  BY <1>1, <1>3, FlattenIs
<1>5. CASE Len(ss) = 0
  BY <1>1, <1>2, <1>3, <1>4, <1>5 DEF Flattens, r
<1>6. CASE Len(ss) # 0
  <2>1. Flattens(g, ss)
    <3>1. \A i \in 1 .. Len(ss) : i \in 1 .. Len(r)
      BY <1>1
    <3> QED
      BY <1>1, <1>3, <3>1 DEF Flattens
  <2>2. FlattenSeq(ss) = g[Len(ss)]
    BY <1>6, <2>1, FlattenIs
  <2>3. /\ Len(ss) + 1 \in 1 .. Len(r) /\ Len(ss) + 1 # 1 /\ (Len(ss) + 1) - 1 = Len(ss)
    BY <1>1, <1>6
  <2>4. g[Len(ss) + 1] = g[Len(ss)] \o s
    BY <1>1, <1>3, <2>3 DEF Flattens
  <2> QED
    BY <1>2, <1>4, <1>6, <2>2, <2>4 DEF r
<1> QED
  BY <1>5, <1>6

(* The first k chains of a table, and all the nodes in them.               *)
Chains(t, k) == [b \in 1 .. k |-> t[b - 1]]
NodesOf(t, k) == FlattenSeq(Chains(t, k))

(* The nodes of one more chain come last.                                  *)
LEMMA NodesOfNext ==
    ASSUME NEW D, NEW n \in Nat, NEW t \in [0 .. (n - 1) -> Seq(D)], NEW k \in Nat, k < n,
           NodesOf(t, k) \in Seq(D)
    PROVE  NodesOf(t, k + 1) = NodesOf(t, k) \o t[k]
<1>1. /\ \A b \in 1 .. (k + 1) : b - 1 \in 0 .. (n - 1)
      /\ k \in 0 .. (n - 1) /\ (k + 1) - 1 = k
  OBVIOUS
<1>2. PICK c : c = Chains(t, k)
  OBVIOUS
<1>3. \A b \in 1 .. k : b \in 1 .. (k + 1)
  OBVIOUS
<1>4. c \in [1 .. k -> Seq(D)] /\ \A b \in 1 .. k : c[b] = t[b - 1]
  BY <1>1, <1>2, <1>3 DEF Chains
<1>5. c \in Seq(Seq(D)) /\ Len(c) = k
  BY <1>4
<1>6. Chains(t, k + 1) = Append(c, t[k])
  <2>1. PICK d : d = Chains(t, k + 1)
    OBVIOUS
  <2>2. d \in [1 .. (k + 1) -> Seq(D)] /\ \A b \in 1 .. (k + 1) : d[b] = t[b - 1]
    BY <1>1, <2>1 DEF Chains
  <2>3. d \in Seq(Seq(D)) /\ Len(d) = k + 1
    BY <2>2
  <2>4. /\ Append(c, t[k]) \in Seq(Seq(D)) /\ Len(Append(c, t[k])) = k + 1
        /\ \A b \in 1 .. k : Append(c, t[k])[b] = c[b]
        /\ Append(c, t[k])[k + 1] = t[k]
    BY <1>1, <1>5, AppendProperties
  <2>5. \A b \in 1 .. (k + 1) : d[b] = Append(c, t[k])[b]
    <3>1. \A b \in 1 .. (k + 1) : b \in 1 .. k \/ b = k + 1
      OBVIOUS
    <3> QED
      BY <1>1, <1>3, <1>4, <2>2, <2>4, <3>1
  <2> QED
    BY <2>1, <2>3, <2>4, <2>5, SeqEqual, SMTT(30)
<1>7. t[k] \in Seq(D)
  BY <1>1
<1>8. CASE c = <<>>
  <2>1. FlattenSeq(c) = <<>>
    BY <1>5, <1>8 DEF FlattenSeq
  <2> QED
    <3>1. PICK s \in Seq(D) : s = t[k]
      BY <1>7
    <3>2. FlattenSeq(Append(c, s)) = s
      BY <1>5, <1>8, FlattenAppend
    <3>3. <<>> \o s = s
      BY ConcatEmptySeq
    <3> QED
      BY <1>2, <1>6, <2>1, <3>1, <3>2, <3>3 DEF NodesOf
<1>9. CASE c # <<>>
  BY <1>2, <1>5, <1>6, <1>7, <1>9, FlattenAppend DEF NodesOf
<1> QED
  BY <1>8, <1>9

(* No chain, no nodes.                                                     *)
LEMMA NodesOfNone == ASSUME NEW t PROVE NodesOf(t, 0) = <<>>
<1>1. Chains(t, 0) = <<>>
  BY DEF Chains
<1> QED
  BY <1>1 DEF NodesOf, FlattenSeq

(* The chains have no node twice and none in common.                       *)
Parted(D, n, t) ==
    /\ n \in Nat /\ t \in [0 .. (n - 1) -> Seq(D)]
    /\ \A b \in 0 .. (n - 1) : IsInjective(t[b])
    /\ \A b, c \in 0 .. (n - 1), x \in D : x \in ToSet(t[b]) /\ x \in ToSet(t[c]) => b = c

(* Only chain h has nodes of S.                                            *)
InChain(D, n, t, S, h) ==
    /\ n \in Nat /\ t \in [0 .. (n - 1) -> Seq(D)] /\ h \in 0 .. (n - 1)
    /\ \A b \in 0 .. (n - 1) : b # h => \A x \in S : x \notin ToSet(t[b])

(* The nodes of a table are those of its chains, each once.                *)
LEMMA NodesOfMembers ==
    ASSUME NEW D, NEW n, NEW t, Parted(D, n, t)
    PROVE  /\ NodesOf(t, n) \in Seq(D)
           /\ \A x : x \in ToSet(NodesOf(t, n)) <=> \E b \in 0 .. (n - 1) : x \in ToSet(t[b])
           /\ IsInjective(NodesOf(t, n))
<1> USE DEF Parted
<1> DEFINE Good(k, f) == /\ f \in Seq(D)
                         /\ \A x : x \in ToSet(f) <=> \E b \in 0 .. (k - 1) : x \in ToSet(t[b])
                         /\ IsInjective(f)
           B == {k \in Nat : \A f : f = NodesOf(t, k) /\ k =< n => Good(k, f)}
<1>1. 0 \in B
  <2>1. /\ <<>> \in Seq(D) /\ \A x : x \notin ToSet(<<>>)
        /\ IsInjective(<<>>)
    BY EmptySeq DEF ToSet, IsInjective
  <2>2. Good(0, <<>>)
    BY <2>1
  <2> HIDE DEF Good
  <2> QED
    BY <2>2, NodesOfNone
<1>2. ASSUME NEW k \in Nat, k \in B PROVE k + 1 \in B
  <2> HIDE DEF Good
  <2> SUFFICES ASSUME NEW e, e = NodesOf(t, k + 1), k + 1 =< n PROVE Good(k + 1, e)
    OBVIOUS
  <2>0. PICK f : f = NodesOf(t, k)
    OBVIOUS
  <2>1. Good(k, f)
    BY <1>2, <2>0
  <2> USE DEF Good
  <2>2. e = f \o t[k]
    <3>1. NodesOf(t, k) \in Seq(D) /\ k < n
      BY <2>0, <2>1
    <3> QED
      BY <2>0, <3>1, NodesOfNext
  <2>3. /\ k \in 0 .. (n - 1) /\ t[k] \in Seq(D)
        /\ \A b \in 0 .. (k - 1) : b \in 0 .. (n - 1) /\ b # k
        /\ \A b : b \in 0 .. ((k + 1) - 1) <=> b \in 0 .. (k - 1) \/ b = k
    OBVIOUS
  <2>4. /\ f \o t[k] \in Seq(D)
        /\ \A x : x \in ToSet(f \o t[k]) <=> x \in ToSet(f) \/ x \in ToSet(t[k])
    BY <2>1, <2>3, ConcatMembers
  <2>5. IsInjective(f \o t[k])
    <3>1. ASSUME NEW x, x \in ToSet(f), x \in ToSet(t[k]) PROVE FALSE
      <4>1. PICK b \in 0 .. (k - 1) : x \in ToSet(t[b])
        BY <2>1, <3>1
      <4>2. x \in D
        BY <2>3, <3>1, MembersOf
      <4> QED
        BY <2>3, <3>1, <4>1, <4>2
    <3> QED
      BY <2>1, <2>3, <3>1, ConcatInjective
  <2>6. \A x : x \in ToSet(f \o t[k]) <=> \E b \in 0 .. ((k + 1) - 1) : x \in ToSet(t[b])
    BY <2>1, <2>3, <2>4, Zenon
  <2> QED
    BY <2>2, <2>4, <2>5, <2>6
<1>3. n \in B
  <2> HIDE DEF B
  <2> QED
    BY <1>1, <1>2, NumberInduction
<1> QED
  BY <1>3

(* Where one chain has all the nodes of a set, that chain has them in the  *)
(* order in which they are among the nodes of the table.                   *)
LEMMA NodesOfKeep ==
    ASSUME NEW D, NEW n, NEW t, NEW S, NEW h, InChain(D, n, t, S, h)
    PROVE  Keep(NodesOf(t, n), S) = Keep(t[h], S)
<1> USE DEF InChain
<1> DEFINE Good(k, f) == /\ f \in Seq(D)
                         /\ Keep(f, S) = IF h < k THEN Keep(t[h], S) ELSE <<>>
           B == {k \in Nat : \A f : f = NodesOf(t, k) /\ k =< n => Good(k, f)}
<1>1. 0 \in B
  <2>1. Good(0, <<>>)
    BY EmptySeq, KeepEmpty
  <2> QED
    BY <2>1, NodesOfNone, Zenon
<1>2. ASSUME NEW k \in Nat, k \in B PROVE k + 1 \in B
  <2> HIDE DEF Good
  <2> SUFFICES ASSUME NEW e, e = NodesOf(t, k + 1), k + 1 =< n PROVE Good(k + 1, e)
    OBVIOUS
  <2>0. PICK f : f = NodesOf(t, k)
    OBVIOUS
  <2>1. Good(k, f)
    BY <1>2, <2>0
  <2> USE DEF Good
  <2>2. e = f \o t[k]
    <3>1. NodesOf(t, k) \in Seq(D) /\ k < n
      BY <2>0, <2>1
    <3> QED
      BY <2>0, <3>1, NodesOfNext
  <2>3. k \in 0 .. (n - 1) /\ t[k] \in Seq(D) /\ f \o t[k] \in Seq(D)
    BY <2>1, ConcatProperties
  <2>4. Keep(f \o t[k], S) = Keep(f, S) \o Keep(t[k], S)
    <3>1. PICK s \in Seq(D) : s = t[k]
      BY <2>3
    <3>2. f \in Seq(D)
      BY <2>1
    <3>3. Keep(f \o s, S) = Keep(f, S) \o Keep(s, S)
      BY <3>2, KeepConcat
    <3> QED
      BY <3>1, <3>3
  <2>5. Keep(f, S) \in Seq(D) /\ Keep(t[k], S) \in Seq(D)
    BY <2>1, <2>3, KeepMembers
  <2>6. CASE k = h
    <3>1. Keep(f, S) = <<>> /\ h < k + 1
      BY <2>1, <2>6
    <3> QED
      BY <2>2, <2>3, <2>4, <2>5, <2>6, <3>1, ConcatEmptySeq
  <2>7. CASE k # h
    <3>1. Keep(t[k], S) = <<>> /\ (h < k <=> h < k + 1)
      BY <2>3, <2>7, KeepNone
    <3> QED
      BY <2>1, <2>2, <2>3, <2>4, <2>5, <3>1, ConcatEmptySeq
  <2> QED
    BY <2>6, <2>7
<1>3. n \in B
  <2> HIDE DEF B
  <2> QED
    BY <1>1, <1>2, NumberInduction
<1> QED
  BY <1>3

(* The sequence u is w without its place k.                                *)
LeftOut(len, w, k, u) ==
    /\ len \in Nat /\ w \in [1 .. len -> Node] /\ k \in 1 .. len
    /\ \A i, j \in 1 .. len : w[i] = w[j] => i = j
    /\ u \in [1 .. (len - 1) -> Node]
    /\ \A j \in 1 .. (len - 1) : u[j] = IF j < k THEN w[j] ELSE w[j + 1]

(* What is left of a sequence without repetitions when its place k goes.   *)
LEMMA RemoveIs ==
    ASSUME NEW len, NEW w, NEW k, NEW u, LeftOut(len, w, k, u)
    PROVE  RemoveFirst(w, w[k]) = u
<1> USE DEF LeftOut
<1>1. /\ w \in Seq(Node) /\ Len(w) = len /\ u \in Seq(Node) /\ Len(u) = len - 1
  OBVIOUS
<1>2. RemoveFirst(w, w[k]) = SubSeq(w, 1, k - 1) \o SubSeq(w, k + 1, len)
  <2> DEFINE I == {i \in 1 .. Len(w) : w[i] = w[k]}
  <2>1. I = {k}
    BY <1>1
  <2>2. Min(I) = k
    <3>1. Min({k}) = k
      BY DEF Min
    <3> QED
      BY <2>1, <3>1
  <2> QED
    BY <1>1, <2>1, <2>2 DEF RemoveFirst, SelectInSeq, RemoveAt
<1>3. PICK a : a = SubSeq(w, 1, k - 1)
  OBVIOUS
<1>4. PICK b : b = SubSeq(w, k + 1, len)
  OBVIOUS
<1>5. a \in Seq(Node) /\ Len(a) = k - 1 /\ \A i \in 1 .. (k - 1) : a[i] = w[i]
  <2>1. /\ SubSeq(w, 1, k - 1) \in Seq(Node)
        /\ Len(SubSeq(w, 1, k - 1)) = IF 1 <= k - 1 THEN (k - 1) - 1 + 1 ELSE 0
        /\ \A i \in 1 .. (k - 1) - 1 + 1 : SubSeq(w, 1, k - 1)[i] = w[1 + i - 1]
    <3>1. \A i \in 1 .. (k - 1) : w[i] \in Node
      OBVIOUS
    <3> QED
      BY <3>1, SubSeqProperties
  <2> QED
    BY <1>3, <2>1
<1>6. b \in Seq(Node) /\ Len(b) = len - k /\ \A i \in 1 .. (len - k) : b[i] = w[k + i]
  <2>1. /\ SubSeq(w, k + 1, len) \in Seq(Node)
        /\ Len(SubSeq(w, k + 1, len)) = IF k + 1 <= len THEN len - (k + 1) + 1 ELSE 0
        /\ \A i \in 1 .. len - (k + 1) + 1 : SubSeq(w, k + 1, len)[i] = w[(k + 1) + i - 1]
    <3>1. \A i \in (k + 1) .. len : w[i] \in Node
      OBVIOUS
    <3> QED
      BY <3>1, SubSeqProperties
  <2>2. \A i \in 1 .. (len - k) : i \in 1 .. len - (k + 1) + 1 /\ (k + 1) + i - 1 = k + i
    OBVIOUS
  <2> QED
    BY <1>4, <2>1, <2>2
<1>7. /\ a \o b \in Seq(Node) /\ Len(a \o b) = len - 1
      /\ \A i \in 1 .. (len - 1) : (a \o b)[i] = IF i <= k - 1 THEN a[i] ELSE b[i - (k - 1)]
  <2>1. /\ a \o b \in Seq(Node) /\ Len(a \o b) = Len(a) + Len(b)
        /\ \A i \in 1 .. Len(a) + Len(b) : (a \o b)[i] = IF i <= Len(a) THEN a[i] ELSE b[i - Len(a)]
    <3>1. a \in Seq(Node) /\ b \in Seq(Node)
      BY <1>5, <1>6
    <3> QED
      BY <3>1, ConcatProperties
  <2>2. Len(a) = k - 1 /\ Len(a) + Len(b) = len - 1
    BY <1>5, <1>6
  <2> QED
    BY <2>1, <2>2
<1>8. ASSUME NEW i \in 1 .. (len - 1) PROVE (a \o b)[i] = u[i]
  <2>1. CASE i < k
    BY <1>5, <1>7, <2>1
  <2>2. CASE ~(i < k)
    <3>1. i - (k - 1) \in 1 .. (len - k) /\ k + (i - (k - 1)) = i + 1 /\ ~(i <= k - 1)
      BY <2>2
    <3> QED
      BY <1>6, <1>7, <2>2, <3>1
  <2> QED
    BY <2>1, <2>2
<1>9. a \o b = u
  <2>1. PICK c : c = a \o b
    OBVIOUS
  <2>2. c \in Seq(Node) /\ Len(c) = Len(u) /\ \A i \in 1 .. Len(c) : c[i] = u[i]
    BY <1>1, <1>7, <1>8, <2>1
  <2>3. u \in Seq(Node)
    BY <1>1
  <2> HIDE DEF LeftOut
  <2>4. c = u
    BY <2>2, <2>3, SeqEqual
  <2> QED
    BY <2>1, <2>4
<1> QED
  BY <1>2, <1>3, <1>4, <1>9

(* A sequence with one more at the end.                                    *)
LEMMA AppendIs ==
    ASSUME NEW len \in Nat, NEW w \in [1 .. len -> Node], NEW n \in Node,
           NEW u \in [1 .. (len + 1) -> Node], u[len + 1] = n,
           \A j \in 1 .. len : u[j] = w[j]
    PROVE  Append(w, n) = u
<1>1. w \in Seq(Node) /\ Len(w) = len /\ u \in Seq(Node) /\ Len(u) = len + 1
  OBVIOUS
<1>2. /\ Append(w, n) \in Seq(Node) /\ Len(Append(w, n)) = len + 1
      /\ \A j \in 1 .. len : Append(w, n)[j] = w[j]
      /\ Append(w, n)[len + 1] = n
  BY <1>1, AppendProperties
<1>3. \A j \in 1 .. (len + 1) : Append(w, n)[j] = u[j]
  <2>1. \A j \in 1 .. (len + 1) : j \in 1 .. len \/ j = len + 1
    OBVIOUS
  <2> QED
    BY <1>2, <2>1
<1> QED
  BY <1>1, <1>2, <1>3, SeqEqual

------------------------------------------------------------------------------
(* A sequence in which every node but the first is linked from the one     *)
(* before is what following the links gives.                               *)
LEMMA FollowFact ==
    ASSUME NEW len \in Nat, NEW node1, NEW link,
           NEW w \in [1 .. len -> Node],
           len # 0 => node1 = w[1],
           \A i \in 1 .. len : i # 1 => w[i] = link[w[i - 1]]
    PROVE  Follow(node1, link, len) = w
<1> DEFINE Fix(g) == g = [j \in 1 .. len |-> IF j = 1 THEN node1 ELSE link[g[j - 1]]]
<1>1. Fix(w)
  OBVIOUS
<1>2. ASSUME NEW g, Fix(g) PROVE [j \in 1 .. len |-> g[j]] = w
  <2> DEFINE Bad == {j \in 1 .. len : g[j] # w[j]}
  <2>1. \A j \in 1 .. len : g[j] = IF j = 1 THEN node1 ELSE link[g[j - 1]]
    BY <1>2
  <2>2. Bad = {}
    <3> SUFFICES ASSUME Bad # {} PROVE FALSE
      OBVIOUS
    <3>1. Bad \in SUBSET Nat
      OBVIOUS
    <3>2. PICK m \in Bad : \A k \in Bad : m =< k
      <4> HIDE DEF Bad
      <4> QED
        BY <3>1, LeastNumber
    <3>3. m \in 1 .. len /\ g[m] # w[m]
      OBVIOUS
    <3>4. m # 1
      BY <2>1, <3>3
    <3>5. m - 1 \in 1 .. len /\ m - 1 \notin Bad
      BY <3>2, <3>3, <3>4
    <3> QED
      BY <2>1, <3>3, <3>4, <3>5
  <2> QED
    BY <2>2
<1> HIDE DEF Fix
<1>3. Fix(CHOOSE g : Fix(g))
  BY <1>1, Zenon
<1>4. [j \in 1 .. len |-> (CHOOSE g : Fix(g))[j]] = w
  BY <1>2, <1>3
<1> QED
  BY <1>4 DEF Follow, Fix

(* The nodes listed in w that hold a named variable.                       *)
NamedIn(w) == {n \in Node : n \in ToSet(w) /\ Named(n)}

(* What ListInv says with a name for the sequence of the nodes.            *)
ListInvOf(w) ==
    /\ num_segs \in Nat
    /\ next \in [Node -> Node \cup {NoNode}]
    /\ prev \in [Node -> Node \cup {NoNode}]
    /\ Chained(w)
    /\ num_named = Cardinality(NamedIn(w))

(* The walk along the links is the sequence they form.                     *)
LEMMA WalkFact ==
    ASSUME NEW w, num_segs \in Nat, Chained(w)
    PROVE  Walk = w
<1>1. /\ w \in [1 .. num_segs -> Node]
      /\ num_segs # 0 => first = w[1]
      /\ \A i \in 1 .. num_segs : i # 1 => w[i] = next[w[i - 1]]
  BY DEF Chained
<1> QED
  BY <1>1, FollowFact DEF Walk

(* The same for the next state.                                            *)
LEMMA NextWalkFact ==
    ASSUME NEW w, num_segs' \in Nat, Chained(w)'
    PROVE  Walk' = w
<1>1. /\ w \in [1 .. num_segs' -> Node]
      /\ num_segs' # 0 => first' = w[1]
      /\ \A i \in 1 .. num_segs' : i # 1 => w[i] = next'[w[i - 1]]
  BY DEF Chained
<1> QED
  BY <1>1, FollowFact DEF Walk

(* The invariant named by its sequence, in this state and in the next.     *)
LEMMA ListInvWalk == ListInv => ListInvOf(Walk)
BY DEF ListInv, ListInvOf, NamedIn, Listed

(* What holds of some sequence in the next state holds of the walk.        *)
LEMMA ListInvNext == ASSUME NEW w, ListInvOf(w)' PROVE ListInv'
<1>1. Walk' = w
  BY NextWalkFact DEF ListInvOf
<1> QED
  BY <1>1 DEF ListInv, ListInvOf, NamedIn, Listed, Named

(* Only finitely many nodes are listed.                                    *)
LEMMA NamedFinite ==
    ASSUME NEW len \in Nat, NEW w \in [1 .. len -> Node]
    PROVE  IsFiniteSet(NamedIn(w)) /\ Cardinality(NamedIn(w)) \in Nat
<1>1. IsFiniteSet(1 .. len)
  BY FS_Interval
<1> DEFINE T == {w[i] : i \in 1 .. len}
<1>2. w \in Surjection(1 .. len, T)
  BY DEF Surjection
<1>3. NamedIn(w) \subseteq T
  BY DEF NamedIn, ToSet
<1> HIDE DEF T
<1>4. IsFiniteSet(T)
  BY <1>1, <1>2, FS_Surjection
<1> QED
  BY <1>3, <1>4, FS_Subset, FS_CardinalityType

(* Adding a segment appends its node (msh_AddSegmentToList).               *)
LEMMA AddStep ==
    ASSUME NEW w, ListInvOf(w), NEW n \in Node, n \notin ToSet(w), AddSegmentToList(n)
    PROVE  ListInvOf(Append(w, n))'
<1> DEFINE v == [j \in 1 .. (num_segs + 1) |-> IF j = num_segs + 1 THEN n ELSE w[j]]
<1> USE SegmentListAssumption DEF ListInvOf
<1>1. /\ num_segs \in Nat /\ w \in [1 .. num_segs -> Node]
      /\ \A j \in 1 .. num_segs : w[j] # n
      /\ \A i, j \in 1 .. num_segs : w[i] = w[j] => i = j
  BY DEF Chained, ToSet, IsInjective
<1>2. PICK u : u = v
  OBVIOUS
<1>3. /\ u \in [1 .. (num_segs + 1) -> Node]
      /\ u[num_segs + 1] = n
      /\ \A j \in 1 .. num_segs : u[j] = w[j]
  BY <1>1, <1>2
<1> HIDE DEF v
<1>4. IsInjective(u)
  <2>1. \A i, j \in 1 .. (num_segs + 1) : u[i] = u[j] => i = j
    <3>1. \A i \in 1 .. (num_segs + 1) : i = num_segs + 1 \/ i \in 1 .. num_segs
      BY <1>1
    <3> QED
      BY <1>1, <1>3, <3>1
  <2> QED
    BY <1>3, <2>1 DEF IsInjective
<1>5. /\ num_segs' = num_segs + 1 /\ last' = n
      /\ first' = IF num_segs = 0 THEN n ELSE first
      /\ prev' = [prev EXCEPT ![n] = last]
  BY DEF AddSegmentToList
<1>6. /\ next' \in [Node -> Node \cup {NoNode}]
      /\ next'[n] = NoNode
      /\ \A j \in 1 .. num_segs :
            next'[w[j]] = IF j = num_segs THEN n ELSE next[w[j]]
  <2>1. CASE num_segs = 0
    BY <1>1, <2>1 DEF AddSegmentToList, Set
  <2>2. CASE num_segs # 0
    <3>1. last = w[num_segs] /\ last \in Node /\ last # n
      BY <1>1, <2>2 DEF Chained
    <3>2. next' = [[next EXCEPT ![n] = NoNode] EXCEPT ![last] = n]
      BY <2>2, <3>1 DEF AddSegmentToList, Set
    <3> QED
      BY <1>1, <2>2, <3>1, <3>2
  <2> QED
    BY <2>1, <2>2
<1>7. /\ prev' \in [Node -> Node \cup {NoNode}]
      /\ prev'[n] = last
      /\ \A j \in 1 .. num_segs : prev'[w[j]] = prev[w[j]]
  BY <1>1, <1>5 DEF Chained
<1>8. ASSUME NEW i \in 1 .. (num_segs + 1)
      PROVE  /\ next'[u[i]] = IF i = num_segs + 1 THEN NoNode ELSE u[i + 1]
             /\ prev'[u[i]] = IF i = 1 THEN NoNode ELSE u[i - 1]
  <2>1. CASE i = num_segs + 1
    BY <1>1, <1>3, <1>6, <1>7, <2>1 DEF Chained
  <2>2. CASE i \in 1 .. num_segs
    BY <1>1, <1>3, <1>6, <1>7, <2>2, SMTT(30) DEF Chained
  <2> QED
    BY <1>1, <2>1, <2>2
<1>9. Chained(u)'
  <2>1. /\ num_segs' # 0 /\ last' = u[num_segs']
        /\ u \in [1 .. num_segs' -> Node]
    BY <1>1, <1>3, <1>5
  <2>2. first' = u[1]
    BY <1>1, <1>3, <1>5 DEF Chained
  <2>3. \A i \in 1 .. num_segs' :
           /\ next'[u[i]] = IF i = num_segs' THEN NoNode ELSE u[i + 1]
           /\ prev'[u[i]] = IF i = 1 THEN NoNode ELSE u[i - 1]
    BY <1>5, <1>8
  <2> QED
    BY <1>4, <2>1, <2>2, <2>3 DEF Chained
<1>10. num_named' = Cardinality(NamedIn(u))
  <2>1. ToSet(u) = ToSet(w) \cup {n}
    BY <1>1, <1>3 DEF ToSet
  <2>2. CASE Named(n)
    <3>1. NamedIn(u) = NamedIn(w) \cup {n} /\ n \notin NamedIn(w)
      BY <2>1, <2>2 DEF NamedIn
    <3>2. Cardinality(NamedIn(u)) = Cardinality(NamedIn(w)) + 1
      BY <1>1, <3>1, NamedFinite, FS_AddElement
    <3> QED
      BY <2>2, <3>2 DEF AddSegmentToList
  <2>3. CASE ~Named(n)
    <3>1. NamedIn(u) = NamedIn(w)
      BY <2>1, <2>3 DEF NamedIn
    <3> QED
      BY <2>3, <3>1 DEF AddSegmentToList
  <2> QED
    BY <2>2, <2>3
<1>11. ListInvOf(u)'
  BY <1>1, <1>5, <1>6, <1>7, <1>9, <1>10 DEF NamedIn, Named
<1>12. Append(w, n) = u
  BY <1>1, <1>3, AppendIs
<1> QED
  BY <1>11, <1>12

(* Unlinking a node closes the gap it leaves.                              *)
LEMMA RemoveStep ==
    ASSUME NEW w, ListInvOf(w), NEW n \in Node, n \in ToSet(w), RemoveSegmentFromList(n)
    PROVE  ListInvOf(RemoveFirst(w, n))'
<1> DEFINE v(k) == [j \in 1 .. (num_segs - 1) |-> IF j < k THEN w[j] ELSE w[j + 1]]
<1> USE SegmentListAssumption DEF ListInvOf
<1>1. /\ num_segs \in Nat /\ w \in [1 .. num_segs -> Node]
      /\ \A i, j \in 1 .. num_segs : w[i] = w[j] => i = j
      /\ \A i \in 1 .. num_segs :
            /\ next[w[i]] = IF i = num_segs THEN NoNode ELSE w[i + 1]
            /\ prev[w[i]] = IF i = 1 THEN NoNode ELSE w[i - 1]
      /\ num_segs # 0 => first = w[1] /\ last = w[num_segs]
  BY DEF Chained, IsInjective
<1>2. PICK k \in 1 .. num_segs : w[k] = n
  BY <1>1 DEF ToSet
<1>3. PICK u : u = v(k)
  OBVIOUS
<1>4. /\ u \in [1 .. (num_segs - 1) -> Node]
      /\ \A j \in 1 .. (num_segs - 1) : u[j] = IF j < k THEN w[j] ELSE w[j + 1]
  BY <1>1, <1>2, <1>3
<1> HIDE DEF v
<1>5. IsInjective(u)
  <2> SUFFICES ASSUME NEW i \in 1 .. (num_segs - 1), NEW j \in 1 .. (num_segs - 1), u[i] = u[j]
               PROVE  i = j
    BY <1>4 DEF IsInjective
  <2>1. \A m \in 1 .. (num_segs - 1) :
           /\ m \in 1 .. num_segs /\ m + 1 \in 1 .. num_segs
           /\ u[m] = IF m < k THEN w[m] ELSE w[m + 1]
    BY <1>1, <1>2, <1>4
  <2>2. CASE i < k /\ j < k
    BY <1>1, <2>1, <2>2
  <2>3. CASE ~(i < k) /\ ~(j < k)
    <3>1. i + 1 = j + 1
      BY <1>1, <2>1, <2>3
    <3> QED
      BY <3>1
  <2>4. CASE i < k /\ ~(j < k)
    <3>1. i = j + 1
      BY <1>1, <2>1, <2>4
    <3> QED
      BY <2>4, <3>1
  <2>5. CASE ~(i < k) /\ j < k
    <3>1. i + 1 = j
      BY <1>1, <2>1, <2>5
    <3> QED
      BY <2>5, <3>1
  <2> QED
    BY <2>2, <2>3, <2>4, <2>5
<1>6. /\ num_segs' = num_segs - 1 /\ num_segs' \in Nat
      /\ first' = IF first = n THEN next[n] ELSE first
      /\ last' = IF last = n THEN prev[n] ELSE last
  BY <1>1, <1>2 DEF RemoveSegmentFromList
<1>7. /\ next[n] = IF k = num_segs THEN NoNode ELSE w[k + 1]
      /\ prev[n] = IF k = 1 THEN NoNode ELSE w[k - 1]
  BY <1>1, <1>2
<1>8. /\ next' \in [Node -> Node \cup {NoNode}]
      /\ \A j \in 1 .. num_segs : j # k =>
            next'[w[j]] = IF j = k - 1 THEN next[n] ELSE next[w[j]]
  <2>1. next' = [Set(next, prev[n], next[n]) EXCEPT ![n] = NoNode]
    BY DEF RemoveSegmentFromList, Set
  <2>2. CASE k = 1
    BY <1>1, <1>2, <1>7, <2>1, <2>2 DEF Set
  <2>3. CASE k # 1
    <3>1. prev[n] = w[k - 1] /\ k - 1 \in 1 .. num_segs /\ prev[n] \in Node
      BY <1>1, <1>2, <1>7, <2>3
    <3>2. next' = [[next EXCEPT ![w[k - 1]] = next[n]] EXCEPT ![n] = NoNode]
      BY <2>1, <3>1 DEF Set
    <3> QED
      BY <1>1, <1>2, <3>1, <3>2
  <2> QED
    BY <2>2, <2>3
<1>9. /\ prev' \in [Node -> Node \cup {NoNode}]
      /\ \A j \in 1 .. num_segs : j # k =>
            prev'[w[j]] = IF j = k + 1 THEN prev[n] ELSE prev[w[j]]
  <2>1. prev' = [Set(prev, next[n], prev[n]) EXCEPT ![n] = NoNode]
    BY DEF RemoveSegmentFromList, Set
  <2>2. CASE k = num_segs
    BY <1>1, <1>2, <1>7, <2>1, <2>2 DEF Set
  <2>3. CASE k # num_segs
    <3>1. next[n] = w[k + 1] /\ k + 1 \in 1 .. num_segs /\ next[n] \in Node
      BY <1>1, <1>2, <1>7, <2>3
    <3>2. prev' = [[prev EXCEPT ![w[k + 1]] = prev[n]] EXCEPT ![n] = NoNode]
      BY <2>1, <3>1 DEF Set
    <3> QED
      BY <1>1, <1>2, <3>1, <3>2
  <2> QED
    BY <2>2, <2>3
<1>10. ASSUME NEW i \in 1 .. (num_segs - 1)
       PROVE  /\ next'[u[i]] = IF i = num_segs - 1 THEN NoNode ELSE u[i + 1]
              /\ prev'[u[i]] = IF i = 1 THEN NoNode ELSE u[i - 1]
  <2>1. CASE i < k
    <3>1. u[i] = w[i] /\ i \in 1 .. num_segs /\ i # k
      BY <1>1, <1>4, <2>1
    <3>2. next'[u[i]] = IF i = num_segs - 1 THEN NoNode ELSE u[i + 1]
      <4>1. CASE i = k - 1
        BY <1>1, <1>2, <1>4, <1>7, <1>8, <3>1, <4>1
      <4>2. CASE i # k - 1
        <5>1. i + 1 \in 1 .. (num_segs - 1) /\ u[i + 1] = w[i + 1]
          BY <1>1, <1>2, <1>4, <2>1, <4>2
        <5> QED
          BY <1>1, <1>8, <3>1, <4>2, <5>1
      <4> QED
        BY <4>1, <4>2
    <3>3. prev'[u[i]] = IF i = 1 THEN NoNode ELSE u[i - 1]
      BY <1>1, <1>2, <1>4, <1>9, <2>1, <3>1, SMTT(30)
    <3> QED
      BY <3>2, <3>3
  <2>2. CASE i >= k
    <3>1. u[i] = w[i + 1] /\ i + 1 \in 1 .. num_segs /\ i + 1 # k
      BY <1>1, <1>2, <1>4, <2>2
    <3>2. next'[u[i]] = IF i = num_segs - 1 THEN NoNode ELSE u[i + 1]
      BY <1>1, <1>2, <1>4, <1>8, <2>2, <3>1
    <3>3. prev'[u[i]] = IF i = 1 THEN NoNode ELSE u[i - 1]
      <4>1. CASE i = k
        BY <1>1, <1>2, <1>4, <1>7, <1>9, <3>1, <4>1
      <4>2. CASE i # k
        <5>1. i - 1 \in 1 .. (num_segs - 1) /\ u[i - 1] = w[i]
          BY <1>1, <1>2, <1>4, <2>2, <4>2
        <5>2. prev'[w[i + 1]] = w[i]
          BY <1>1, <1>9, <3>1, <4>2, SMTT(30)
        <5> QED
          BY <1>1, <2>2, <3>1, <4>2, <5>1, <5>2
      <4> QED
        BY <4>1, <4>2
    <3> QED
      BY <3>2, <3>3
  <2> QED
    BY <1>1, <1>2, <2>1, <2>2
<1>11. /\ first' = (IF num_segs - 1 = 0 THEN NoNode ELSE u[1])
       /\ last' = (IF num_segs - 1 = 0 THEN NoNode ELSE u[num_segs - 1])
  BY <1>1, <1>2, <1>4, <1>6, <1>7
<1>12. Chained(u)'
  BY <1>4, <1>5, <1>6, <1>10, <1>11 DEF Chained
<1>13. num_named' = Cardinality(NamedIn(u))
  <2>1. ToSet(u) = ToSet(w) \ {n}
    <3>1. \A x : x \in ToSet(u) <=> \E j \in 1 .. (num_segs - 1) : x = u[j]
      BY <1>4 DEF ToSet
    <3>2. \A x : x \in ToSet(w) <=> \E j \in 1 .. num_segs : x = w[j]
      BY <1>1 DEF ToSet
    <3>3. ASSUME NEW x \in ToSet(u) PROVE x \in ToSet(w) \ {n}
      BY <1>1, <1>2, <1>4, <3>1, <3>2
    <3>4. ASSUME NEW x \in ToSet(w), x # n PROVE x \in ToSet(u)
      <4>1. PICK j \in 1 .. num_segs : x = w[j]
        BY <3>2
      <4>2. CASE j < k
        BY <1>1, <1>2, <1>4, <3>1, <4>1, <4>2
      <4>3. CASE j > k
        <5>1. j - 1 \in 1 .. (num_segs - 1) /\ u[j - 1] = w[j]
          BY <1>1, <1>2, <1>4, <4>3
        <5> QED
          BY <3>1, <4>1, <5>1
      <4> QED
        BY <1>2, <3>4, <4>1, <4>2, <4>3
    <3> QED
      BY <3>3, <3>4
  <2>2. CASE Named(n)
    <3>1. NamedIn(u) = NamedIn(w) \ {n} /\ n \in NamedIn(w)
      BY <2>1, <2>2 DEF NamedIn
    <3>2. Cardinality(NamedIn(u)) = Cardinality(NamedIn(w)) - 1
      BY <1>1, <3>1, NamedFinite, FS_RemoveElement
    <3> QED
      BY <2>2, <3>2 DEF RemoveSegmentFromList
  <2>3. CASE ~Named(n)
    <3>1. NamedIn(u) = NamedIn(w)
      BY <2>1, <2>3 DEF NamedIn
    <3> QED
      BY <2>3, <3>1 DEF RemoveSegmentFromList
  <2> QED
    BY <2>2, <2>3
<1>14. ListInvOf(u)'
  BY <1>6, <1>8, <1>9, <1>12, <1>13 DEF NamedIn, Named
<1>15. RemoveFirst(w, n) = u
  <2>1. LeftOut(num_segs, w, k, u)
    BY <1>1, <1>2, <1>4 DEF LeftOut
  <2> QED
    BY <1>2, <2>1, RemoveIs
<1> QED
  BY <1>14, <1>15

(* Moving a node to the end is as good as removing and appending it, for   *)
(* the links of all the others too (msh_PlaceSegmentAtEnd).                *)
LEMMA PlaceStep ==
    ASSUME NEW w, ListInvOf(w), NEW n \in Node, n \in ToSet(w), PlaceSegmentAtEnd(n)
    PROVE  ListInvOf(Append(RemoveFirst(w, n), n))'
<1> DEFINE v(k) == [j \in 1 .. num_segs |->
                       IF j = num_segs THEN n ELSE IF j < k THEN w[j] ELSE w[j + 1]]
<1> USE SegmentListAssumption DEF ListInvOf
<1>1. /\ num_segs \in Nat /\ w \in [1 .. num_segs -> Node]
      /\ \A i, j \in 1 .. num_segs : w[i] = w[j] => i = j
      /\ \A i \in 1 .. num_segs :
            /\ next[w[i]] = IF i = num_segs THEN NoNode ELSE w[i + 1]
            /\ prev[w[i]] = IF i = 1 THEN NoNode ELSE w[i - 1]
      /\ num_segs # 0 => first = w[1] /\ last = w[num_segs]
  BY DEF Chained, IsInjective
<1>2. PICK k \in 1 .. num_segs : w[k] = n
  BY <1>1 DEF ToSet
<1>3. k < num_segs /\ last = w[num_segs]
  BY <1>1, <1>2 DEF PlaceSegmentAtEnd
<1>4. PICK u : u = v(k)
  OBVIOUS
<1>5. /\ u \in [1 .. num_segs -> Node]
      /\ u[num_segs] = n
      /\ \A j \in 1 .. (num_segs - 1) :
            /\ j \in 1 .. num_segs /\ j + 1 \in 1 .. num_segs
            /\ u[j] = IF j < k THEN w[j] ELSE w[j + 1]
  BY <1>1, <1>2, <1>4
<1> HIDE DEF v
<1>6. \A x : (\E j \in 1 .. num_segs : x = u[j]) <=> (\E j \in 1 .. num_segs : x = w[j])
  <2>1. ASSUME NEW j \in 1 .. num_segs PROVE \E i \in 1 .. num_segs : u[j] = w[i]
    BY <1>1, <1>2, <1>5, SMTT(30)
  <2>2. ASSUME NEW j \in 1 .. num_segs PROVE \E i \in 1 .. num_segs : w[j] = u[i]
    <3>1. CASE j = k
      BY <1>2, <1>3, <1>5, <3>1
    <3>2. CASE j < k
      <4>1. j \in 1 .. (num_segs - 1) /\ u[j] = w[j]
        BY <1>1, <1>2, <1>3, <1>5, <3>2
      <4> QED
        BY <4>1
    <3>3. CASE j > k
      <4>1. j - 1 \in 1 .. (num_segs - 1) /\ u[j - 1] = w[j]
        BY <1>1, <1>2, <1>5, <3>3
      <4> QED
        BY <1>5, <4>1
    <3> QED
      BY <1>2, <3>1, <3>2, <3>3
  <2> QED
    BY <2>1, <2>2
<1>7. IsInjective(u)
  <2> SUFFICES ASSUME NEW i \in 1 .. num_segs, NEW j \in 1 .. num_segs, u[i] = u[j]
               PROVE  i = j
    BY <1>5 DEF IsInjective
  <2>1. \A m \in 1 .. num_segs : m = num_segs \/ m \in 1 .. (num_segs - 1)
    BY <1>1
  <2>2. ASSUME NEW m \in 1 .. (num_segs - 1), u[m] = n PROVE FALSE
    <3>1. m < k \/ m >= k
      BY <1>1, <1>2
    <3>2. CASE m < k
      BY <1>1, <1>2, <1>5, <2>2, <3>2
    <3>3. CASE m >= k
      <4>1. w[m + 1] = w[k] /\ m + 1 \in 1 .. num_segs
        BY <1>1, <1>2, <1>5, <2>2, <3>3
      <4> QED
        BY <1>1, <1>2, <3>3, <4>1
    <3> QED
      BY <3>1, <3>2, <3>3
  <2>3. CASE i = num_segs \/ j = num_segs
    BY <1>5, <2>1, <2>2, <2>3
  <2>4. CASE i # num_segs /\ j # num_segs
    <3>1. i \in 1 .. (num_segs - 1) /\ j \in 1 .. (num_segs - 1)
      BY <2>1, <2>4
    <3>2. PICK I \in 1 .. num_segs, J \in 1 .. num_segs :
             /\ w[I] = u[i] /\ I = IF i < k THEN i ELSE i + 1
             /\ w[J] = u[j] /\ J = IF j < k THEN j ELSE j + 1
      BY <1>5, <3>1
    <3>3. I = J
      BY <1>1, <3>2, SMTT(30)
    <3>4. i \in Int /\ j \in Int /\ k \in Int
      BY <1>1, <1>2
    <3>5. (IF i < k THEN i ELSE i + 1) = (IF j < k THEN j ELSE j + 1)
      BY <3>2, <3>3
    <3> QED
      BY <3>4, <3>5
  <2> QED
    BY <2>3, <2>4
<1>8. /\ num_segs' = num_segs /\ last' = n
      /\ first' = IF first = n THEN next[n] ELSE first
  BY DEF PlaceSegmentAtEnd
<1>9. /\ next[n] = w[k + 1] /\ k + 1 \in 1 .. num_segs /\ next[n] \in Node
      /\ prev[n] = IF k = 1 THEN NoNode ELSE w[k - 1]
  BY <1>1, <1>2, <1>3
<1>10. /\ next' \in [Node -> Node \cup {NoNode}]
       /\ next'[n] = NoNode
       /\ \A j \in 1 .. num_segs : j # k =>
            next'[w[j]] = IF j = num_segs THEN n
                          ELSE IF j = k - 1 THEN next[n] ELSE next[w[j]]
  <2>0. /\ w[num_segs] \in Node /\ w[num_segs] # NoNode /\ w[num_segs] # n /\ n # NoNode
        /\ num_segs \in 1 .. num_segs /\ num_segs # k
    BY <1>1, <1>2, <1>3
  <2>1. next' = [[Set(next, prev[n], next[n]) EXCEPT ![w[num_segs]] = n] EXCEPT ![n] = NoNode]
    BY <1>3, <2>0 DEF PlaceSegmentAtEnd, Set
  <2>2. CASE k = 1
    <3>1. next' = [[next EXCEPT ![w[num_segs]] = n] EXCEPT ![n] = NoNode]
      BY <1>9, <2>1, <2>2 DEF Set
    <3>2. \A j \in 1 .. num_segs : j # k - 1 /\ (j # k => w[j] # n)
                                  /\ (j # num_segs => w[j] # w[num_segs])
      BY <1>1, <1>2, <2>0, <2>2
    <3> QED
      BY <1>1, <2>0, <3>1, <3>2
  <2>3. CASE k # 1
    <3>1. prev[n] = w[k - 1] /\ k - 1 \in 1 .. num_segs /\ prev[n] \in Node
      BY <1>1, <1>2, <1>9, <2>3
    <3>2. next' = [[[next EXCEPT ![w[k - 1]] = next[n]] EXCEPT ![w[num_segs]] = n]
                      EXCEPT ![n] = NoNode]
      BY <2>1, <3>1 DEF Set
    <3>3. \A j \in 1 .. num_segs : /\ (j # k => w[j] # n)
                                  /\ (j # num_segs => w[j] # w[num_segs])
                                  /\ (j # k - 1 => w[j] # w[k - 1])
      BY <1>1, <1>2, <2>0, <3>1
    <3>4. w[k - 1] # w[num_segs] /\ w[k - 1] # n
      BY <1>1, <1>2, <1>3, <2>0, <3>1
    <3> QED
      BY <1>1, <1>9, <2>0, <3>1, <3>2, <3>3, <3>4
  <2> QED
    BY <2>2, <2>3
<1>11. /\ prev' \in [Node -> Node \cup {NoNode}]
       /\ prev'[n] = w[num_segs]
       /\ \A j \in 1 .. num_segs : j # k =>
            prev'[w[j]] = IF j = k + 1 THEN prev[n] ELSE prev[w[j]]
  <2>1. prev' = [[prev EXCEPT ![w[k + 1]] = prev[n]] EXCEPT ![n] = w[num_segs]]
    BY <1>1, <1>3, <1>9 DEF PlaceSegmentAtEnd, Set
  <2>2. \A j \in 1 .. num_segs : /\ (j # k => w[j] # n)
                                /\ (j # k + 1 => w[j] # w[k + 1])
    BY <1>1, <1>2, <1>9
  <2>3. /\ w[k + 1] \in Node /\ w[k + 1] # n /\ w[num_segs] \in Node
        /\ prev[n] \in Node \cup {NoNode}
    BY <1>1, <1>2, <1>3, <1>9
  <2> QED
    BY <1>1, <2>1, <2>2, <2>3
<1>12. ASSUME NEW i \in 1 .. num_segs
       PROVE  next'[u[i]] = IF i = num_segs THEN NoNode ELSE u[i + 1]
  <2>1. CASE i = num_segs
    BY <1>5, <1>10, <2>1
  <2>2. CASE i = num_segs - 1
    BY <1>1, <1>2, <1>3, <1>5, <1>10, <2>2
  <2>3. CASE i < num_segs - 1 /\ i < k - 1
    <3>1. /\ i + 1 \in 1 .. (num_segs - 1) /\ i \in 1 .. (num_segs - 1)
          /\ u[i + 1] = w[i + 1] /\ u[i] = w[i]
      BY <1>1, <1>2, <1>3, <1>5, <2>3
    <3> QED
      BY <1>1, <1>2, <1>3, <1>10, <2>3, <3>1
  <2>4. CASE i < num_segs - 1 /\ i = k - 1
    <3>1. /\ i + 1 \in 1 .. (num_segs - 1) /\ i \in 1 .. (num_segs - 1)
          /\ u[i + 1] = w[k + 1] /\ u[i] = w[k - 1] /\ k - 1 \in 1 .. num_segs
      BY <1>1, <1>2, <1>3, <1>5, <2>4
    <3> QED
      BY <1>1, <1>2, <1>3, <1>9, <1>10, <2>4, <3>1
  <2>5. CASE i < num_segs - 1 /\ i >= k
    <3>1. /\ i + 1 \in 1 .. (num_segs - 1) /\ i \in 1 .. (num_segs - 1)
          /\ u[i + 1] = w[i + 2] /\ u[i] = w[i + 1] /\ i + 1 \in 1 .. num_segs
      BY <1>1, <1>2, <1>3, <1>5, <2>5
    <3>2. next'[w[i + 1]] = w[i + 2]
      BY <1>1, <1>2, <1>3, <1>10, <2>5, <3>1
    <3> QED
      BY <1>1, <2>5, <3>1, <3>2
  <2>6. \/ i = num_segs \/ i = num_segs - 1
        \/ i < num_segs - 1 /\ (i < k - 1 \/ i = k - 1 \/ i >= k)
    BY <1>1, <1>2
  <2> QED
    BY <2>1, <2>2, <2>3, <2>4, <2>5, <2>6
<1>13. ASSUME NEW i \in 1 .. num_segs
       PROVE  prev'[u[i]] = IF i = 1 THEN NoNode ELSE u[i - 1]
  <2>1. CASE i = num_segs
    <3>1. i - 1 \in 1 .. (num_segs - 1) /\ i # 1 /\ u[i - 1] = w[num_segs]
      BY <1>1, <1>2, <1>3, <1>5, <2>1
    <3> QED
      BY <1>5, <1>11, <2>1, <3>1
  <2>2. CASE i # num_segs /\ i < k
    <3>1. i \in 1 .. (num_segs - 1) /\ u[i] = w[i] /\ (i # 1 => u[i - 1] = w[i - 1])
      BY <1>1, <1>2, <1>3, <1>5, <2>2
    <3>2. prev'[w[i]] = prev[w[i]]
      BY <1>1, <1>2, <1>11, <2>2
    <3> QED
      BY <1>1, <3>1, <3>2
  <2>3. CASE i # num_segs /\ i = k
    <3>1. i \in 1 .. (num_segs - 1) /\ u[i] = w[k + 1] /\ (i # 1 => u[i - 1] = w[k - 1])
      BY <1>1, <1>2, <1>3, <1>5, <2>3
    <3>2. prev'[w[k + 1]] = prev[n]
      BY <1>1, <1>2, <1>9, <1>11
    <3> QED
      BY <1>9, <2>3, <3>1, <3>2
  <2>4. CASE i # num_segs /\ i > k
    <3>0. /\ i \in 1 .. (num_segs - 1) /\ i + 1 \in 1 .. num_segs
          /\ i # 1 /\ i - 1 \in 1 .. (num_segs - 1)
      BY <1>1, <1>2, <2>4
    <3>1. u[i] = w[i + 1] /\ u[i - 1] = w[i]
      BY <1>1, <1>2, <1>5, <2>4, <3>0
    <3>2. prev'[w[i + 1]] = prev[w[i + 1]]
      BY <1>1, <1>2, <1>11, <2>4, <3>0
    <3>3. prev[w[i + 1]] = w[i]
      BY <1>1, <3>0
    <3> QED
      BY <1>1, <3>0, <3>1, <3>2, <3>3
  <2> QED
    BY <1>1, <1>2, <2>1, <2>2, <2>3, <2>4
<1>14. first' = u[1]
  <2>1. 1 \in 1 .. (num_segs - 1) /\ num_segs # 0 /\ first = w[1]
    BY <1>1, <1>2, <1>3
  <2>2. CASE k = 1
    BY <1>2, <1>5, <1>8, <1>9, <2>1, <2>2
  <2>3. CASE k # 1
    <3>1. w[1] # n /\ u[1] = w[1]
      BY <1>1, <1>2, <1>5, <2>1, <2>3
    <3> QED
      BY <1>8, <2>1, <3>1
  <2> QED
    BY <2>2, <2>3
<1>15. Chained(u)'
  <2>1. num_segs # 0
    BY <1>2
  <2> QED
    BY <1>5, <1>7, <1>8, <1>12, <1>13, <1>14, <2>1 DEF Chained
<1>16. num_named' = Cardinality(NamedIn(u))
  <2>1. ToSet(u) = ToSet(w)
    <3>1. /\ \A x : x \in ToSet(u) <=> \E j \in 1 .. num_segs : x = u[j]
          /\ \A x : x \in ToSet(w) <=> \E j \in 1 .. num_segs : x = w[j]
      BY <1>1, <1>5 DEF ToSet
    <3>2. \A x : x \in ToSet(u) <=> x \in ToSet(w)
      BY <1>6, <3>1
    <3> QED
      BY <3>2
  <2> QED
    BY <2>1 DEF NamedIn, PlaceSegmentAtEnd
<1>17. ListInvOf(u)'
  BY <1>1, <1>8, <1>10, <1>11, <1>15, <1>16 DEF NamedIn, Named
<1>18. Append(RemoveFirst(w, n), n) = u
  <2>1. PICK v0 : v0 = [j \in 1 .. (num_segs - 1) |-> u[j]]
    OBVIOUS
  <2>2. /\ v0 \in [1 .. (num_segs - 1) -> Node]
        /\ \A j \in 1 .. (num_segs - 1) : v0[j] = u[j]
    BY <1>5, <2>1
  <2>3. RemoveFirst(w, w[k]) = v0
    <3>1. LeftOut(num_segs, w, k, v0)
      BY <1>1, <1>2, <1>5, <2>2 DEF LeftOut
    <3> QED
      BY <3>1, RemoveIs
  <2>4. num_segs - 1 \in Nat /\ (num_segs - 1) + 1 = num_segs
    BY <1>1, <1>3
  <2>5. Append(v0, n) = u
    BY <1>5, <2>2, <2>4, AppendIs
  <2> QED
    BY <1>2, <2>3, <2>5
<1> QED
  BY <1>17, <1>18

(* Every step keeps the links in order.                                    *)
LEMMA ListInvStep == ListInv /\ [Next]_vars => ListInv'
<1> SUFFICES ASSUME ListInv, [Next]_vars PROVE ListInv'
  OBVIOUS
<1>1. PICK w : w = Walk /\ ListInvOf(w)
  BY ListInvWalk
<1>2. \A n : Listed(n) <=> n \in ToSet(w)
  BY <1>1 DEF Listed
<1>3. \E v : ListInvOf(v)'
  <2>1. CASE UNCHANGED <<first, last, next, prev, num_segs, num_named>>
    BY <1>1, <2>1, ZenonT(40) DEF ListInvOf, Chained, NamedIn, Named
  <2>2. CASE Initialize \/ DestroyTables \/ UNCHANGED vars
    BY <2>1, <2>2 DEF Initialize, DestroyTables, vars
  <2>3. ASSUME NEW n \in Node, AddSegmentToList(n) PROVE \E v : ListInvOf(v)'
    <3>1. n \notin ToSet(w)
      BY <1>2, <2>3 DEF AddSegmentToList
    <3>2. ListInvOf(Append(w, n))'
      BY <1>1, <2>3, <3>1, AddStep
    <3> QED
      BY <3>2
  <2>4. ASSUME NEW n \in Node, PlaceSegmentAtEnd(n) PROVE \E v : ListInvOf(v)'
    <3>1. n \in ToSet(w)
      BY <1>2, <2>4 DEF PlaceSegmentAtEnd
    <3>2. ListInvOf(Append(RemoveFirst(w, n), n))'
      BY <1>1, <2>4, <3>1, PlaceStep
    <3> QED
      BY <3>2
  <2>5. ASSUME NEW n \in Node, RemoveSegmentFromList(n) PROVE \E v : ListInvOf(v)'
    <3>1. n \in ToSet(w)
      BY <1>2, <2>5 DEF RemoveSegmentFromList
    <3>2. ListInvOf(RemoveFirst(w, n))'
      BY <1>1, <2>5, <3>1, RemoveStep
    <3> QED
      BY <3>2
  <2> QED
    BY <2>2, <2>3, <2>4, <2>5 DEF Next
<1> QED
  BY <1>3, ListInvNext

(* An empty list is in order.                                              *)
LEMMA ListInvInit == Init => ListInv
<1> SUFFICES ASSUME Init PROVE ListInv
  OBVIOUS
<1>1. PICK w : w = [j \in 1 .. 0 |-> NoNode]
  OBVIOUS
<1>2. Chained(w) /\ w \in [1 .. 0 -> Node]
  BY <1>1 DEF Init, Chained, IsInjective
<1>3. Walk = w
  BY <1>2, WalkFact DEF Init
<1>4. Cardinality({n \in Node : Listed(n) /\ Named(n)}) = 0
  <2>1. {n \in Node : Listed(n) /\ Named(n)} = {}
    BY <1>2, <1>3 DEF Listed, ToSet
  <2> QED
    BY <2>1, FS_EmptySet
<1> QED
  BY <1>2, <1>3, <1>4 DEF Init, ListInv

(* In every behaviour the links lead through all the listed nodes, forward *)
(* and back, and num_named counts those with a name (ListLinked).          *)
THEOREM ListLinkedHolds == Spec => []ListLinked
<1>1. ListInv => ListLinked
  <2> SUFFICES ASSUME ListInv PROVE ListLinked
    OBVIOUS
  <2>1. PICK w : w = Walk
    OBVIOUS
  <2>2. /\ Chained(w) /\ num_segs \in Nat
        /\ w \in [1 .. num_segs -> Node]
        /\ \A i, j \in 1 .. num_segs : w[i] = w[j] => i = j
    BY <2>1 DEF ListInv, Chained, IsInjective
  <2>3. ASSUME NEW n \in Node, Listed(n)
        PROVE  /\ next[n] = NoNode <=> n = last
               /\ prev[n] = NoNode <=> n = first
               /\ next[n] # NoNode => prev[next[n]] = n
    <3>1. PICK i \in 1 .. num_segs : w[i] = n
      BY <2>1, <2>2, <2>3 DEF Listed, ToSet
    <3>2. /\ next[w[i]] = IF i = num_segs THEN NoNode ELSE w[i + 1]
          /\ prev[w[i]] = IF i = 1 THEN NoNode ELSE w[i - 1]
          /\ last = w[num_segs] /\ first = w[1]
      BY <2>2, <3>1 DEF Chained
    <3>3. i # num_segs => /\ i + 1 \in 1 .. num_segs /\ w[i + 1] # NoNode
                          /\ prev[w[i + 1]] = w[i]
      BY <2>2, SegmentListAssumption DEF Chained
    <3>4. i # 1 => i - 1 \in 1 .. num_segs /\ w[i - 1] # NoNode
      BY <2>2, SegmentListAssumption
    <3> QED
      BY <2>2, <3>1, <3>2, <3>3, <3>4
  <2> QED
    BY <2>1, <2>2, <2>3 DEF ListInv, ListLinked, Chained
<1> QED
  BY <1>1, ListInvInit, ListInvStep, PTL DEF Spec

------------------------------------------------------------------------------
(* The hash tables.                                                        *)

(* The size of a table is the number of its chains.                        *)
LEMMA SizeIs ==
    ASSUME NEW sz \in Nat, NEW X, NEW t \in [0 .. (sz - 1) -> X]
    PROVE  Size(t) = sz
<1>1. DOMAIN t = 0 .. (sz - 1)
  OBVIOUS
<1>2. Cardinality(0 .. (sz - 1)) = IF 0 > sz - 1 THEN 0 ELSE (sz - 1) - 0 + 1
  BY FS_Interval
<1> QED
  BY <1>1, <1>2 DEF Size

(* The two kinds of keys.                                                  *)
LEMMA Keys == NumKey \in [Node -> Nat] /\ NameKey \in [Node -> Nat]
BY SegmentListAssumption DEF NumKey, NameKey

(* What Hashed says of a table of size sz, in terms of members.            *)
HashedIn(t, key, M, sz) ==
    /\ sz \in Nat /\ sz > 0
    /\ t \in [0 .. (sz - 1) -> Seq(Node)]
    /\ \A k \in Nat : k % sz \in 0 .. (sz - 1)
    /\ \A b \in 0 .. (sz - 1) : IsInjective(t[b])
    /\ \A b \in 0 .. (sz - 1), n \in Node :
          n \in ToSet(t[b]) <=> n \in M /\ key[n] % sz = b

LEMMA HashedFacts ==
    ASSUME NEW t, NEW key, NEW M, Hashed(t, key, M)
    PROVE  HashedIn(t, key, M, Size(t))
<1>0. PICK sz : sz = Size(t)
  OBVIOUS
<1>1. /\ sz \in Nat /\ sz > 0
      /\ t \in [0 .. (sz - 1) -> Seq(Node)] /\ DOMAIN t = 0 .. (sz - 1)
      /\ \A b \in 0 .. (sz - 1) : IsInjective(t[b])
      /\ \A b \in 0 .. (sz - 1), n \in Node : Contains(t[b], n) <=> n \in M /\ key[n] % sz = b
  BY <1>0 DEF Hashed
<1>2. \A k \in Nat : k % sz \in 0 .. (sz - 1)
  BY <1>1
<1>3. ASSUME NEW b \in 0 .. (sz - 1), NEW n \in Node
      PROVE  n \in ToSet(t[b]) <=> n \in M /\ key[n] % sz = b
  <2>1. PICK s \in Seq(Node) : s = t[b]
    BY <1>1
  <2>2. Contains(s, n) <=> n \in ToSet(s)
    BY MembersOf
  <2> QED
    BY <1>1, <2>1, <2>2
<1>4. HashedIn(t, key, M, sz)
  BY <1>1, <1>2, <1>3 DEF HashedIn
<1> QED
  BY <1>0, <1>4

(* The converse.                                                           *)
LEMMA HashedIs ==
    ASSUME NEW t, NEW key, NEW M, NEW sz, HashedIn(t, key, M, sz)
    PROVE  Hashed(t, key, M) /\ Size(t) = sz
<1> USE DEF HashedIn
<1>1. Size(t) = sz
  BY SizeIs
<1>2. DOMAIN t = 0 .. (sz - 1)
  OBVIOUS
<1>3. ASSUME NEW b \in 0 .. (sz - 1), NEW n \in Node
      PROVE  Contains(t[b], n) <=> n \in M /\ key[n] % sz = b
  <2>1. PICK s \in Seq(Node) : s = t[b]
    OBVIOUS
  <2>2. Contains(s, n) <=> n \in ToSet(s)
    BY MembersOf
  <2> QED
    BY <2>1, <2>2
<1> QED
  BY <1>1, <1>2, <1>3 DEF Hashed

(* A new table is empty.                                                   *)
LEMMA HashedNew ==
    ASSUME NEW key \in [Node -> Nat]
    PROVE  Hashed(InitializeTable, key, {})
<1>1. PICK t : t = InitializeTable
  OBVIOUS
<1>2. /\ InitTableSize \in Nat /\ InitTableSize > 0
      /\ t \in [0 .. (InitTableSize - 1) -> Seq(Node)]
      /\ \A b \in 0 .. (InitTableSize - 1) : t[b] = <<>>
  BY <1>1, SegmentListAssumption DEF InitializeTable
<1>3. IsInjective(<<>>) /\ \A x : x \notin ToSet(<<>>)
  BY DEF IsInjective, ToSet
<1>4. /\ \A b \in 0 .. (InitTableSize - 1) : IsInjective(t[b])
      /\ \A b \in 0 .. (InitTableSize - 1), n \in Node :
            n \in ToSet(t[b]) <=> n \in {} /\ key[n] % InitTableSize = b
  BY <1>2, <1>3
<1>5. \A k \in Nat : k % InitTableSize \in 0 .. (InitTableSize - 1)
  BY <1>2
<1>6. HashedIn(t, key, {}, InitTableSize)
  BY <1>2, <1>4, <1>5 DEF HashedIn
<1>7. Hashed(t, key, {})
  BY <1>6, HashedIs
<1> QED
  BY <1>1, <1>7

(* What a lookup of the nodes of S, whose keys all are h, finds.           *)
Found(t, h, S) == Keep(t[h % Size(t)], S)

(* Growing keeps the nodes and the order of those with the same key.       *)
LEMMA ResizeFacts ==
    ASSUME NEW t, NEW key \in [Node -> Nat], NEW M, Hashed(t, key, M), NEW num \in Nat
    PROVE  /\ Hashed(ResizeTable(t, num, key), key, M)
           /\ \A h \in Nat, S \in SUBSET Node :
                 (\A m \in S : key[m] = h) => Found(ResizeTable(t, num, key), h, S) = Found(t, h, S)
<1>1. PICK sz : sz = Size(t)
  OBVIOUS
<1>2. /\ sz \in Nat /\ sz > 0
      /\ t \in [0 .. (sz - 1) -> Seq(Node)]
      /\ \A k \in Nat : k % sz \in 0 .. (sz - 1)
      /\ \A b \in 0 .. (sz - 1) : IsInjective(t[b])
      /\ \A b \in 0 .. (sz - 1), n \in Node :
            n \in ToSet(t[b]) <=> n \in M /\ key[n] % sz = b
  <2>1. HashedIn(t, key, M, sz)
    BY <1>1, HashedFacts
  <2> QED
    BY <2>1 DEF HashedIn
<1>3. PICK size : size = FindNewTableSize(num)
  OBVIOUS
<1>4. size \in Nat /\ size > 0 /\ \A k \in Nat : k % size \in 0 .. (size - 1)
  <2>1. size \in Nat /\ size > 0
    BY <1>3, SegmentListAssumption DEF FindNewTableSize
  <2> QED
    BY <2>1
<1>5. PICK nodes : nodes = NodesOf(t, sz)
  OBVIOUS
<1>6. Parted(Node, sz, t)
  BY <1>2 DEF Parted
<1>7. /\ nodes \in Seq(Node) /\ IsInjective(nodes)
      /\ \A x : x \in ToSet(nodes) <=> \E b \in 0 .. (sz - 1) : x \in ToSet(t[b])
  BY <1>5, <1>6, NodesOfMembers
<1>8. \A n \in Node : n \in ToSet(nodes) <=> n \in M
  BY <1>2, <1>7
<1> DEFINE Bucket(b) == {n \in Node : key[n] % size = b}
<1>9. PICK r : r = ResizeTable(t, num, key)
  OBVIOUS
<1>10. r = [b \in 0 .. (size - 1) |-> Keep(nodes, Bucket(b))]
  BY <1>1, <1>3, <1>5, <1>9 DEF ResizeTable, NodesOf, Chains
<1>11. \A b \in 0 .. (size - 1) :
          /\ r[b] = Keep(nodes, Bucket(b)) /\ r[b] \in Seq(Node) /\ IsInjective(r[b])
          /\ \A x : x \in ToSet(r[b]) <=> x \in ToSet(nodes) /\ x \in Bucket(b)
  BY <1>7, <1>10, KeepMembers
<1>12. r \in [0 .. (size - 1) -> Seq(Node)]
  BY <1>10, <1>11
<1>13. Hashed(r, key, M) /\ Size(r) = size
  <2>1. \A b \in 0 .. (size - 1), n \in Node :
           n \in ToSet(r[b]) <=> n \in M /\ key[n] % size = b
    BY <1>8, <1>11
  <2>2. \A b \in 0 .. (size - 1) : IsInjective(r[b])
    BY <1>11
  <2> HIDE DEF Bucket
  <2>3. HashedIn(r, key, M, size)
    BY <1>4, <1>12, <2>1, <2>2 DEF HashedIn
  <2> QED
    BY <2>3, HashedIs
<1>14. ASSUME NEW h \in Nat, NEW S \in SUBSET Node, \A m \in S : key[m] = h
       PROVE  Found(r, h, S) = Found(t, h, S)
  <2>1. PICK b : b = h % size /\ b \in 0 .. (size - 1)
    BY <1>4
  <2>2. PICK c : c = h % sz /\ c \in 0 .. (sz - 1)
    BY <1>2
  <2>3. S \in SUBSET Bucket(b)
    BY <1>14, <2>1
  <2>4. Keep(r[b], S) = Keep(nodes, S)
    <3> HIDE DEF Bucket
    <3> QED
      BY <1>7, <1>11, <2>1, <2>3, KeepKeep
  <2>5. InChain(Node, sz, t, S, c)
    BY <1>2, <1>14, <2>2 DEF InChain
  <2>6. Keep(nodes, S) = Keep(t[c], S)
    BY <1>5, <2>5, NodesOfKeep
  <2> QED
    BY <1>1, <1>13, <2>1, <2>2, <2>4, <2>6 DEF Found
<1> QED
  BY <1>9, <1>13, <1>14

(* Every lookup finds n last in r, if it is one of those looked for, and   *)
(* else what it found in t.                                                *)
AddedLast(r, t, key, n) ==
    \A h \in Nat, S \in SUBSET Node :
        (\A m \in S : key[m] = h) =>
            Found(r, h, S) = IF n \in S THEN Append(Found(t, h, S), n) ELSE Found(t, h, S)

(* Every lookup finds in r what it found in t, without n.                  *)
TakenOut(r, t, key, n) ==
    \A h \in Nat, S \in SUBSET Node :
        (\A m \in S : key[m] = h) => Found(r, h, S) = RemoveFirst(Found(t, h, S), n)

(* A node added to its chain is found last.                                *)
LEMMA AddNodeFacts ==
    ASSUME NEW t, NEW key \in [Node -> Nat], NEW M, Hashed(t, key, M), NEW n \in Node, n \notin M
    PROVE  /\ Hashed(AddNodeToTable(t, n, key), key, M \cup {n})
           /\ AddedLast(AddNodeToTable(t, n, key), t, key, n)
<1>1. PICK sz : sz = Size(t)
  OBVIOUS
<1>2. /\ sz \in Nat /\ sz > 0
      /\ t \in [0 .. (sz - 1) -> Seq(Node)]
      /\ \A k \in Nat : k % sz \in 0 .. (sz - 1)
      /\ \A b \in 0 .. (sz - 1) : IsInjective(t[b])
      /\ \A b \in 0 .. (sz - 1), m \in Node :
            m \in ToSet(t[b]) <=> m \in M /\ key[m] % sz = b
  <2>1. HashedIn(t, key, M, sz)
    BY <1>1, HashedFacts
  <2> QED
    BY <2>1 DEF HashedIn
<1>3. PICK c : c = key[n] % sz /\ c \in 0 .. (sz - 1)
  BY <1>2
<1>4. PICK r : r = AddNodeToTable(t, n, key)
  OBVIOUS
<1>5. PICK s \in Seq(Node) : s = t[c]
  BY <1>2, <1>3
<1>6. /\ Append(s, n) \in Seq(Node)
      /\ \A x : x \in ToSet(Append(s, n)) <=> x \in ToSet(s) \/ x = n
      /\ IsInjective(Append(s, n)) <=> IsInjective(s) /\ n \notin ToSet(s)
  BY AppendMembers
<1>7. r = [t EXCEPT ![c] = Append(s, n)]
  BY <1>1, <1>3, <1>4, <1>5 DEF AddNodeToTable
<1>8. /\ r \in [0 .. (sz - 1) -> Seq(Node)] /\ r[c] = Append(s, n)
      /\ \A b \in 0 .. (sz - 1) : b # c => r[b] = t[b]
  BY <1>2, <1>3, <1>6, <1>7
<1>9. Hashed(r, key, M \cup {n}) /\ Size(r) = sz
  <2>1. ASSUME NEW b \in 0 .. (sz - 1) PROVE IsInjective(r[b])
    <3>1. n \notin ToSet(s) /\ IsInjective(s)
      BY <1>2, <1>3, <1>5
    <3> QED
      BY <1>2, <1>6, <1>8, <3>1
  <2>2. ASSUME NEW b \in 0 .. (sz - 1), NEW m \in Node
        PROVE  m \in ToSet(r[b]) <=> m \in M \cup {n} /\ key[m] % sz = b
    <3>1. CASE b = c
      BY <1>2, <1>3, <1>5, <1>6, <1>8, <3>1
    <3>2. CASE b # c
      BY <1>2, <1>3, <1>8, <3>2
    <3> QED
      BY <3>1, <3>2
  <2>3. HashedIn(r, key, M \cup {n}, sz)
    BY <1>2, <1>8, <2>1, <2>2 DEF HashedIn
  <2> QED
    BY <2>3, HashedIs
<1>10. ASSUME NEW h \in Nat, NEW S \in SUBSET Node, \A m \in S : key[m] = h
       PROVE  Found(r, h, S) = IF n \in S THEN Append(Found(t, h, S), n) ELSE Found(t, h, S)
  <2>1. PICK b : b = h % sz /\ b \in 0 .. (sz - 1)
    BY <1>2
  <2>2. n \in S => b = c
    BY <1>3, <1>10, <2>1
  <2>3. Found(r, h, S) = Keep(r[b], S) /\ Found(t, h, S) = Keep(t[b], S)
    BY <1>1, <1>9, <2>1 DEF Found
  <2>4. CASE b = c
    <3>1. Keep(Append(s, n), S) = IF n \in S THEN Append(Keep(s, S), n) ELSE Keep(s, S)
      BY KeepAppend
    <3> QED
      BY <1>5, <1>8, <2>3, <2>4, <3>1
  <2>5. CASE b # c
    BY <1>8, <2>1, <2>2, <2>3, <2>5
  <2> QED
    BY <2>4, <2>5
<1> QED
  BY <1>4, <1>9, <1>10 DEF AddedLast

(* Adding a segment, with or without growing (msh_AddSegmentToTable).      *)
LEMMA AddSegmentFacts ==
    ASSUME NEW t, NEW key \in [Node -> Nat], NEW M, Hashed(t, key, M), NEW n \in Node, n \notin M,
           NEW num \in Nat, NEW r, r = AddSegmentToTable(t, n, num, key)
    PROVE  /\ Hashed(r, key, M \cup {n})
           /\ AddedLast(r, t, key, n)
<1>1. PICK u : u = IF num >= Size(t) \div 2 THEN ResizeTable(t, num, key) ELSE t
  OBVIOUS
<1>2. r = AddNodeToTable(u, n, key)
  BY <1>1 DEF AddSegmentToTable
<1>3. /\ Hashed(u, key, M)
      /\ \A h \in Nat, S \in SUBSET Node :
            (\A m \in S : key[m] = h) => Found(u, h, S) = Found(t, h, S)
  <2>1. CASE num >= Size(t) \div 2
    <3>1. u = ResizeTable(t, num, key)
      BY <1>1, <2>1
    <3> QED
      BY <3>1, ResizeFacts
  <2>2. CASE ~(num >= Size(t) \div 2)
    <3>1. u = t
      BY <1>1, <2>2
    <3> QED
      BY <3>1
  <2> QED
    BY <2>1, <2>2
<1>4. PICK v : v = AddNodeToTable(u, n, key)
  OBVIOUS
<1>5. Hashed(u, key, M)
  BY <1>3
<1>6. Hashed(v, key, M \cup {n})
  BY <1>4, <1>5, AddNodeFacts
<1>7. AddedLast(v, u, key, n)
  BY <1>4, <1>5, AddNodeFacts
<1> QED
  BY <1>2, <1>3, <1>4, <1>6, <1>7 DEF AddedLast

(* A node taken out of its chain (msh_RemoveSegmentFromTable).             *)
LEMMA RemoveSegmentFacts ==
    ASSUME NEW t, NEW key \in [Node -> Nat], NEW M, Hashed(t, key, M), NEW n \in Node,
           NEW r, r = RemoveSegmentFromTable(t, n, key)
    PROVE  /\ Hashed(r, key, M \ {n})
           /\ TakenOut(r, t, key, n)
<1>1. PICK sz : sz = Size(t)
  OBVIOUS
<1>2. /\ sz \in Nat /\ sz > 0
      /\ t \in [0 .. (sz - 1) -> Seq(Node)]
      /\ \A k \in Nat : k % sz \in 0 .. (sz - 1)
      /\ \A b \in 0 .. (sz - 1) : IsInjective(t[b])
      /\ \A b \in 0 .. (sz - 1), m \in Node :
            m \in ToSet(t[b]) <=> m \in M /\ key[m] % sz = b
  <2>1. HashedIn(t, key, M, sz)
    BY <1>1, HashedFacts
  <2> QED
    BY <2>1 DEF HashedIn
<1>3. PICK c : c = key[n] % sz /\ c \in 0 .. (sz - 1)
  BY <1>2
<1>4. PICK s \in Seq(Node) : s = t[c]
  BY <1>2, <1>3
<1>5. IsInjective(s)
  BY <1>2, <1>3, <1>4
<1>6. /\ RemoveFirst(s, n) \in Seq(Node)
      /\ \A x : x \in ToSet(RemoveFirst(s, n)) <=> x \in ToSet(s) /\ x # n
      /\ IsInjective(RemoveFirst(s, n))
  BY <1>5, RemoveMembers
<1>7. r = [t EXCEPT ![c] = RemoveFirst(s, n)]
  BY <1>1, <1>3, <1>4 DEF RemoveSegmentFromTable
<1>8. /\ r \in [0 .. (sz - 1) -> Seq(Node)] /\ r[c] = RemoveFirst(s, n)
      /\ \A b \in 0 .. (sz - 1) : b # c => r[b] = t[b]
  BY <1>2, <1>3, <1>6, <1>7
<1>9. Hashed(r, key, M \ {n}) /\ Size(r) = sz
  <2>1. ASSUME NEW b \in 0 .. (sz - 1) PROVE IsInjective(r[b])
    BY <1>2, <1>6, <1>8
  <2>2. ASSUME NEW b \in 0 .. (sz - 1), NEW m \in Node
        PROVE  m \in ToSet(r[b]) <=> m \in M \ {n} /\ key[m] % sz = b
    <3>1. CASE b = c
      BY <1>2, <1>3, <1>4, <1>6, <1>8, <3>1
    <3>2. CASE b # c
      BY <1>2, <1>3, <1>8, <3>2
    <3> QED
      BY <3>1, <3>2
  <2>3. HashedIn(r, key, M \ {n}, sz)
    BY <1>2, <1>8, <2>1, <2>2 DEF HashedIn
  <2> QED
    BY <2>3, HashedIs
<1>10. ASSUME NEW h \in Nat, NEW S \in SUBSET Node, \A m \in S : key[m] = h
       PROVE  Found(r, h, S) = RemoveFirst(Found(t, h, S), n)
  <2>1. PICK b : b = h % sz /\ b \in 0 .. (sz - 1)
    BY <1>2
  <2>2. n \in S => b = c
    BY <1>3, <1>10, <2>1
  <2>3. Found(r, h, S) = Keep(r[b], S) /\ Found(t, h, S) = Keep(t[b], S)
    BY <1>1, <1>9, <2>1 DEF Found
  <2>4. CASE b = c
    <3>1. Keep(RemoveFirst(s, n), S) = RemoveFirst(Keep(s, S), n)
      BY KeepRemove
    <3> QED
      BY <1>4, <1>8, <2>3, <2>4, <3>1
  <2>5. CASE b # c
    <3>1. PICK u \in Seq(Node) : u = t[b] /\ r[b] = u
      BY <1>2, <1>8, <2>1, <2>5
    <3>2. Keep(u, S) \in Seq(Node) /\ n \notin ToSet(Keep(u, S))
      BY <2>2, <2>5, KeepMembers
    <3>3. RemoveFirst(Keep(u, S), n) = Keep(u, S)
      BY <3>2, RemoveNone
    <3> QED
      BY <2>3, <3>1, <3>3
  <2> QED
    BY <2>4, <2>5
<1> QED
  BY <1>9, <1>10 DEF TakenOut


------------------------------------------------------------------------------
(* The lookups.                                                            *)

(* FindSegmentNode and FindAllSegmentNodes in the table t.                 *)
NodeOf(t, k) ==
    IF t = Null THEN NoNode
    ELSE LET found == Keep(t[k % Size(t)], {n \in Node : SegNum[n] = k})
         IN  IF found = <<>> THEN NoNode ELSE Head(found)
WithName(x) == {n \in Node : VarName[n] = x}
NodesWith(t, x) == IF t = Null THEN <<>> ELSE Found(t, NameHash[x], WithName(x))

(* What the two lookups find for all numbers and names.                    *)
Numbers == {SegNum[n] : n \in Node}
NumberedIn(t) == [k \in Numbers |-> NodeOf(t, k)]
NamesIn(t) == [x \in Name |-> NodesWith(t, x)]

(* A table with chains is there.                                           *)
LEMMA HashedNotNull == ASSUME NEW t, NEW key, NEW M, Hashed(t, key, M) PROVE t # Null
<1>1. 0 \in DOMAIN t
  BY DEF Hashed
<1>2. DOMAIN Null = {}
  BY DEF Null
<1> QED
  BY <1>1, <1>2

(* A number leads to its node, if that is in the table.                    *)
LEMMA NodeOfIs ==
    ASSUME NEW t, NEW M, Hashed(t, NumKey, M), NEW n \in Node
    PROVE  NodeOf(t, SegNum[n]) = IF n \in M THEN n ELSE NoNode
<1>0. t # Null
  BY HashedNotNull
<1>1. PICK sz : sz = Size(t) /\ HashedIn(t, NumKey, M, sz)
  BY HashedFacts
<1>2. PICK k : k = SegNum[n] /\ k \in Nat
  BY SegmentListAssumption
<1>3. \A m \in Node : SegNum[m] = k => m = n
  BY <1>2, SegmentListAssumption DEF IsInjective
<1>4. PICK b : b = k % sz /\ b \in 0 .. (sz - 1)
  BY <1>1, <1>2 DEF HashedIn
<1>5. PICK s \in Seq(Node) : s = t[b]
  BY <1>1, <1>4 DEF HashedIn
<1>6. n \in ToSet(s) <=> n \in M
  BY <1>1, <1>2, <1>4, <1>5 DEF HashedIn, NumKey
<1>7. PICK f : f = Keep(s, {m \in Node : SegNum[m] = k})
  OBVIOUS
<1>8. f \in Seq(Node) /\ \A x : x \in ToSet(f) <=> x \in ToSet(s) /\ x \in {m \in Node : SegNum[m] = k}
  BY <1>7, KeepMembers
<1>9. NodeOf(t, k) = IF f = <<>> THEN NoNode ELSE Head(f)
  BY <1>0, <1>1, <1>4, <1>5, <1>7 DEF NodeOf
<1>10. CASE n \in M
  <2>1. n \in ToSet(f)
    BY <1>2, <1>6, <1>8, <1>10
  <2>2. f # <<>>
    BY <2>1 DEF ToSet
  <2>3. Head(f) \in ToSet(f)
    <3>1. 1 \in 1 .. Len(f) /\ Head(f) = f[1]
      BY <1>8, <2>2
    <3> QED
      BY <1>8, <3>1, MembersOf
  <2>4. Head(f) = n
    BY <1>3, <1>8, <2>3
  <2> QED
    BY <1>2, <1>9, <1>10, <2>2, <2>4
<1>11. CASE n \notin M
  <2>1. \A x \in {m \in Node : SegNum[m] = k} : x \notin ToSet(s)
    BY <1>3, <1>6, <1>11
  <2>2. f = <<>>
    BY <1>7, <2>1, KeepNone
  <2> QED
    BY <1>2, <1>9, <1>11, <2>2
<1> QED
  BY <1>10, <1>11

(* All numbers at once: they depend on what is in the table only.          *)
LEMMA NumberedSame ==
    ASSUME NEW t, NEW r, NEW M, Hashed(t, NumKey, M), Hashed(r, NumKey, M)
    PROVE  NumberedIn(t) = NumberedIn(r)
<1>1. \A n \in Node : NodeOf(t, SegNum[n]) = NodeOf(r, SegNum[n])
  BY NodeOfIs
<1> QED
  BY <1>1 DEF NumberedIn, Numbers

(* One number changes when its node comes.                                 *)
Renumbered(g, f, k, n) == g = [f EXCEPT ![k] = n]

LEMMA NumberedAdd ==
    ASSUME NEW t, NEW r, NEW M, NEW N, NEW n \in Node, N = M \cup {n},
           Hashed(t, NumKey, M), Hashed(r, NumKey, N)
    PROVE  Renumbered(NumberedIn(r), NumberedIn(t), SegNum[n], n)
<1>1. ASSUME NEW k \in Numbers
      PROVE  NodeOf(r, k) = IF k = SegNum[n] THEN n ELSE NodeOf(t, k)
  <2>1. PICK m \in Node : k = SegNum[m]
    BY DEF Numbers
  <2>2. /\ NodeOf(t, k) = IF m \in M THEN m ELSE NoNode
        /\ NodeOf(r, k) = IF m \in N THEN m ELSE NoNode
    BY <2>1, NodeOfIs
  <2>3. k = SegNum[n] <=> m = n
    BY <2>1, SegmentListAssumption DEF IsInjective
  <2> QED
    BY <2>2, <2>3
<1> QED
  BY <1>1 DEF NumberedIn, Renumbered

(* And when it goes.                                                       *)
LEMMA NumberedRemove ==
    ASSUME NEW t, NEW r, NEW M, NEW n \in Node,
           Hashed(t, NumKey, M), Hashed(r, NumKey, M \ {n})
    PROVE  NumberedIn(r) = [NumberedIn(t) EXCEPT ![SegNum[n]] = NoNode]
<1>1. ASSUME NEW k \in Numbers
      PROVE  NodeOf(r, k) = IF k = SegNum[n] THEN NoNode ELSE NodeOf(t, k)
  <2>1. PICK m \in Node : k = SegNum[m]
    BY DEF Numbers
  <2>2. /\ NodeOf(t, k) = IF m \in M THEN m ELSE NoNode
        /\ NodeOf(r, k) = IF m \in M \ {n} THEN m ELSE NoNode
    BY <2>1, NodeOfIs
  <2>3. k = SegNum[n] <=> m = n
    BY <2>1, SegmentListAssumption DEF IsInjective
  <2> QED
    BY <2>2, <2>3
<1> QED
  BY <1>1 DEF NumberedIn

(* All the nodes of a name have the key of the name.                       *)
LEMMA NameKeys ==
    ASSUME NEW x \in Name
    PROVE  NameHash[x] \in Nat /\ WithName(x) \in SUBSET Node
           /\ \A m \in WithName(x) : NameKey[m] = NameHash[x]
BY SegmentListAssumption DEF WithName, NameKey

(* A node that comes is found last under its name.                         *)
LEMMA NamesAdd ==
    ASSUME NEW t, NEW r, NEW M, NEW n \in Node, Hashed(t, NameKey, M),
           Hashed(r, NameKey, M \cup {n}), AddedLast(r, t, NameKey, n)
    PROVE  NamesIn(r) = [x \in Name |-> IF x = VarName[n] THEN Append(NamesIn(t)[x], n)
                                        ELSE NamesIn(t)[x]]
<1>1. t # Null /\ r # Null
  BY HashedNotNull
<1>2. ASSUME NEW x \in Name
      PROVE  NodesWith(r, x) = IF x = VarName[n] THEN Append(NodesWith(t, x), n)
                               ELSE NodesWith(t, x)
  <2>1. Found(r, NameHash[x], WithName(x)) =
           IF n \in WithName(x) THEN Append(Found(t, NameHash[x], WithName(x)), n)
           ELSE Found(t, NameHash[x], WithName(x))
    BY NameKeys DEF AddedLast
  <2>2. n \in WithName(x) <=> x = VarName[n]
    BY DEF WithName
  <2> QED
    BY <1>1, <2>1, <2>2 DEF NodesWith
<1>3. \A x \in Name : NamesIn(t)[x] = NodesWith(t, x)
  BY DEF NamesIn
<1> QED
  BY <1>2, <1>3 DEF NamesIn

(* A node that goes is no more found under its name.                       *)
LEMMA NamesRemove ==
    ASSUME NEW t, NEW r, NEW M, NEW N, NEW n \in Node, Hashed(t, NameKey, M),
           Hashed(r, NameKey, N), TakenOut(r, t, NameKey, n)
    PROVE  NamesIn(r) = [x \in Name |-> RemoveFirst(NamesIn(t)[x], n)]
<1>1. t # Null /\ r # Null
  BY HashedNotNull
<1>2. ASSUME NEW x \in Name
      PROVE  NodesWith(r, x) = RemoveFirst(NodesWith(t, x), n)
  <2>1. Found(r, NameHash[x], WithName(x)) = RemoveFirst(Found(t, NameHash[x], WithName(x)), n)
    BY NameKeys DEF TakenOut
  <2> QED
    BY <1>1, <2>1 DEF NodesWith
<1>3. \A x \in Name : NamesIn(t)[x] = NodesWith(t, x)
  BY DEF NamesIn
<1> QED
  BY <1>2, <1>3 DEF NamesIn

(* A name finds nodes of the table only.                                   *)
LEMMA NamesMembers ==
    ASSUME NEW t, NEW M, Hashed(t, NameKey, M), NEW x \in Name
    PROVE  /\ NamesIn(t)[x] \in Seq(Node)
           /\ \A n : n \in ToSet(NamesIn(t)[x]) => n \in M
<1>0. t # Null
  BY HashedNotNull
<1>1. PICK sz : sz = Size(t) /\ HashedIn(t, NameKey, M, sz)
  BY HashedFacts
<1>2. PICK b : b = NameHash[x] % sz /\ b \in 0 .. (sz - 1)
  BY <1>1, NameKeys DEF HashedIn
<1>3. PICK s \in Seq(Node) : s = t[b]
  BY <1>1, <1>2 DEF HashedIn
<1>4. \A n \in Node : n \in ToSet(s) => n \in M
  BY <1>1, <1>2, <1>3 DEF HashedIn
<1>5. NamesIn(t)[x] = Keep(s, WithName(x))
  BY <1>0, <1>1, <1>2, <1>3 DEF NamesIn, NodesWith, Found
<1>6. /\ Keep(s, WithName(x)) \in Seq(Node)
      /\ \A n : n \in ToSet(Keep(s, WithName(x))) => n \in ToSet(s) /\ n \in WithName(x)
  BY KeepMembers
<1> QED
  BY <1>4, <1>5, <1>6 DEF WithName

(* Nothing is found in an empty table, or where none is.                   *)
LEMMA NothingFound ==
    /\ NumberedIn(Null) = [k \in Numbers |-> NoNode]
    /\ NamesIn(Null) = [x \in Name |-> <<>>]
    /\ \A t : Hashed(t, NumKey, {}) => NumberedIn(t) = [k \in Numbers |-> NoNode]
    /\ \A t : Hashed(t, NameKey, {}) => NamesIn(t) = [x \in Name |-> <<>>]
<1>1. /\ NumberedIn(Null) = [k \in Numbers |-> NoNode]
      /\ NamesIn(Null) = [x \in Name |-> <<>>]
  BY DEF NumberedIn, NamesIn, NodeOf, NodesWith
<1>2. ASSUME NEW t, Hashed(t, NumKey, {}) PROVE NumberedIn(t) = [k \in Numbers |-> NoNode]
  <2>1. \A n \in Node : NodeOf(t, SegNum[n]) = NoNode
    BY <1>2, NodeOfIs
  <2> QED
    BY <2>1 DEF NumberedIn, Numbers
<1>3. ASSUME NEW t, Hashed(t, NameKey, {}) PROVE NamesIn(t) = [x \in Name |-> <<>>]
  <2>1. ASSUME NEW x \in Name PROVE NodesWith(t, x) = <<>>
    <3>1. PICK s : s = NamesIn(t)[x]
      OBVIOUS
    <3>2. s \in Seq(Node) /\ \A n : n \notin ToSet(s)
      BY <1>3, <3>1, NamesMembers
    <3>3. s = <<>>
      <4>1. ASSUME Len(s) # 0 PROVE FALSE
        <5>1. 1 \in 1 .. Len(s)
          BY <3>2, <4>1, LenProperties
        <5> QED
          BY <3>2, <5>1, MembersOf
      <4> QED
        BY <3>2, <4>1, EmptySeq
    <3> QED
      BY <3>1, <3>3 DEF NamesIn
  <2> QED
    BY <2>1 DEF NamesIn
<1> QED
  BY <1>1, <1>2, <1>3

------------------------------------------------------------------------------
(* The list implements the index.                                          *)

(* What the index has in a state of the list.                              *)
LEMMA Lookups ==
    /\ [k \in {SegNum[n] : n \in Node} |-> FindSegmentNode(k)] = NumberedIn(seg_table)
    /\ [x \in Name |-> FindAllSegmentNodes(x)] = NamesIn(name_table)
<1>1. \A k : FindSegmentNode(k) = NodeOf(seg_table, k)
  BY Zenon DEF FindSegmentNode, NodeOf
<1>2. \A x : FindAllSegmentNodes(x) = NodesWith(name_table, x)
  BY Zenon DEF FindAllSegmentNodes, NodesWith, Found, WithName
<1> QED
  BY <1>1, <1>2, Zenon DEF NumberedIn, NamesIn, Numbers

LEMMA NextLookups ==
    /\ [k \in {SegNum[n] : n \in Node} |-> FindSegmentNode(k)]' = NumberedIn(seg_table')
    /\ [x \in Name |-> FindAllSegmentNodes(x)]' = NamesIn(name_table')
<1>1. \A k : FindSegmentNode(k)' = NodeOf(seg_table', k)
  BY Zenon DEF FindSegmentNode, NodeOf
<1>2. \A x : FindAllSegmentNodes(x)' = NodesWith(name_table', x)
  BY Zenon DEF FindAllSegmentNodes, NodesWith, Found, WithName
<1> QED
  BY <1>1, <1>2, Zenon DEF NumberedIn, NamesIn, Numbers

(* The operators of the index on sequences are those of the list.          *)
LEMMA SameOperators ==
    /\ \A s : Index!ToSet(s) = ToSet(s)
    /\ \A s, e : Index!RemoveFirst(s, e) = RemoveFirst(s, e)
<1>1. \A s : Index!ToSet(s) = ToSet(s)
  BY DEF Index!ToSet, ToSet
<1>2. \A S : Index!Min(S) = Min(S)
  BY DEF Index!Min, Min
<1>3. \A s, i : Index!RemoveAt(s, i) = RemoveAt(s, i)
  BY DEF Index!RemoveAt, RemoveAt
<1>4. \A s, e : Index!RemoveFirst(s, e) = RemoveFirst(s, e)
  BY <1>2, <1>3, Zenon DEF Index!RemoveFirst, RemoveFirst, Index!SelectInSeq, SelectInSeq
<1> QED
  BY <1>1, <1>4

(* TableInv for the nodes in the sequence w.                               *)
Members(w) == {n \in Node : n \in ToSet(w)}
TablesOf(w) ==
    /\ Hashed(seg_table, NumKey, Members(w))
    /\ Hashed(name_table, NameKey, NamedIn(w))

(* The nodes of a walk are a sequence without repetitions.                 *)
LEMMA WalkIsSeq ==
    ASSUME NEW w, ListInvOf(w)
    PROVE  /\ w \in Seq(Node) /\ IsInjective(w)
           /\ num_segs = 0 => w = <<>>
<1>1. num_segs \in Nat /\ w \in [1 .. num_segs -> Node] /\ IsInjective(w)
  BY DEF ListInvOf, Chained
<1>2. w \in Seq(Node) /\ Len(w) = num_segs
  BY <1>1
<1> QED
  BY <1>1, <1>2, EmptySeq

(* The tables of a list with a segment.                                    *)
LEMMA TablesThere ==
    ASSUME NEW w, w = Walk, TableInv
    PROVE  seg_table # Null \/ num_segs # 0 => TablesOf(w)
<1>1. {n \in Node : Listed(n)} = Members(w) /\ {n \in Node : Listed(n) /\ Named(n)} = NamedIn(w)
  BY DEF Listed, Members, NamedIn
<1> QED
  BY <1>1 DEF TableInv, TablesOf

LEMMA NextTables ==
    ASSUME NEW w, w = Walk', Hashed(seg_table', NumKey, Members(w)),
           Hashed(name_table', NameKey, NamedIn(w))
    PROVE  TableInv'
<1>1. /\ {n \in Node : Listed(n)}' = Members(w)
      /\ {n \in Node : Listed(n) /\ Named(n)}' = NamedIn(w)
  BY DEF Listed, Members, NamedIn, Named
<1>2. /\ Hashed(seg_table, NumKey, {n \in Node : Listed(n)})'
         <=> Hashed(seg_table', NumKey, {n \in Node : Listed(n)}')
      /\ Hashed(name_table, NameKey, {n \in Node : Listed(n) /\ Named(n)})'
         <=> Hashed(name_table', NameKey, {n \in Node : Listed(n) /\ Named(n)}')
  BY DEF Hashed, NumKey, NameKey
<1> QED
  BY <1>1, <1>2, Zenon DEF TableInv

(* Adding to the list adds to the index.                                   *)
LEMMA AddIndex ==
    ASSUME ListInv, TableInv, NEW n \in Node, AddSegmentToList(n)
    PROVE  TableInv' /\ Index!Add(n)
<1>1. PICK w : w = Walk /\ ListInvOf(w)
  BY ListInvWalk
<1>2. w \in Seq(Node) /\ IsInjective(w) /\ n \notin ToSet(w) /\ num_segs + 1 \in Nat
  BY <1>1, WalkIsSeq DEF AddSegmentToList, Listed, ListInvOf
<1>3. PICK v : v = Append(w, n) /\ v = Walk'
  <2>1. ListInvOf(Append(w, n))'
    BY <1>1, <1>2, AddStep
  <2>2. PICK v : v = Append(w, n)
    OBVIOUS
  <2>3. num_segs' \in Nat /\ Chained(v)'
    BY <2>1, <2>2 DEF ListInvOf
  <2> QED
    BY <2>2, <2>3, NextWalkFact
<1>4. TablesOf(w)
  BY <1>1, TablesThere DEF AddSegmentToList
<1>5. \A x : x \in ToSet(v) <=> x \in ToSet(w) \/ x = n
  BY <1>2, <1>3, AppendMembers
<1>6. Members(v) = Members(w) \cup {n} /\ n \notin Members(w)
  BY <1>2, <1>5 DEF Members
<1>7. PICK st : st = seg_table'
  OBVIOUS
<1>8. Hashed(st, NumKey, Members(v)) /\ NumberedIn(st) = [NumberedIn(seg_table) EXCEPT ![SegNum[n]] = n]
  <2>1. st = AddSegmentToTable(seg_table, n, num_segs + 1, NumKey)
    BY <1>7 DEF AddSegmentToList
  <2>2. Hashed(seg_table, NumKey, Members(w))
    BY <1>4 DEF TablesOf
  <2>3. Hashed(st, NumKey, Members(w) \cup {n})
    BY <1>2, <1>6, <2>1, <2>2, Keys, AddSegmentFacts
  <2>4. NumberedIn(st) = [NumberedIn(seg_table) EXCEPT ![SegNum[n]] = n]
    <3>1. PICK M : M = Members(w)
      OBVIOUS
    <3>2. PICK t : t = seg_table
      OBVIOUS
    <3>3. PICK N : N = M \cup {n}
      OBVIOUS
    <3>4. Hashed(t, NumKey, M) /\ Hashed(st, NumKey, N)
      BY <2>2, <2>3, <3>1, <3>2, <3>3
    <3>5. Renumbered(NumberedIn(st), NumberedIn(t), SegNum[n], n)
      BY <3>3, <3>4, NumberedAdd
    <3> QED
      BY <3>2, <3>5 DEF Renumbered
  <2> QED
    BY <1>6, <2>3, <2>4
<1>9. PICK nt : nt = name_table'
  OBVIOUS
<1>10. /\ Hashed(nt, NameKey, NamedIn(v))
       /\ NamesIn(nt) = [x \in Name |-> IF x = VarName[n] THEN Append(NamesIn(name_table)[x], n)
                                        ELSE NamesIn(name_table)[x]]
  <2>1. Hashed(name_table, NameKey, NamedIn(w))
    BY <1>4 DEF TablesOf
  <2>2. CASE Named(n)
    <3>1. NamedIn(v) = NamedIn(w) \cup {n} /\ n \notin NamedIn(w)
      BY <1>2, <1>5, <2>2 DEF NamedIn
    <3>2. nt = AddSegmentToTable(name_table, n, num_segs + 1, NameKey)
      BY <1>9, <2>2 DEF AddSegmentToList
    <3>3. Hashed(nt, NameKey, NamedIn(w) \cup {n}) /\ AddedLast(nt, name_table, NameKey, n)
      BY <1>2, <2>1, <3>1, <3>2, Keys, AddSegmentFacts
    <3> QED
      BY <2>1, <3>1, <3>3, NamesAdd
  <2>3. CASE ~Named(n)
    <3>1. NamedIn(v) = NamedIn(w) /\ nt = name_table
      BY <1>5, <1>9, <2>3 DEF NamedIn, AddSegmentToList
    <3>2. \A x \in Name : x # VarName[n]
      BY <2>3, SegmentListAssumption DEF Named
    <3>3. NamesIn(nt) = [x \in Name |-> NamesIn(name_table)[x]]
      BY <3>1 DEF NamesIn
    <3> QED
      BY <2>1, <3>1, <3>2, <3>3
  <2> QED
    BY <2>2, <2>3
<1>11. TableInv'
  BY <1>3, <1>7, <1>8, <1>9, <1>10, NextTables
<1>12. Index!Add(n)
  <2>1. n \notin ToSet(Walk) /\ Walk' = Append(Walk, n)
    BY <1>1, <1>2, <1>3
  <2>2. NumberedIn(seg_table') = [NumberedIn(seg_table) EXCEPT ![SegNum[n]] = n]
    BY <1>7, <1>8
  <2>3. NamesIn(name_table') = [x \in Name |->
            IF x = VarName[n] THEN Append(NamesIn(name_table)[x], n) ELSE NamesIn(name_table)[x]]
    BY <1>9, <1>10
  <2> QED
    BY <2>1, <2>2, <2>3, Lookups, NextLookups, SameOperators DEF Index!Add
<1> QED
  BY <1>11, <1>12

(* Removing from the list deletes from the index.                          *)
LEMMA RemoveIndex ==
    ASSUME ListInv, TableInv, NEW n \in Node, RemoveSegmentFromList(n)
    PROVE  TableInv' /\ Index!Delete(n)
<1>1. PICK w : w = Walk /\ ListInvOf(w)
  BY ListInvWalk
<1>2. w \in Seq(Node) /\ IsInjective(w) /\ n \in ToSet(w) /\ num_segs # 0
  <2>1. n \in ToSet(w)
    BY <1>1 DEF RemoveSegmentFromList, Listed
  <2>2. w # <<>>
    BY <2>1 DEF ToSet
  <2> QED
    BY <1>1, <2>1, <2>2, WalkIsSeq
<1>3. PICK v : v = RemoveFirst(w, n) /\ v = Walk'
  <2>1. ListInvOf(RemoveFirst(w, n))'
    BY <1>1, <1>2, RemoveStep
  <2>2. PICK v : v = RemoveFirst(w, n)
    OBVIOUS
  <2>3. num_segs' \in Nat /\ Chained(v)'
    BY <2>1, <2>2 DEF ListInvOf
  <2> QED
    BY <2>2, <2>3, NextWalkFact
<1>4. TablesOf(w)
  BY <1>1, <1>2, TablesThere
<1>5. \A x : x \in ToSet(v) <=> x \in ToSet(w) /\ x # n
  BY <1>2, <1>3, RemoveMembers
<1>6. Members(v) = Members(w) \ {n}
  BY <1>5 DEF Members
<1>7. PICK st : st = seg_table'
  OBVIOUS
<1>8. /\ Hashed(st, NumKey, Members(v))
      /\ NumberedIn(st) = [NumberedIn(seg_table) EXCEPT ![SegNum[n]] = NoNode]
  <2>1. st = RemoveSegmentFromTable(seg_table, n, NumKey)
    BY <1>7 DEF RemoveSegmentFromList
  <2>2. Hashed(seg_table, NumKey, Members(w))
    BY <1>4 DEF TablesOf
  <2>3. Hashed(st, NumKey, Members(w) \ {n})
    BY <2>1, <2>2, Keys, RemoveSegmentFacts
  <2>4. NumberedIn(st) = [NumberedIn(seg_table) EXCEPT ![SegNum[n]] = NoNode]
    <3>1. PICK M : M = Members(w)
      OBVIOUS
    <3>2. PICK t : t = seg_table
      OBVIOUS
    <3>3. Hashed(t, NumKey, M) /\ Hashed(st, NumKey, M \ {n})
      BY <2>2, <2>3, <3>1, <3>2
    <3>4. NumberedIn(st) = [NumberedIn(t) EXCEPT ![SegNum[n]] = NoNode]
      BY <3>3, NumberedRemove
    <3> QED
      BY <3>2, <3>4
  <2> QED
    BY <1>6, <2>3, <2>4
<1>9. PICK nt : nt = name_table'
  OBVIOUS
<1>10. /\ Hashed(nt, NameKey, NamedIn(v))
       /\ NamesIn(nt) = [x \in Name |-> RemoveFirst(NamesIn(name_table)[x], n)]
  <2>1. Hashed(name_table, NameKey, NamedIn(w))
    BY <1>4 DEF TablesOf
  <2>2. NamedIn(v) = NamedIn(w) \ {n}
    BY <1>5 DEF NamedIn
  <2>3. CASE Named(n)
    <3>1. nt = RemoveSegmentFromTable(name_table, n, NameKey)
      BY <1>9, <2>3 DEF RemoveSegmentFromList
    <3>2. Hashed(nt, NameKey, NamedIn(w) \ {n}) /\ TakenOut(nt, name_table, NameKey, n)
      BY <2>1, <3>1, Keys, RemoveSegmentFacts
    <3> QED
      BY <2>1, <2>2, <3>2, NamesRemove
  <2>4. CASE ~Named(n)
    <3>1. NamedIn(w) \ {n} = NamedIn(w) /\ nt = name_table /\ n \notin NamedIn(w)
      BY <1>9, <2>4 DEF NamedIn, RemoveSegmentFromList
    <3>2. ASSUME NEW x \in Name
          PROVE  RemoveFirst(NamesIn(name_table)[x], n) = NamesIn(name_table)[x]
      <4>1. PICK s : s = NamesIn(name_table)[x]
        OBVIOUS
      <4>2. s \in Seq(Node) /\ n \notin ToSet(s)
        BY <2>1, <3>1, <4>1, NamesMembers
      <4>3. RemoveFirst(s, n) = s
        BY <4>2, RemoveNone
      <4> QED
        BY <4>1, <4>3
    <3>3. NamesIn(nt) = [x \in Name |-> NamesIn(name_table)[x]]
      BY <3>1 DEF NamesIn
    <3> QED
      BY <2>1, <2>2, <3>1, <3>2, <3>3
  <2> QED
    BY <2>3, <2>4
<1>11. TableInv'
  BY <1>3, <1>7, <1>8, <1>9, <1>10, NextTables
<1>12. Index!Delete(n)
  <2>1. n \in ToSet(Walk) /\ Walk' = RemoveFirst(Walk, n)
    BY <1>1, <1>2, <1>3
  <2>2. NumberedIn(seg_table') = [NumberedIn(seg_table) EXCEPT ![SegNum[n]] = NoNode]
    BY <1>7, <1>8
  <2>3. NamesIn(name_table') = [x \in Name |-> RemoveFirst(NamesIn(name_table)[x], n)]
    BY <1>9, <1>10
  <2> QED
    BY <2>1, <2>2, <2>3, Lookups, NextLookups, SameOperators DEF Index!Delete
<1> QED
  BY <1>11, <1>12

(* Moving a segment to the end moves it in the index, where it is looked   *)
(* up as before.                                                           *)
LEMMA PlaceIndex ==
    ASSUME ListInv, TableInv, NEW n \in Node, PlaceSegmentAtEnd(n)
    PROVE  TableInv' /\ Index!MoveToEnd(n)
<1>1. PICK w : w = Walk /\ ListInvOf(w)
  BY ListInvWalk
<1>2. w \in Seq(Node) /\ IsInjective(w) /\ n \in ToSet(w) /\ num_segs # 0
  <2>1. n \in ToSet(w)
    BY <1>1 DEF PlaceSegmentAtEnd, Listed
  <2>2. w # <<>>
    BY <2>1 DEF ToSet
  <2> QED
    BY <1>1, <2>1, <2>2, WalkIsSeq
<1>3. PICK u : u = RemoveFirst(w, n)
  OBVIOUS
<1>4. PICK v : v = Append(u, n) /\ v = Walk'
  <2>1. ListInvOf(Append(RemoveFirst(w, n), n))'
    BY <1>1, <1>2, PlaceStep
  <2>2. PICK v : v = Append(u, n)
    OBVIOUS
  <2>3. num_segs' \in Nat /\ Chained(v)'
    BY <1>3, <2>1, <2>2 DEF ListInvOf
  <2> QED
    BY <2>2, <2>3, NextWalkFact
<1>5. TablesOf(w)
  BY <1>1, <1>2, TablesThere
<1>6. u \in Seq(Node) /\ \A x : x \in ToSet(u) <=> x \in ToSet(w) /\ x # n
  BY <1>2, <1>3, RemoveMembers
<1>7. \A x : x \in ToSet(v) <=> x \in ToSet(w)
  <2>1. \A x : x \in ToSet(v) <=> x \in ToSet(u) \/ x = n
    <3>1. u \in Seq(Node)
      BY <1>6
    <3>2. \A x : x \in ToSet(Append(u, n)) <=> x \in ToSet(u) \/ x = n
      BY <3>1, AppendMembers
    <3> QED
      BY <1>4, <3>2
  <2> QED
    BY <1>2, <1>6, <2>1
<1>8. Members(v) = Members(w) /\ NamedIn(v) = NamedIn(w)
  BY <1>7 DEF Members, NamedIn
<1>9. seg_table' = seg_table /\ name_table' = name_table
  BY DEF PlaceSegmentAtEnd
<1>10. TableInv'
  BY <1>4, <1>5, <1>8, <1>9, NextTables DEF TablesOf
<1>11. Index!MoveToEnd(n)
  <2>1. n \in ToSet(Walk) /\ Walk' = Append(RemoveFirst(Walk, n), n)
    BY <1>1, <1>2, <1>3, <1>4
  <2> QED
    BY <1>9, <2>1, Lookups, NextLookups, SameOperators DEF Index!MoveToEnd
<1> QED
  BY <1>10, <1>11

(* The walk stays if the list does.                                        *)
LEMMA WalkStays ==
    ASSUME ListInv, UNCHANGED <<first, last, next, prev, num_segs>>
    PROVE  Walk' = Walk
<1>1. PICK w : w = Walk /\ ListInvOf(w)
  BY ListInvWalk
<1>2. num_segs' \in Nat /\ Chained(w)'
  BY <1>1, ZenonT(40) DEF ListInvOf, Chained
<1> QED
  BY <1>1, <1>2, NextWalkFact

(* Allocating and freeing the tables is not seen in the index.             *)
LEMMA TablesIndex ==
    ASSUME ListInv, TableInv, Initialize \/ DestroyTables
    PROVE  /\ TableInv' /\ Walk' = Walk
           /\ NumberedIn(seg_table') = NumberedIn(seg_table)
           /\ NamesIn(name_table') = NamesIn(name_table)
<1>1. PICK w : w = Walk /\ ListInvOf(w)
  BY ListInvWalk
<1>2. Walk' = Walk /\ num_segs' = num_segs
  BY WalkStays DEF Initialize, DestroyTables
<1>3. CASE Initialize
  <2>1. num_segs = 0 /\ seg_table = Null /\ name_table = Null
    BY <1>3, HashedNotNull DEF TableInv, Initialize
  <2>2. w = <<>>
    BY <1>1, <2>1, WalkIsSeq
  <2>3. Members(w) = {} /\ NamedIn(w) = {}
    BY <2>2 DEF Members, NamedIn, ToSet
  <2>4. Hashed(seg_table', NumKey, {}) /\ Hashed(name_table', NameKey, {})
    BY <1>3, Keys, HashedNew DEF Initialize
  <2>5. TableInv'
    BY <1>1, <1>2, <2>3, <2>4, NextTables
  <2> QED
    BY <1>2, <2>1, <2>4, <2>5, NothingFound
<1>4. CASE DestroyTables
  <2>1. num_segs = 0
    <3>1. num_segs # 0 => first \in Node
      <4>1. num_segs \in Nat /\ w \in [1 .. num_segs -> Node]
            /\ (num_segs # 0 => first = w[1])
        BY <1>1 DEF ListInvOf, Chained
      <4> QED
        BY <4>1
    <3> QED
      BY <1>4, <3>1, SegmentListAssumption DEF DestroyTables
  <2>2. w = <<>>
    BY <1>1, <2>1, WalkIsSeq
  <2>3. Members(w) = {} /\ NamedIn(w) = {}
    BY <2>2 DEF Members, NamedIn, ToSet
  <2>4. Hashed(seg_table, NumKey, {}) /\ Hashed(name_table, NameKey, {})
    BY <1>1, <1>4, <2>3, TablesThere DEF DestroyTables, TablesOf
  <2>5. seg_table' = Null /\ name_table' = Null
    BY <1>4 DEF DestroyTables
  <2>6. Null' = Null
    BY DEF Null
  <2>7. TableInv'
    BY <1>2, <2>1, <2>5, <2>6 DEF TableInv
  <2> QED
    BY <1>2, <2>4, <2>5, <2>7, NothingFound
<1> QED
  BY <1>3, <1>4

(* Every step keeps the tables and is a step of the index or of none.      *)
LEMMA IndexStep ==
    ListInv /\ TableInv /\ [Next]_vars =>
        /\ TableInv'
        /\ [Index!Next]_<<Walk, [k \in {SegNum[n] : n \in Node} |-> FindSegmentNode(k)],
                          [x \in Name |-> FindAllSegmentNodes(x)]>>
<1> SUFFICES ASSUME ListInv, TableInv, [Next]_vars
             PROVE  /\ TableInv'
                    /\ \/ Index!Next
                       \/ UNCHANGED <<Walk, [k \in {SegNum[n] : n \in Node} |-> FindSegmentNode(k)],
                                      [x \in Name |-> FindAllSegmentNodes(x)]>>
  OBVIOUS
<1>1. ASSUME Walk' = Walk, NumberedIn(seg_table') = NumberedIn(seg_table),
             NamesIn(name_table') = NamesIn(name_table)
      PROVE  UNCHANGED <<Walk, [k \in {SegNum[n] : n \in Node} |-> FindSegmentNode(k)],
                         [x \in Name |-> FindAllSegmentNodes(x)]>>
  BY <1>1, Lookups, NextLookups
<1>2. CASE UNCHANGED vars
  <2>1. Walk' = Walk
    BY <1>2, WalkStays DEF vars
  <2>2. TableInv'
    <3>1. \A n \in Node : Listed(n)' <=> Listed(n)
      BY <2>1 DEF Listed
    <3> QED
      BY <1>2, <3>1 DEF vars, TableInv, Hashed, Null, NumKey, NameKey, Named, Size
  <2> QED
    BY <1>1, <1>2, <2>1, <2>2 DEF vars
<1>3. CASE Initialize \/ DestroyTables
  BY <1>1, <1>3, TablesIndex
<1>4. ASSUME NEW n \in Node, AddSegmentToList(n) PROVE TableInv' /\ Index!Next
  BY <1>4, AddIndex DEF Index!Next
<1>5. ASSUME NEW n \in Node, PlaceSegmentAtEnd(n) PROVE TableInv' /\ Index!Next
  BY <1>5, PlaceIndex DEF Index!Next
<1>6. ASSUME NEW n \in Node, RemoveSegmentFromList(n) PROVE TableInv' /\ Index!Next
  BY <1>6, RemoveIndex DEF Index!Next
<1> QED
  BY <1>2, <1>3, <1>4, <1>5, <1>6 DEF Next

(* A list without tables is an empty index.                                *)
LEMMA IndexInit == Init => TableInv /\ Index!Init
<1> SUFFICES ASSUME Init PROVE TableInv /\ Index!Init
  OBVIOUS
<1>1. TableInv
  BY DEF Init, TableInv
<1>2. Walk = <<>>
  <2>1. PICK w : w = Walk /\ ListInvOf(w)
    BY ListInvInit, ListInvWalk
  <2> QED
    BY <2>1, WalkIsSeq DEF Init
<1>3. NumberedIn(seg_table) = [k \in Numbers |-> NoNode] /\ NamesIn(name_table) = [x \in Name |-> <<>>]
  BY NothingFound DEF Init
<1> QED
  BY <1>1, <1>2, <1>3, Lookups DEF Index!Init, Numbers

(* The list with its tables implements the index: whatever was added,      *)
(* moved and removed, and however the tables grew, a number leads to the   *)
(* listed segment that has it, and a name to all the listed segments with  *)
(* that name in the order in which they were added (LookupExact).          *)
THEOREM ImplementsIndex == Spec => LookupExact
<1>1. Init => ListInv /\ TableInv /\ Index!Init
  BY ListInvInit, IndexInit
<1>2. ListInv /\ TableInv /\ [Next]_vars =>
        /\ ListInv' /\ TableInv'
        /\ [Index!Next]_<<Walk, [k \in {SegNum[n] : n \in Node} |-> FindSegmentNode(k)],
                          [x \in Name |-> FindAllSegmentNodes(x)]>>
  BY ListInvStep, IndexStep
<1> QED
  BY <1>1, <1>2, PTL DEF Spec, LookupExact, Index!Spec

(* A listed segment is always in the chain of its number, and of its name  *)
(* if it has one: msh_RemoveSegmentFromTable never comes to the end of a   *)
(* chain, which would be a fatal TableLogicError.                          *)
InItsTables ==
    \A n \in Node : Listed(n) => /\ InTable(seg_table, n, NumKey)
                                 /\ Named(n) => InTable(name_table, n, NameKey)

THEOREM RemovalFinds == Spec => []InItsTables
<1>1. Init => ListInv /\ TableInv
  BY ListInvInit, IndexInit
<1>2. ListInv /\ TableInv /\ [Next]_vars => ListInv' /\ TableInv'
  BY ListInvStep, IndexStep
<1>3. ListInv /\ TableInv => InItsTables
  <2> SUFFICES ASSUME ListInv, TableInv, NEW n \in Node, Listed(n)
               PROVE  /\ InTable(seg_table, n, NumKey)
                      /\ Named(n) => InTable(name_table, n, NameKey)
    BY DEF InItsTables
  <2>1. PICK w : w = Walk /\ ListInvOf(w)
    BY ListInvWalk
  <2>2. n \in ToSet(w) /\ num_segs # 0
    <3>1. n \in ToSet(w)
      BY <2>1 DEF Listed
    <3>2. w # <<>>
      BY <3>1 DEF ToSet
    <3> QED
      BY <2>1, <3>1, <3>2, WalkIsSeq
  <2>3. TablesOf(w)
    BY <2>1, <2>2, TablesThere
  <2>4. ASSUME NEW t, NEW key \in [Node -> Nat], NEW M, Hashed(t, key, M), n \in M
        PROVE  InTable(t, n, key)
    <3>1. /\ Size(t) \in Nat /\ Size(t) > 0 /\ DOMAIN t = 0 .. (Size(t) - 1)
          /\ \A b \in DOMAIN t, m \in Node : Contains(t[b], m) <=> m \in M /\ key[m] % Size(t) = b
      BY <2>4 DEF Hashed
    <3>2. key[n] % Size(t) \in DOMAIN t
      BY <3>1
    <3> QED
      BY <2>4, <3>1, <3>2 DEF InTable
  <2>5. n \in Members(w) /\ (Named(n) => n \in NamedIn(w))
    BY <2>2 DEF Members, NamedIn
  <2> QED
    BY <2>3, <2>4, <2>5, Keys DEF TablesOf
<1> QED
  BY <1>1, <1>2, <1>3, PTL DEF Spec
=============================================================================
