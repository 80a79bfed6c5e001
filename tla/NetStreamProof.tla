--------------------------- MODULE NetStreamProof ---------------------------
(***************************************************************************)
(* Theorems about the streams of commands, for every value of the          *)
(* constants.                                                              *)
(***************************************************************************)
EXTENDS NetStreamProps, SequenceTheorems, FiniteSetTheorems, WellFoundedInduction, TLAPS

-----------------------------------------------------------------------------
(* Induction, in the form of a least natural number.                       *)

Below == {p \in Nat \X Nat : p[1] < p[2]}

LEMMA LeastNatural ==
  ASSUME NEW S \in SUBSET Nat, S # {}
  PROVE  \E m \in S : \A k \in S : m <= k
<1>1. IsWellFoundedOn({p \in Nat \X Nat : p[1] < p[2]}, Nat)
  BY NatLessThanWellFounded DEF OpToRel
<1>2. IsWellFoundedOn(Below, Nat)
  BY <1>1 DEF Below
<1>3. PICK m \in S : \A k \in S : ~ (<<k, m>> \in Below)
  BY <1>2, WFMin
<1>4. \A k \in S : ~ (k < m)
  BY <1>3 DEF Below
<1> QED BY <1>4

-----------------------------------------------------------------------------
(* The pieces of a sequence of sequences, one after the other.             *)

Flat(g, ss, n) == g = [i \in 1..n |-> IF i = 1 THEN ss[i] ELSE g[i - 1] \o ss[i]]

LEMMA FlatExists ==
  ASSUME NEW ss, NEW n \in Nat
  PROVE  \E g : Flat(g, ss, n)
<1> DEFINE Bad == {k \in Nat : ~ \E g : Flat(g, ss, k)}
<1>1. SUFFICES ASSUME Bad # {} PROVE FALSE
  OBVIOUS
<1>2. PICK m \in Bad : \A k \in Bad : m <= k
  BY <1>1, LeastNatural
<1>3. CASE m = 0
  <2> DEFINE g == [i \in 1..0 |-> ss]
  <2>1. g = [i \in 1..0 |-> IF i = 1 THEN ss[i] ELSE g[i - 1] \o ss[i]]
    OBVIOUS
  <2>2. Flat(g, ss, 0)
    BY <2>1 DEF Flat
  <2> QED BY <1>2, <1>3, <2>2
<1>4. CASE m # 0
  <2>1. m - 1 \in Nat /\ m - 1 \notin Bad
    BY <1>2, <1>4
  <2>2. PICK f : Flat(f, ss, m - 1)
    BY <2>1
  <2> DEFINE last == IF m = 1 THEN ss[m] ELSE f[m - 1] \o ss[m]
             g    == [i \in 1..m |-> IF i = m THEN last ELSE f[i]]
  <2> HIDE DEF last
  <2>3. ASSUME NEW i \in 1..m
        PROVE  g[i] = IF i = 1 THEN ss[i] ELSE g[i - 1] \o ss[i]
    <3>1. CASE i = m
      BY <1>4, <2>1, <3>1 DEF last
    <3>2. CASE i # m
      <4>1. i \in 1..(m - 1) /\ (i # 1 => i - 1 \in 1..(m - 1))
        BY <3>2
      <4>2. f[i] = IF i = 1 THEN ss[i] ELSE f[i - 1] \o ss[i]
        BY <2>2, <4>1 DEF Flat
      <4>3. i # 1 => g[i - 1] = f[i - 1]
        BY <4>1, <1>4
      <4> QED BY <3>2, <4>1, <4>2, <4>3
    <3> QED BY <3>1, <3>2
  <2>4. g = [i \in 1..m |-> g[i]]
    OBVIOUS
  <2> HIDE DEF g
  <2>5. Flat(g, ss, m)
    BY <2>3, <2>4 DEF Flat
  <2> QED BY <1>2, <2>5
<1> QED BY <1>3, <1>4

LEMMA FlattenIs ==
  ASSUME NEW ss, Len(ss) \in Nat \ {0}, NEW g, Flat(g, ss, Len(ss))
  PROVE  FlattenSeq(ss) = g[Len(ss)]
<1> DEFINE n == Len(ss)
           h == CHOOSE h : Flat(h, ss, n)
<1>1. Flat(h, ss, n)
  OBVIOUS
<1>2. FlattenSeq(ss) = h[n]
  BY DEF FlattenSeq, Flat
<1> HIDE DEF h
<1> DEFINE Bad == {j \in Nat : j \in 1..n /\ g[j] # h[j]}
<1>3. ASSUME Bad # {} PROVE FALSE
  <2>1. PICK j \in Bad : \A i \in Bad : j <= i
    BY <1>3, LeastNatural
  <2>2. /\ g[j] = IF j = 1 THEN ss[j] ELSE g[j - 1] \o ss[j]
        /\ h[j] = IF j = 1 THEN ss[j] ELSE h[j - 1] \o ss[j]
    BY <1>1, <2>1 DEF Flat
  <2>3. j # 1 => j - 1 \in 1..n /\ j - 1 \notin Bad
    BY <2>1
  <2> QED BY <2>1, <2>2, <2>3
<1> QED BY <1>2, <1>3

LEMMA SamePieces ==
  ASSUME NEW T, NEW s \in Seq(T), NEW t \in Seq(T), Len(s) = Len(t),
         \A i \in 1..Len(s) : s[i] = t[i]
  PROVE  s = t
BY SeqEqual

(* A sequence grows from its prefixes.                                     *)
LEMMA GrowingPrefixes ==
  ASSUME NEW T, NEW q \in Seq(T)
  PROVE  /\ SubSeq(q, 1, 0) = <<>> /\ SubSeq(q, 1, Len(q)) = q
         /\ \A k \in 0..Len(q) : SubSeq(q, 1, k) \in Seq(T) /\ Len(SubSeq(q, 1, k)) = k
         /\ \A k \in 1..Len(q) : SubSeq(q, 1, k) = SubSeq(q, 1, k - 1) \o <<q[k]>>
<1>1. \A k \in 0..Len(q) : SubSeq(q, 1, k) \in Seq(T) /\ Len(SubSeq(q, 1, k)) = k
  OBVIOUS
<1>2. ASSUME NEW k \in 1..Len(q)
      PROVE  SubSeq(q, 1, k) = SubSeq(q, 1, k - 1) \o <<q[k]>>
  <2> DEFINE l == SubSeq(q, 1, k)
             r == SubSeq(q, 1, k - 1) \o <<q[k]>>
  <2>1. l \in Seq(T) /\ Len(l) = k /\ \A i \in 1..k : l[i] = q[i]
    OBVIOUS
  <2>2. r \in Seq(T) /\ Len(r) = k /\ \A i \in 1..k : r[i] = q[i]
    OBVIOUS
  <2> HIDE DEF l, r
  <2>3. l = r
    BY <2>1, <2>2, SamePieces
  <2> QED BY <2>3 DEF l, r
<1>3. SubSeq(q, 1, 0) = <<>> /\ SubSeq(q, 1, Len(q)) = q
  BY SubSeqFull, SubSeqEmpty
<1> QED BY <1>1, <1>2, <1>3

LEMMA FlattenNone == FlattenSeq(<<>>) = <<>>
BY DEF FlattenSeq

LEMMA FlattenAppend ==
  ASSUME NEW S, NEW ss \in Seq(Seq(S)), NEW s \in Seq(S)
  PROVE  FlattenSeq(ss \o <<s>>) = FlattenSeq(ss) \o s
<1> DEFINE all == ss \o <<s>>
           n   == Len(ss)
<1>1. /\ n \in Nat /\ Len(all) = n + 1 /\ Len(all) \in Nat \ {0}
      /\ (\A k \in 1..n : all[k] = ss[k]) /\ all[n + 1] = s
  OBVIOUS
<1> HIDE DEF all
<1>2. PICK g : Flat(g, all, n + 1)
  BY <1>1, FlatExists
<1>3. FlattenSeq(all) = g[n + 1]
  BY <1>1, <1>2, FlattenIs
<1>4. g[n + 1] = IF n + 1 = 1 THEN all[n + 1] ELSE g[n] \o all[n + 1]
  <2>1. n + 1 \in 1..(n + 1) /\ (n + 1) - 1 = n
    BY <1>1
  <2>2. g[n + 1] = IF n + 1 = 1 THEN all[n + 1] ELSE g[(n + 1) - 1] \o all[n + 1]
    BY <1>2, <2>1 DEF Flat
  <2> QED BY <2>1, <2>2
<1>5. CASE n = 0
  <2>1. ss = <<>> /\ <<>> \o s = s
    BY <1>5, EmptySeq, ConcatEmptySeq
  <2>2. FlattenSeq(ss) = <<>>
    BY <2>1, FlattenNone
  <2>3. FlattenSeq(all) = s
    BY <1>1, <1>3, <1>4, <1>5
  <2> QED BY <2>1, <2>2, <2>3 DEF all
<1>6. CASE n # 0
  <2> DEFINE h == [i \in 1..n |-> g[i]]
  <2>1. ASSUME NEW i \in 1..n PROVE h[i] = IF i = 1 THEN ss[i] ELSE h[i - 1] \o ss[i]
    <3>1. i \in 1..(n + 1) /\ (i # 1 => i - 1 \in 1..n) /\ all[i] = ss[i]
      BY <1>1
    <3>2. g[i] = IF i = 1 THEN all[i] ELSE g[i - 1] \o all[i]
      BY <1>2, <3>1 DEF Flat
    <3>3. h[i] = g[i] /\ (i # 1 => h[i - 1] = g[i - 1])
      BY <3>1
    <3> QED BY <3>1, <3>2, <3>3
  <2>2. h = [i \in 1..n |-> h[i]] /\ h[n] = g[n]
    BY <1>1, <1>6
  <2> HIDE DEF h
  <2>3. Flat(h, ss, n)
    BY <2>1, <2>2 DEF Flat
  <2>4. FlattenSeq(ss) = h[n]
    BY <1>1, <1>6, <2>3, FlattenIs
  <2>5. n + 1 # 1
    BY <1>1, <1>6
  <2>6. FlattenSeq(all) = g[n] \o s
    BY <1>1, <1>3, <1>4, <2>5
  <2> QED BY <2>2, <2>4, <2>6 DEF all
<1> QED BY <1>5, <1>6, <1>1

LEMMA FlattenType ==
  ASSUME NEW S, NEW ss \in Seq(Seq(S))
  PROVE  FlattenSeq(ss) \in Seq(S)
<1> DEFINE Pre(k) == SubSeq(ss, 1, k)
           Bad    == {k \in Nat : k <= Len(ss) /\ FlattenSeq(Pre(k)) \notin Seq(S)}
<1>1. /\ Len(ss) \in Nat /\ Pre(0) = <<>> /\ Pre(Len(ss)) = ss
      /\ \A k \in 0..Len(ss) : Pre(k) \in Seq(Seq(S))
      /\ \A k \in 1..Len(ss) : ss[k] \in Seq(S) /\ Pre(k) = Pre(k - 1) \o <<ss[k]>>
  <2>1. Len(ss) \in Nat /\ \A k \in 1..Len(ss) : ss[k] \in Seq(S)
    OBVIOUS
  <2> DEFINE T == Seq(S)
  <2>2. ss \in Seq(T)
    OBVIOUS
  <2> HIDE DEF T
  <2>3. /\ SubSeq(ss, 1, 0) = <<>> /\ SubSeq(ss, 1, Len(ss)) = ss
        /\ \A k \in 0..Len(ss) : SubSeq(ss, 1, k) \in Seq(T)
        /\ \A k \in 1..Len(ss) : SubSeq(ss, 1, k) = SubSeq(ss, 1, k - 1) \o <<ss[k]>>
    BY <2>2, GrowingPrefixes
  <2> QED BY <2>1, <2>3 DEF T
<1> HIDE DEF Pre
<1>2. ASSUME Bad # {} PROVE FALSE
  <2>1. PICK m \in Bad : \A k \in Bad : m <= k
    BY <1>2, LeastNatural
  <2>2. CASE m = 0
    <3>1. FlattenSeq(Pre(0)) = <<>> /\ <<>> \in Seq(S)
      BY <1>1, FlattenNone
    <3> QED BY <2>1, <2>2, <3>1
  <2>3. CASE m # 0
    <3>1. m - 1 \in 0..Len(ss) /\ m - 1 \notin Bad /\ m \in 1..Len(ss)
      BY <1>1, <2>1, <2>3
    <3>2. FlattenSeq(Pre(m - 1)) \in Seq(S) /\ Pre(m - 1) \in Seq(Seq(S)) /\ ss[m] \in Seq(S)
      BY <1>1, <3>1
    <3>3. FlattenSeq(Pre(m)) = FlattenSeq(Pre(m - 1)) \o ss[m]
      BY <1>1, <3>1, <3>2, FlattenAppend
    <3>4. FlattenSeq(Pre(m)) \in Seq(S)
      BY <3>2, <3>3
    <3> QED BY <2>1, <3>4
  <2> QED BY <2>2, <2>3
<1>3. Len(ss) \notin Bad
  BY <1>2
<1> QED BY <1>1, <1>3

Grouped(a, b, c) == (a \o b) \o c = a \o (b \o c)

LEMMA Grouping ==
  ASSUME NEW T, NEW a \in Seq(T), NEW b \in Seq(T), NEW c \in Seq(T)
  PROVE  Grouped(a, b, c)
BY ConcatAssociative DEF Grouped

LEMMA FlattenConcat ==
  ASSUME NEW S, NEW ss \in Seq(Seq(S)), NEW tt \in Seq(Seq(S))
  PROVE  FlattenSeq(ss \o tt) = FlattenSeq(ss) \o FlattenSeq(tt)
<1> DEFINE Pre(k) == SubSeq(tt, 1, k)
           Bad    == {k \in Nat : k <= Len(tt) /\ FlattenSeq(ss \o Pre(k)) # FlattenSeq(ss) \o FlattenSeq(Pre(k))}
<1>1. /\ Len(tt) \in Nat /\ Pre(0) = <<>> /\ Pre(Len(tt)) = tt
      /\ \A k \in 0..Len(tt) : Pre(k) \in Seq(Seq(S))
      /\ \A k \in 1..Len(tt) : tt[k] \in Seq(S) /\ Pre(k) = Pre(k - 1) \o <<tt[k]>>
  <2>1. Len(tt) \in Nat /\ \A k \in 1..Len(tt) : tt[k] \in Seq(S)
    OBVIOUS
  <2> DEFINE T == Seq(S)
  <2>2. tt \in Seq(T)
    OBVIOUS
  <2> HIDE DEF T
  <2>3. /\ SubSeq(tt, 1, 0) = <<>> /\ SubSeq(tt, 1, Len(tt)) = tt
        /\ \A k \in 0..Len(tt) : SubSeq(tt, 1, k) \in Seq(T)
        /\ \A k \in 1..Len(tt) : SubSeq(tt, 1, k) = SubSeq(tt, 1, k - 1) \o <<tt[k]>>
    BY <2>2, GrowingPrefixes
  <2> QED BY <2>1, <2>3 DEF T
<1> HIDE DEF Pre
<1>2. FlattenSeq(ss) \in Seq(S)
  BY FlattenType
<1>3. ASSUME Bad # {} PROVE FALSE
  <2>1. PICK m \in Bad : \A k \in Bad : m <= k
    BY <1>3, LeastNatural
  <2>2. CASE m = 0
    <3>1. FlattenSeq(Pre(0)) = <<>> /\ ss \o Pre(0) = ss /\ FlattenSeq(ss) \o <<>> = FlattenSeq(ss)
      BY <1>1, <1>2, FlattenNone, ConcatEmptySeq
    <3> QED BY <2>1, <2>2, <3>1
  <2>3. CASE m # 0
    <3>1. m - 1 \in 0..Len(tt) /\ m - 1 \notin Bad /\ m \in 1..Len(tt)
      <4>1. m \in Nat /\ m <= Len(tt) /\ m - 1 \in Nat
        BY <1>1, <2>1, <2>3
      <4>2. ~ (m <= m - 1)
        BY <4>1
      <4> HIDE DEF Bad
      <4> QED BY <1>1, <2>1, <4>1, <4>2
    <3> DEFINE p == Pre(m - 1)
               x == tt[m]
    <3>2. p \in Seq(Seq(S)) /\ x \in Seq(S) /\ Pre(m) = p \o <<x>>
      BY <1>1, <3>1
    <3>3. FlattenSeq(ss \o p) = FlattenSeq(ss) \o FlattenSeq(p)
      <4>1. m - 1 \in Nat /\ m - 1 <= Len(tt)
        BY <1>1, <3>1
      <4> QED BY <3>1, <4>1, Zenon
    <3> HIDE DEF p, x
    <3>4. ss \o (p \o <<x>>) = (ss \o p) \o <<x>> /\ ss \o p \in Seq(Seq(S)) /\ <<x>> \in Seq(Seq(S))
      <4>1. Grouped(ss, p, <<x>>) /\ ss \o p \in Seq(Seq(S)) /\ <<x>> \in Seq(Seq(S))
        <5> DEFINE T == Seq(S)
        <5>1. ss \in Seq(T) /\ p \in Seq(T) /\ x \in T
          BY <3>2
        <5> HIDE DEF T
        <5>2. <<x>> \in Seq(T) /\ ss \o p \in Seq(T)
          BY <5>1
        <5>3. Grouped(ss, p, <<x>>)
          BY <5>1, <5>2, Grouping
        <5> QED BY <5>2, <5>3 DEF T
      <4> QED BY <4>1 DEF Grouped
    <3>5. FlattenSeq((ss \o p) \o <<x>>) = FlattenSeq(ss \o p) \o x
      BY <3>2, <3>4, FlattenAppend
    <3>6. FlattenSeq(p \o <<x>>) = FlattenSeq(p) \o x /\ FlattenSeq(p) \in Seq(S)
      BY <3>2, FlattenAppend, FlattenType
    <3>7. (FlattenSeq(ss) \o FlattenSeq(p)) \o x = FlattenSeq(ss) \o (FlattenSeq(p) \o x)
      <4>1. Grouped(FlattenSeq(ss), FlattenSeq(p), x)
        BY <1>2, <3>2, <3>6, Grouping
      <4> QED BY <4>1 DEF Grouped
    <3>8. FlattenSeq(ss \o Pre(m)) = FlattenSeq(ss) \o FlattenSeq(Pre(m))
      BY <3>2, <3>3, <3>4, <3>5, <3>6, <3>7
    <3> QED BY <2>1, <3>8
  <2> QED BY <2>2, <2>3
<1>4. Len(tt) \notin Bad
  BY <1>3
<1> QED BY <1>1, <1>4

LEMMA FlattenOne ==
  ASSUME NEW S, NEW s \in Seq(S)
  PROVE  FlattenSeq(<<s>>) = s
<1> DEFINE none == <<>>
<1>1. none \in Seq(Seq(S)) /\ none \o <<s>> = <<s>> /\ <<>> \o s = s
  BY ConcatEmptySeq
<1>2. FlattenSeq(none) = <<>>
  BY FlattenNone
<1> HIDE DEF none
<1>3. FlattenSeq(none \o <<s>>) = FlattenSeq(none) \o s
  BY <1>1, FlattenAppend
<1> QED BY <1>1, <1>2, <1>3

LEMMA FlattenCons ==
  ASSUME NEW S, NEW s \in Seq(S), NEW ss \in Seq(Seq(S))
  PROVE  FlattenSeq(<<s>> \o ss) = s \o FlattenSeq(ss)
<1>1. <<s>> \in Seq(Seq(S))
  OBVIOUS
<1>2. FlattenSeq(<<s>> \o ss) = FlattenSeq(<<s>>) \o FlattenSeq(ss)
  BY <1>1, FlattenConcat
<1> QED BY <1>2, FlattenOne

LEMMA CutInThree ==
  ASSUME NEW T, NEW q \in Seq(T), NEW k \in 1..Len(q)
  PROVE  /\ q = (SubSeq(q, 1, k - 1) \o <<q[k]>>) \o SubSeq(q, k + 1, Len(q))
         /\ SubSeq(q, 1, k - 1) \in Seq(T) /\ q[k] \in T /\ SubSeq(q, k + 1, Len(q)) \in Seq(T)
         /\ SubSeq(q, 1, k) = SubSeq(q, 1, k - 1) \o <<q[k]>>
<1>1. SubSeq(q, 1, k) = SubSeq(q, 1, k - 1) \o <<q[k]>>
  BY GrowingPrefixes
<1>2. SubSeq(q, 1, k) \o SubSeq(q, k + 1, Len(q)) = SubSeq(q, 1, Len(q))
  BY ConcatAdjacentSubSeq
<1>3. SubSeq(q, 1, Len(q)) = q
  BY SubSeqFull
<1>4. SubSeq(q, 1, k - 1) \in Seq(T) /\ q[k] \in T /\ SubSeq(q, k + 1, Len(q)) \in Seq(T)
  OBVIOUS
<1> QED BY <1>1, <1>2, <1>3, <1>4

LEMMA FlattenAt ==
  ASSUME NEW S, NEW ss \in Seq(Seq(S)), NEW k \in 1..Len(ss)
  PROVE  /\ FlattenSeq(ss) = (FlattenSeq(SubSeq(ss, 1, k - 1)) \o ss[k])
                                 \o FlattenSeq(SubSeq(ss, k + 1, Len(ss)))
         /\ FlattenSeq(SubSeq(ss, 1, k)) = FlattenSeq(SubSeq(ss, 1, k - 1)) \o ss[k]
         /\ FlattenSeq(SubSeq(ss, 1, k - 1)) \in Seq(S) /\ ss[k] \in Seq(S)
         /\ FlattenSeq(SubSeq(ss, k + 1, Len(ss))) \in Seq(S)
<1> DEFINE T == Seq(S)
           l == SubSeq(ss, 1, k - 1)
           x == ss[k]
           r == SubSeq(ss, k + 1, Len(ss))
           m == SubSeq(ss, 1, k)
<1>1. ss = (l \o <<x>>) \o r /\ l \in Seq(T) /\ x \in T /\ r \in Seq(T) /\ m = l \o <<x>>
  <2> HIDE DEF T
  <2>1. ss \in Seq(T)
    BY DEF T
  <2> QED BY <2>1, CutInThree
<1> HIDE DEF l, x, r, m
<1>2. l \o <<x>> \in Seq(Seq(S))
  BY <1>1
<1>3. FlattenSeq((l \o <<x>>) \o r) = FlattenSeq(l \o <<x>>) \o FlattenSeq(r)
  BY <1>1, <1>2, FlattenConcat
<1>4. FlattenSeq(l \o <<x>>) = FlattenSeq(l) \o x
  BY <1>1, FlattenAppend
<1>5. FlattenSeq(l) \in Seq(S) /\ FlattenSeq(r) \in Seq(S)
  BY <1>1, FlattenType
<1>6. /\ FlattenSeq(ss) = (FlattenSeq(l) \o x) \o FlattenSeq(r)
      /\ FlattenSeq(m) = FlattenSeq(l) \o x
      /\ x \in Seq(S)
  BY <1>1, <1>3, <1>4
<1> QED BY <1>5, <1>6 DEF l, x, r, m

LEMMA FlattenBlank ==
  ASSUME NEW S, NEW ss \in Seq(Seq(S)), \A k \in 1..Len(ss) : ss[k] = <<>>
  PROVE  FlattenSeq(ss) = <<>>
<1> DEFINE F(k) == FlattenSeq(SubSeq(ss, 1, k))
           Bad  == {k \in Nat : k <= Len(ss) /\ F(k) # <<>>}
<1>1. Len(ss) \in Nat /\ SubSeq(ss, 1, Len(ss)) = ss /\ SubSeq(ss, 1, 0) = <<>>
  BY SubSeqFull, SubSeqEmpty
<1>2. ASSUME NEW k \in 1..Len(ss) PROVE F(k) = F(k - 1) \o <<>> /\ F(k - 1) \in Seq(S)
  BY FlattenAt
<1>3. F(0) = <<>> /\ F(Len(ss)) = FlattenSeq(ss)
  BY <1>1, FlattenNone
<1> HIDE DEF F
<1>4. ASSUME Bad # {} PROVE FALSE
  <2>1. PICK m \in Bad : \A k \in Bad : m <= k
    BY <1>4, LeastNatural
  <2>2. m # 0 /\ m \in 1..Len(ss)
    BY <1>1, <1>3, <2>1
  <2>3. m - 1 \in Nat /\ m - 1 <= Len(ss) /\ m - 1 \notin Bad
    BY <1>1, <2>1, <2>2
  <2>4. F(m - 1) = <<>>
    BY <2>3
  <2>5. F(m) = <<>>
    BY <1>2, <2>2, <2>4, ConcatEmptySeq
  <2> QED BY <2>1, <2>5
<1> QED BY <1>1, <1>3, <1>4

-----------------------------------------------------------------------------
(* Numbers in network byte order.                                          *)

LEMMA NsTyped ==
  ASSUME NEW v \in Word
  PROVE  /\ StoreNs(v) \in Seq(Byte) /\ Len(StoreNs(v)) = 2
         /\ StoreNs(v)[1] * 256 + StoreNs(v)[2] = v
<1>1. (v \div 256) \in 0..255 /\ v % 256 \in 0..255 /\ v = 256 * (v \div 256) + (v % 256)
  BY SMT DEF Word
<1>2. (v \div 256) % 256 = v \div 256
  BY <1>1, SMT
<1> QED BY <1>1, <1>2, SMT DEF StoreNs, Byte

LEMMA TwoAndTwo ==
  ASSUME NEW T, NEW a \in Seq(T), NEW b \in Seq(T), Len(a) = 2, Len(b) = 2
  PROVE  /\ a \o b \in Seq(T) /\ Len(a \o b) = 4
         /\ (a \o b)[1] = a[1] /\ (a \o b)[2] = a[2] /\ (a \o b)[3] = b[1] /\ (a \o b)[4] = b[2]
<1> DEFINE c == a \o b
<1>1. /\ c \in Seq(T) /\ Len(c) = Len(a) + Len(b)
      /\ \A i \in 1..(Len(a) + Len(b)) : c[i] = IF i <= Len(a) THEN a[i] ELSE b[i - Len(a)]
  BY ConcatProperties
<1> HIDE DEF c
<1>2. \A i \in 1..4 : c[i] = IF i <= 2 THEN a[i] ELSE b[i - 2]
  BY <1>1
<1>3. c[1] = a[1] /\ c[2] = a[2] /\ c[3] = b[1] /\ c[4] = b[2]
  BY <1>2
<1> QED BY <1>1, <1>3 DEF c

LEMMA NlTyped ==
  ASSUME NEW v \in Long
  PROVE  /\ StoreNl(v) \in Seq(Byte) /\ Len(StoreNl(v)) = 4
         /\ (StoreNl(v)[1] * 256 + StoreNl(v)[2]) * 65536 + (StoreNl(v)[3] * 256 + StoreNl(v)[4]) = v
<1>1. PICK h \in Int : h = v \div 65536
  BY SMT DEF Long
<1>2. PICK l \in Int : l = v % 65536
  BY SMT DEF Long
<1>3. v = 65536 * h + l /\ l \in Nat /\ l < 65536
  BY <1>1, <1>2, SMT DEF Long
<1>4. h \in Nat /\ h < 65536
  BY <1>1, SMT DEF Long
<1>5. h \in Word /\ l \in Word
  BY <1>3, <1>4, SMT DEF Word
<1>6. PICK a : a = StoreNs(h)
  OBVIOUS
<1>7. PICK b : b = StoreNs(l)
  OBVIOUS
<1>8. a \in Seq(Byte) /\ Len(a) = 2 /\ a[1] * 256 + a[2] = h
  BY <1>5, <1>6, NsTyped
<1>9. b \in Seq(Byte) /\ Len(b) = 2 /\ b[1] * 256 + b[2] = l
  BY <1>5, <1>7, NsTyped
<1>10. StoreNl(v) = a \o b
  BY <1>1, <1>2, <1>6, <1>7, SMT DEF StoreNl
<1>11. /\ a \o b \in Seq(Byte) /\ Len(a \o b) = 4
       /\ (a \o b)[1] = a[1] /\ (a \o b)[2] = a[2] /\ (a \o b)[3] = b[1] /\ (a \o b)[4] = b[2]
  BY <1>8, <1>9, TwoAndTwo
<1>12. (a[1] * 256 + a[2]) * 65536 + (b[1] * 256 + b[2]) = v
  BY <1>3, <1>8, <1>9, SMT
<1> QED BY <1>10, <1>11, <1>12, SMT

-----------------------------------------------------------------------------
(* Net commands as bytes, and back.                                        *)

Start(cmd) == StoreNs(cmd.op) \o StoreNs(Len(cmd.args))
Part(arg)  == StoreNl(Len(arg)) \o arg
Parts(cmd) == [k \in DOMAIN cmd.args |-> Part(cmd.args[k])]

\* Where argument k ends, and the next begins.
End(cmd, k) == 4 + Len(FlattenSeq(SubSeq(Parts(cmd), 1, k)))

LEMMA CommandShape ==
  ASSUME NEW cmd \in Commands
  PROVE  /\ cmd.op \in Word /\ cmd.args \in Seq(Seq(Byte)) /\ Len(cmd.args) \in Word
         /\ \A k \in 1..Len(cmd.args) : cmd.args[k] \in Seq(Byte) /\ Len(cmd.args[k]) \in Long
<1>1. cmd.op \in Word /\ cmd.args \in Seq(Seq(Byte)) /\ Len(cmd.args) \in Word
  BY DEF Commands
<1>2. ASSUME NEW k \in 1..Len(cmd.args) PROVE cmd.args[k] \in Seq(Byte) /\ Len(cmd.args[k]) \in Long
  <2>1. Len(cmd.args[k]) \in Long
    BY DEF Commands
  <2>2. cmd.args[k] \in Seq(Byte)
    BY <1>1
  <2> QED BY <2>1, <2>2
<1> QED BY <1>1, <1>2

LEMMA StartShape ==
  ASSUME NEW cmd \in Commands
  PROVE  LET s == Start(cmd)
         IN  /\ s \in Seq(Byte) /\ Len(s) = 4
             /\ ReadNs(s, 0) = cmd.op /\ ReadNs(s, 2) = Len(cmd.args)
<1>1. cmd.op \in Word /\ Len(cmd.args) \in Word
  BY CommandShape
<1>2. PICK a : a = StoreNs(cmd.op)
  OBVIOUS
<1>3. PICK b : b = StoreNs(Len(cmd.args))
  OBVIOUS
<1>4. a \in Seq(Byte) /\ Len(a) = 2 /\ a[1] * 256 + a[2] = cmd.op
  BY <1>1, <1>2, NsTyped
<1>5. b \in Seq(Byte) /\ Len(b) = 2 /\ b[1] * 256 + b[2] = Len(cmd.args)
  BY <1>1, <1>3, NsTyped
<1>6. PICK s : s = a \o b
  OBVIOUS
<1>7. /\ s \in Seq(Byte) /\ Len(s) = 4
      /\ s[1] = a[1] /\ s[2] = a[2] /\ s[3] = b[1] /\ s[4] = b[2]
  BY <1>4, <1>5, <1>6, TwoAndTwo
<1>8. Start(cmd) = s
  BY <1>2, <1>3, <1>6 DEF Start
<1>9. ReadNs(s, 0) = cmd.op /\ ReadNs(s, 2) = Len(cmd.args)
  BY <1>4, <1>5, <1>7, SMT DEF ReadNs
<1> QED BY <1>7, <1>8, <1>9

LEMMA PartShape ==
  ASSUME NEW arg \in Seq(Byte), Len(arg) \in Long
  PROVE  LET p == Part(arg)
         IN  /\ p \in Seq(Byte) /\ Len(p) = 4 + Len(arg)
             /\ ReadNl(p, 0) = Len(arg)
             /\ \A i \in 1..Len(arg) : p[4 + i] = arg[i]
<1>1. PICK a : a = StoreNl(Len(arg))
  OBVIOUS
<1>2. a \in Seq(Byte) /\ Len(a) = 4 /\ (a[1] * 256 + a[2]) * 65536 + (a[3] * 256 + a[4]) = Len(arg)
  BY <1>1, NlTyped, SMT
<1>3. PICK p : p = a \o arg
  OBVIOUS
<1>4. /\ p \in Seq(Byte) /\ Len(p) = Len(a) + Len(arg)
      /\ \A i \in 1..(Len(a) + Len(arg)) : p[i] = IF i <= Len(a) THEN a[i] ELSE arg[i - Len(a)]
  <2>1. a \in Seq(Byte)
    BY <1>2, SMT
  <2>2. /\ a \o arg \in Seq(Byte) /\ Len(a \o arg) = Len(a) + Len(arg)
        /\ \A i \in 1..(Len(a) + Len(arg)) : (a \o arg)[i] = IF i <= Len(a) THEN a[i] ELSE arg[i - Len(a)]
    BY <2>1, ConcatProperties
  <2> QED BY <1>3, <2>2
<1>5. Len(a) = 4 /\ Len(arg) \in Nat
  BY <1>2, SMT
<1>6. p[1] = a[1] /\ p[2] = a[2] /\ p[3] = a[3] /\ p[4] = a[4]
  BY <1>4, <1>5
<1>7. ASSUME NEW i \in 1..Len(arg) PROVE p[4 + i] = arg[i]
  <2>1. 4 + i \in 1..(4 + Len(arg)) /\ ~(4 + i <= 4) /\ (4 + i) - 4 = i
    BY <1>5
  <2> QED BY <1>4, <1>5, <2>1
<1>8. Part(arg) = p
  BY <1>1, <1>3 DEF Part
<1>9. ReadNl(p, 0) = Len(arg)
  BY <1>2, <1>6, SMT DEF ReadNs, ReadNl
<1>10. Len(p) = 4 + Len(arg)
  BY <1>4, <1>5
<1> QED BY <1>4, <1>7, <1>8, <1>9, <1>10

LEMMA PartsShape ==
  ASSUME NEW cmd \in Commands
  PROVE  /\ Parts(cmd) \in Seq(Seq(Byte)) /\ Len(Parts(cmd)) = Len(cmd.args)
         /\ \A k \in 1..Len(cmd.args) : Parts(cmd)[k] = Part(cmd.args[k])
         /\ FlattenSeq(Parts(cmd)) \in Seq(Byte)
         /\ Encode(cmd) = Start(cmd) \o FlattenSeq(Parts(cmd))
         /\ Encode(cmd) \in Seq(Byte)
<1>1. /\ DOMAIN cmd.args = 1..Len(cmd.args) /\ Len(cmd.args) \in Nat
      /\ \A k \in 1..Len(cmd.args) : cmd.args[k] \in Seq(Byte) /\ Len(cmd.args[k]) \in Long
  <2>1. cmd.args \in Seq(Seq(Byte))
    BY CommandShape
  <2>2. DOMAIN cmd.args = 1..Len(cmd.args) /\ Len(cmd.args) \in Nat
    BY <2>1, LenProperties
  <2> QED BY <2>2, CommandShape
<1>2. ASSUME NEW k \in 1..Len(cmd.args) PROVE Part(cmd.args[k]) \in Seq(Byte)
  BY <1>1, PartShape
<1>3. Parts(cmd) = [k \in 1..Len(cmd.args) |-> Part(cmd.args[k])]
  BY <1>1 DEF Parts
<1>4. Parts(cmd) \in Seq(Seq(Byte)) /\ Len(Parts(cmd)) = Len(cmd.args)
  BY <1>1, <1>2, <1>3
<1>5. FlattenSeq(Parts(cmd)) \in Seq(Byte)
  BY <1>4, FlattenType
<1>6. Encode(cmd) = Start(cmd) \o FlattenSeq(Parts(cmd))
  BY DEF Encode, Start, Parts, Part
<1>7. Start(cmd) \in Seq(Byte)
  BY StartShape
<1>8. Start(cmd) \o FlattenSeq(Parts(cmd)) \in Seq(Byte)
  BY <1>5, <1>7
<1> QED BY <1>1, <1>3, <1>4, <1>5, <1>6, <1>8

(* The bytes of a command: its start, and argument after argument.         *)
LEMMA EncodeStart ==
  ASSUME NEW cmd \in Commands
  PROVE  /\ Len(Encode(cmd)) \in Nat /\ Len(Encode(cmd)) >= 4
         /\ Len(Encode(cmd)) = End(cmd, Len(cmd.args)) /\ End(cmd, 0) = 4
         /\ \A i \in 1..4 : Encode(cmd)[i] = Start(cmd)[i]
<1>1. PICK s : s = Start(cmd)
  OBVIOUS
<1>2. PICK f : f = FlattenSeq(Parts(cmd))
  OBVIOUS
<1>3. s \in Seq(Byte) /\ Len(s) = 4 /\ f \in Seq(Byte) /\ Encode(cmd) = s \o f
  BY <1>1, <1>2, StartShape, PartsShape
<1>4. /\ Len(s \o f) = Len(s) + Len(f)
      /\ \A i \in 1..(Len(s) + Len(f)) : (s \o f)[i] = IF i <= Len(s) THEN s[i] ELSE f[i - Len(s)]
  BY <1>3, ConcatProperties
<1>5. Len(f) \in Nat /\ Len(Encode(cmd)) = 4 + Len(f)
  BY <1>3, <1>4
<1>6. ASSUME NEW i \in 1..4 PROVE Encode(cmd)[i] = s[i]
  BY <1>3, <1>4, <1>5
<1>7. End(cmd, Len(cmd.args)) = 4 + Len(f)
  <2>1. SubSeq(Parts(cmd), 1, Len(cmd.args)) = Parts(cmd)
    BY PartsShape, SubSeqFull
  <2> QED BY <1>2, <2>1 DEF End
<1>8. End(cmd, 0) = 4
  <2>1. SubSeq(Parts(cmd), 1, 0) = <<>> /\ Len(<<>>) = 0
    BY SubSeqEmpty
  <2>2. FlattenSeq(SubSeq(Parts(cmd), 1, 0)) = <<>>
    BY <2>1, FlattenNone
  <2> QED BY <2>1, <2>2 DEF End
<1> QED BY <1>1, <1>5, <1>6, <1>7, <1>8

LEMMA Join ==
  ASSUME NEW T, NEW s \in Seq(T), NEW t \in Seq(T)
  PROVE  /\ s \o t \in Seq(T) /\ Len(s \o t) = Len(s) + Len(t) /\ Len(s) \in Nat /\ Len(t) \in Nat
         /\ \A i \in 1..Len(s) : (s \o t)[i] = s[i]
         /\ \A i \in 1..Len(t) : (s \o t)[Len(s) + i] = t[i]
OBVIOUS

LEMMA InTheMiddle ==
  ASSUME NEW T, NEW s \in Seq(T), NEW l \in Seq(T), NEW x \in Seq(T), NEW r \in Seq(T)
  PROVE  LET all == s \o ((l \o x) \o r)
         IN  /\ Len(l) \in Nat /\ Len(r) \in Nat /\ Len(x) \in Nat /\ Len(l \o x) = Len(l) + Len(x)
             /\ Len(all) = ((Len(s) + Len(l)) + Len(x)) + Len(r)
             /\ \A i \in 1..Len(x) : all[(Len(s) + Len(l)) + i] = x[i]
<1>1. PICK a \in Seq(T) : a = l \o x
  BY Join
<1>2. Len(a) = Len(l) + Len(x) /\ \A i \in 1..Len(x) : a[Len(l) + i] = x[i]
  BY <1>1, Join
<1>3. PICK b \in Seq(T) : b = a \o r
  BY Join
<1>4. Len(b) = Len(a) + Len(r) /\ \A i \in 1..Len(a) : b[i] = a[i]
  BY <1>3, Join
<1>5. PICK c \in Seq(T) : c = s \o b
  BY Join
<1>6. Len(c) = Len(s) + Len(b) /\ \A i \in 1..Len(b) : c[Len(s) + i] = b[i]
  BY <1>5, Join
<1>7. Len(s) \in Nat /\ Len(l) \in Nat /\ Len(x) \in Nat /\ Len(r) \in Nat
  OBVIOUS
<1>8. ASSUME NEW i \in 1..Len(x) PROVE c[(Len(s) + Len(l)) + i] = x[i]
  <2>1. /\ Len(l) + i \in 1..Len(a) /\ Len(l) + i \in 1..Len(b)
        /\ (Len(s) + Len(l)) + i = Len(s) + (Len(l) + i)
    BY <1>2, <1>4, <1>7
  <2> QED BY <1>2, <1>4, <1>6, <2>1
<1>9. Len(c) = ((Len(s) + Len(l)) + Len(x)) + Len(r)
  BY <1>2, <1>4, <1>6, <1>7
<1>10. c = s \o ((l \o x) \o r)
  BY <1>1, <1>3, <1>5
<1> QED BY <1>1, <1>2, <1>7, <1>8, <1>9, <1>10

LEMMA EncodeArg ==
  ASSUME NEW cmd \in Commands, NEW k \in 1..Len(cmd.args)
  PROVE  LET o == End(cmd, k - 1)
             n == Len(cmd.args[k])
         IN  /\ o \in Nat /\ o >= 4 /\ n \in Nat /\ End(cmd, k) = o + 4 + n
             /\ End(cmd, k) <= Len(Encode(cmd))
             /\ \A i \in 1..(4 + n) : Encode(cmd)[o + i] = Part(cmd.args[k])[i]
<1>1. PICK s : s = Start(cmd)
  OBVIOUS
<1>2. PICK ps : ps = Parts(cmd)
  OBVIOUS
<1>3. /\ s \in Seq(Byte) /\ Len(s) = 4 /\ ps \in Seq(Seq(Byte)) /\ Len(ps) = Len(cmd.args)
      /\ Encode(cmd) = s \o FlattenSeq(ps) /\ ps[k] = Part(cmd.args[k])
      /\ cmd.args[k] \in Seq(Byte) /\ Len(cmd.args[k]) \in Long
  BY <1>1, <1>2, StartShape, PartsShape, CommandShape
<1>4. k \in 1..Len(ps)
  BY <1>3
<1>5. PICK l : l = FlattenSeq(SubSeq(ps, 1, k - 1))
  OBVIOUS
<1>6. PICK x : x = ps[k]
  OBVIOUS
<1>7. PICK r : r = FlattenSeq(SubSeq(ps, k + 1, Len(ps)))
  OBVIOUS
<1>8. /\ FlattenSeq(ps) = (l \o x) \o r /\ FlattenSeq(SubSeq(ps, 1, k)) = l \o x
      /\ l \in Seq(Byte) /\ x \in Seq(Byte) /\ r \in Seq(Byte)
  BY <1>3, <1>4, <1>5, <1>6, <1>7, FlattenAt
<1>9. Len(x) = 4 + Len(cmd.args[k]) /\ Len(cmd.args[k]) \in Nat
  BY <1>3, <1>6, PartShape
<1>10. /\ Len(l) \in Nat /\ Len(r) \in Nat /\ Len(x) \in Nat /\ Len(l \o x) = Len(l) + Len(x)
       /\ Len(s \o ((l \o x) \o r)) = ((Len(s) + Len(l)) + Len(x)) + Len(r)
       /\ \A i \in 1..Len(x) : (s \o ((l \o x) \o r))[(Len(s) + Len(l)) + i] = x[i]
  <2>1. s \in Seq(Byte) /\ l \in Seq(Byte) /\ x \in Seq(Byte) /\ r \in Seq(Byte)
    BY <1>3, <1>8
  <2> QED BY <2>1, InTheMiddle
<1>11. Len(s) = 4
  BY <1>3
<1>12. End(cmd, k - 1) = 4 + Len(l) /\ End(cmd, k) = 4 + Len(l \o x)
  BY <1>2, <1>5, <1>8 DEF End
<1>13. Encode(cmd) = s \o ((l \o x) \o r)
  BY <1>3, <1>8
<1>14. /\ End(cmd, k - 1) \in Nat /\ End(cmd, k - 1) >= 4 /\ End(cmd, k) = End(cmd, k - 1) + 4 + Len(cmd.args[k])
       /\ End(cmd, k) <= Len(Encode(cmd))
  <2>1. Len(Encode(cmd)) = ((4 + Len(l)) + Len(x)) + Len(r)
    BY <1>10, <1>11, <1>13
  <2>2. End(cmd, k) = 4 + (Len(l) + Len(x)) /\ End(cmd, k - 1) = 4 + Len(l)
    BY <1>10, <1>12
  <2>3. Len(l) \in Nat /\ Len(r) \in Nat
    BY <1>10
  <2>4. ASSUME NEW a \in Nat, NEW n \in Nat, NEW c \in Nat, NEW o, NEW e, NEW all,
               o = 4 + a, e = 4 + (a + (4 + n)), all = ((4 + a) + (4 + n)) + c
        PROVE  o \in Nat /\ o >= 4 /\ e = o + 4 + n /\ e <= all
    BY <2>4
  <2>5. Len(Encode(cmd)) = ((4 + Len(l)) + (4 + Len(cmd.args[k]))) + Len(r)
    BY <1>9, <2>1
  <2>6. End(cmd, k) = 4 + (Len(l) + (4 + Len(cmd.args[k])))
    BY <1>9, <2>2
  <2>7. PICK a \in Nat : a = Len(l)
    BY <2>3
  <2>8. PICK c \in Nat : c = Len(r)
    BY <2>3
  <2>9. PICK n \in Nat : n = Len(cmd.args[k])
    BY <1>9
  <2>10. PICK o : o = End(cmd, k - 1)
    OBVIOUS
  <2>11. PICK e : e = End(cmd, k)
    OBVIOUS
  <2>12. PICK all : all = Len(Encode(cmd))
    OBVIOUS
  <2>13. o = 4 + a
    BY <2>2, <2>7, <2>10
  <2>14. e = 4 + (a + (4 + n))
    BY <2>6, <2>7, <2>9, <2>11
  <2>15. all = ((4 + a) + (4 + n)) + c
    BY <2>5, <2>7, <2>8, <2>9, <2>12
  <2>16. o \in Nat /\ o >= 4 /\ e = o + 4 + n /\ e <= all
    BY <2>4, <2>13, <2>14, <2>15
  <2> QED BY <2>9, <2>10, <2>11, <2>12, <2>16
<1>15. ASSUME NEW i \in 1..(4 + Len(cmd.args[k]))
       PROVE  Encode(cmd)[End(cmd, k - 1) + i] = Part(cmd.args[k])[i]
  BY <1>3, <1>6, <1>9, <1>10, <1>11, <1>12, <1>13
<1> QED BY <1>9, <1>14, <1>15

SameFour(buf, o, p) == \A i \in 1..4 : buf[o + i] = p[i]

LEMMA SameNumber ==
  ASSUME NEW buf, NEW o \in Nat, NEW p, SameFour(buf, o, p)
  PROVE  ReadNl(buf, o) = ReadNl(p, 0)
<1>1. buf[o + 1] = p[1] /\ buf[o + 2] = p[2] /\ buf[o + 3] = p[3] /\ buf[o + 4] = p[4]
  BY DEF SameFour
<1>2. ReadNs(buf, o) = ReadNs(p, 0)
  BY <1>1 DEF ReadNs
<1>3. (o + 2) + 1 = o + 3 /\ (o + 2) + 2 = o + 4 /\ 0 + 2 = 2
  OBVIOUS
<1>4. ReadNs(buf, o + 2) = ReadNs(p, 0 + 2)
  BY <1>1, <1>3 DEF ReadNs
<1> QED BY <1>2, <1>4, SMT DEF ReadNl

(* A buffer that holds the beginning of a command, or more than all of it. *)
Begins(buf, cmd) == \A i \in 1..Len(buf) : i <= Len(Encode(cmd)) => buf[i] = Encode(cmd)[i]

LEMMA ReadArgLength ==
  ASSUME NEW cmd \in Commands, NEW buf \in Seq(Byte), Begins(buf, cmd),
         NEW k \in 1..Len(cmd.args), NEW o, o = End(cmd, k - 1), Len(buf) >= o + 4
  PROVE  ReadNl(buf, o) = Len(cmd.args[k])
<1>1. PICK n : n = Len(cmd.args[k])
  OBVIOUS
<1>2. /\ o \in Nat /\ n \in Nat /\ End(cmd, k) = o + 4 + n
      /\ End(cmd, k) <= Len(Encode(cmd)) /\ Len(Encode(cmd)) \in Nat
      /\ \A i \in 1..(4 + n) : Encode(cmd)[o + i] = Part(cmd.args[k])[i]
  BY <1>1, EncodeArg, EncodeStart
<1>3. Len(buf) \in Nat
  OBVIOUS
<1>4. ASSUME NEW i \in 1..4 PROVE buf[o + i] = Part(cmd.args[k])[i]
  <2>1. o + i \in 1..Len(buf) /\ i \in 1..(4 + n)
    BY <1>2, <1>3
  <2>2. o + i <= Len(Encode(cmd))
    BY <1>2, <1>3
  <2> QED BY <1>2, <2>1, <2>2 DEF Begins
<1>5. ReadNl(buf, o) = ReadNl(Part(cmd.args[k]), 0)
  <2>1. PICK p : p = Part(cmd.args[k])
    OBVIOUS
  <2>2. o \in Nat /\ SameFour(buf, o, p)
    BY <1>2, <1>4, <2>1 DEF SameFour
  <2>3. ReadNl(buf, o) = ReadNl(p, 0)
    BY <2>2, SameNumber, Zenon
  <2> QED BY <2>1, <2>3
<1>6. ReadNl(Part(cmd.args[k]), 0) = Len(cmd.args[k])
  BY CommandShape, PartShape
<1> QED BY <1>5, <1>6

LEMMA ArgEndIs ==
  ASSUME NEW cmd \in Commands, NEW buf \in Seq(Byte), Begins(buf, cmd),
         NEW k \in 1..Len(cmd.args), NEW o, o = End(cmd, k - 1), NEW e, e = End(cmd, k)
  PROVE  /\ o <= Len(buf) => ArgEnd(buf, o) = IF e <= Len(buf) THEN e ELSE 0
         /\ ArgEnd(buf, 0) = 0
         /\ o \in Nat /\ e \in Nat /\ o < e
<1>1. PICK n : n = Len(cmd.args[k])
  OBVIOUS
<1>2. o \in Nat /\ o >= 4 /\ n \in Nat /\ e = o + 4 + n /\ Len(buf) \in Nat
  BY <1>1, EncodeArg
<1>3. Len(buf) >= o + 4 => ReadNl(buf, o) = n
  BY <1>1, ReadArgLength
<1>4. ArgEnd(buf, 0) = 0
  BY DEF ArgEnd
<1>5. CASE Len(buf) >= o + 4
  <2>1. ArgEnd(buf, o) = IF Len(buf) >= o + n + 4 THEN o + n + 4 ELSE 0
    BY <1>2, <1>3, <1>5 DEF ArgEnd
  <2>2. o + n + 4 = e
    BY <1>2
  <2> QED BY <1>2, <1>4, <2>1, <2>2
<1>6. CASE ~(Len(buf) >= o + 4)
  <2>1. ArgEnd(buf, o) = 0
    BY <1>6 DEF ArgEnd
  <2>2. ~(e <= Len(buf))
    BY <1>2, <1>6
  <2> QED BY <1>2, <1>4, <2>1, <2>2
<1> QED BY <1>5, <1>6

Walk(g, buf, n) ==
  g = [k \in 0..n |-> IF k = 0 THEN 4 ELSE [p \in 0..Len(buf) |-> ArgEnd(buf, p)][g[k - 1]]]

LEMMA ArgStartIs ==
  ASSUME NEW buf, NEW n \in Nat, NEW h, Walk(h, buf, n)
  PROVE  ArgStart(buf, n) = h[n]
<1> DEFINE g == CHOOSE g : Walk(g, buf, n)
<1>1. Walk(g, buf, n)
  OBVIOUS
<1>2. ArgStart(buf, n) = g[n]
  BY DEF ArgStart, Walk
<1> HIDE DEF g
<1> DEFINE Bad == {j \in Nat : j \in 0..n /\ g[j] # h[j]}
<1>3. ASSUME Bad # {} PROVE FALSE
  <2>1. PICK j \in Bad : \A i \in Bad : j <= i
    BY <1>3, LeastNatural
  <2> DEFINE next == [p \in 0..Len(buf) |-> ArgEnd(buf, p)]
  <2>2. /\ g[j] = IF j = 0 THEN 4 ELSE next[g[j - 1]]
        /\ h[j] = IF j = 0 THEN 4 ELSE next[h[j - 1]]
    BY <1>1, <2>1 DEF Walk
  <2> HIDE DEF next
  <2>3. j # 0 => j - 1 \in 0..n /\ j - 1 \in Nat /\ ~(j <= j - 1)
    BY <2>1
  <2>4. j # 0 => j - 1 \notin Bad
    BY <2>1, <2>3
  <2>5. j # 0 => g[j - 1] = h[j - 1]
    BY <2>3, <2>4
  <2> QED BY <2>1, <2>2, <2>5
<1> QED BY <1>2, <1>3

LEMMA ArgStartFound ==
  ASSUME NEW cmd \in Commands, NEW buf \in Seq(Byte), Begins(buf, cmd), Len(buf) >= 4,
         NEW n \in 0..Len(cmd.args)
  PROVE  ArgStart(buf, n) = IF End(cmd, n) <= Len(buf) THEN End(cmd, n) ELSE 0
<1> DEFINE h == [k \in 0..n |-> IF End(cmd, k) <= Len(buf) THEN End(cmd, k) ELSE 0]
           next == [p \in 0..Len(buf) |-> ArgEnd(buf, p)]
<1>1. Len(buf) \in Nat /\ n \in Nat /\ Len(cmd.args) \in Nat
  BY CommandShape
<1>2. h[0] = 4 /\ \A k \in 0..n : h[k] = IF End(cmd, k) <= Len(buf) THEN End(cmd, k) ELSE 0
  BY <1>1, EncodeStart
<1>3. h = [k \in 0..n |-> h[k]]
  OBVIOUS
<1>4. next[0] = ArgEnd(buf, 0) /\ \A p \in 0..Len(buf) : next[p] = ArgEnd(buf, p)
  BY <1>1
<1> HIDE DEF h, next
<1>5. ASSUME NEW k \in 0..n PROVE h[k] = IF k = 0 THEN 4 ELSE next[h[k - 1]]
  <2>1. CASE k = 0
    BY <1>2, <2>1
  <2>2. CASE k # 0
    <3>1. k \in 1..Len(cmd.args) /\ k - 1 \in 0..n
      BY <1>1, <2>2
    <3>2. PICK o : o = End(cmd, k - 1)
      OBVIOUS
    <3>3. PICK e : e = End(cmd, k)
      OBVIOUS
    <3>4. /\ o <= Len(buf) => ArgEnd(buf, o) = IF e <= Len(buf) THEN e ELSE 0
          /\ ArgEnd(buf, 0) = 0 /\ o \in Nat /\ e \in Nat /\ o < e
      BY <3>1, <3>2, <3>3, ArgEndIs
    <3>5. /\ h[k] = IF e <= Len(buf) THEN e ELSE 0
          /\ h[k - 1] = IF o <= Len(buf) THEN o ELSE 0
      BY <1>2, <3>1, <3>2, <3>3
    <3>6. CASE o <= Len(buf)
      BY <1>4, <2>2, <3>4, <3>5, <3>6
    <3>7. CASE ~(o <= Len(buf))
      <4>1. ~(e <= Len(buf))
        BY <1>1, <3>4, <3>7
      <4> QED BY <1>4, <2>2, <3>4, <3>5, <3>7, <4>1
    <3> QED BY <3>6, <3>7
  <2> QED BY <2>1, <2>2
<1>6. Walk(h, buf, n)
  BY <1>3, <1>5 DEF Walk, next
<1>7. ArgStart(buf, n) = h[n]
  BY <1>1, <1>6, ArgStartIs
<1> QED BY <1>1, <1>2, <1>7

LEMMA StartFound ==
  ASSUME NEW cmd \in Commands, NEW buf \in Seq(Byte), Begins(buf, cmd), Len(buf) >= 4
  PROVE  NcmdGet(buf) = cmd.op /\ NcmdGetNumArgs(buf) = Len(cmd.args)
<1>1. PICK s : s = Start(cmd)
  OBVIOUS
<1>2. ASSUME NEW i \in 1..4 PROVE buf[i] = s[i]
  <2>1. i \in 1..Len(buf) /\ i <= Len(Encode(cmd)) /\ Encode(cmd)[i] = s[i]
    BY <1>1, EncodeStart
  <2> QED BY <2>1 DEF Begins
<1>3. buf[1] = s[1] /\ buf[2] = s[2] /\ buf[3] = s[3] /\ buf[4] = s[4]
  BY <1>2
<1>4. ReadNs(buf, 0) = ReadNs(s, 0) /\ ReadNs(buf, 2) = ReadNs(s, 2)
  BY <1>3 DEF ReadNs
<1>5. ReadNs(s, 0) = cmd.op /\ ReadNs(s, 2) = Len(cmd.args)
  BY <1>1, StartShape
<1> QED BY <1>4, <1>5 DEF NcmdGet, NcmdGetNumArgs

(* A command is found whole exactly when its last byte is there.           *)
LEMMA FrameFound ==
  ASSUME NEW cmd \in Commands, NEW buf \in Seq(Byte), Begins(buf, cmd)
  PROVE  NcmdIsComplete(buf) = IF Len(buf) >= Len(Encode(cmd)) THEN Len(Encode(cmd)) ELSE 0
<1>1. PICK e : e = Len(Encode(cmd))
  OBVIOUS
<1>2. e \in Nat /\ e >= 4 /\ e = End(cmd, Len(cmd.args)) /\ Len(buf) \in Nat
  BY <1>1, EncodeStart
<1>3. CASE Len(buf) < 4
  BY <1>1, <1>2, <1>3 DEF NcmdIsComplete
<1>4. CASE Len(buf) >= 4
  <2>1. NcmdGetNumArgs(buf) = Len(cmd.args)
    BY <1>4, StartFound
  <2>2. NcmdIsComplete(buf) = ArgStart(buf, Len(cmd.args))
    BY <1>2, <1>4, <2>1 DEF NcmdIsComplete
  <2>3. Len(cmd.args) \in 0..Len(cmd.args)
    BY CommandShape
  <2>4. ArgStart(buf, Len(cmd.args)) = IF e <= Len(buf) THEN e ELSE 0
    BY <1>2, <1>4, <2>3, ArgStartFound
  <2> QED BY <1>1, <1>2, <2>2, <2>4
<1> QED BY <1>2, <1>3, <1>4

(* A whole command is read as it was written.                              *)
LEMMA DecodeFound ==
  ASSUME NEW cmd \in Commands, NEW buf \in Seq(Byte), Begins(buf, cmd), Len(buf) >= Len(Encode(cmd))
  PROVE  Decode(buf) = cmd /\ NcmdGetNumArgs(buf) = Len(cmd.args)
<1>1. Len(buf) >= 4 /\ Len(buf) \in Nat /\ Len(Encode(cmd)) \in Nat
  BY EncodeStart
<1>2. NcmdGet(buf) = cmd.op /\ NcmdGetNumArgs(buf) = Len(cmd.args)
  BY <1>1, StartFound
<1>3. ASSUME NEW k \in 1..Len(cmd.args) PROVE NcmdGetArg(buf, k - 1) = cmd.args[k]
  <2>1. PICK arg : arg = cmd.args[k]
    OBVIOUS
  <2>2. PICK o : o = End(cmd, k - 1)
    OBVIOUS
  <2>3. PICK n : n = Len(arg)
    OBVIOUS
  <2>4. PICK e : e = End(cmd, k)
    OBVIOUS
  <2>5. /\ o \in Nat /\ o >= 4 /\ n \in Nat /\ e = o + 4 + n /\ e <= Len(Encode(cmd))
        /\ \A i \in 1..(4 + n) : Encode(cmd)[o + i] = Part(arg)[i]
    BY <2>1, <2>2, <2>3, <2>4, EncodeArg
  <2>6. e <= Len(buf)
    BY <1>1, <2>5
  <2>7. Len(buf) >= o + 4 /\ o <= Len(buf)
    BY <1>1, <2>5, <2>6
  <2>8. ArgStart(buf, k - 1) = o
    <3>1. k - 1 \in 0..Len(cmd.args)
      BY CommandShape
    <3> QED BY <1>1, <2>2, <2>7, <3>1, ArgStartFound
  <2>9. ReadNl(buf, o) = n
    BY <2>1, <2>2, <2>3, <2>7, ReadArgLength
  <2>10. NcmdGetArg(buf, k - 1) = SubSeq(buf, o + 5, o + 4 + n)
    BY <2>8, <2>9 DEF NcmdGetArg
  <2>11. arg \in Seq(Byte) /\ n \in Long
    BY <2>1, <2>3, CommandShape
  <2>12. \A i \in 1..n : Part(arg)[4 + i] = arg[i]
    BY <2>3, <2>11, PartShape
  <2>13. PICK sub : sub = SubSeq(buf, o + 5, o + 4 + n)
    OBVIOUS
  <2>14. sub \in Seq(Byte) /\ Len(sub) = n /\ \A i \in 1..n : sub[i] = buf[o + 4 + i]
    <3>1. \A i \in (o + 5)..(o + 4 + n) : i \in 1..Len(buf)
      BY <1>1, <2>5, <2>6
    <3>2. \A i \in (o + 5)..(o + 4 + n) : buf[i] \in Byte
      BY <3>1, ElementOfSeq
    <3>3. o + 5 \in Int /\ o + 4 + n \in Int
      BY <2>5
    <3>4. /\ sub \in Seq(Byte)
          /\ Len(sub) = IF o + 5 <= o + 4 + n THEN (o + 4 + n) - (o + 5) + 1 ELSE 0
          /\ \A i \in 1..((o + 4 + n) - (o + 5) + 1) : sub[i] = buf[(o + 5) + i - 1]
      BY <2>13, <3>2, <3>3, SubSeqProperties
    <3>5. (o + 4 + n) - (o + 5) + 1 = n /\ \A i \in 1..n : (o + 5) + i - 1 = o + 4 + i
      BY <2>5
    <3> QED BY <2>5, <3>4, <3>5
  <2>15. ASSUME NEW i \in 1..n PROVE sub[i] = arg[i]
    <3>1. /\ o + 4 + i \in 1..Len(buf) /\ o + 4 + i <= Len(Encode(cmd)) /\ 4 + i \in 1..(4 + n)
          /\ o + (4 + i) = o + 4 + i
      <4>1. i \in Nat /\ 1 <= i /\ i <= n
        BY <2>5
      <4>2. o + 4 + i \in Nat /\ 1 <= o + 4 + i /\ o + 4 + i <= e
        BY <2>5, <4>1
      <4>3. o + 4 + i <= Len(buf) /\ o + 4 + i <= Len(Encode(cmd))
        <5>1. e \in Nat
          BY <2>5
        <5> QED BY <1>1, <2>5, <2>6, <4>2, <5>1
      <4>4. 4 + i \in 1..(4 + n) /\ o + (4 + i) = o + 4 + i
        BY <2>5, <4>1
      <4> QED BY <1>1, <4>2, <4>3, <4>4
    <3>2. buf[o + 4 + i] = Encode(cmd)[o + 4 + i]
      BY <3>1 DEF Begins
    <3> QED BY <2>5, <2>12, <2>14, <3>1, <3>2
  <2>16. sub = arg
    BY <2>3, <2>11, <2>14, <2>15, SamePieces
  <2> QED BY <2>1, <2>10, <2>13, <2>16
<1>4. cmd.args = [k \in 1..Len(cmd.args) |-> cmd.args[k]]
  <2>1. PICK q : q = cmd.args
    OBVIOUS
  <2>2. q \in Seq(Seq(Byte))
    BY <2>1, CommandShape
  <2>3. q \in [1..Len(q) -> Seq(Byte)]
    BY <2>2, LenProperties
  <2>4. q = [k \in 1..Len(q) |-> q[k]]
    BY <2>3
  <2> QED BY <2>1, <2>4
<1>5. [k \in 1..Len(cmd.args) |-> NcmdGetArg(buf, k - 1)] = cmd.args
  BY <1>3, <1>4
<1>6. Decode(buf) = Command(cmd.op, cmd.args)
  BY <1>2, <1>5 DEF Decode
<1>7. cmd = Command(cmd.op, cmd.args)
  BY DEF Commands, Command
<1> QED BY <1>2, <1>6, <1>7

(* What a receiver does with a buffer that is the beginning of the stream: *)
(* it waits, or takes the first command and leaves the rest as it was.     *)
Takes(buf, cmd, more, rest) ==
  /\ NcmdIsComplete(buf) = IF Len(buf) >= Len(Encode(cmd)) THEN Len(Encode(cmd)) ELSE 0
  /\ NcmdIsComplete(buf) > 0 <=> Len(buf) >= Len(Encode(cmd))
  /\ NcmdIsComplete(buf) > 0 =>
       /\ Decode(buf) = cmd /\ NcmdGetNumArgs(buf) = Len(cmd.args)
       /\ NcmdRemove(buf) \in Seq(Byte) /\ NcmdRemove(buf) \o more = rest

LEMMA FirstOfStream ==
  ASSUME NEW cmd \in Commands, NEW buf \in Seq(Byte), NEW more \in Seq(Byte), NEW rest \in Seq(Byte),
         buf \o more = Encode(cmd) \o rest
  PROVE  Takes(buf, cmd, more, rest)
<1>1. PICK c : c = Encode(cmd)
  OBVIOUS
<1>2. c \in Seq(Byte) /\ Len(c) \in Nat /\ Len(c) >= 4 /\ Len(buf) \in Nat
  BY <1>1, PartsShape, EncodeStart
<1>3. PICK all : all = buf \o more
  OBVIOUS
<1>4. all = c \o rest /\ \A i \in 1..Len(buf) : all[i] = buf[i]
  BY <1>1, <1>3, Join
<1>5. \A i \in 1..Len(c) : all[i] = c[i]
  BY <1>2, <1>4, Join
<1>6. Begins(buf, cmd)
  <2>1. ASSUME NEW i \in 1..Len(buf), i <= Len(c) PROVE buf[i] = c[i]
    <3>1. i \in 1..Len(c)
      BY <1>2, <2>1
    <3> QED BY <1>4, <1>5, <3>1
  <2> QED BY <1>1, <2>1 DEF Begins
<1>7. NcmdIsComplete(buf) = IF Len(buf) >= Len(c) THEN Len(c) ELSE 0
  BY <1>1, <1>6, FrameFound
<1>8. NcmdIsComplete(buf) > 0 <=> Len(buf) >= Len(c)
  BY <1>2, <1>7
<1>9. ASSUME Len(buf) >= Len(c)
      PROVE  /\ Decode(buf) = cmd /\ NcmdGetNumArgs(buf) = Len(cmd.args)
             /\ NcmdRemove(buf) \in Seq(Byte) /\ NcmdRemove(buf) \o more = rest
  <2>1. Decode(buf) = cmd /\ NcmdGetNumArgs(buf) = Len(cmd.args)
    BY <1>1, <1>6, <1>9, DecodeFound
  <2>2. PICK r : r = SubSeq(buf, Len(c) + 1, Len(buf))
    OBVIOUS
  <2>3. r \in Seq(Byte)
    BY <1>2, <2>2
  <2>4. NcmdRemove(buf) = r
    BY <1>7, <1>9, <2>2 DEF NcmdRemove
  <2>5. buf = c \o r
    <3>1. PICK l : l = SubSeq(buf, 1, Len(c))
      OBVIOUS
    <3>2. l \o r = buf
      <4>1. 1 \in 1..(Len(buf) + 1) /\ Len(c) \in (1 - 1)..Len(buf) /\ Len(buf) \in Len(c)..Len(buf)
        BY <1>2, <1>9
      <4>2. SubSeq(buf, 1, Len(c)) \o SubSeq(buf, Len(c) + 1, Len(buf)) = SubSeq(buf, 1, Len(buf))
        BY <4>1, ConcatAdjacentSubSeq
      <4> QED BY <2>2, <3>1, <4>2, SubSeqFull
    <3>3. l \in Seq(Byte) /\ Len(l) = Len(c) /\ \A i \in 1..Len(c) : l[i] = buf[i]
      BY <1>2, <1>9, <3>1
    <3>4. \A i \in 1..Len(c) : l[i] = c[i]
      BY <1>2, <1>4, <1>5, <1>9, <3>3
    <3>5. l = c
      BY <1>2, <3>3, <3>4, SamePieces
    <3> QED BY <3>2, <3>5
  <2>6. c \o (r \o more) = c \o rest
    <3>1. (c \o r) \o more = c \o (r \o more)
      <4>1. c \in Seq(Byte) /\ r \in Seq(Byte) /\ more \in Seq(Byte)
        BY <1>2, <2>3
      <4>2. Grouped(c, r, more)
        BY <4>1, Grouping
      <4> QED BY <4>2 DEF Grouped
    <3> QED BY <1>3, <1>4, <2>5, <3>1
  <2>7. r \o more \in Seq(Byte)
    BY <2>3, Join
  <2>8. r \o more = rest
    BY <1>2, <2>6, <2>7, ConcatSimplifications
  <2> QED BY <2>1, <2>3, <2>4, <2>8
<1> QED BY <1>1, <1>7, <1>8, <1>9 DEF Takes

(* What was built is what is read: a command that has arrived is found      *)
(* whole whatever follows it, is read argument by argument as it was built, *)
(* and is removed with its last byte (ncmd.c:104-174, 182-219).             *)
THEOREM CommandsSurvive ==
  ASSUME NEW cmd \in Commands, NEW rest \in Seq(Byte)
  PROVE  /\ NcmdIsComplete(Encode(cmd) \o rest) = Len(Encode(cmd))
         /\ Decode(Encode(cmd) \o rest) = cmd
         /\ NcmdRemove(Encode(cmd) \o rest) = rest
<1>1. PICK c \in Seq(Byte) : c = Encode(cmd)
  BY PartsShape
<1>2. PICK buf \in Seq(Byte) : buf = c \o rest
  BY Join
<1>3. PICK none \in Seq(Byte) : none = <<>>
  BY EmptySeq
<1>4. buf \o none = c \o rest
  BY <1>2, <1>3
<1>5. Takes(buf, cmd, none, rest)
  BY <1>1, <1>4, FirstOfStream
<1>6. Len(buf) >= Len(Encode(cmd)) /\ Len(Encode(cmd)) > 0 /\ Len(Encode(cmd)) \in Nat
  <2>1. Len(buf) = Len(c) + Len(rest) /\ Len(c) \in Nat /\ Len(rest) \in Nat
    BY <1>2, Join
  <2>2. Len(c) >= 4
    BY <1>1, EncodeStart
  <2> QED BY <1>1, <2>1, <2>2
<1>7. NcmdRemove(buf) \in Seq(Byte) /\ NcmdRemove(buf) \o none = rest
  BY <1>5, <1>6 DEF Takes
<1>8. NcmdRemove(buf) = rest
  BY <1>3, <1>7
<1> QED BY <1>1, <1>2, <1>5, <1>6, <1>8 DEF Takes

-----------------------------------------------------------------------------
(* Streams of commands.                                                    *)

Coded(cmds) == [k \in 1..Len(cmds) |-> Encode(cmds[k])]

LEMMA CodedShape ==
  ASSUME NEW q \in Seq(Commands)
  PROVE  /\ Coded(q) \in Seq(Seq(Byte)) /\ Len(Coded(q)) = Len(q)
         /\ \A k \in 1..Len(q) : Coded(q)[k] = Encode(q[k])
         /\ EncodeAll(q) = FlattenSeq(Coded(q)) /\ EncodeAll(q) \in Seq(Byte)
<1>1. ASSUME NEW k \in 1..Len(q) PROVE Encode(q[k]) \in Seq(Byte)
  <2>1. q[k] \in Commands
    OBVIOUS
  <2> QED BY <2>1, PartsShape
<1>2. Len(q) \in Nat
  OBVIOUS
<1>3. Coded(q) \in Seq(Seq(Byte)) /\ Len(Coded(q)) = Len(q)
  BY <1>1, <1>2 DEF Coded
<1>4. EncodeAll(q) = FlattenSeq(Coded(q))
  BY DEF EncodeAll, Coded
<1>5. FlattenSeq(Coded(q)) \in Seq(Byte)
  BY <1>3, FlattenType
<1> QED BY <1>3, <1>4, <1>5 DEF Coded

LEMMA EncodeAllConcat ==
  ASSUME NEW q \in Seq(Commands), NEW r \in Seq(Commands)
  PROVE  EncodeAll(q \o r) = EncodeAll(q) \o EncodeAll(r)
<1>1. PICK all \in Seq(Commands) : all = q \o r
  BY Join
<1>2. PICK a : a = Coded(q)
  OBVIOUS
<1>3. PICK b : b = Coded(r)
  OBVIOUS
<1>4. /\ a \in Seq(Seq(Byte)) /\ Len(a) = Len(q) /\ \A k \in 1..Len(q) : a[k] = Encode(q[k])
      /\ b \in Seq(Seq(Byte)) /\ Len(b) = Len(r) /\ \A k \in 1..Len(r) : b[k] = Encode(r[k])
      /\ FlattenSeq(a) = EncodeAll(q) /\ FlattenSeq(b) = EncodeAll(r)
  BY <1>2, <1>3, CodedShape
<1>5. PICK c : c = Coded(all)
  OBVIOUS
<1>6. /\ c \in Seq(Seq(Byte)) /\ Len(c) = Len(all) /\ \A k \in 1..Len(all) : c[k] = Encode(all[k])
      /\ FlattenSeq(c) = EncodeAll(all)
  BY <1>5, CodedShape
<1>7. /\ Len(all) = Len(q) + Len(r) /\ Len(q) \in Nat /\ Len(r) \in Nat
      /\ \A k \in 1..Len(q) : all[k] = q[k]
      /\ \A k \in 1..Len(r) : all[Len(q) + k] = r[k]
  BY <1>1, Join
<1>8. PICK d : d = a \o b
  OBVIOUS
<1>9. /\ d \in Seq(Seq(Byte)) /\ Len(d) = Len(q) + Len(r)
      /\ \A k \in 1..Len(q) : d[k] = a[k]
      /\ \A k \in 1..Len(r) : d[Len(q) + k] = b[k]
  <2> DEFINE T == Seq(Byte)
  <2>1. a \in Seq(T) /\ b \in Seq(T)
    BY <1>4
  <2> HIDE DEF T
  <2>2. /\ d \in Seq(T) /\ Len(d) = Len(a) + Len(b)
        /\ \A k \in 1..Len(a) : d[k] = a[k]
        /\ \A k \in 1..Len(b) : d[Len(a) + k] = b[k]
    BY <1>8, <2>1, Join
  <2> QED BY <1>4, <2>2 DEF T
<1>10. ASSUME NEW k \in 1..Len(c) PROVE c[k] = d[k]
  <2>1. CASE k <= Len(q)
    <3>1. k \in 1..Len(q) /\ k \in 1..Len(all)
      BY <1>6, <1>7, <2>1
    <3> QED BY <1>4, <1>6, <1>7, <1>9, <3>1
  <2>2. CASE ~(k <= Len(q))
    <3>1. PICK j \in 1..Len(r) : k = Len(q) + j
      <4>1. k - Len(q) \in 1..Len(r) /\ k = Len(q) + (k - Len(q))
        BY <1>6, <1>7, <2>2
      <4> QED BY <4>1
    <3>2. k \in 1..Len(all)
      BY <1>6
    <3> QED BY <1>4, <1>6, <1>7, <1>9, <3>1, <3>2
  <2> QED BY <2>1, <2>2
<1>11. c = d
  <2> DEFINE T == Seq(Byte)
  <2>1. c \in Seq(T) /\ d \in Seq(T) /\ Len(c) = Len(d)
    BY <1>6, <1>7, <1>9
  <2> HIDE DEF T
  <2> QED BY <2>1, <1>10, SamePieces
<1>12. FlattenSeq(a \o b) = FlattenSeq(a) \o FlattenSeq(b)
  BY <1>4, FlattenConcat
<1> QED BY <1>1, <1>4, <1>6, <1>8, <1>11, <1>12

LEMMA EncodeAllNone == EncodeAll(<<>>) = <<>>
<1>1. <<>> \in Seq(Commands) /\ Len(<<>>) = 0
  BY EmptySeq
<1>2. Coded(<<>>) \in Seq(Seq(Byte)) /\ Len(Coded(<<>>)) = 0
  BY <1>1, CodedShape
<1>3. Coded(<<>>) = <<>>
  BY <1>2, EmptySeq
<1> QED BY <1>1, <1>3, CodedShape, FlattenNone

LEMMA EncodeAllOne ==
  ASSUME NEW cmd \in Commands
  PROVE  EncodeAll(<<cmd>>) = Encode(cmd)
<1>1. PICK q : q = <<cmd>>
  OBVIOUS
<1>2. q \in Seq(Commands) /\ Len(q) = 1 /\ q[1] = cmd
  BY <1>1
<1>3. /\ Coded(q) \in Seq(Seq(Byte)) /\ Len(Coded(q)) = 1 /\ Coded(q)[1] = Encode(cmd)
      /\ EncodeAll(q) = FlattenSeq(Coded(q))
  BY <1>2, CodedShape
<1>4. Coded(q) = <<Encode(cmd)>>
  BY <1>3
<1>5. FlattenSeq(<<Encode(cmd)>>) = Encode(cmd)
  BY PartsShape, FlattenOne
<1> QED BY <1>1, <1>3, <1>4, <1>5

LEMMA EncodeAllAppend ==
  ASSUME NEW q \in Seq(Commands), NEW cmd \in Commands
  PROVE  EncodeAll(Append(q, cmd)) = EncodeAll(q) \o Encode(cmd)
<1>1. <<cmd>> \in Seq(Commands) /\ Append(q, cmd) = q \o <<cmd>>
  BY AppendIsConcat
<1> QED BY <1>1, EncodeAllConcat, EncodeAllOne

(* What is still to come after a prefix: the next command, and the rest.   *)
LEMMA PrefixRest ==
  ASSUME NEW T, NEW done \in Seq(T), NEW q \in Seq(T), IsPrefix(done, q)
  PROVE  /\ Len(done) <= Len(q) /\ Len(done) \in Nat /\ Len(q) \in Nat
         /\ \A k \in 1..Len(done) : done[k] = q[k]
         /\ q = done \o SubSeq(q, Len(done) + 1, Len(q))
         /\ SubSeq(q, Len(done) + 1, Len(q)) \in Seq(T)
<1>1. Len(done) <= Len(q) /\ Len(done) \in Nat /\ Len(q) \in Nat /\ SubSeq(done, 1, Len(done)) = SubSeq(q, 1, Len(done))
  BY DEF IsPrefix
<1>2. done = SubSeq(q, 1, Len(done))
  BY <1>1, SubSeqFull
<1>3. SubSeq(q, 1, Len(done)) \o SubSeq(q, Len(done) + 1, Len(q)) = SubSeq(q, 1, Len(q))
  <2>1. 1 \in 1..(Len(q) + 1) /\ Len(done) \in (1 - 1)..Len(q) /\ Len(q) \in Len(done)..Len(q)
    BY <1>1
  <2> QED BY <2>1, ConcatAdjacentSubSeq
<1>4. SubSeq(q, 1, Len(q)) = q
  BY SubSeqFull
<1>5. SubSeq(q, Len(done) + 1, Len(q)) \in Seq(T)
  BY <1>1
<1>6. \A k \in 1..Len(done) : SubSeq(q, 1, Len(done))[k] = q[k]
  BY <1>1
<1> QED BY <1>1, <1>2, <1>3, <1>4, <1>5, <1>6

LEMMA PrefixIntro ==
  ASSUME NEW T, NEW done \in Seq(T), NEW q \in Seq(T), Len(done) <= Len(q),
         \A k \in 1..Len(done) : done[k] = q[k]
  PROVE  IsPrefix(done, q)
<1>1. PICK l : l = SubSeq(q, 1, Len(done))
  OBVIOUS
<1>2. l \in Seq(T) /\ Len(l) = Len(done) /\ \A k \in 1..Len(done) : l[k] = q[k]
  BY <1>1
<1>3. l = done
  BY <1>2, SamePieces
<1>4. SubSeq(done, 1, Len(done)) = done
  BY SubSeqFull
<1> QED BY <1>1, <1>3, <1>4 DEF IsPrefix

LEMMA PrefixNext ==
  ASSUME NEW T, NEW done \in Seq(T), NEW q \in Seq(T), IsPrefix(done, q), Len(done) < Len(q)
  PROVE  /\ q[Len(done) + 1] \in T
         /\ Append(done, q[Len(done) + 1]) \in Seq(T)
         /\ IsPrefix(Append(done, q[Len(done) + 1]), q)
<1>1. /\ Len(done) \in Nat /\ Len(q) \in Nat /\ Len(done) + 1 \in 1..Len(q)
      /\ \A k \in 1..Len(done) : done[k] = q[k]
  BY PrefixRest
<1>2. PICK x \in T : x = q[Len(done) + 1]
  BY <1>1, ElementOfSeq
<1>3. PICK a : a = Append(done, x)
  OBVIOUS
<1>4. /\ a \in Seq(T) /\ Len(a) = Len(done) + 1 /\ a[Len(done) + 1] = x
      /\ \A k \in 1..Len(done) : a[k] = done[k]
  BY <1>3, AppendProperties
<1>5. ASSUME NEW k \in 1..Len(a) PROVE a[k] = q[k]
  <2>1. k \in 1..Len(done) \/ k = Len(done) + 1
    BY <1>1, <1>4
  <2> QED BY <1>1, <1>2, <1>4, <2>1
<1>6. IsPrefix(a, q)
  <2>1. Len(a) <= Len(q)
    BY <1>1, <1>4
  <2> QED BY <1>4, <1>5, <2>1, PrefixIntro
<1> QED BY <1>2, <1>3, <1>4, <1>6

LEMMA PrefixLonger ==
  ASSUME NEW T, NEW done \in Seq(T), NEW q \in Seq(T), NEW more \in Seq(T), IsPrefix(done, q)
  PROVE  IsPrefix(done, q \o more) /\ q \o more \in Seq(T)
<1>1. PICK a : a = q \o more
  OBVIOUS
<1>2. a \in Seq(T) /\ Len(a) = Len(q) + Len(more) /\ Len(q) \in Nat /\ Len(more) \in Nat /\ \A k \in 1..Len(q) : a[k] = q[k]
  BY <1>1, Join
<1>3. Len(done) <= Len(q) /\ Len(done) \in Nat /\ \A k \in 1..Len(done) : done[k] = q[k]
  BY PrefixRest
<1>4. Len(done) <= Len(a)
  BY <1>2, <1>3
<1>5. ASSUME NEW k \in 1..Len(done) PROVE done[k] = a[k]
  <2>1. k \in 1..Len(q)
    BY <1>2, <1>3
  <2> QED BY <1>2, <1>3, <2>1
<1> QED BY <1>1, <1>2, <1>4, <1>5, PrefixIntro

(* The stream after what has been handled begins with the next command.    *)
LEMMA StreamRest ==
  ASSUME NEW done \in Seq(Commands), NEW q \in Seq(Commands), IsPrefix(done, q),
         NEW bytes \in Seq(Byte), EncodeAll(q) = EncodeAll(done) \o bytes
  PROVE  IF Len(done) < Len(q)
           THEN \E rest \in Seq(Byte) : bytes = Encode(q[Len(done) + 1]) \o rest
           ELSE bytes = <<>> /\ done = q
<1>1. /\ Len(done) <= Len(q) /\ Len(done) \in Nat /\ Len(q) \in Nat
      /\ q = done \o SubSeq(q, Len(done) + 1, Len(q))
      /\ SubSeq(q, Len(done) + 1, Len(q)) \in Seq(Commands)
  BY PrefixRest
<1>2. PICK more \in Seq(Commands) : more = SubSeq(q, Len(done) + 1, Len(q))
  BY <1>1
<1>3. EncodeAll(q) = EncodeAll(done) \o EncodeAll(more)
  BY <1>1, <1>2, EncodeAllConcat
<1>4. EncodeAll(done) \in Seq(Byte) /\ EncodeAll(more) \in Seq(Byte)
  BY CodedShape
<1>5. bytes = EncodeAll(more)
  <2>1. EncodeAll(done) \o bytes = EncodeAll(done) \o EncodeAll(more)
    BY <1>3
  <2> QED BY <1>4, <2>1, ConcatSimplifications
<1>6. CASE Len(done) < Len(q)
  <2>1. /\ more # <<>> /\ Head(more) = q[Len(done) + 1]
        /\ Head(more) \in Commands /\ Tail(more) \in Seq(Commands)
    <3>1. Len(more) = Len(q) - Len(done) /\ more[1] = q[Len(done) + 1]
      BY <1>1, <1>2, <1>6
    <3>2. more # <<>>
      BY <1>1, <1>6, <3>1, EmptySeq
    <3>3. Head(more) = more[1]
      BY <3>2
    <3> QED BY <3>1, <3>2, <3>3, HeadTailProperties
  <2>2. PICK x \in Commands : x = Head(more)
    BY <2>1
  <2>3. PICK t \in Seq(Commands) : t = Tail(more)
    BY <2>1
  <2>4. more = <<x>> \o t /\ <<x>> \in Seq(Commands)
    BY <2>1, <2>2, <2>3
  <2>5. EncodeAll(more) = Encode(x) \o EncodeAll(t)
    BY <2>4, EncodeAllConcat, EncodeAllOne
  <2>6. EncodeAll(t) \in Seq(Byte)
    BY CodedShape
  <2> QED BY <1>5, <1>6, <2>1, <2>2, <2>5, <2>6
<1>7. CASE ~(Len(done) < Len(q))
  <2>1. Len(q) < Len(done) + 1
    BY <1>1, <1>7
  <2>2. more = <<>>
    BY <1>1, <1>2, <2>1, SubSeqEmpty
  <2>3. done = q
    <3>1. done \o more = done
      BY <2>2, ConcatEmptySeq
    <3> QED BY <1>1, <1>2, <3>1
  <2> QED BY <1>5, <1>7, <2>2, <2>3, EncodeAllNone
<1> QED BY <1>6, <1>7

Grows(done, cmd, rest) ==
  EncodeAll(done) \o (Encode(cmd) \o rest) = EncodeAll(Append(done, cmd)) \o rest

LEMMA StreamGrows ==
  ASSUME NEW done \in Seq(Commands), NEW cmd \in Commands, NEW rest \in Seq(Byte)
  PROVE  Grows(done, cmd, rest)
<1>1. EncodeAll(done) \in Seq(Byte) /\ Encode(cmd) \in Seq(Byte)
  BY CodedShape, PartsShape
<1>2. (EncodeAll(done) \o Encode(cmd)) \o rest = EncodeAll(done) \o (Encode(cmd) \o rest)
  <2>1. Grouped(EncodeAll(done), Encode(cmd), rest)
    BY <1>1, Grouping
  <2> QED BY <2>1 DEF Grouped
<1>3. EncodeAll(Append(done, cmd)) = EncodeAll(done) \o Encode(cmd)
  BY EncodeAllAppend
<1> QED BY <1>2, <1>3 DEF Grows

LEMMA NothingJoined ==
  ASSUME NEW T, NEW a \in Seq(T), NEW b \in Seq(T), a \o b = <<>>
  PROVE  a = <<>> /\ b = <<>>
BY ConcatEqualIffEmpty

(* A receiver that has handled a prefix of the stream, and its buffer.     *)
Finds(done, q, buf, more) ==
  /\ NcmdIsComplete(buf) = FirstWhole(q, done, buf)
  /\ NcmdIsComplete(buf) > 0 =>
       \E cmd \in Commands :
         /\ Len(done) < Len(q) /\ cmd = q[Len(done) + 1]
         /\ Decode(buf) = cmd /\ NcmdGetNumArgs(buf) = Len(cmd.args)
         /\ Append(done, cmd) \in Seq(Commands) /\ IsPrefix(Append(done, cmd), q)
         /\ NcmdRemove(buf) \in Seq(Byte)
         /\ EncodeAll(q) = EncodeAll(Append(done, cmd)) \o (NcmdRemove(buf) \o more)

LEMMA Received ==
  ASSUME NEW done \in Seq(Commands), NEW q \in Seq(Commands), IsPrefix(done, q),
         NEW buf \in Seq(Byte), NEW more \in Seq(Byte),
         EncodeAll(q) = EncodeAll(done) \o (buf \o more)
  PROVE  Finds(done, q, buf, more)
<1>1. PICK bytes \in Seq(Byte) : bytes = buf \o more
  BY Join
<1>2. EncodeAll(q) = EncodeAll(done) \o bytes
  BY <1>1
<1>3. CASE Len(done) < Len(q)
  <2>1. PICK rest \in Seq(Byte) : bytes = Encode(q[Len(done) + 1]) \o rest
    BY <1>2, <1>3, StreamRest
  <2>2. /\ q[Len(done) + 1] \in Commands
        /\ Append(done, q[Len(done) + 1]) \in Seq(Commands)
        /\ IsPrefix(Append(done, q[Len(done) + 1]), q)
    BY <1>3, PrefixNext
  <2>3. PICK cmd \in Commands : cmd = q[Len(done) + 1]
    BY <2>2
  <2>4. buf \o more = Encode(cmd) \o rest
    BY <1>1, <2>1, <2>3
  <2>5. Takes(buf, cmd, more, rest)
    BY <2>4, FirstOfStream
  <2>6. Len(buf) \in Nat /\ Len(Encode(cmd)) \in Nat
    BY EncodeStart
  <2>7. FirstWhole(q, done, buf) = IF Len(buf) >= Len(Encode(cmd)) THEN Len(Encode(cmd)) ELSE 0
    BY <1>3, <2>3, <2>6 DEF FirstWhole
  <2>8. EncodeAll(q) = EncodeAll(Append(done, cmd)) \o rest
    <3>1. Grows(done, cmd, rest)
      BY StreamGrows
    <3>2. bytes = Encode(cmd) \o rest
      BY <2>1, <2>3, Zenon
    <3>3. EncodeAll(q) = EncodeAll(done) \o (Encode(cmd) \o rest)
      BY <1>2, <3>2, Zenon
    <3> QED BY <3>1, <3>3, Zenon DEF Grows
  <2>9. NcmdIsComplete(buf) = FirstWhole(q, done, buf)
    BY <2>5, <2>7 DEF Takes
  <2>10. ASSUME NcmdIsComplete(buf) > 0
         PROVE  /\ Decode(buf) = cmd /\ NcmdGetNumArgs(buf) = Len(cmd.args)
                /\ NcmdRemove(buf) \in Seq(Byte)
                /\ EncodeAll(q) = EncodeAll(Append(done, cmd)) \o (NcmdRemove(buf) \o more)
    <3>1. /\ Decode(buf) = cmd /\ NcmdGetNumArgs(buf) = Len(cmd.args)
          /\ NcmdRemove(buf) \in Seq(Byte) /\ NcmdRemove(buf) \o more = rest
      BY <2>5, <2>10 DEF Takes
    <3> QED BY <2>8, <3>1
  <2> QED BY <1>3, <2>2, <2>3, <2>9, <2>10 DEF Finds
<1>4. CASE ~(Len(done) < Len(q))
  <2>1. bytes = <<>>
    BY <1>2, <1>4, StreamRest
  <2>2. buf = <<>>
    BY <1>1, <2>1, NothingJoined
  <2>3. NcmdIsComplete(buf) = 0
    BY <2>2, EmptySeq DEF NcmdIsComplete
  <2>4. FirstWhole(q, done, buf) = 0
    BY <1>4 DEF FirstWhole
  <2> QED BY <2>3, <2>4 DEF Finds
<1> QED BY <1>3, <1>4

-----------------------------------------------------------------------------
(* The list of the room.                                                   *)

Ascending(m, S) ==
  m \in [1..Cardinality(S) -> S] /\ \A i, j \in DOMAIN m : i < j => m[i] < m[j]

AllAscend(n) == \A S \in SUBSET (1..n) : \E m : Ascending(m, S)

LEMMA AscendingExists ==
  ASSUME NEW n \in Nat
  PROVE  AllAscend(n)
<1> DEFINE Bad == {b \in Nat : ~ \A S \in SUBSET (1..b) : \E m : Ascending(m, S)}
<1>1. SUFFICES ASSUME Bad # {} PROVE FALSE
  BY DEF AllAscend
<1>2. PICK b \in Bad : \A k \in Bad : b <= k
  BY <1>1, LeastNatural
<1>3. PICK S \in SUBSET (1..b) : ~ \E m : Ascending(m, S)
  BY <1>2
<1>4. CASE b = 0
  <2>1. S = {} /\ Cardinality(S) = 0
    <3>1. S = {}
      BY <1>4
    <3> QED BY <3>1, FS_EmptySet
  <2> DEFINE m == [i \in 1..0 |-> i]
  <2>2. m \in [1..Cardinality(S) -> S] /\ \A i, j \in DOMAIN m : i < j => m[i] < m[j]
    BY <2>1
  <2>3. Ascending(m, S)
    BY <2>2 DEF Ascending
  <2> QED BY <1>3, <2>3
<1>5. CASE b # 0
  <2>1. b - 1 \in Nat /\ b - 1 \notin Bad
    BY <1>2, <1>5
  <2>2. \A U \in SUBSET (1..(b - 1)) : \E m : Ascending(m, U)
    BY <2>1
  <2>3. b \in S
    <3>1. ASSUME b \notin S PROVE FALSE
      <4>1. S \in SUBSET (1..(b - 1))
        BY <3>1, <1>5
      <4> QED BY <1>3, <2>2, <4>1
    <3> QED BY <3>1
  <2>4. PICK U \in SUBSET (1..(b - 1)) : U = S \ {b}
    <3>1. S \ {b} \in SUBSET (1..(b - 1))
      BY <1>5
    <3> QED BY <3>1
  <2>5. PICK u : Ascending(u, U)
    BY <2>2
  <2>6. IsFiniteSet(S) /\ Cardinality(U) = Cardinality(S) - 1 /\ Cardinality(U) \in Nat /\ Cardinality(S) \in Nat
    <3>1. IsFiniteSet(1..b)
      BY FS_Interval
    <3>2. IsFiniteSet(S)
      BY <3>1, FS_Subset
    <3>3. IsFiniteSet(U) /\ Cardinality(U) = Cardinality(S) - 1
      BY <2>3, <2>4, <3>2, FS_RemoveElement
    <3> QED BY <3>2, <3>3, FS_CardinalityType
  <2>7. PICK n1 \in Nat : n1 = Cardinality(U)
    BY <2>6
  <2>8. Cardinality(S) = n1 + 1
    BY <2>6, <2>7
  <2>9. u \in [1..n1 -> U] /\ \A i, j \in 1..n1 : i < j => u[i] < u[j]
    BY <2>5, <2>7 DEF Ascending
  <2> DEFINE m == [i \in 1..(n1 + 1) |-> IF i = n1 + 1 THEN b ELSE u[i]]
  <2>10. ASSUME NEW i \in 1..n1 PROVE m[i] = u[i] /\ u[i] \in S /\ u[i] < b
    <3>1. u[i] \in U /\ i \in 1..(n1 + 1) /\ i # n1 + 1
      BY <2>9
    <3>2. u[i] \in 1..(b - 1) /\ u[i] \in S
      BY <2>4, <3>1
    <3> QED BY <1>5, <3>1, <3>2
  <2>11. m[n1 + 1] = b /\ DOMAIN m = 1..(n1 + 1) /\ m = [i \in 1..(n1 + 1) |-> m[i]]
    OBVIOUS
  <2> HIDE DEF m
  <2>12. ASSUME NEW i \in 1..(n1 + 1) PROVE i \in 1..n1 \/ i = n1 + 1
    OBVIOUS
  <2>13. ASSUME NEW i \in 1..(n1 + 1) PROVE m[i] \in S
    BY <2>3, <2>10, <2>11, <2>12
  <2>14. m \in [1..Cardinality(S) -> S]
    BY <2>8, <2>11, <2>13
  <2>15. ASSUME NEW i \in 1..(n1 + 1), NEW j \in 1..(n1 + 1), i < j PROVE m[i] < m[j]
    <3>1. i \in 1..n1
      BY <2>15
    <3>2. CASE j \in 1..n1
      BY <2>9, <2>10, <2>15, <3>1, <3>2
    <3>3. CASE j = n1 + 1
      BY <2>10, <2>11, <3>1, <3>3
    <3> QED BY <2>12, <3>2, <3>3
  <2>16. Ascending(m, S)
    BY <2>11, <2>14, <2>15 DEF Ascending
  <2> QED BY <1>3, <2>16
<1> QED BY <1>4, <1>5

LEMMA MembersShape ==
  ASSUME StreamAssumption
  PROVE  /\ Members \in Seq(Chatters) /\ Len(Members) = Cardinality(Chatters)
         /\ Cardinality(Chatters) \in Nat /\ Cardinality(Chatters) <= 255
         /\ \A i, j \in 1..Len(Members) : Members[i] = Members[j] => i = j
<1>1. Chatters \in SUBSET (1..255)
  BY DEF StreamAssumption, Clients
<1>2. \E m : Ascending(m, Chatters)
  <2>1. PICK top \in Nat : top = 255
    OBVIOUS
  <2>2. AllAscend(top)
    BY AscendingExists
  <2> QED BY <1>1, <2>1, <2>2, Zenon DEF AllAscend
<1>3. Ascending(Members, Chatters)
  BY <1>2 DEF Members, Ascending
<1>4. Cardinality(Chatters) \in Nat /\ Cardinality(Chatters) <= 255
  <2>1. PICK top \in Nat : top = 255
    OBVIOUS
  <2>2. IsFiniteSet(1..top) /\ Cardinality(1..top) = IF 1 > top THEN 0 ELSE top - 1 + 1
    BY FS_Interval
  <2>3. Chatters \in SUBSET (1..top)
    BY <1>1, <2>1
  <2>4. IsFiniteSet(Chatters) /\ Cardinality(Chatters) <= Cardinality(1..top)
    BY <2>2, <2>3, FS_Subset
  <2>5. Cardinality(Chatters) \in Nat
    BY <2>4, FS_CardinalityType
  <2> QED BY <2>1, <2>2, <2>4, <2>5
<1>5. PICK n \in Nat : n = Cardinality(Chatters)
  BY <1>4
<1>6. PICK m : m = Members
  OBVIOUS
<1>7. m \in [1..n -> Chatters] /\ \A i, j \in 1..n : i < j => m[i] < m[j]
  BY <1>3, <1>5, <1>6 DEF Ascending
<1>8. m \in Seq(Chatters) /\ Len(m) = n
  BY <1>7
<1>9. ASSUME NEW i \in 1..n, NEW j \in 1..n, m[i] = m[j] PROVE i = j
  <2>1. m[i] \in 1..255 /\ m[j] \in 1..255
    BY <1>1, <1>7
  <2>2. ~(m[i] < m[j]) /\ ~(m[j] < m[i])
    BY <1>9, <2>1
  <2> QED BY <1>7, <2>2
<1> QED BY <1>4, <1>5, <1>6, <1>8, <1>9

(* What the server answers can be written as bytes.                        *)
Short(q) == Len(q) < 1000 /\ \A k \in 1..Len(q) : Len(q[k]) = 1

LEMMA ShortCommand ==
  ASSUME NEW op \in Word, NEW q \in Seq(Seq(Byte)), Short(q)
  PROVE  Command(op, q) \in Commands
<1>1. \A v \in Nat : v < 1000 => v \in Word
  BY SMT DEF Word
<1>2. 1 \in Long
  BY SMT DEF Long
<1>3. Len(q) \in Nat /\ \A k \in 1..Len(q) : q[k] \in Seq(Byte)
  OBVIOUS
<1>4. Len(q) < 1000 /\ \A k \in 1..Len(q) : Len(q[k]) = 1
  BY DEF Short
<1>5. Len(q) \in Word /\ \A k \in 1..Len(q) : Len(q[k]) \in Long
  <2>1. Len(q) \in Word
    BY <1>1, <1>3, <1>4, Zenon
  <2>2. ASSUME NEW k \in 1..Len(q) PROVE Len(q[k]) \in Long
    <3>1. Len(q[k]) = 1
      BY <1>4
    <3> QED BY <1>2, <3>1, SMT
  <2> QED BY <2>1, <2>2
<1> QED BY <1>5 DEF Command, Commands

LEMMA RoomListShape ==
  ASSUME StreamAssumption
  PROVE  /\ RoomList \in Seq(Seq(Byte)) /\ Len(RoomList) = 2 * Cardinality(Chatters)
         /\ \A k \in 1..Len(RoomList) : Len(RoomList[k]) = 1
<1>1. PICK n \in Nat : n = Cardinality(Chatters)
  BY MembersShape
<1>2. PICK m : m = Members
  OBVIOUS
<1>3. m \in Seq(Chatters) /\ Len(m) = n /\ Chatters \subseteq Byte
  <2>1. m \in Seq(Chatters) /\ Len(m) = n
    BY <1>1, <1>2, MembersShape
  <2>2. Chatters \subseteq 1..255
    BY DEF StreamAssumption, Clients
  <2> QED BY <2>1, <2>2 DEF Byte
<1>4. ASSUME NEW k \in 1..(2 * n) PROVE <<m[(k + 1) \div 2]>> \in Seq(Byte) /\ Len(<<m[(k + 1) \div 2]>>) = 1
  <2>1. (k + 1) \div 2 \in 1..n
    BY SMT
  <2>2. m[(k + 1) \div 2] \in Byte
    BY <1>3, <2>1
  <2> QED BY <2>2
<1>5. RoomList = [k \in 1..(2 * n) |-> <<m[(k + 1) \div 2]>>]
  BY <1>2, <1>3 DEF RoomList
<1>6. PICK top \in Nat : top = 2 * n
  OBVIOUS
<1>7. PICK l : l = RoomList
  OBVIOUS
<1>8. l = [k \in 1..top |-> <<m[(k + 1) \div 2]>>]
  BY <1>5, <1>6, <1>7
<1>9. \A k \in 1..top : l[k] \in Seq(Byte) /\ Len(l[k]) = 1
  BY <1>4, <1>6, <1>8
<1>10. l \in Seq(Seq(Byte)) /\ Len(l) = top
  BY <1>8, <1>9
<1>11. \A k \in 1..Len(l) : Len(l[k]) = 1
  BY <1>9, <1>10
<1> QED BY <1>1, <1>6, <1>7, <1>10, <1>11

LEMMA OpsAreWords == C_WHO \in Word /\ C_SAY \in Word /\ C_AWAY \in Word
BY SMT DEF C_WHO, C_SAY, C_AWAY, Word

LEMMA RequestsShape ==
  /\ Requests \subseteq Commands
  /\ \A cmd \in Requests :
       /\ cmd.op = C_WHO => cmd = Command(C_WHO, <<>>) \/ cmd = MagicWho
       /\ cmd.op = C_SAY => cmd = Command(C_SAY, <<<<65>>>>)
       /\ cmd.op \in {C_WHO, C_SAY, C_AWAY}
<1>1. PICK none : none = <<>>
  OBVIOUS
<1>2. PICK magic : magic = <<<<38>>>>
  OBVIOUS
<1>3. PICK text : text = <<<<65>>>>
  OBVIOUS
<1>4. none \in Seq(Seq(Byte)) /\ Len(none) = 0
  BY <1>1, EmptySeq
<1>5. /\ magic \in Seq(Seq(Byte)) /\ Len(magic) = 1 /\ Len(magic[1]) = 1
      /\ text \in Seq(Seq(Byte)) /\ Len(text) = 1 /\ Len(text[1]) = 1
  BY <1>2, <1>3 DEF Byte
<1>6. Command(C_WHO, none) \in Commands /\ Command(C_AWAY, none) \in Commands
  <2>1. Short(none)
    BY <1>4 DEF Short
  <2> QED BY <1>4, <2>1, OpsAreWords, ShortCommand, Zenon
<1>7. Command(C_WHO, magic) \in Commands /\ Command(C_SAY, text) \in Commands
  <2>1. Short(magic)
    BY <1>5 DEF Short
  <2>2. Short(text)
    BY <1>5 DEF Short
  <2> QED BY <1>5, <2>1, <2>2, OpsAreWords, ShortCommand, Zenon
<1>8. Requests \subseteq Commands
  BY <1>1, <1>2, <1>3, <1>6, <1>7 DEF Requests, MagicWho
<1>9. \A cmd \in Requests :
       /\ cmd.op = C_WHO => cmd = Command(C_WHO, <<>>) \/ cmd = MagicWho
       /\ cmd.op = C_SAY => cmd = Command(C_SAY, <<<<65>>>>)
       /\ cmd.op \in {C_WHO, C_SAY, C_AWAY}
  BY DEF Requests, MagicWho, Command, C_WHO, C_SAY, C_AWAY
<1> QED BY <1>8, <1>9

LEMMA WhoAnswerShape ==
  ASSUME StreamAssumption
  PROVE  /\ WhoAnswer(MagicWho) \in Commands /\ WhoAnswer(Command(C_WHO, <<>>)) \in Commands
         /\ Len(WhoAnswer(MagicWho).args) = 1 + 2 * Cardinality(Chatters)
<1>1. PICK n \in Nat : n = Cardinality(Chatters) /\ n <= 255
  BY MembersShape
<1>2. PICK l : l = RoomList
  OBVIOUS
<1>3. l \in Seq(Seq(Byte)) /\ Len(l) = 2 * n /\ \A k \in 1..Len(l) : Len(l[k]) = 1
  BY <1>1, <1>2, RoomListShape
<1>4. PICK first : first = <<<<38>>>>
  OBVIOUS
<1>5. first \in Seq(Seq(Byte)) /\ Len(first) = 1 /\ Len(first[1]) = 1 /\ first = <<first[1]>>
  BY <1>4 DEF Byte
<1>6. PICK q : q = first \o l
  OBVIOUS
<1>7. /\ q \in Seq(Seq(Byte)) /\ Len(q) = 1 + 2 * n
      /\ \A k \in 1..Len(q) : Len(q[k]) = 1
  <2> DEFINE T == Seq(Byte)
  <2>1. first \in Seq(T) /\ l \in Seq(T)
    BY <1>3, <1>5
  <2> HIDE DEF T
  <2>2. /\ q \in Seq(T) /\ Len(q) = Len(first) + Len(l)
        /\ \A k \in 1..(Len(first) + Len(l)) : q[k] = IF k <= Len(first) THEN first[k] ELSE l[k - Len(first)]
    BY <1>6, <2>1, ConcatProperties
  <2>3. ASSUME NEW k \in 1..Len(q) PROVE Len(q[k]) = 1
    <3>1. CASE k = 1
      <4>1. 1 \in 1..(Len(first) + Len(l)) /\ 1 <= Len(first)
        BY <1>3, <1>5
      <4>2. q[1] = first[1]
        BY <2>2, <4>1
      <4> QED BY <1>5, <3>1, <4>2
    <3>2. CASE k # 1
      <4>1. k - 1 \in 1..Len(l) /\ q[k] = l[k - 1]
        BY <1>3, <1>5, <2>2, <3>2
      <4> QED BY <1>3, <4>1
    <3> QED BY <3>1, <3>2
  <2> QED BY <1>3, <1>5, <2>2, <2>3 DEF T
<1>8. Command(C_WHO, q) \in Commands
  <2>1. Len(q) < 1000
    BY <1>1, <1>7
  <2>2. Short(q)
    BY <1>7, <2>1 DEF Short
  <2> QED BY <1>7, <2>2, OpsAreWords, ShortCommand, Zenon
<1>9. WhoAnswer(MagicWho) = Command(C_WHO, q)
  <2>1. MagicWho.args = first /\ first # <<>>
    BY <1>4 DEF MagicWho, Command
  <2> QED BY <1>2, <1>5, <1>6, <2>1 DEF WhoAnswer
<1>10. WhoAnswer(Command(C_WHO, <<>>)) = Command(C_WHO, l)
  <2>1. Command(C_WHO, <<>>).args = <<>>
    BY DEF Command
  <2>2. <<>> \o l = l
    BY <1>3, ConcatEmptySeq
  <2> QED BY <1>2, <2>1, <2>2 DEF WhoAnswer
<1>11. Command(C_WHO, l) \in Commands
  <2>1. Len(l) < 1000
    BY <1>1, <1>3
  <2>2. Short(l)
    BY <1>3, <2>1 DEF Short
  <2> QED BY <1>3, <2>2, OpsAreWords, ShortCommand, Zenon
<1>12. Command(C_WHO, q).args = q
  BY DEF Command
<1> QED BY <1>1, <1>7, <1>8, <1>9, <1>10, <1>11, <1>12

LEMMA NoticesShape ==
  ASSUME StreamAssumption, NEW c \in Clients
  PROVE  Command(C_SAY, <<<<c>>, <<65>>>>) \in Commands /\ Command(C_AWAY, <<<<1>>, <<c>>>>) \in Commands
<1>1. c \in Byte
  BY DEF StreamAssumption, Byte
<1>2. PICK q : q = <<<<c>>, <<65>>>>
  OBVIOUS
<1>3. PICK r : r = <<<<1>>, <<c>>>>
  OBVIOUS
<1>4. /\ q \in Seq(Seq(Byte)) /\ Len(q) = 2 /\ Len(q[1]) = 1 /\ Len(q[2]) = 1
      /\ r \in Seq(Seq(Byte)) /\ Len(r) = 2 /\ Len(r[1]) = 1 /\ Len(r[2]) = 1
  BY <1>1, <1>2, <1>3 DEF Byte
<1>5. Short(q)
  <2>1. \A k \in 1..Len(q) : k = 1 \/ k = 2
    BY <1>4
  <2> QED BY <1>4, <2>1 DEF Short
<1>6. Short(r)
  <2>1. \A k \in 1..Len(r) : k = 1 \/ k = 2
    BY <1>4
  <2> QED BY <1>4, <2>1 DEF Short
<1>7. Command(C_SAY, q) \in Commands
  BY <1>4, <1>5, OpsAreWords, ShortCommand, Zenon
<1>8. Command(C_AWAY, r) \in Commands
  BY <1>4, <1>6, OpsAreWords, ShortCommand, Zenon
<1> QED BY <1>2, <1>3, <1>7, <1>8

Reply == [to : Clients, cmd : Commands]

Addressed(replies, c, cmd) ==
  /\ replies \in Seq(Reply)
  /\ \A i, j \in 1..Len(replies) : replies[i].to = replies[j].to => i = j
  /\ \A i \in 1..Len(replies) :
       replies[i].to \in Chatters \/ (replies[i].to = c /\ replies[i].cmd = WhoAnswer(cmd))

(* Nobody is answered twice, and who is not in the room hears only the     *)
(* answer to a question of his own.                                        *)
LEMMA RepliesShape ==
  ASSUME StreamAssumption, NEW c \in Clients, NEW cmd \in Requests, NEW replies, replies = Replies(c, cmd)
  PROVE  Addressed(replies, c, cmd)
<1> DEFINE Good == Addressed(replies, c, cmd)
<1> SUFFICES Good
  OBVIOUS
<1>1. ASSUME NEW x \in Commands, replies = ToRoom(x) PROVE Good
  <2>1. PICK m : m = Members
    OBVIOUS
  <2>2. /\ m \in Seq(Chatters) /\ \A i, j \in 1..Len(m) : m[i] = m[j] => i = j
        /\ Chatters \subseteq Clients
    BY <2>1, MembersShape DEF Clients
  <2>3. PICK n \in Nat : n = Len(m)
    BY <2>2
  <2>4. replies = [k \in 1..n |-> [to |-> m[k], cmd |-> x]]
    BY <1>1, <2>1, <2>3 DEF ToRoom
  <2>5. ASSUME NEW k \in 1..n
        PROVE  m[k] \in Chatters /\ replies[k].to = m[k] /\ [to |-> m[k], cmd |-> x] \in Reply
    <3>1. m[k] \in Chatters
      BY <2>2, <2>3
    <3>2. m[k] \in Clients
      BY <2>2, <3>1
    <3>3. replies[k] = [to |-> m[k], cmd |-> x]
      BY <2>4
    <3> QED BY <3>1, <3>2, <3>3 DEF Reply
  <2>6. replies \in Seq(Reply) /\ Len(replies) = n
    BY <2>4, <2>5
  <2>7. ASSUME NEW i \in 1..n, NEW j \in 1..n, replies[i].to = replies[j].to PROVE i = j
    <3>1. m[i] = m[j]
      BY <2>5, <2>7
    <3>2. i \in 1..Len(m) /\ j \in 1..Len(m)
      BY <2>3
    <3> QED BY <2>2, <3>1, <3>2, Zenon
  <2>8. \A i \in 1..n : replies[i].to \in Chatters
    BY <2>5
  <2>9. \A i, j \in 1..Len(replies) : replies[i].to = replies[j].to => i = j
    BY <2>6, <2>7
  <2>10. ASSUME NEW i \in 1..Len(replies)
         PROVE  replies[i].to \in Chatters \/ (replies[i].to = c /\ replies[i].cmd = WhoAnswer(cmd))
    <3>1. i \in 1..n
      BY <2>6
    <3> QED BY <2>8, <3>1
  <2>11. replies \in Seq(Reply)
    BY <2>6
  <2> QED BY <2>9, <2>10, <2>11 DEF Addressed
<1> HIDE DEF Good
<1>2. CASE cmd.op = C_WHO
  <2>1. WhoAnswer(cmd) \in Commands
    BY <1>2, RequestsShape, WhoAnswerShape
  <2>2. PICK x \in Commands : x = WhoAnswer(cmd)
    BY <2>1
  <2>3. replies = <<[to |-> c, cmd |-> x]>>
    BY <1>2, <2>2 DEF Replies, To, C_SAY, C_WHO, C_AWAY
  <2>4. [to |-> c, cmd |-> x] \in Reply
    BY DEF Reply
  <2>5. /\ replies \in Seq(Reply) /\ Len(replies) = 1 /\ replies[1] = [to |-> c, cmd |-> x]
    BY <2>3, <2>4
  <2>6. replies[1].to = c /\ replies[1].cmd = x
    BY <2>5
  <2>7. \A i \in 1..Len(replies) : i = 1
    BY <2>5
  <2> QED BY <2>2, <2>5, <2>6, <2>7 DEF Good, Addressed
<1>3. CASE cmd.op = C_SAY
  <2>1. cmd = Command(C_SAY, <<<<65>>>>)
    BY <1>3, RequestsShape
  <2>2. cmd.args[1] = <<65>>
    BY <2>1 DEF Command
  <2>3. replies = ToRoom(Command(C_SAY, <<<<c>>, <<65>>>>))
    BY <1>3, <2>2 DEF Replies, C_SAY, C_WHO, C_AWAY
  <2>4. PICK x \in Commands : x = Command(C_SAY, <<<<c>>, <<65>>>>)
    BY NoticesShape
  <2>5. replies = ToRoom(x)
    BY <2>3, <2>4
  <2> QED BY <1>1, <2>5
<1>4. CASE cmd.op = C_AWAY
  <2>3. replies = ToRoom(Command(C_AWAY, <<<<1>>, <<c>>>>))
    BY <1>4 DEF Replies, C_SAY, C_WHO, C_AWAY
  <2>4. PICK x \in Commands : x = Command(C_AWAY, <<<<1>>, <<c>>>>)
    BY NoticesShape
  <2>5. replies = ToRoom(x)
    BY <2>3, <2>4
  <2> QED BY <1>1, <2>5
<1> QED BY <1>2, <1>3, <1>4, RequestsShape

-----------------------------------------------------------------------------
(* What the server still has to send.                                      *)

Out == [to : Clients, bytes : Seq(Byte)]

For(ob, c)  == [k \in 1..Len(ob) |-> IF ob[k].to = c THEN ob[k].bytes ELSE <<>>]
Sent(ob, c) == FlattenSeq(For(ob, c))

LEMMA UnsentIsSent ==
  ASSUME NEW c
  PROVE  Unsent(c) = Sent(outbox, c)
BY DEF Unsent, Sent, For

LEMMA ForShape ==
  ASSUME NEW ob \in Seq(Out), NEW c
  PROVE  /\ For(ob, c) \in Seq(Seq(Byte)) /\ Len(For(ob, c)) = Len(ob)
         /\ \A k \in 1..Len(ob) : For(ob, c)[k] = IF ob[k].to = c THEN ob[k].bytes ELSE <<>>
         /\ Sent(ob, c) \in Seq(Byte)
<1>1. PICK n \in Nat : n = Len(ob)
  OBVIOUS
<1>2. PICK f : f = For(ob, c)
  OBVIOUS
<1>3. f = [k \in 1..n |-> IF ob[k].to = c THEN ob[k].bytes ELSE <<>>]
  BY <1>1, <1>2 DEF For
<1>4. ASSUME NEW k \in 1..n PROVE f[k] \in Seq(Byte)
  <2>1. ob[k] \in Out
    BY <1>1
  <2>2. ob[k].bytes \in Seq(Byte) /\ <<>> \in Seq(Byte)
    BY <2>1, EmptySeq DEF Out
  <2> QED BY <1>3, <2>2
<1>5. f \in Seq(Seq(Byte)) /\ Len(f) = n
  BY <1>3, <1>4
<1>6. FlattenSeq(f) \in Seq(Byte)
  BY <1>5, FlattenType
<1> QED BY <1>1, <1>2, <1>3, <1>5, <1>6 DEF Sent

LEMMA OneMoreOut ==
  ASSUME NEW x \in Out, NEW ob \in Seq(Out)
  PROVE  <<x>> \o ob \in Seq(Out)
<1> DEFINE O == Out
<1>1. x \in O /\ ob \in Seq(O)
  OBVIOUS
<1> HIDE DEF O
<1>2. <<x>> \o ob \in Seq(O)
  BY <1>1
<1> QED BY <1>2 DEF O

FirstIsSent(x, ob, c) == Sent(<<x>> \o ob, c) = (IF x.to = c THEN x.bytes ELSE <<>>) \o Sent(ob, c)

LEMMA SentCons ==
  ASSUME NEW x \in Out, NEW ob \in Seq(Out), NEW c
  PROVE  FirstIsSent(x, ob, c)
<1>1. PICK all \in Seq(Out) : all = <<x>> \o ob
  BY OneMoreOut
<1>2. PICK n \in Nat : n = Len(ob)
  OBVIOUS
<1>3. Len(all) = n + 1 /\ all[1] = x /\ \A k \in 1..n : all[k + 1] = ob[k]
  BY <1>1, <1>2
<1>4. PICK p \in Seq(Byte) : p = IF x.to = c THEN x.bytes ELSE <<>>
  BY EmptySeq DEF Out
<1>5. PICK f : f = For(ob, c)
  OBVIOUS
<1>6. PICK g : g = For(all, c)
  OBVIOUS
<1>7. /\ f \in Seq(Seq(Byte)) /\ Len(f) = n
      /\ \A k \in 1..n : f[k] = IF ob[k].to = c THEN ob[k].bytes ELSE <<>>
  BY <1>2, <1>5, ForShape
<1>8. /\ g \in Seq(Seq(Byte)) /\ Len(g) = n + 1
      /\ \A k \in 1..(n + 1) : g[k] = IF all[k].to = c THEN all[k].bytes ELSE <<>>
  <2>1. /\ g \in Seq(Seq(Byte)) /\ Len(g) = Len(all)
        /\ \A k \in 1..Len(all) : g[k] = IF all[k].to = c THEN all[k].bytes ELSE <<>>
    <3> SUFFICES ASSUME NEW o \in Seq(Out), o = all
                 PROVE  /\ For(o, c) \in Seq(Seq(Byte)) /\ Len(For(o, c)) = Len(o)
                        /\ \A k \in 1..Len(o) : For(o, c)[k] = IF o[k].to = c THEN o[k].bytes ELSE <<>>
      BY <1>1, <1>6
    <3> QED BY ForShape
  <2>2. Len(all) = n + 1
    BY <1>3
  <2> QED BY <2>1, <2>2
<1>9. PICK h : h = <<p>> \o f
  OBVIOUS
<1>10. h \in Seq(Seq(Byte)) /\ Len(h) = n + 1 /\ h[1] = p /\ \A k \in 1..n : h[k + 1] = f[k]
  <2> DEFINE T == Seq(Byte)
  <2>1. p \in T /\ f \in Seq(T)
    BY <1>7
  <2> HIDE DEF T
  <2>2. h \in Seq(T) /\ Len(h) = Len(f) + 1 /\ h[1] = p /\ \A k \in 1..Len(f) : h[k + 1] = f[k]
    BY <1>9, <2>1
  <2> QED BY <1>7, <2>2 DEF T
<1>11. ASSUME NEW k \in 1..(n + 1) PROVE g[k] = h[k]
  <2>1. CASE k = 1
    BY <1>3, <1>4, <1>8, <1>10, <2>1
  <2>2. CASE k # 1
    <3>1. PICK j \in 1..n : j + 1 = k
      <4>1. k - 1 \in 1..n /\ (k - 1) + 1 = k
        BY <2>2
      <4> QED BY <4>1
    <3>2. all[k] = ob[j] /\ h[k] = f[j]
      BY <1>3, <1>10, <3>1
    <3>3. f[j] = IF ob[j].to = c THEN ob[j].bytes ELSE <<>>
      BY <1>7
    <3>4. g[k] = IF all[k].to = c THEN all[k].bytes ELSE <<>>
      BY <1>8
    <3> QED BY <3>2, <3>3, <3>4
  <2> QED BY <2>1, <2>2
<1>12. g = h
  <2> DEFINE T == Seq(Byte)
  <2>1. g \in Seq(T) /\ h \in Seq(T) /\ Len(g) = Len(h) /\ Len(g) = n + 1
    BY <1>8, <1>10
  <2> HIDE DEF T
  <2> QED BY <1>11, <2>1, SamePieces
<1>13. FlattenSeq(h) = p \o FlattenSeq(f)
  BY <1>7, <1>9, FlattenCons
<1> QED BY <1>1, <1>4, <1>5, <1>6, <1>12, <1>13 DEF Sent, FirstIsSent

LEMMA SentNone == \A c : Sent(<<>>, c) = <<>>
<1> SUFFICES ASSUME NEW c PROVE Sent(<<>>, c) = <<>>
  OBVIOUS
<1>1. <<>> \in Seq(Out) /\ Len(<<>>) = 0
  BY EmptySeq
<1>2. For(<<>>, c) \in Seq(Seq(Byte)) /\ Len(For(<<>>, c)) = 0
  BY <1>1, ForShape
<1>3. For(<<>>, c) = <<>>
  BY <1>2, EmptySeq
<1> QED BY <1>3, FlattenNone DEF Sent

(* Nobody has anything in an outbox that is not for him.                   *)
LEMMA SentToOthers ==
  ASSUME NEW ob \in Seq(Out), NEW c, \A k \in 1..Len(ob) : ob[k].to # c
  PROVE  Sent(ob, c) = <<>>
<1>1. /\ For(ob, c) \in Seq(Seq(Byte)) /\ Len(For(ob, c)) = Len(ob)
      /\ \A k \in 1..Len(ob) : For(ob, c)[k] = IF ob[k].to = c THEN ob[k].bytes ELSE <<>>
  BY ForShape
<1>2. \A k \in 1..Len(For(ob, c)) : For(ob, c)[k] = <<>>
  BY <1>1
<1> QED BY <1>1, <1>2, FlattenBlank DEF Sent

LEMMA SentToOne ==
  ASSUME NEW ob \in Seq(Out), NEW n \in 1..Len(ob),
         \A k \in 1..Len(ob) : ob[k].to = ob[n].to => k = n
  PROVE  Sent(ob, ob[n].to) = ob[n].bytes
<1>1. PICK f : f = For(ob, ob[n].to)
  OBVIOUS
<1>2. /\ f \in Seq(Seq(Byte)) /\ Len(f) = Len(ob) /\ Len(ob) \in Nat
      /\ \A k \in 1..Len(ob) : f[k] = IF k = n THEN ob[n].bytes ELSE <<>>
  <2>1. /\ f \in Seq(Seq(Byte)) /\ Len(f) = Len(ob)
        /\ \A k \in 1..Len(ob) : f[k] = IF ob[k].to = ob[n].to THEN ob[k].bytes ELSE <<>>
    BY <1>1, ForShape
  <2> QED BY <2>1
<1>3. PICK l : l = SubSeq(f, 1, n - 1)
  OBVIOUS
<1>4. PICK r : r = SubSeq(f, n + 1, Len(f))
  OBVIOUS
<1>5. /\ FlattenSeq(f) = (FlattenSeq(l) \o f[n]) \o FlattenSeq(r) /\ f[n] \in Seq(Byte)
  BY <1>2, <1>3, <1>4, FlattenAt
<1>6. l \in Seq(Seq(Byte)) /\ \A k \in 1..Len(l) : l[k] = <<>>
  <2> DEFINE T == Seq(Byte)
  <2>1. f \in Seq(T)
    BY <1>2
  <2> HIDE DEF T
  <2>2. l \in Seq(T) /\ Len(l) = n - 1 /\ \A k \in 1..(n - 1) : l[k] = f[k]
    BY <1>2, <1>3, <2>1
  <2>3. ASSUME NEW k \in 1..(n - 1) PROVE f[k] = <<>>
    <3>1. k \in 1..Len(ob) /\ k # n
      BY <1>2
    <3> QED BY <1>2, <3>1
  <2> QED BY <2>2, <2>3 DEF T
<1>7. r \in Seq(Seq(Byte)) /\ \A k \in 1..Len(r) : r[k] = <<>>
  <2> DEFINE T == Seq(Byte)
  <2>1. f \in Seq(T)
    BY <1>2
  <2> HIDE DEF T
  <2>2. r \in Seq(T) /\ Len(r) = Len(f) - n /\ \A k \in 1..(Len(f) - n) : r[k] = f[n + k]
    BY <1>2, <1>4, <2>1
  <2>3. ASSUME NEW k \in 1..(Len(f) - n) PROVE f[n + k] = <<>>
    <3>1. n + k \in 1..Len(ob) /\ n + k # n
      BY <1>2
    <3> QED BY <1>2, <3>1
  <2> QED BY <2>2, <2>3 DEF T
<1>8. FlattenSeq(l) = <<>> /\ FlattenSeq(r) = <<>>
  BY <1>6, <1>7, FlattenBlank
<1>9. PICK x \in Seq(Byte) : x = f[n]
  BY <1>5
<1>10. (<<>> \o x) \o <<>> = x
  BY ConcatEmptySeq
<1> QED BY <1>1, <1>2, <1>5, <1>8, <1>9, <1>10 DEF Sent

Posted(replies) == [n \in DOMAIN replies |-> Bytes(replies[n])]

(* The answers, as bytes in the outbox and as what each client is told.    *)
Answers(replies, d) ==
  /\ Posted(replies) \in Seq(Out)
  /\ TellsTo(d, replies) \in Seq(Commands)
  /\ Sent(Posted(replies), d) = EncodeAll(TellsTo(d, replies))
  /\ TellsTo(d, replies) = <<>>
     \/ \E i \in 1..Len(replies) : replies[i].to = d /\ TellsTo(d, replies) = <<replies[i].cmd>>

LEMMA Posting ==
  ASSUME NEW replies, NEW c, NEW cmd, Addressed(replies, c, cmd), NEW d
  PROVE  Answers(replies, d)
<1>0. /\ replies \in Seq(Reply)
      /\ \A i, j \in 1..Len(replies) : replies[i].to = replies[j].to => i = j
  BY DEF Addressed
<1>1. PICK n \in Nat : n = Len(replies)
  BY <1>0
<1>2. ASSUME NEW k \in 1..n
      PROVE  replies[k].to \in Clients /\ replies[k].cmd \in Commands /\ Encode(replies[k].cmd) \in Seq(Byte)
  <2>1. replies[k] \in Reply
    BY <1>0, <1>1
  <2>2. replies[k].to \in Clients /\ replies[k].cmd \in Commands
    BY <2>1 DEF Reply
  <2> QED BY <2>2, PartsShape
<1>3. PICK ob : ob = Posted(replies)
  OBVIOUS
<1>4. ob = [k \in 1..n |-> [to |-> replies[k].to, bytes |-> Encode(replies[k].cmd)]]
  BY <1>1, <1>3 DEF Posted, Bytes
<1>5. ASSUME NEW k \in 1..n
      PROVE  ob[k] \in Out /\ ob[k].to = replies[k].to /\ ob[k].bytes = Encode(replies[k].cmd)
  BY <1>2, <1>4 DEF Out
<1>6. ob \in Seq(Out) /\ Len(ob) = n
  BY <1>4, <1>5
<1>7. PICK I : I = {i \in 1..n : replies[i].to = d}
  OBVIOUS
<1>8. PICK m : m = IF I # {} THEN Min(I) ELSE 0
  OBVIOUS
<1>9. TellsTo(d, replies) = IF m = 0 THEN <<>> ELSE <<replies[m].cmd>>
  BY <1>1, <1>7, <1>8 DEF TellsTo, SelectInSeq
<1>10. CASE I = {}
  <2>1. TellsTo(d, replies) = <<>>
    BY <1>8, <1>9, <1>10
  <2>2. \A k \in 1..Len(ob) : ob[k].to # d
    BY <1>5, <1>6, <1>7, <1>10
  <2>3. Sent(ob, d) = <<>>
    BY <1>6, <2>2, SentToOthers
  <2> QED BY <1>3, <1>6, <2>1, <2>3, EncodeAllNone, EmptySeq DEF Answers
<1>11. CASE I # {}
  <2>1. PICK i \in I : TRUE
    BY <1>11
  <2>2. i \in 1..n /\ replies[i].to = d
    BY <1>7, <2>1
  <2>3. I = {i}
    BY <1>0, <1>1, <1>7, <2>2
  <2>4. Min({i}) = i
    BY <2>2 DEF Min
  <2>5. m = i /\ m # 0
    BY <1>8, <1>11, <2>2, <2>3, <2>4
  <2>6. TellsTo(d, replies) = <<replies[i].cmd>>
    BY <1>9, <2>5
  <2>7. /\ i \in 1..Len(ob) /\ ob[i].to = d /\ ob[i].bytes = Encode(replies[i].cmd)
        /\ \A k \in 1..Len(ob) : ob[k].to = ob[i].to => k = i
    BY <1>0, <1>1, <1>5, <1>6, <2>2
  <2>8. Sent(ob, d) = Encode(replies[i].cmd)
    BY <1>6, <2>7, SentToOne
  <2>9. PICK x \in Commands : x = replies[i].cmd
    BY <1>2, <2>2
  <2>10. <<x>> \in Seq(Commands) /\ EncodeAll(<<x>>) = Encode(x)
    BY EncodeAllOne
  <2> QED BY <1>1, <1>3, <1>6, <2>2, <2>6, <2>8, <2>9, <2>10 DEF Answers
<1> QED BY <1>10, <1>11

-----------------------------------------------------------------------------
(* One direction of a connection: what was sent, what was handled of it,   *)
(* and what waits in the receiver's buffer, in the kernel and in the sender. *)

Flow(sent, done, buf, wire, kept) ==
  /\ IsPrefix(done, sent)
  /\ EncodeAll(sent) = EncodeAll(done) \o buf \o wire \o kept

Joined(a, b, c, d) ==
  /\ ((a \o b) \o c) \o d = a \o (b \o (c \o d))
  /\ (a \o b) \o (c \o d) = (a \o (b \o c)) \o d

LEMMA BytesJoined ==
  ASSUME NEW T, NEW a \in Seq(T), NEW b \in Seq(T), NEW c \in Seq(T), NEW d \in Seq(T)
  PROVE  Joined(a, b, c, d)
<1>1. a \o b \in Seq(T) /\ c \o d \in Seq(T)
  BY Join
<1>2. Grouped(a \o b, c, d) /\ Grouped(a, b, c \o d) /\ Grouped(a, b, c)
  BY <1>1, Grouping
<1> QED BY <1>2 DEF Grouped, Joined

\* The sender hands some bytes to the kernel.
LEMMA FlowMoves ==
  ASSUME NEW sent \in Seq(Commands), NEW done \in Seq(Commands),
         NEW buf \in Seq(Byte), NEW wire \in Seq(Byte), NEW gone \in Seq(Byte), NEW kept \in Seq(Byte),
         Flow(sent, done, buf, wire, gone \o kept)
  PROVE  Flow(sent, done, buf, wire \o gone, kept)
<1>1. PICK e \in Seq(Byte) : e = EncodeAll(done)
  BY CodedShape
<1>2. e \o buf \in Seq(Byte)
  BY Join
<1>3. ((e \o buf) \o wire) \o (gone \o kept) = ((e \o buf) \o (wire \o gone)) \o kept
  <2>1. Joined(e \o buf, wire, gone, kept)
    BY <1>2, BytesJoined
  <2> QED BY <2>1 DEF Joined
<1> QED BY <1>1, <1>3 DEF Flow

\* The receiver takes some from it.
LEMMA FlowArrives ==
  ASSUME NEW sent \in Seq(Commands), NEW done \in Seq(Commands),
         NEW buf \in Seq(Byte), NEW piece \in Seq(Byte), NEW wire \in Seq(Byte), NEW kept \in Seq(Byte),
         Flow(sent, done, buf, piece \o wire, kept)
  PROVE  Flow(sent, done, buf \o piece, wire, kept)
<1>1. PICK e \in Seq(Byte) : e = EncodeAll(done)
  BY CodedShape
<1>2. (e \o buf) \o (piece \o wire) = (e \o (buf \o piece)) \o wire
  <2>1. Joined(e, buf, piece, wire)
    BY BytesJoined
  <2> QED BY <2>1 DEF Joined
<1> QED BY <1>1, <1>2 DEF Flow

\* More is said, after what waits in the sender.
LEMMA FlowGrows ==
  ASSUME NEW sent \in Seq(Commands), NEW done \in Seq(Commands), NEW more \in Seq(Commands),
         NEW buf \in Seq(Byte), NEW wire \in Seq(Byte), NEW kept \in Seq(Byte),
         Flow(sent, done, buf, wire, kept)
  PROVE  sent \o more \in Seq(Commands) /\ Flow(sent \o more, done, buf, wire, kept \o EncodeAll(more))
<1>1. PICK e \in Seq(Byte) : e = EncodeAll(done)
  BY CodedShape
<1>2. PICK m \in Seq(Byte) : m = EncodeAll(more)
  BY CodedShape
<1>3. PICK first : first = (e \o buf) \o wire
  OBVIOUS
<1>4. first \in Seq(Byte)
  <2>1. e \o buf \in Seq(Byte)
    BY Join
  <2> QED BY <1>3, <2>1, Join
<1>5. (first \o kept) \o m = first \o (kept \o m)
  <2>1. Grouped(first, kept, m)
    BY <1>4, Grouping
  <2> QED BY <2>1 DEF Grouped
<1>6. EncodeAll(sent \o more) = EncodeAll(sent) \o m
  BY <1>2, EncodeAllConcat
<1>7. EncodeAll(sent) = first \o kept
  BY <1>1, <1>3 DEF Flow
<1>8. IsPrefix(done, sent \o more) /\ sent \o more \in Seq(Commands)
  BY PrefixLonger DEF Flow
<1>9. EncodeAll(sent \o more) = ((EncodeAll(done) \o buf) \o wire) \o (kept \o EncodeAll(more))
  BY <1>1, <1>2, <1>3, <1>5, <1>6, <1>7
<1> QED BY <1>8, <1>9 DEF Flow

Handles(sent, done, buf, wire, kept) ==
  /\ NcmdIsComplete(buf) = FirstWhole(sent, done, buf)
  /\ NcmdIsComplete(buf) > 0 =>
       \E cmd \in Commands :
         /\ Len(done) < Len(sent) /\ cmd = sent[Len(done) + 1]
         /\ Decode(buf) = cmd /\ NcmdGetNumArgs(buf) = Len(cmd.args)
         /\ Append(done, cmd) \in Seq(Commands) /\ NcmdRemove(buf) \in Seq(Byte)
         /\ Flow(sent, Append(done, cmd), NcmdRemove(buf), wire, kept)

\* The receiver finds a whole command exactly when it is all there, and it is
\* the next one that was sent.
LEMMA FlowHandled ==
  ASSUME NEW sent \in Seq(Commands), NEW done \in Seq(Commands),
         NEW buf \in Seq(Byte), NEW wire \in Seq(Byte), NEW kept \in Seq(Byte),
         Flow(sent, done, buf, wire, kept)
  PROVE  Handles(sent, done, buf, wire, kept)
<1>1. PICK more \in Seq(Byte) : more = wire \o kept
  BY Join
<1>2. PICK e \in Seq(Byte) : e = EncodeAll(done)
  BY CodedShape
<1>3. ((e \o buf) \o wire) \o kept = e \o (buf \o more)
  <2>1. Joined(e, buf, wire, kept)
    BY BytesJoined
  <2> QED BY <1>1, <2>1 DEF Joined
<1>4. IsPrefix(done, sent) /\ EncodeAll(sent) = EncodeAll(done) \o (buf \o more)
  BY <1>2, <1>3 DEF Flow
<1>5. NcmdIsComplete(buf) = FirstWhole(sent, done, buf)
  <2>1. Finds(done, sent, buf, more)
    BY <1>4, Received
  <2> QED BY <2>1 DEF Finds
<1>6. ASSUME NcmdIsComplete(buf) > 0
      PROVE  \E cmd \in Commands :
                /\ Len(done) < Len(sent) /\ cmd = sent[Len(done) + 1]
                /\ Decode(buf) = cmd /\ NcmdGetNumArgs(buf) = Len(cmd.args)
                /\ Append(done, cmd) \in Seq(Commands) /\ NcmdRemove(buf) \in Seq(Byte)
                /\ Flow(sent, Append(done, cmd), NcmdRemove(buf), wire, kept)
  <2>1. PICK cmd \in Commands :
           /\ Len(done) < Len(sent) /\ cmd = sent[Len(done) + 1]
           /\ Decode(buf) = cmd /\ NcmdGetNumArgs(buf) = Len(cmd.args)
           /\ Append(done, cmd) \in Seq(Commands) /\ IsPrefix(Append(done, cmd), sent)
           /\ NcmdRemove(buf) \in Seq(Byte)
           /\ EncodeAll(sent) = EncodeAll(Append(done, cmd)) \o (NcmdRemove(buf) \o more)
    <3>1. EncodeAll(sent) = EncodeAll(done) \o (buf \o more)
      BY <1>4
    <3>2. IsPrefix(done, sent)
      BY <1>4
    <3>3. Finds(done, sent, buf, more)
      BY <3>1, <3>2, Received
    <3> QED BY <1>6, <3>3 DEF Finds
  <2>2. PICK d \in Seq(Commands) : d = Append(done, cmd)
    BY <2>1
  <2>3. PICK f \in Seq(Byte) : f = EncodeAll(d)
    BY CodedShape
  <2>4. PICK r \in Seq(Byte) : r = NcmdRemove(buf)
    BY <2>1
  <2>5. ((f \o r) \o wire) \o kept = f \o (r \o more)
    <3>1. Joined(f, r, wire, kept)
      BY BytesJoined
    <3> QED BY <1>1, <3>1 DEF Joined
  <2>6. Flow(sent, d, r, wire, kept)
    BY <2>1, <2>2, <2>3, <2>4, <2>5 DEF Flow
  <2> QED BY <2>1, <2>2, <2>4, <2>6
<1> QED BY <1>5, <1>6 DEF Handles

\* Nothing has happened to a connection.
LEMMA FlowBegins ==
  ASSUME NEW cmd \in Commands
  PROVE  Flow(<<cmd>>, <<>>, <<>>, <<>>, Encode(cmd)) /\ Flow(<<>>, <<>>, <<>>, <<>>, <<>>)
<1>1. /\ <<>> \in Seq(Commands) /\ <<>> \in Seq(Byte) /\ Len(<<>>) = 0
      /\ <<cmd>> \in Seq(Commands) /\ Len(<<cmd>>) = 1
  BY EmptySeq
<1>2. IsPrefix(<<>>, <<cmd>>) /\ IsPrefix(<<>>, <<>>)
  <2>1. ASSUME NEW q \in Seq(Commands) PROVE IsPrefix(<<>>, q)
    <3>0. Len(q) \in Nat
      OBVIOUS
    <3>1. PICK none \in Seq(Commands) : none = <<>> /\ Len(none) = 0
      BY <1>1
    <3>2. Len(none) <= Len(q) /\ \A k \in 1..Len(none) : none[k] = q[k]
      BY <3>0, <3>1
    <3>3. IsPrefix(none, q)
      BY <3>2, PrefixIntro
    <3> QED BY <3>1, <3>3
  <2> QED BY <1>1, <2>1
<1>3. PICK e \in Seq(Byte) : e = Encode(cmd)
  BY PartsShape
<1>4. EncodeAll(<<>>) = <<>> /\ EncodeAll(<<cmd>>) = e
  BY <1>3, EncodeAllNone, EncodeAllOne
<1>5. <<>> \o <<>> = <<>> /\ <<>> \o e = e
  BY <1>1
<1> QED BY <1>2, <1>3, <1>4, <1>5 DEF Flow
-----------------------------------------------------------------------------
(* Sender and receiver take bytes from the front.                          *)

LEMMA CutInTwo ==
  ASSUME NEW T, NEW q \in Seq(T), NEW k \in 0..Len(q)
  PROVE  /\ SubSeq(q, 1, k) \in Seq(T) /\ SubSeq(q, k + 1, Len(q)) \in Seq(T)
         /\ q = SubSeq(q, 1, k) \o SubSeq(q, k + 1, Len(q))
<1>1. 1 \in 1..(Len(q) + 1) /\ k \in (1 - 1)..Len(q) /\ Len(q) \in k..Len(q)
  OBVIOUS
<1>2. SubSeq(q, 1, k) \o SubSeq(q, k + 1, Len(q)) = SubSeq(q, 1, Len(q))
  BY <1>1, ConcatAdjacentSubSeq
<1>3. SubSeq(q, 1, Len(q)) = q
  BY SubSeqFull
<1>4. SubSeq(q, 1, k) \in Seq(T) /\ SubSeq(q, k + 1, Len(q)) \in Seq(T)
  OBVIOUS
<1> QED BY <1>2, <1>3, <1>4

LEMMA FitsAndRest ==
  ASSUME StreamAssumption, NEW wire \in Seq(Byte), NEW bytes \in Seq(Byte), Room(wire) > 0
  PROVE  /\ Fits(wire, bytes) \in Seq(Byte) /\ Rest(wire, bytes) \in Seq(Byte)
         /\ bytes = Fits(wire, bytes) \o Rest(wire, bytes)
<1>1. PICK k : k = Least(Room(wire), Len(bytes))
  OBVIOUS
<1>2. k \in 0..Len(bytes)
  <2>1. Len(wire) \in Nat /\ Len(bytes) \in Nat /\ SockBuf \in Nat
    BY DEF StreamAssumption
  <2>2. Room(wire) \in Nat
    BY <2>1 DEF Room
  <2> QED BY <1>1, <2>1, <2>2 DEF Least
<1> QED BY <1>1, <1>2, CutInTwo DEF Fits, Rest

LEMMA PieceAndAfter ==
  ASSUME StreamAssumption, NEW wire \in Seq(Byte), NEW k \in Pieces(wire)
  PROVE  /\ Piece(wire, k) \in Seq(Byte) /\ After(wire, k) \in Seq(Byte)
         /\ wire = Piece(wire, k) \o After(wire, k)
<1>1. k \in 0..Len(wire)
  <2>1. Len(wire) \in Nat /\ LNCMD_BUF_SIZE - 1 \in Nat
    BY DEF StreamAssumption
  <2>2. PICK most : most = Least(Len(wire), LNCMD_BUF_SIZE - 1)
    OBVIOUS
  <2>3. most \in Nat /\ most <= Len(wire)
    BY <2>1, <2>2 DEF Least
  <2>4. k \in 1..most
    BY <2>2 DEF Pieces
  <2> QED BY <2>1, <2>3, <2>4
<1> QED BY <1>1, CutInTwo DEF Piece, After

LEMMA WiderSeq ==
  ASSUME NEW S, NEW T, S \subseteq T, NEW q \in Seq(S)
  PROVE  q \in Seq(T)
OBVIOUS

-----------------------------------------------------------------------------
(* The invariant, connection by connection.                                *)

Flows(c) ==
  /\ Flow(said[c], handled[c], sbuf[c], up[c], sending[c])
  /\ Flow(told[c], heard[c], rbuf[c], down[c], Sent(outbox, c))

LEMMA FlowsAre == NothingLostOrTwice <=> \A c \in Clients : Flows(c)
BY UnsentIsSent DEF NothingLostOrTwice, Flows, Flow

LEMMA FlowsWillBe == NothingLostOrTwice' <=> \A c \in Clients : Flows(c)'
BY DEF NothingLostOrTwice, Flows, Flow, Unsent, Sent, For

\* What a connection consists of.
Parted(c) ==
  /\ c \in Clients
  /\ said[c] \in Seq(Requests) /\ handled[c] \in Seq(Requests)
  /\ said[c] \in Seq(Commands) /\ handled[c] \in Seq(Commands)
  /\ told[c] \in Seq(Commands) /\ heard[c] \in Seq(Commands)
  /\ sbuf[c] \in Seq(Byte) /\ up[c] \in Seq(Byte) /\ sending[c] \in Seq(Byte)
  /\ rbuf[c] \in Seq(Byte) /\ down[c] \in Seq(Byte)
  /\ outbox \in Seq(Out) /\ Sent(outbox, c) \in Seq(Byte)
  /\ Flows(c)

LEMMA PartsOfInv ==
  ASSUME StreamInv, NEW c \in Clients
  PROVE  Parted(c)
<1>1. /\ said[c] \in Seq(Requests) /\ handled[c] \in Seq(Requests)
      /\ told[c] \in Seq(Commands) /\ heard[c] \in Seq(Commands)
      /\ sbuf[c] \in Seq(Byte) /\ up[c] \in Seq(Byte) /\ sending[c] \in Seq(Byte)
      /\ rbuf[c] \in Seq(Byte) /\ down[c] \in Seq(Byte)
  BY DEF StreamInv, TypeOK
<1>2. outbox \in Seq(Out)
  BY DEF StreamInv, TypeOK, Out
<1>3. Sent(outbox, c) \in Seq(Byte)
  BY <1>2, ForShape
<1>4. said[c] \in Seq(Commands) /\ handled[c] \in Seq(Commands)
  BY <1>1, RequestsShape, WiderSeq
<1>5. Flows(c)
  BY FlowsAre DEF StreamInv
<1> QED BY <1>1, <1>2, <1>3, <1>4, <1>5 DEF Parted

LEMMA InvInit ==
  ASSUME StreamAssumption, Init
  PROVE  StreamInv
<1>1. ASSUME NEW c \in Clients PROVE FirstSaid(c) \in Requests /\ FirstSaid(c) \in Commands
  BY RequestsShape DEF FirstSaid, Requests
<1>2. /\ <<>> \in Seq(Byte) /\ <<>> \in Seq(Requests) /\ <<>> \in Seq(Commands)
      /\ <<>> \in Seq([to : Clients, bytes : Seq(Byte)])
  BY EmptySeq
<1>3. ASSUME NEW c \in Clients PROVE Encode(FirstSaid(c)) \in Seq(Byte) /\ <<FirstSaid(c)>> \in Seq(Requests)
  <2>1. PICK x \in Requests : x = FirstSaid(c)
    BY <1>1
  <2>2. <<x>> \in Seq(Requests)
    OBVIOUS
  <2>3. Encode(x) \in Seq(Byte)
    BY <1>1, <2>1, PartsShape
  <2> QED BY <2>1, <2>2, <2>3
<1>4. TypeOK
  <2>1. /\ up \in [Clients -> Seq(Byte)] /\ down \in [Clients -> Seq(Byte)]
        /\ sbuf \in [Clients -> Seq(Byte)] /\ rbuf \in [Clients -> Seq(Byte)]
    BY <1>2 DEF Init
  <2>2. sending \in [Clients -> Seq(Byte)]
    BY <1>3 DEF Init
  <2>3. /\ outbox \in Seq([to : Clients, bytes : Seq(Byte)])
        /\ mode \in [Clients -> {"loop", "got", "done"}] /\ counted \in [Askers -> Nat]
    BY <1>2 DEF Init
  <2>4. said \in [Clients -> Seq(Requests)] /\ handled \in [Clients -> Seq(Requests)]
    BY <1>2, <1>3 DEF Init
  <2>5. told \in [Clients -> Seq(Commands)] /\ heard \in [Clients -> Seq(Commands)]
    BY <1>2 DEF Init
  <2> QED BY <2>1, <2>2, <2>3, <2>4, <2>5 DEF TypeOK
<1>5. OnlyTheList
  <2> SUFFICES ASSUME NEW c \in Askers
               PROVE  said[c] = <<MagicWho>> /\ told[c] \in Seq({WhoAnswer(MagicWho)})
    BY DEF OnlyTheList
  <2>1. c \in Clients /\ FirstSaid(c) = MagicWho
    BY DEF Clients, FirstSaid
  <2>2. said[c] = <<MagicWho>> /\ told[c] = <<>>
    BY <2>1 DEF Init
  <2> QED BY <2>2, EmptySeq
<1>6. ASSUME NEW c \in Clients PROVE Flows(c)
  <2>1. PICK x \in Commands : x = FirstSaid(c)
    BY <1>1
  <2>2. Flow(<<x>>, <<>>, <<>>, <<>>, Encode(x)) /\ Flow(<<>>, <<>>, <<>>, <<>>, <<>>)
    BY FlowBegins
  <2>3. /\ said[c] = <<x>> /\ handled[c] = <<>> /\ sbuf[c] = <<>> /\ up[c] = <<>> /\ sending[c] = Encode(x)
        /\ told[c] = <<>> /\ heard[c] = <<>> /\ rbuf[c] = <<>> /\ down[c] = <<>> /\ outbox = <<>>
    BY <2>1 DEF Init
  <2>4. Sent(outbox, c) = <<>>
    BY <2>3, SentNone
  <2> QED BY <2>2, <2>3, <2>4 DEF Flows
<1>7. CountIsRight
  <2> SUFFICES ASSUME NEW c \in Askers, mode[c] = "done" PROVE FALSE
    BY DEF CountIsRight
  <2>1. c \in Clients
    BY DEF Clients
  <2> QED BY <2>1 DEF Init
<1> QED BY <1>4, <1>5, <1>6, <1>7, FlowsAre DEF StreamInv
-----------------------------------------------------------------------------
(* The steps, one after the other.                                         *)

\* What is not said, told or counted stays right.
LEMMA ListStays ==
  ASSUME StreamInv, \A c \in Askers : said'[c] = said[c] /\ told'[c] = told[c]
  PROVE  OnlyTheList'
BY DEF StreamInv, OnlyTheList

LEMMA CountStays ==
  ASSUME StreamInv, \A c \in Askers : (mode'[c] = "done" => mode[c] = "done") /\ counted'[c] = counted[c]
  PROVE  CountIsRight'
BY DEF StreamInv, CountIsRight

LEMMA InvClientSends ==
  ASSUME StreamAssumption, StreamInv, NEW c \in Clients, ClientSends(c)
  PROVE  StreamInv'
<1>1. /\ Room(up[c]) > 0
      /\ up' = [up EXCEPT ![c] = @ \o Fits(@, sending[c])]
      /\ sending' = [sending EXCEPT ![c] = Rest(up[c], @)]
      /\ UNCHANGED <<down, sbuf, rbuf, outbox, mode, counted, said, handled, told, heard>>
  BY DEF ClientSends, historyVars
<1>2. Parted(c)
  BY PartsOfInv
<1>3. PICK wire \in Seq(Byte) : wire = up[c]
  BY <1>2 DEF Parted
<1>4. PICK bytes \in Seq(Byte) : bytes = sending[c]
  BY <1>2 DEF Parted
<1>5. /\ Fits(wire, bytes) \in Seq(Byte) /\ Rest(wire, bytes) \in Seq(Byte)
      /\ bytes = Fits(wire, bytes) \o Rest(wire, bytes)
  BY <1>1, <1>3, FitsAndRest
<1>6. PICK gone \in Seq(Byte) : gone = Fits(wire, bytes)
  BY <1>5
<1>7. PICK kept \in Seq(Byte) : kept = Rest(wire, bytes)
  BY <1>5
<1>8. wire \o gone \in Seq(Byte)
  BY Join
<1>9. up \in [Clients -> Seq(Byte)] /\ sending \in [Clients -> Seq(Byte)]
  BY DEF StreamInv, TypeOK
<1>10. /\ up'[c] = wire \o gone /\ sending'[c] = kept
       /\ \A d \in Clients : d # c => up'[d] = up[d] /\ sending'[d] = sending[d]
  BY <1>1, <1>3, <1>4, <1>6, <1>7, <1>9
<1>11. up' \in [Clients -> Seq(Byte)] /\ sending' \in [Clients -> Seq(Byte)]
  BY <1>1, <1>3, <1>4, <1>6, <1>7, <1>8, <1>9
<1>12. TypeOK'
  BY <1>1, <1>11 DEF StreamInv, TypeOK
<1>13. ASSUME NEW d \in Clients PROVE Flows(d)'
  <2>1. Flows(d)
    BY PartsOfInv DEF Parted
  <2>2. CASE d # c
    BY <1>1, <1>10, <2>1, <2>2 DEF Flows
  <2>3. CASE d = c
    <3>1. Flow(said[c], handled[c], sbuf[c], wire, gone \o kept)
      BY <1>3, <1>4, <1>5, <1>6, <1>7, <2>1, <2>3 DEF Flows
    <3>2. Flow(said[c], handled[c], sbuf[c], wire \o gone, kept)
      BY <1>2, <3>1, FlowMoves DEF Parted
    <3> QED BY <1>1, <1>10, <2>1, <2>3, <3>2 DEF Flows
  <2> QED BY <2>2, <2>3
<1>14. OnlyTheList'
  BY <1>1, ListStays
<1>15. CountIsRight'
  BY <1>1, CountStays
<1> QED BY <1>12, <1>13, <1>14, <1>15, FlowsWillBe DEF StreamInv

LEMMA InvClientRecv ==
  ASSUME StreamAssumption, StreamInv, NEW c \in Clients, ClientRecv(c)
  PROVE  StreamInv'
<1>1. PICK k \in Pieces(down[c]) :
         /\ down' = [down EXCEPT ![c] = After(@, k)]
         /\ rbuf' = [rbuf EXCEPT ![c] = @ \o Piece(down[c], k)]
  BY DEF ClientRecv
<1>2. /\ mode' = [mode EXCEPT ![c] = "got"]
      /\ UNCHANGED <<up, sbuf, sending, outbox, counted, said, handled, told, heard>>
  BY DEF ClientRecv, historyVars
<1>3. Parted(c)
  BY PartsOfInv
<1>4. PICK wire \in Seq(Byte) : wire = down[c]
  BY <1>3 DEF Parted
<1>5. PICK buf \in Seq(Byte) : buf = rbuf[c]
  BY <1>3 DEF Parted
<1>6. Piece(wire, k) \in Seq(Byte) /\ After(wire, k) \in Seq(Byte) /\ wire = Piece(wire, k) \o After(wire, k)
  BY <1>1, <1>4, PieceAndAfter
<1>7. PICK piece \in Seq(Byte) : piece = Piece(wire, k)
  BY <1>6
<1>8. PICK after \in Seq(Byte) : after = After(wire, k)
  BY <1>6
<1>9. buf \o piece \in Seq(Byte)
  BY Join
<1>10. /\ down \in [Clients -> Seq(Byte)] /\ rbuf \in [Clients -> Seq(Byte)]
       /\ mode \in [Clients -> {"loop", "got", "done"}]
  BY DEF StreamInv, TypeOK
<1>11. /\ down'[c] = after /\ rbuf'[c] = buf \o piece
       /\ \A d \in Clients : d # c => down'[d] = down[d] /\ rbuf'[d] = rbuf[d]
  BY <1>1, <1>4, <1>5, <1>7, <1>8, <1>10
<1>12. /\ down' \in [Clients -> Seq(Byte)] /\ rbuf' \in [Clients -> Seq(Byte)]
       /\ mode' \in [Clients -> {"loop", "got", "done"}]
  BY <1>1, <1>2, <1>4, <1>5, <1>7, <1>8, <1>9, <1>10
<1>13. TypeOK'
  BY <1>2, <1>12 DEF StreamInv, TypeOK
<1>14. ASSUME NEW d \in Clients PROVE Flows(d)'
  <2>1. Flows(d)
    BY PartsOfInv DEF Parted
  <2>2. CASE d # c
    BY <1>2, <1>11, <2>1, <2>2 DEF Flows
  <2>3. CASE d = c
    <3>1. Flow(told[c], heard[c], buf, piece \o after, Sent(outbox, c))
      BY <1>4, <1>5, <1>6, <1>7, <1>8, <2>1, <2>3 DEF Flows
    <3>2. Flow(told[c], heard[c], buf \o piece, after, Sent(outbox, c))
      BY <1>3, <3>1, FlowArrives DEF Parted
    <3> QED BY <1>2, <1>11, <2>1, <2>3, <3>2 DEF Flows
  <2> QED BY <2>2, <2>3
<1>15. OnlyTheList'
  BY <1>2, ListStays
<1>16. CountIsRight'
  <2>1. ASSUME NEW d \in Askers PROVE (mode'[d] = "done" => mode[d] = "done") /\ counted'[d] = counted[d]
    BY <1>2, <1>10 DEF Clients
  <2> QED BY <2>1, CountStays
<1> QED BY <1>13, <1>14, <1>15, <1>16, FlowsWillBe DEF StreamInv

LEMMA InvAgain ==
  ASSUME StreamInv, NEW c \in Clients, Again(c)
  PROVE  StreamInv'
<1>1. /\ mode' = [mode EXCEPT ![c] = "loop"]
      /\ UNCHANGED <<up, down, sbuf, rbuf, sending, outbox, counted, said, handled, told, heard>>
  BY DEF Again, kernelVars, historyVars
<1>2. mode \in [Clients -> {"loop", "got", "done"}]
  BY DEF StreamInv, TypeOK
<1>3. mode' \in [Clients -> {"loop", "got", "done"}]
  BY <1>1, <1>2
<1>4. TypeOK'
  BY <1>1, <1>3 DEF StreamInv, TypeOK
<1>5. ASSUME NEW d \in Clients PROVE Flows(d)'
  <2>1. Flows(d)
    BY PartsOfInv DEF Parted
  <2> QED BY <1>1, <2>1 DEF Flows
<1>6. OnlyTheList'
  BY <1>1, ListStays
<1>7. CountIsRight'
  <2>1. ASSUME NEW d \in Askers PROVE (mode'[d] = "done" => mode[d] = "done") /\ counted'[d] = counted[d]
    BY <1>1, <1>2 DEF Clients
  <2> QED BY <2>1, CountStays
<1> QED BY <1>4, <1>5, <1>6, <1>7, FlowsWillBe DEF StreamInv
\* A client that has nothing left to send says one thing more.
LEMMA FlowSays ==
  ASSUME NEW sent \in Seq(Commands), NEW done \in Seq(Commands), NEW cmd \in Commands,
         NEW buf \in Seq(Byte), NEW wire \in Seq(Byte), Flow(sent, done, buf, wire, <<>>)
  PROVE  Flow(Append(sent, cmd), done, buf, wire, Encode(cmd))
<1>1. PICK none \in Seq(Byte) : none = <<>>
  BY EmptySeq
<1>2. PICK more \in Seq(Commands) : more = <<cmd>>
  <2>1. PICK q : q = <<cmd>>
    OBVIOUS
  <2>2. q \in Seq(Commands)
    BY <2>1, EmptySeq
  <2> QED BY <2>1, <2>2
<1>3. PICK e \in Seq(Byte) : e = Encode(cmd)
  BY PartsShape
<1>4. Flow(sent \o more, done, buf, wire, none \o EncodeAll(more))
  BY <1>1, FlowGrows
<1>5. EncodeAll(more) = e
  BY <1>2, <1>3, EncodeAllOne
<1>6. none \o e = e
  BY <1>1
<1>7. sent \o more = Append(sent, cmd)
  BY <1>2, AppendIsConcat
<1> QED BY <1>3, <1>4, <1>5, <1>6, <1>7

LEMMA InvType ==
  ASSUME StreamAssumption, StreamInv, NEW c \in Clients, Type(c)
  PROVE  StreamInv'
<1>1. PICK cmd \in {Command(C_SAY, <<<<65>>>>), Command(C_AWAY, <<>>)} : Sends(c, cmd)
  BY DEF Type
<1>2. /\ c \in Typists /\ sending[c] = <<>>
      /\ UNCHANGED <<up, down, sbuf, rbuf, outbox, mode, counted, handled, told, heard>>
  BY DEF Type
<1>3. cmd \in Requests /\ cmd \in Commands
  BY <1>1, RequestsShape DEF Requests
<1>4. /\ sending' = [sending EXCEPT ![c] = Encode(cmd)]
      /\ said' = [said EXCEPT ![c] = Append(@, cmd)]
  BY <1>1 DEF Sends
<1>5. Parted(c)
  BY PartsOfInv
<1>6. sending \in [Clients -> Seq(Byte)] /\ said \in [Clients -> Seq(Requests)]
  BY DEF StreamInv, TypeOK
<1>7. PICK e \in Seq(Byte) : e = Encode(cmd)
  BY <1>3, PartsShape
<1>8. PICK q : q = Append(said[c], cmd)
  OBVIOUS
<1>9. q \in Seq(Requests)
  BY <1>3, <1>5, <1>8 DEF Parted
<1>10. /\ sending'[c] = e /\ said'[c] = q
       /\ \A d \in Clients : d # c => sending'[d] = sending[d] /\ said'[d] = said[d]
  BY <1>4, <1>6, <1>7, <1>8
<1>11. sending' \in [Clients -> Seq(Byte)] /\ said' \in [Clients -> Seq(Requests)]
  BY <1>4, <1>6, <1>7, <1>8, <1>9
<1>12. TypeOK'
  BY <1>2, <1>11 DEF StreamInv, TypeOK
<1>13. ASSUME NEW d \in Clients PROVE Flows(d)'
  <2>1. Flows(d)
    BY PartsOfInv DEF Parted
  <2>2. CASE d # c
    BY <1>2, <1>10, <2>1, <2>2 DEF Flows
  <2>3. CASE d = c
    <3>1. Flow(said[c], handled[c], sbuf[c], up[c], <<>>)
      BY <1>2, <2>1, <2>3 DEF Flows
    <3>2. Flow(q, handled[c], sbuf[c], up[c], e)
      BY <1>3, <1>5, <1>7, <1>8, <3>1, FlowSays DEF Parted
    <3> QED BY <1>2, <1>10, <2>1, <2>3, <3>2 DEF Flows
  <2> QED BY <2>2, <2>3
<1>14. OnlyTheList'
  <2>1. \A d \in Askers : d \in Clients /\ d # c
    BY <1>2 DEF StreamAssumption, Clients
  <2> QED BY <1>2, <1>10, <2>1, ListStays
<1>15. CountIsRight'
  BY <1>2, CountStays
<1> QED BY <1>12, <1>13, <1>14, <1>15, FlowsWillBe DEF StreamInv

\* A client finds the next thing it was told.
LEMMA ClientFinds ==
  ASSUME StreamInv, NEW c \in Clients, NcmdIsComplete(rbuf[c]) > 0
  PROVE  \E cmd \in Commands :
           /\ Len(heard[c]) < Len(told[c]) /\ cmd = told[c][Len(heard[c]) + 1]
           /\ Decode(rbuf[c]) = cmd /\ NcmdGetNumArgs(rbuf[c]) = Len(cmd.args)
           /\ Append(heard[c], cmd) \in Seq(Commands) /\ NcmdRemove(rbuf[c]) \in Seq(Byte)
           /\ Flow(told[c], Append(heard[c], cmd), NcmdRemove(rbuf[c]), down[c], Sent(outbox, c))
<1>1. Parted(c)
  BY PartsOfInv
<1>2. Handles(told[c], heard[c], rbuf[c], down[c], Sent(outbox, c))
  BY <1>1, FlowHandled DEF Parted, Flows
<1> QED BY <1>2 DEF Handles

LEMMA InvHear ==
  ASSUME StreamAssumption, StreamInv, NEW c \in Clients, Hear(c)
  PROVE  StreamInv'
<1>1. PICK cmd \in Commands :
        /\ Decode(rbuf[c]) = cmd
        /\ Append(heard[c], cmd) \in Seq(Commands) /\ NcmdRemove(rbuf[c]) \in Seq(Byte)
        /\ Flow(told[c], Append(heard[c], cmd), NcmdRemove(rbuf[c]), down[c], Sent(outbox, c))
  BY ClientFinds DEF Hear
<1>2. /\ c \in Chatters /\ sending[c] = <<>>
      /\ heard' = [heard EXCEPT ![c] = Append(@, cmd)]
      /\ rbuf' = [rbuf EXCEPT ![c] = NcmdRemove(@)]
      /\ UNCHANGED <<up, down, sbuf, outbox, mode, counted, handled, told>>
  BY <1>1 DEF Hear, kernelVars
<1>3. Sends(c, Command(C_WHO, <<>>)) \/ UNCHANGED <<sending, said>>
  BY DEF Hear
<1>4. Parted(c)
  BY PartsOfInv
<1>5. /\ sending \in [Clients -> Seq(Byte)] /\ said \in [Clients -> Seq(Requests)]
      /\ heard \in [Clients -> Seq(Commands)] /\ rbuf \in [Clients -> Seq(Byte)]
  BY DEF StreamInv, TypeOK
<1>6. PICK h \in Seq(Commands) : h = Append(heard[c], cmd)
  BY <1>1
<1>7. PICK r \in Seq(Byte) : r = NcmdRemove(rbuf[c])
  BY <1>1
<1>8. /\ heard'[c] = h /\ rbuf'[c] = r
      /\ \A d \in Clients : d # c => heard'[d] = heard[d] /\ rbuf'[d] = rbuf[d]
      /\ heard' \in [Clients -> Seq(Commands)] /\ rbuf' \in [Clients -> Seq(Byte)]
  BY <1>2, <1>5, <1>6, <1>7
<1>9. Flow(told[c], h, r, down[c], Sent(outbox, c))
  BY <1>1, <1>6, <1>7
<1>10. /\ sending' \in [Clients -> Seq(Byte)] /\ said' \in [Clients -> Seq(Requests)]
       /\ Flow(said'[c], handled[c], sbuf[c], up[c], sending'[c])
       /\ \A d \in Clients : d # c => sending'[d] = sending[d] /\ said'[d] = said[d]
  <2>1. Flow(said[c], handled[c], sbuf[c], up[c], sending[c])
    BY <1>4 DEF Parted, Flows
  <2>2. CASE UNCHANGED <<sending, said>>
    BY <1>5, <2>1, <2>2
  <2>3. CASE Sends(c, Command(C_WHO, <<>>))
    <3>1. PICK who \in Commands : who = Command(C_WHO, <<>>) /\ who \in Requests
      BY RequestsShape DEF Requests
    <3>2. PICK e \in Seq(Byte) : e = Encode(who)
      BY PartsShape
    <3>3. PICK q : q = Append(said[c], who)
      OBVIOUS
    <3>4. q \in Seq(Requests)
      BY <1>4, <3>1, <3>3 DEF Parted
    <3>5. /\ sending' = [sending EXCEPT ![c] = e] /\ said' = [said EXCEPT ![c] = q]
      BY <2>3, <3>1, <3>2, <3>3 DEF Sends
    <3>6. Flow(said[c], handled[c], sbuf[c], up[c], <<>>)
      BY <1>2, <2>1
    <3>7. Flow(q, handled[c], sbuf[c], up[c], e)
      BY <1>4, <3>2, <3>3, <3>6, FlowSays DEF Parted
    <3> QED BY <1>5, <3>4, <3>5, <3>7
  <2> QED BY <1>3, <2>2, <2>3
<1>11. TypeOK'
  BY <1>2, <1>8, <1>10 DEF StreamInv, TypeOK
<1>12. ASSUME NEW d \in Clients PROVE Flows(d)'
  <2>1. Flows(d)
    BY PartsOfInv DEF Parted
  <2>2. CASE d # c
    BY <1>2, <1>8, <1>10, <2>1, <2>2 DEF Flows
  <2>3. CASE d = c
    BY <1>2, <1>8, <1>9, <1>10, <2>3 DEF Flows
  <2> QED BY <2>2, <2>3
<1>13. OnlyTheList'
  <2>1. \A d \in Askers : d \in Clients /\ d # c
    BY <1>2 DEF StreamAssumption, Clients
  <2> QED BY <1>2, <1>10, <2>1, ListStays
<1>14. CountIsRight'
  BY <1>2, CountStays
<1> QED BY <1>11, <1>12, <1>13, <1>14, FlowsWillBe DEF StreamInv

LEMMA InvReport ==
  ASSUME StreamAssumption, StreamInv, NEW c \in Clients, Report(c)
  PROVE  StreamInv'
<1>1. PICK cmd \in Commands :
        /\ Len(heard[c]) < Len(told[c]) /\ cmd = told[c][Len(heard[c]) + 1]
        /\ Decode(rbuf[c]) = cmd /\ NcmdGetNumArgs(rbuf[c]) = Len(cmd.args)
        /\ Append(heard[c], cmd) \in Seq(Commands) /\ NcmdRemove(rbuf[c]) \in Seq(Byte)
        /\ Flow(told[c], Append(heard[c], cmd), NcmdRemove(rbuf[c]), down[c], Sent(outbox, c))
  BY ClientFinds DEF Report
<1>2. /\ c \in Askers
      /\ counted' = [counted EXCEPT ![c] = NcmdGetNumArgs(rbuf[c]) \div 2]
      /\ heard' = [heard EXCEPT ![c] = Append(@, cmd)]
      /\ rbuf' = [rbuf EXCEPT ![c] = NcmdRemove(@)]
      /\ mode' = [mode EXCEPT ![c] = "done"]
      /\ UNCHANGED <<up, down, sbuf, sending, outbox, said, handled, told>>
  BY <1>1 DEF Report, kernelVars
<1>3. /\ counted \in [Askers -> Nat] /\ mode \in [Clients -> {"loop", "got", "done"}]
      /\ heard \in [Clients -> Seq(Commands)] /\ rbuf \in [Clients -> Seq(Byte)]
  BY DEF StreamInv, TypeOK
<1>4. PICK h \in Seq(Commands) : h = Append(heard[c], cmd)
  BY <1>1
<1>5. PICK r \in Seq(Byte) : r = NcmdRemove(rbuf[c])
  BY <1>1
<1>6. /\ heard'[c] = h /\ rbuf'[c] = r
      /\ \A d \in Clients : d # c => heard'[d] = heard[d] /\ rbuf'[d] = rbuf[d]
      /\ heard' \in [Clients -> Seq(Commands)] /\ rbuf' \in [Clients -> Seq(Byte)]
  BY <1>2, <1>3, <1>4, <1>5
<1>7. Flow(told[c], h, r, down[c], Sent(outbox, c))
  BY <1>1, <1>4, <1>5
<1>8. PICK n \in Nat : n = Cardinality(Chatters)
  BY MembersShape
<1>9. NcmdGetNumArgs(rbuf[c]) \div 2 = n
  <2>1. told[c] \in Seq({WhoAnswer(MagicWho)})
    BY <1>2 DEF StreamInv, OnlyTheList
  <2>2. PICK list : list = WhoAnswer(MagicWho)
    OBVIOUS
  <2>3. told[c] \in Seq({list}) /\ heard[c] \in Seq(Commands)
    BY <1>3, <2>1, <2>2
  <2>4. Len(heard[c]) + 1 \in 1..Len(told[c])
    <3>1. Len(heard[c]) \in Nat /\ Len(told[c]) \in Nat
      BY <2>3
    <3> QED BY <1>1, <3>1
  <2>5. cmd = list
    BY <1>1, <2>3, <2>4
  <2>6. Len(cmd.args) = 1 + 2 * n
    BY <1>8, <2>2, <2>5, WhoAnswerShape
  <2>7. NcmdGetNumArgs(rbuf[c]) = 1 + 2 * n
    BY <1>1, <2>6
  <2> QED BY <2>7
<1>10. counted' = [counted EXCEPT ![c] = n]
  BY <1>2, <1>9
<1>11. /\ counted' \in [Askers -> Nat] /\ mode' \in [Clients -> {"loop", "got", "done"}]
  BY <1>2, <1>3, <1>10
<1>12. TypeOK'
  BY <1>2, <1>6, <1>11 DEF StreamInv, TypeOK
<1>13. ASSUME NEW d \in Clients PROVE Flows(d)'
  <2>1. Flows(d)
    BY PartsOfInv DEF Parted
  <2>2. CASE d # c
    BY <1>2, <1>6, <2>1, <2>2 DEF Flows
  <2>3. CASE d = c
    BY <1>2, <1>6, <1>7, <2>1, <2>3 DEF Flows
  <2> QED BY <2>2, <2>3
<1>14. OnlyTheList'
  BY <1>2, ListStays
<1>15. CountIsRight'
  <2> SUFFICES ASSUME NEW d \in Askers, mode'[d] = "done" PROVE counted'[d] = Cardinality(Chatters)
    BY DEF CountIsRight
  <2>1. d \in Clients
    BY DEF Clients
  <2>2. CASE d = c
    BY <1>2, <1>3, <1>8, <1>10, <2>2
  <2>3. CASE d # c
    <3>1. mode[d] = "done" /\ counted'[d] = counted[d]
      BY <1>2, <1>3, <1>10, <2>1, <2>3
    <3> QED BY <3>1 DEF StreamInv, CountIsRight
  <2> QED BY <2>2, <2>3
<1> QED BY <1>12, <1>13, <1>14, <1>15, FlowsWillBe DEF StreamInv
LEMMA FirstOut ==
  ASSUME NEW ob \in Seq(Out), ob # <<>>
  PROVE  ob[1] \in Out /\ Tail(ob) \in Seq(Out) /\ ob = <<ob[1]>> \o Tail(ob)
<1> DEFINE O == Out
<1>1. ob \in Seq(O) /\ ob # <<>>
  OBVIOUS
<1> HIDE DEF O
<1>2. ob[1] \in O /\ Tail(ob) \in Seq(O) /\ ob = <<ob[1]>> \o Tail(ob)
  BY <1>1
<1> QED BY <1>2 DEF O

LEMMA InvServerSends ==
  ASSUME StreamAssumption, StreamInv, ServerSends
  PROVE  StreamInv'
<1>1. outbox \in Seq(Out) /\ outbox # <<>>
  BY DEF StreamInv, TypeOK, Out, ServerSends
<1>2. PICK x \in Out, tail \in Seq(Out) : x = outbox[1] /\ tail = Tail(outbox) /\ outbox = <<x>> \o tail
  BY <1>1, FirstOut
<1>3. PICK c \in Clients : c = x.to
  BY DEF Out
<1>4. PICK bytes \in Seq(Byte) : bytes = x.bytes
  BY DEF Out
<1>5. PICK wire \in Seq(Byte) : wire = down[c]
  BY DEF StreamInv, TypeOK
<1>6. PICK gone : gone = Fits(wire, bytes)
  OBVIOUS
<1>7. PICK kept : kept = Rest(wire, bytes)
  OBVIOUS
<1>8. /\ Room(wire) > 0
      /\ down' = [down EXCEPT ![c] = wire \o gone]
      /\ outbox' = (IF kept = <<>> THEN <<>> ELSE <<[to |-> c, bytes |-> kept]>>) \o tail
      /\ UNCHANGED <<up, sbuf, rbuf, sending, mode, counted, said, handled, told, heard>>
  BY <1>2, <1>3, <1>4, <1>5, <1>6, <1>7 DEF ServerSends, historyVars
<1>9. gone \in Seq(Byte) /\ kept \in Seq(Byte) /\ bytes = gone \o kept
  BY <1>6, <1>7, <1>8, FitsAndRest
<1>10. /\ down \in [Clients -> Seq(Byte)] /\ wire \o gone \in Seq(Byte)
  BY <1>9, Join DEF StreamInv, TypeOK
<1>11. /\ down' \in [Clients -> Seq(Byte)] /\ down'[c] = wire \o gone
       /\ \A d \in Clients : d # c => down'[d] = down[d]
  BY <1>8, <1>10
<1>12. /\ outbox' \in Seq(Out)
       /\ \A d : Sent(outbox', d) = (IF c = d THEN kept ELSE <<>>) \o Sent(tail, d)
  <2>1. CASE kept = <<>>
    <3>1. outbox' = tail
      BY <1>8, <2>1
    <3>2. ASSUME NEW d PROVE Sent(tail, d) = (IF c = d THEN kept ELSE <<>>) \o Sent(tail, d)
      <4>1. PICK t \in Seq(Byte) : t = Sent(tail, d)
        BY ForShape
      <4>2. <<>> \o t = t
        OBVIOUS
      <4> QED BY <2>1, <4>1, <4>2
    <3> QED BY <3>1, <3>2
  <2>2. CASE kept # <<>>
    <3>1. PICK y : y = [to |-> c, bytes |-> kept]
      OBVIOUS
    <3>2. y \in Out /\ y.to = c /\ y.bytes = kept
      BY <1>9, <3>1 DEF Out
    <3>3. outbox' = <<y>> \o tail
      BY <1>8, <2>2, <3>1
    <3>4. <<y>> \o tail \in Seq(Out)
      BY <3>2, OneMoreOut
    <3>5. ASSUME NEW d PROVE Sent(outbox', d) = (IF c = d THEN kept ELSE <<>>) \o Sent(tail, d)
      <4>1. FirstIsSent(y, tail, d)
        BY <3>2, SentCons
      <4> QED BY <3>2, <3>3, <4>1 DEF FirstIsSent
    <3> QED BY <3>3, <3>4, <3>5
  <2> QED BY <2>1, <2>2
<1>13. TypeOK'
  <2>1. outbox' \in Seq([to : Clients, bytes : Seq(Byte)])
    BY <1>12 DEF Out
  <2> QED BY <1>8, <1>11, <2>1 DEF StreamInv, TypeOK
<1>14. ASSUME NEW d \in Clients PROVE Flows(d)'
  <2>1. Flows(d)
    BY PartsOfInv DEF Parted
  <2>2. PICK t \in Seq(Byte) : t = Sent(tail, d)
    BY ForShape
  <2>3. Sent(outbox, d) = (IF c = d THEN bytes ELSE <<>>) \o t
    <3>1. FirstIsSent(x, tail, d)
      BY SentCons
    <3> QED BY <1>2, <1>3, <1>4, <2>2, <3>1 DEF FirstIsSent
  <2>4. Sent(outbox', d) = (IF c = d THEN kept ELSE <<>>) \o t
    BY <1>12, <2>2
  <2>5. Flow(told[d], heard[d], rbuf[d], down'[d], Sent(outbox', d))
    <3>1. CASE d # c
      BY <1>11, <2>1, <2>3, <2>4, <3>1 DEF Flows
    <3>2. CASE d = c
      <4>1. PICK z \in Seq(Byte) : z = kept \o t
        BY <1>9, Join
      <4>2. (gone \o kept) \o t = gone \o (kept \o t)
        <5>1. Grouped(gone, kept, t)
          BY <1>9, Grouping
        <5> QED BY <5>1 DEF Grouped
      <4>3. Sent(outbox, d) = gone \o z /\ Sent(outbox', d) = z
        BY <1>9, <2>3, <2>4, <3>2, <4>1, <4>2
      <4>4. Parted(d)
        BY PartsOfInv
      <4>5. Flow(told[d], heard[d], rbuf[d], wire, gone \o z)
        BY <1>5, <2>1, <3>2, <4>3 DEF Flows
      <4>6. Flow(told[d], heard[d], rbuf[d], wire \o gone, z)
        BY <1>9, <4>4, <4>5, FlowMoves DEF Parted
      <4> QED BY <1>11, <3>2, <4>3, <4>6
    <3> QED BY <3>1, <3>2
  <2>6. Sent(outbox, d)' = Sent(outbox', d)
    BY DEF Sent, For
  <2> QED BY <1>8, <2>1, <2>5, <2>6 DEF Flows
<1>15. OnlyTheList'
  BY <1>8, ListStays
<1>16. CountIsRight'
  BY <1>8, CountStays
<1> QED BY <1>13, <1>14, <1>15, <1>16, FlowsWillBe DEF StreamInv

\* The answers to a command are told, and are what is to be sent.
LEMMA Answered ==
  ASSUME StreamAssumption, StreamInv, outbox = <<>>, NEW c \in Clients, NEW cmd \in Requests,
         c \in Askers => cmd = MagicWho, NEW replies, replies = Replies(c, cmd),
         outbox' = Posted(replies), told' = [d \in Clients |-> told[d] \o TellsTo(d, replies)]
  PROVE  /\ outbox' \in Seq(Out) /\ told' \in [Clients -> Seq(Commands)]
         /\ \A d \in Clients : Flow(told'[d], heard[d], rbuf[d], down[d], Sent(outbox', d))
         /\ \A d \in Askers : told'[d] \in Seq({WhoAnswer(MagicWho)})
<1>0. Addressed(replies, c, cmd)
  BY RepliesShape
<1>1. /\ replies \in Seq(Reply)
      /\ \A i, j \in 1..Len(replies) : replies[i].to = replies[j].to => i = j
      /\ \A i \in 1..Len(replies) : replies[i].to \in Chatters
                                    \/ (replies[i].to = c /\ replies[i].cmd = WhoAnswer(cmd))
  BY <1>0 DEF Addressed
<1>2. ASSUME NEW d
      PROVE  /\ Posted(replies) \in Seq(Out)
             /\ TellsTo(d, replies) \in Seq(Commands)
             /\ Sent(Posted(replies), d) = EncodeAll(TellsTo(d, replies))
             /\ TellsTo(d, replies) = <<>>
                \/ \E i \in 1..Len(replies) : replies[i].to = d /\ TellsTo(d, replies) = <<replies[i].cmd>>
  <2>1. Answers(replies, d)
    BY <1>0, Posting
  <2> QED BY <2>1 DEF Answers
<1>3. outbox' \in Seq(Out)
  BY <1>2
<1>4. ASSUME NEW d \in Clients
      PROVE  /\ told'[d] \in Seq(Commands)
             /\ Flow(told'[d], heard[d], rbuf[d], down[d], Sent(outbox', d))
  <2>1. Parted(d)
    BY PartsOfInv
  <2>2. PICK more \in Seq(Commands) : more = TellsTo(d, replies)
    BY <1>2
  <2>3. PICK none \in Seq(Byte) : none = <<>>
    BY EmptySeq
  <2>4. Flow(told[d], heard[d], rbuf[d], down[d], none)
    BY <2>1, <2>3, SentNone DEF Parted, Flows
  <2>5. /\ told[d] \o more \in Seq(Commands)
        /\ Flow(told[d] \o more, heard[d], rbuf[d], down[d], none \o EncodeAll(more))
    BY <2>1, <2>4, FlowGrows DEF Parted
  <2>6. PICK e \in Seq(Byte) : e = EncodeAll(more)
    BY CodedShape
  <2>7. none \o e = e
    BY <2>3
  <2>8. Sent(outbox', d) = e
    BY <1>2, <2>2, <2>6
  <2> QED BY <2>2, <2>5, <2>6, <2>7, <2>8
<1>5. told' \in [Clients -> Seq(Commands)]
  BY <1>4
<1>6. ASSUME NEW d \in Askers PROVE told'[d] \in Seq({WhoAnswer(MagicWho)})
  <2>1. PICK S : S = {WhoAnswer(MagicWho)}
    OBVIOUS
  <2>2. told[d] \in Seq(S)
    BY <2>1 DEF StreamInv, OnlyTheList
  <2>3. PICK more : more = TellsTo(d, replies)
    OBVIOUS
  <2>4. more \in Seq(S)
    <3>1. CASE more = <<>>
      BY <3>1, EmptySeq
    <3>2. CASE more # <<>>
      <4>1. PICK i \in 1..Len(replies) : replies[i].to = d /\ more = <<replies[i].cmd>>
        BY <1>2, <2>3, <3>2
      <4>2. ~(d \in Chatters)
        BY DEF StreamAssumption
      <4>3. d = c /\ replies[i].cmd = WhoAnswer(cmd)
        BY <1>1, <4>1, <4>2
      <4>4. cmd = MagicWho
        BY <4>3
      <4>5. PICK x \in S : x = replies[i].cmd
        BY <2>1, <4>3, <4>4
      <4>6. <<x>> \in Seq(S)
        OBVIOUS
      <4> QED BY <4>1, <4>5, <4>6
    <3> QED BY <3>1, <3>2
  <2>5. told[d] \o more \in Seq(S)
    BY <2>2, <2>4, Join
  <2>6. d \in Clients
    BY DEF Clients
  <2> QED BY <2>1, <2>3, <2>5, <2>6
<1> QED BY <1>3, <1>4, <1>5, <1>6

\* The server has got buf together with k bytes of a recv().
Served(c, k, buf) ==
  /\ up' = [up EXCEPT ![c] = After(@, k)]
  /\ \/ /\ NcmdIsComplete(buf) = 0
        /\ sbuf' = [sbuf EXCEPT ![c] = buf]
        /\ UNCHANGED <<outbox, handled, told>>
     \/ /\ NcmdIsComplete(buf) > 0
        /\ sbuf' = [sbuf EXCEPT ![c] = NcmdRemove(buf)]
        /\ handled' = [handled EXCEPT ![c] = Append(@, Decode(buf))]
        /\ \E replies \in {Replies(c, Decode(buf))} :
             /\ outbox' = [n \in DOMAIN replies |-> Bytes(replies[n])]
             /\ told' = [d \in Clients |-> told[d] \o TellsTo(d, replies)]

LEMMA InvServe ==
  ASSUME StreamAssumption, StreamInv, NEW c \in Clients, Serve(c)
  PROVE  StreamInv'
<1>1. PICK k \in Pieces(up[c]) : \E buf \in {sbuf[c] \o Piece(up[c], k)} : Served(c, k, buf)
  BY DEF Serve, Served
<1>2. PICK buf : buf = sbuf[c] \o Piece(up[c], k) /\ Served(c, k, buf)
  BY <1>1
<1>3. outbox = <<>> /\ UNCHANGED <<down, rbuf, sending, mode, counted, said, heard>>
  BY DEF Serve
<1>4. Parted(c)
  BY PartsOfInv
<1>5. PICK wire \in Seq(Byte) : wire = up[c]
  BY <1>4 DEF Parted
<1>6. PICK old \in Seq(Byte) : old = sbuf[c]
  BY <1>4 DEF Parted
<1>7. Piece(wire, k) \in Seq(Byte) /\ After(wire, k) \in Seq(Byte) /\ wire = Piece(wire, k) \o After(wire, k)
  BY <1>1, <1>5, PieceAndAfter
<1>8. PICK piece \in Seq(Byte) : piece = Piece(wire, k)
  BY <1>7
<1>9. PICK after \in Seq(Byte) : after = After(wire, k)
  BY <1>7
<1>10. buf = old \o piece /\ buf \in Seq(Byte)
  BY <1>2, <1>5, <1>6, <1>8, Join
<1>11. Flow(said[c], handled[c], buf, after, sending[c])
  <2>1. Flow(said[c], handled[c], old, piece \o after, sending[c])
    BY <1>4, <1>5, <1>6, <1>7, <1>8, <1>9 DEF Parted, Flows
  <2>2. Flow(said[c], handled[c], old \o piece, after, sending[c])
    BY <1>4, <2>1, FlowArrives DEF Parted
  <2> QED BY <1>10, <2>2
<1>12. /\ up \in [Clients -> Seq(Byte)] /\ sbuf \in [Clients -> Seq(Byte)]
       /\ handled \in [Clients -> Seq(Requests)] /\ told \in [Clients -> Seq(Commands)]
       /\ outbox \in Seq(Out)
  BY DEF StreamInv, TypeOK, Out
<1>13. /\ up' \in [Clients -> Seq(Byte)] /\ up'[c] = after
       /\ \A d \in Clients : d # c => up'[d] = up[d]
  BY <1>2, <1>5, <1>9, <1>12 DEF Served
<1>14. /\ sbuf' \in [Clients -> Seq(Byte)] /\ handled' \in [Clients -> Seq(Requests)]
       /\ told' \in [Clients -> Seq(Commands)] /\ outbox' \in Seq(Out)
       /\ \A d \in Clients : d # c => sbuf'[d] = sbuf[d] /\ handled'[d] = handled[d]
       /\ Flow(said[c], handled'[c], sbuf'[c], after, sending[c])
       /\ \A d \in Clients : Flow(told'[d], heard[d], rbuf[d], down[d], Sent(outbox', d))
       /\ \A d \in Askers : told'[d] \in Seq({WhoAnswer(MagicWho)})
  <2>1. CASE /\ NcmdIsComplete(buf) = 0
             /\ sbuf' = [sbuf EXCEPT ![c] = buf]
             /\ UNCHANGED <<outbox, handled, told>>
    <3>1. /\ sbuf' \in [Clients -> Seq(Byte)] /\ sbuf'[c] = buf
          /\ \A d \in Clients : d # c => sbuf'[d] = sbuf[d]
      BY <1>10, <1>12, <2>1
    <3>2. \A d \in Clients : Flow(told[d], heard[d], rbuf[d], down[d], Sent(outbox, d))
      BY PartsOfInv DEF Parted, Flows
    <3>3. \A d \in Askers : told[d] \in Seq({WhoAnswer(MagicWho)})
      BY DEF StreamInv, OnlyTheList
    <3> QED BY <1>11, <1>12, <2>1, <3>1, <3>2, <3>3
  <2>2. CASE /\ NcmdIsComplete(buf) > 0
             /\ sbuf' = [sbuf EXCEPT ![c] = NcmdRemove(buf)]
             /\ handled' = [handled EXCEPT ![c] = Append(@, Decode(buf))]
             /\ \E replies \in {Replies(c, Decode(buf))} :
                  /\ outbox' = [n \in DOMAIN replies |-> Bytes(replies[n])]
                  /\ told' = [d \in Clients |-> told[d] \o TellsTo(d, replies)]
    <3>1. Handles(said[c], handled[c], buf, after, sending[c])
      BY <1>4, <1>10, <1>11, FlowHandled DEF Parted
    <3>2. PICK cmd \in Commands :
             /\ Len(handled[c]) < Len(said[c]) /\ cmd = said[c][Len(handled[c]) + 1]
             /\ Decode(buf) = cmd
             /\ Append(handled[c], cmd) \in Seq(Commands) /\ NcmdRemove(buf) \in Seq(Byte)
             /\ Flow(said[c], Append(handled[c], cmd), NcmdRemove(buf), after, sending[c])
      BY <2>2, <3>1 DEF Handles
    <3>3. Len(handled[c]) + 1 \in 1..Len(said[c])
      <4>1. Len(handled[c]) \in Nat /\ Len(said[c]) \in Nat
        BY <1>4 DEF Parted
      <4> QED BY <3>2, <4>1
    <3>4. cmd \in Requests
      BY <1>4, <3>2, <3>3 DEF Parted
    <3>5. ASSUME c \in Askers PROVE cmd = MagicWho
      <4>1. said[c] = <<MagicWho>>
        BY <3>5 DEF StreamInv, OnlyTheList
      <4>2. PICK q : q = said[c]
        OBVIOUS
      <4>3. PICK m : m = MagicWho
        OBVIOUS
      <4>4. q = <<m>>
        BY <4>1, <4>2, <4>3
      <4>5. Len(q) = 1 /\ q[1] = m
        BY <4>4
      <4>6. Len(handled[c]) + 1 = 1
        BY <3>3, <4>2, <4>5
      <4> QED BY <3>2, <4>2, <4>3, <4>5, <4>6
    <3>6. PICK h \in Seq(Requests) : h = Append(handled[c], cmd)
      <4>1. PICK q \in Seq(Requests) : q = handled[c]
        BY <1>4 DEF Parted
      <4>2. Append(q, cmd) \in Seq(Requests)
        BY <3>4
      <4> QED BY <4>1, <4>2
    <3>7. PICK r \in Seq(Byte) : r = NcmdRemove(buf)
      BY <3>2
    <3>8. PICK replies : replies = Replies(c, cmd)
      OBVIOUS
    <3>9. outbox' = Posted(replies) /\ told' = [d \in Clients |-> told[d] \o TellsTo(d, replies)]
      BY <2>2, <3>2, <3>8 DEF Posted
    <3>10. /\ outbox' \in Seq(Out) /\ told' \in [Clients -> Seq(Commands)]
           /\ \A d \in Clients : Flow(told'[d], heard[d], rbuf[d], down[d], Sent(outbox', d))
           /\ \A d \in Askers : told'[d] \in Seq({WhoAnswer(MagicWho)})
      BY <1>3, <3>4, <3>5, <3>8, <3>9, Answered
    <3>11. sbuf' = [sbuf EXCEPT ![c] = r] /\ handled' = [handled EXCEPT ![c] = h]
      BY <2>2, <3>2, <3>6, <3>7
    <3>12. /\ sbuf' \in [Clients -> Seq(Byte)] /\ handled' \in [Clients -> Seq(Requests)]
           /\ sbuf'[c] = r /\ handled'[c] = h
           /\ \A d \in Clients : d # c => sbuf'[d] = sbuf[d] /\ handled'[d] = handled[d]
      BY <1>12, <3>11
    <3> QED BY <3>2, <3>6, <3>7, <3>10, <3>12
  <2> QED BY <1>2, <2>1, <2>2 DEF Served
<1>15. TypeOK'
  <2>1. outbox' \in Seq([to : Clients, bytes : Seq(Byte)])
    BY <1>14 DEF Out
  <2> QED BY <1>3, <1>13, <1>14, <2>1 DEF StreamInv, TypeOK
<1>16. ASSUME NEW d \in Clients PROVE Flows(d)'
  <2>1. Flow(said'[d], handled'[d], sbuf'[d], up'[d], sending'[d])
    <3>1. CASE d = c
      BY <1>3, <1>13, <1>14, <3>1
    <3>2. CASE d # c
      <4>1. Flow(said[d], handled[d], sbuf[d], up[d], sending[d])
        BY PartsOfInv DEF Parted, Flows
      <4> QED BY <1>3, <1>13, <1>14, <3>2, <4>1
    <3> QED BY <3>1, <3>2
  <2>2. Flow(told'[d], heard'[d], rbuf'[d], down'[d], Sent(outbox', d))
    BY <1>3, <1>14
  <2>3. Sent(outbox, d)' = Sent(outbox', d)
    BY DEF Sent, For
  <2> QED BY <2>1, <2>2, <2>3 DEF Flows
<1>17. OnlyTheList'
  BY <1>3, <1>14 DEF StreamInv, OnlyTheList
<1>18. CountIsRight'
  BY <1>3, CountStays
<1> QED BY <1>15, <1>16, <1>17, <1>18, FlowsWillBe DEF StreamInv

-----------------------------------------------------------------------------
(* What is claimed.                                                        *)

LEMMA InvStep ==
  ASSUME StreamAssumption, StreamInv, Next
  PROVE  StreamInv'
<1>1. CASE ServerSends
  BY <1>1, InvServerSends
<1>2. ASSUME NEW c \in Clients, Serve(c) PROVE StreamInv'
  BY <1>2, InvServe
<1>3. ASSUME NEW c \in Clients, ClientSends(c) PROVE StreamInv'
  BY <1>3, InvClientSends
<1>4. ASSUME NEW c \in Clients, ClientRecv(c) PROVE StreamInv'
  BY <1>4, InvClientRecv
<1>5. ASSUME NEW c \in Clients, Again(c) PROVE StreamInv'
  BY <1>5, InvAgain
<1>6. ASSUME NEW c \in Clients, Hear(c) PROVE StreamInv'
  BY <1>6, InvHear
<1>7. ASSUME NEW c \in Clients, Report(c) PROVE StreamInv'
  BY <1>7, InvReport
<1>8. ASSUME NEW c \in Clients, Type(c) PROVE StreamInv'
  BY <1>8, InvType
<1> QED BY <1>1, <1>2, <1>3, <1>4, <1>5, <1>6, <1>7, <1>8 DEF Next, Client

LEMMA InvStutter ==
  ASSUME StreamInv, UNCHANGED vars
  PROVE  StreamInv'
<1>1. UNCHANGED <<up, down, sbuf, rbuf, sending, outbox, mode, counted, said, handled, told, heard>>
  BY DEF vars
<1>2. TypeOK'
  BY <1>1 DEF StreamInv, TypeOK
<1>3. OnlyTheList'
  BY <1>1, ListStays
<1>4. CountIsRight'
  BY <1>1, CountStays
<1>5. ASSUME NEW d \in Clients PROVE Flows(d)'
  <2>1. Flows(d)
    BY PartsOfInv DEF Parted
  <2> QED BY <1>1, <2>1 DEF Flows
<1> QED BY <1>2, <1>3, <1>4, <1>5, FlowsWillBe DEF StreamInv

(* However the kernel cuts the streams and whatever order the server and   *)
(* the clients run in, the inductive invariant holds (ncmd.c:104-254).     *)
THEOREM StreamInvariant == Spec => []StreamInv
<1>1. Init => StreamInv
  BY StreamAssumption, InvInit
<1>2. StreamInv /\ [Next]_vars => StreamInv'
  BY StreamAssumption, InvStep, InvStutter
<1> QED BY <1>1, <1>2, PTL DEF Spec

(* Every byte of every command is in exactly one place and in order, and    *)
(* what was handled is what was said, for any number of clients, any size   *)
(* of the buffers and any way of cutting the streams (ncmd.c:104-174,       *)
(* 223-254).                                                                *)
THEOREM EverythingArrives == Spec => []NothingLostOrTwice
<1>1. StreamInv => NothingLostOrTwice
  BY DEF StreamInv
<1> QED BY <1>1, StreamInvariant, PTL

(* A command is taken for whole exactly when its last byte has arrived      *)
(* (ncmd.c:104-122).                                                        *)
THEOREM FramesAreExact == Spec => []FramingIsExact
<1>1. ASSUME StreamInv PROVE FramingIsExact
  <2> SUFFICES ASSUME NEW c \in Clients
               PROVE  /\ NcmdIsComplete(sbuf[c]) = FirstWhole(said[c], handled[c], sbuf[c])
                      /\ NcmdIsComplete(rbuf[c]) = FirstWhole(told[c], heard[c], rbuf[c])
    BY DEF FramingIsExact
  <2>1. Parted(c)
    BY <1>1, PartsOfInv
  <2>2. Handles(said[c], handled[c], sbuf[c], up[c], sending[c])
    BY <2>1, FlowHandled DEF Parted, Flows
  <2>3. Handles(told[c], heard[c], rbuf[c], down[c], Sent(outbox, c))
    BY <2>1, FlowHandled DEF Parted, Flows
  <2> QED BY <2>2, <2>3 DEF Handles
<1> QED BY <1>1, StreamInvariant, PTL

(* smsgwho prints the number of those in the room, however its answer was   *)
(* cut (smsgwho.c:119-134, servchat.c:321-355).                             *)
THEOREM CountIsTheRoom == Spec => []CountIsRight
<1>1. StreamInv => CountIsRight
  BY DEF StreamInv
<1> QED BY <1>1, StreamInvariant, PTL

(* Nothing that is passed on in the room reaches smsgwho                    *)
(* (servchat.c:321-355).                                                    *)
THEOREM AskersHearTheList == Spec => []OnlyTheList
<1>1. StreamInv => OnlyTheList
  BY DEF StreamInv
<1> QED BY <1>1, StreamInvariant, PTL
(* Once the server and a client wait for each other in a send(), nothing    *)
(* that anybody does ends it: the exception that ServerComesBack and        *)
(* AskersAreAnswered make is a dead end (ncmd.c:230, clchat.c:1377).        *)
THEOREM GridlockIsForEver == Spec => [](Gridlock => []Gridlock)
<1>1. ASSUME StreamInv, Gridlock, [Next]_vars PROVE Gridlock'
  <2>1. PICK x : x = outbox[1].to
    OBVIOUS
  <2>2. outbox # <<>> /\ ~(Room(down[x]) > 0) /\ sending[x] # <<>> /\ ~(Room(up[x]) > 0) /\ x \in Clients
    <3>1. outbox \in Seq(Out) /\ outbox # <<>>
      BY <1>1 DEF StreamInv, TypeOK, Out, Gridlock
    <3>2. x \in Clients
      BY <2>1, <3>1, FirstOut DEF Out
    <3> QED BY <1>1, <2>1, <3>1, <3>2 DEF Gridlock, Blocked
  <2>3. SUFFICES outbox' = outbox /\ down'[x] = down[x] /\ sending'[x] = sending[x] /\ up'[x] = up[x]
    BY <1>1, <2>1 DEF Gridlock, Blocked, Room
  <2>4. /\ up \in [Clients -> Seq(Byte)] /\ down \in [Clients -> Seq(Byte)]
        /\ sending \in [Clients -> Seq(Byte)]
    BY <1>1 DEF StreamInv, TypeOK
  <2>5. CASE UNCHANGED vars
    BY <2>5 DEF vars
  <2>6. CASE ServerSends
    BY <2>1, <2>2, <2>6 DEF ServerSends
  <2>7. ASSUME NEW c \in Clients, Serve(c) PROVE FALSE
    BY <2>2, <2>7 DEF Serve
  <2>8. ASSUME NEW c \in Clients, ClientSends(c)
        PROVE  outbox' = outbox /\ down'[x] = down[x] /\ sending'[x] = sending[x] /\ up'[x] = up[x]
    BY <2>2, <2>4, <2>8 DEF ClientSends
  <2>9. ASSUME NEW c \in Clients, ClientRecv(c)
        PROVE  outbox' = outbox /\ down'[x] = down[x] /\ sending'[x] = sending[x] /\ up'[x] = up[x]
    BY <2>2, <2>4, <2>9 DEF ClientRecv
  <2>10. ASSUME NEW c \in Clients, Again(c) \/ Report(c)
         PROVE  outbox' = outbox /\ down'[x] = down[x] /\ sending'[x] = sending[x] /\ up'[x] = up[x]
    BY <2>10 DEF Again, Report, kernelVars
  <2>11. ASSUME NEW c \in Clients, Hear(c)
         PROVE  outbox' = outbox /\ down'[x] = down[x] /\ sending'[x] = sending[x] /\ up'[x] = up[x]
    <3>1. c # x
      BY <2>2, <2>11 DEF Hear
    <3>2. UNCHANGED <<up, down, outbox>>
      BY <2>11 DEF Hear, kernelVars
    <3>3. Sends(c, Command(C_WHO, <<>>)) \/ UNCHANGED <<sending, said>>
      BY <2>11 DEF Hear
    <3>4. sending'[x] = sending[x]
      BY <2>2, <2>4, <3>1, <3>3 DEF Sends
    <3> QED BY <3>2, <3>4
  <2>12. ASSUME NEW c \in Clients, Type(c)
         PROVE  outbox' = outbox /\ down'[x] = down[x] /\ sending'[x] = sending[x] /\ up'[x] = up[x]
    <3>1. c # x
      BY <2>2, <2>12 DEF Type
    <3> QED BY <2>4, <2>12, <3>1 DEF Type, Sends
  <2> QED BY <1>1, <2>5, <2>6, <2>7, <2>8, <2>9, <2>10, <2>11, <2>12 DEF Next, Client
<1>2. StreamInv /\ Gridlock /\ [Next]_vars => Gridlock'
  BY <1>1
<1> QED BY <1>2, StreamInvariant, PTL DEF Spec
=============================================================================
