--------------------------- MODULE SequenceLemmas ---------------------------
EXTENDS Batches, Integers, FiniteSetTheorems, SequenceTheorems, WellFoundedInduction, TLAPS

(* e is an element of s; none occurs twice; and none that is in S does.    *)
Has(s, e) == \E i \in 1 .. Len(s) : s[i] = e
Once(s) == \A i, j \in 1 .. Len(s) : s[i] = s[j] => i = j
OnceIn(s, S) == \A i, j \in 1 .. Len(s) : s[i] = s[j] /\ s[i] \in S => i = j

-----------------------------------------------------------------------------
(* A set of naturals that is not empty has a least element.  With it, what *)
(* holds for 0 and for n + 1 if for n holds for all: the set of those for  *)
(* which it does not hold is empty.                                        *)
Less == {pair \in Nat \X Nat : pair[1] < pair[2]}

LEMMA LeastNatural ==
  ASSUME NEW T \in SUBSET Nat, T # {}
  PROVE  \E n \in T : \A m \in T : n <= m
<1>1. IsWellFoundedOn(Less, Nat)
  BY NatLessThanWellFounded DEF OpToRel, Less
<1>2. PICK n \in T : \A m \in T : <<m, n>> \notin Less
  BY <1>1, WFMin
<1>3. ASSUME NEW m \in T PROVE n <= m
  <2>1. <<m, n>> \notin Less /\ <<m, n>> \in Nat \X Nat
    BY <1>2
  <2> QED
    BY <2>1 DEF Less
<1> QED
  BY <1>3

LEMMA Induction ==
  ASSUME NEW T \in SUBSET Nat, 0 \in T, \A n \in T : n + 1 \in T
  PROVE  T = Nat
<1> DEFINE Rest == Nat \ T
<1> SUFFICES ASSUME Rest # {} PROVE FALSE
  OBVIOUS
<1>1. PICK n \in Rest : \A m \in Rest : n <= m
  <2> HIDE DEF Rest
  <2>1. Rest \in SUBSET Nat
    BY DEF Rest
  <2> QED
    BY <2>1, LeastNatural
<1>2. n - 1 \in T
  BY <1>1
<1> QED
  BY <1>1, <1>2

-----------------------------------------------------------------------------
(* What is in a sequence that has grown, or been split.                    *)
LEMMA HasEmpty == ASSUME NEW x PROVE ~Has(<<>>, x)
BY DEF Has

LEMMA OnceEmpty == Once(<<>>)
BY DEF Once

LEMMA AppendElements ==
  ASSUME NEW S, NEW s \in Seq(S), NEW e \in S
  PROVE  /\ \A x : Has(Append(s, e), x) <=> Has(s, x) \/ x = e
         /\ Once(s) /\ ~Has(s, e) => Once(Append(s, e))
<1>1. /\ Append(s, e) \in Seq(S) /\ Len(Append(s, e)) = Len(s) + 1 /\ Len(s) \in Nat
      /\ \A i \in 1 .. Len(s) : Append(s, e)[i] = s[i]
      /\ Append(s, e)[Len(s) + 1] = e
  OBVIOUS
<1>2. ASSUME NEW x PROVE Has(Append(s, e), x) <=> Has(s, x) \/ x = e
  BY <1>1 DEF Has
<1>3. ASSUME Once(s), ~Has(s, e), NEW i \in 1 .. Len(s) + 1, NEW j \in 1 .. Len(s) + 1,
             Append(s, e)[i] = Append(s, e)[j]
      PROVE  i = j
  BY <1>1, <1>3 DEF Has, Once
<1> QED
  BY <1>1, <1>2, <1>3 DEF Once

LEMMA ConcatElements ==
  ASSUME NEW S, NEW s \in Seq(S), NEW t \in Seq(S)
  PROVE  /\ \A x : Has(s \o t, x) <=> Has(s, x) \/ Has(t, x)
         /\ Once(s) /\ Once(t) /\ (\A x : ~(Has(s, x) /\ Has(t, x))) => Once(s \o t)
<1>1. /\ Len(s) \in Nat /\ Len(t) \in Nat /\ Len(s \o t) = Len(s) + Len(t)
      /\ \A i \in 1 .. Len(s) : (s \o t)[i] = s[i]
      /\ \A i \in 1 .. Len(t) : (s \o t)[Len(s) + i] = t[i]
      /\ \A i \in Len(s) + 1 .. Len(s) + Len(t) : (s \o t)[i] = t[i - Len(s)]
  BY ConcatProperties
<1>2. ASSUME NEW x PROVE Has(s \o t, x) <=> Has(s, x) \/ Has(t, x)
  <2>1. ASSUME NEW i \in 1 .. Len(s) + Len(t), (s \o t)[i] = x PROVE Has(s, x) \/ Has(t, x)
    <3>1. CASE i <= Len(s)
      BY <1>1, <2>1, <3>1 DEF Has
    <3>2. CASE i > Len(s)
      <4>1. i - Len(s) \in 1 .. Len(t) /\ t[i - Len(s)] = x
        BY <1>1, <2>1, <3>2
      <4> QED
        BY <4>1 DEF Has
    <3> QED
      BY <1>1, <3>1, <3>2
  <2>2. Has(s, x) => Has(s \o t, x)
    BY <1>1 DEF Has
  <2>3. ASSUME NEW i \in 1 .. Len(t), t[i] = x PROVE Has(s \o t, x)
    <3>1. Len(s) + i \in 1 .. Len(s \o t) /\ (s \o t)[Len(s) + i] = x
      BY <1>1, <2>3
    <3> QED
      BY <3>1 DEF Has
  <2> QED
    BY <1>1, <2>1, <2>2, <2>3 DEF Has
<1>3. ASSUME Once(s), Once(t), \A x : ~(Has(s, x) /\ Has(t, x)),
             NEW i \in 1 .. Len(s) + Len(t), NEW j \in 1 .. Len(s) + Len(t),
             (s \o t)[i] = (s \o t)[j]
      PROVE  i = j
  <2>1. CASE i <= Len(s) /\ j <= Len(s)
    BY <1>1, <1>3, <2>1 DEF Once
  <2>2. CASE i > Len(s) /\ j > Len(s)
    BY <1>1, <1>3, <2>2 DEF Once
  <2>3. CASE i <= Len(s) /\ j > Len(s)
    <3>1. s[i] = t[j - Len(s)] /\ j - Len(s) \in 1 .. Len(t)
      BY <1>1, <1>3, <2>3
    <3>2. Has(s, s[i]) /\ Has(t, s[i])
      BY <2>3, <3>1, <1>1 DEF Has
    <3> QED
      BY <1>3, <3>2
  <2>4. CASE i > Len(s) /\ j <= Len(s)
    <3>1. s[j] = t[i - Len(s)] /\ i - Len(s) \in 1 .. Len(t)
      BY <1>1, <1>3, <2>4
    <3>2. Has(s, s[j]) /\ Has(t, s[j])
      BY <2>4, <3>1, <1>1 DEF Has
    <3> QED
      BY <1>3, <3>2
  <2> QED
    BY <1>1, <2>1, <2>2, <2>3, <2>4
<1> QED
  BY <1>1, <1>2, <1>3 DEF Once

LEMMA SplitElements ==
  ASSUME NEW S, NEW s \in Seq(S), NEW n \in 0 .. Len(s)
  PROVE  LET front == SubSeq(s, 1, n)  back == SubSeq(s, n + 1, Len(s)) IN
         /\ front \in Seq(S) /\ back \in Seq(S)
         /\ Len(front) = n /\ Len(back) = Len(s) - n
         /\ \A x : Has(s, x) <=> Has(front, x) \/ Has(back, x)
         /\ Once(s) => /\ Once(front) /\ Once(back)
                       /\ \A x : ~(Has(front, x) /\ Has(back, x))
<1> DEFINE front == SubSeq(s, 1, n)
           back == SubSeq(s, n + 1, Len(s))
<1>1. /\ Len(s) \in Nat /\ n \in Int
      /\ \A i \in 1 .. n : s[i] \in S
      /\ \A i \in n + 1 .. Len(s) : s[i] \in S
  OBVIOUS
<1>2. /\ front \in Seq(S) /\ Len(front) = n
      /\ \A i \in 1 .. n : front[i] = s[i]
  BY <1>1, SubSeqProperties
<1>3. /\ back \in Seq(S) /\ Len(back) = Len(s) - n
      /\ \A i \in 1 .. Len(s) - n : back[i] = s[n + i]
  BY <1>1, SubSeqProperties
<1> HIDE DEF front, back
<1>4. ASSUME NEW x PROVE Has(s, x) <=> Has(front, x) \/ Has(back, x)
  <2>1. ASSUME NEW i \in 1 .. Len(s), s[i] = x PROVE Has(front, x) \/ Has(back, x)
    <3>1. CASE i <= n
      BY <1>2, <2>1, <3>1 DEF Has
    <3>2. CASE i > n
      <4>1. i - n \in 1 .. Len(s) - n /\ back[i - n] = x
        BY <1>1, <1>3, <2>1, <3>2
      <4> QED
        BY <1>3, <4>1 DEF Has
    <3> QED
      BY <1>1, <3>1, <3>2
  <2>2. Has(front, x) => Has(s, x)
    BY <1>2 DEF Has
  <2>3. ASSUME NEW i \in 1 .. Len(s) - n, back[i] = x PROVE Has(s, x)
    <3>1. n + i \in 1 .. Len(s) /\ s[n + i] = x
      BY <1>1, <1>3, <2>3
    <3> QED
      BY <3>1 DEF Has
  <2> QED
    BY <1>3, <2>1, <2>2, <2>3 DEF Has
<1>5. ASSUME Once(s) PROVE Once(front) /\ Once(back)
  <2>1. Once(front)
    BY <1>2, <1>5 DEF Once
  <2>2. ASSUME NEW i \in 1 .. Len(s) - n, NEW j \in 1 .. Len(s) - n, back[i] = back[j]
        PROVE  i = j
    <3>1. n + i \in 1 .. Len(s) /\ n + j \in 1 .. Len(s) /\ s[n + i] = s[n + j]
      BY <1>1, <1>3, <2>2
    <3>2. n + i = n + j
      BY <1>5, <3>1 DEF Once
    <3> QED
      BY <1>1, <3>2
  <2> QED
    BY <1>3, <2>1, <2>2 DEF Once
<1>6. ASSUME Once(s), NEW x, Has(front, x), Has(back, x) PROVE FALSE
  <2>1. PICK i \in 1 .. n : s[i] = x
    BY <1>2, <1>6 DEF Has
  <2>2. PICK j \in 1 .. Len(s) - n : s[n + j] = x
    BY <1>3, <1>6 DEF Has
  <2>3. i = n + j
    BY <1>1, <1>6, <2>1, <2>2 DEF Once
  <2> QED
    BY <1>1, <2>3
<1> QED
  BY <1>2, <1>3, <1>4, <1>5, <1>6 DEF front, back

LEMMA HeadElements ==
  ASSUME NEW S, NEW s \in Seq(S), s # <<>>
  PROVE  /\ Head(s) \in S /\ Has(s, Head(s)) /\ Tail(s) \in Seq(S)
         /\ Len(Tail(s)) = Len(s) - 1
         /\ \A x : Has(s, x) <=> Has(Tail(s), x) \/ x = Head(s)
         /\ Once(s) => Once(Tail(s)) /\ ~Has(Tail(s), Head(s))
<1>1. /\ Len(s) \in Nat /\ Len(s) >= 1 /\ Head(s) = s[1]
  OBVIOUS
<1>2. /\ Head(s) \in S /\ Tail(s) \in Seq(S) /\ Len(Tail(s)) = Len(s) - 1
      /\ \A i \in 1 .. Len(s) - 1 : Tail(s)[i] = s[i + 1]
  OBVIOUS
<1>3. Has(s, Head(s))
  BY <1>1 DEF Has
<1>4. ASSUME NEW x PROVE Has(s, x) <=> Has(Tail(s), x) \/ x = Head(s)
  <2>1. ASSUME NEW i \in 1 .. Len(s), s[i] = x PROVE Has(Tail(s), x) \/ x = Head(s)
    <3>1. CASE i > 1
      <4>1. i - 1 \in 1 .. Len(s) - 1 /\ Tail(s)[i - 1] = x
        BY <1>1, <1>2, <2>1, <3>1
      <4> QED
        BY <1>2, <4>1 DEF Has
    <3> QED
      BY <1>1, <2>1, <3>1
  <2>2. ASSUME NEW i \in 1 .. Len(s) - 1, Tail(s)[i] = x PROVE Has(s, x)
    BY <1>1, <1>2, <2>2 DEF Has
  <2> QED
    BY <1>2, <1>3, <2>1, <2>2 DEF Has
<1>5. ASSUME Once(s) PROVE Once(Tail(s)) /\ ~Has(Tail(s), Head(s))
  <2>1. ASSUME NEW i \in 1 .. Len(s) - 1, NEW j \in 1 .. Len(s) - 1, Tail(s)[i] = Tail(s)[j]
        PROVE  i = j
    <3>1. i + 1 \in 1 .. Len(s) /\ j + 1 \in 1 .. Len(s) /\ s[i + 1] = s[j + 1]
      BY <1>1, <1>2, <2>1
    <3>2. i + 1 = j + 1
      BY <1>5, <3>1 DEF Once
    <3> QED
      BY <1>1, <3>2
  <2>2. ASSUME NEW i \in 1 .. Len(s) - 1, Tail(s)[i] = Head(s) PROVE FALSE
    <3>1. i + 1 \in 1 .. Len(s) /\ s[i + 1] = s[1]
      BY <1>1, <1>2, <2>2
    <3>2. i + 1 = 1
      BY <1>1, <1>5, <3>1 DEF Once
    <3> QED
      BY <1>1, <3>2
  <2> QED
    BY <1>2, <2>1, <2>2 DEF Once, Has
<1> QED
  BY <1>2, <1>3, <1>4, <1>5

LEMMA TailEmpty ==
  ASSUME NEW S, NEW s \in Seq(S), s # <<>>
  PROVE  Tail(s) = <<>> <=> Len(s) = 1
<1> DEFINE t == Tail(s)
<1>1. t \in Seq(S) /\ Len(t) = Len(s) - 1 /\ Len(s) \in Nat
  BY HeadElements
<1> HIDE DEF t
<1>2. t = <<>> <=> Len(t) = 0
  BY <1>1, EmptySeq
<1>3. t = <<>> <=> Len(s) = 1
  BY <1>1, <1>2
<1> QED
  BY <1>3 DEF t

(* How often an element occurs.                                            *)
LEMMA CountOnce ==
  ASSUME NEW S, NEW s \in Seq(S), NEW x, Once(s)
  PROVE  Cardinality({i \in 1 .. Len(s) : s[i] = x}) = IF Has(s, x) THEN 1 ELSE 0
<1> DEFINE places == {i \in 1 .. Len(s) : s[i] = x}
<1>1. CASE Has(s, x)
  <2>1. PICK i \in 1 .. Len(s) : s[i] = x
    BY <1>1 DEF Has
  <2>2. places = {i}
    BY <2>1 DEF Once
  <2> QED
    BY <1>1, <2>2, FS_Singleton
<1>2. CASE ~Has(s, x)
  <2>1. places = {}
    BY <1>2 DEF Has
  <2> QED
    BY <1>2, <2>1, FS_EmptySet
<1> QED
  BY <1>1, <1>2

LEMMA CountOnceIn ==
  ASSUME NEW R, NEW s \in Seq(R), NEW S, NEW x \in S, OnceIn(s, S)
  PROVE  Cardinality({i \in 1 .. Len(s) : s[i] = x}) = IF Has(s, x) THEN 1 ELSE 0
<1> DEFINE places == {i \in 1 .. Len(s) : s[i] = x}
<1>1. CASE Has(s, x)
  <2>1. PICK i \in 1 .. Len(s) : s[i] = x
    BY <1>1 DEF Has
  <2>2. places = {i}
    BY <2>1 DEF OnceIn
  <2> QED
    BY <1>1, <2>2, FS_Singleton
<1>2. CASE ~Has(s, x)
  <2>1. places = {}
    BY <1>2 DEF Has
  <2> QED
    BY <1>2, <2>1, FS_EmptySet
<1> QED
  BY <1>1, <1>2

LEMMA CountHas ==
  ASSUME NEW S, NEW s \in Seq(S), NEW x
  PROVE  /\ Cardinality({i \in 1 .. Len(s) : s[i] = x}) \in Nat
         /\ Cardinality({i \in 1 .. Len(s) : s[i] = x}) > 0 <=> Has(s, x)
<1> DEFINE places == {i \in 1 .. Len(s) : s[i] = x}
<1>1. IsFiniteSet(1 .. Len(s)) /\ places \in SUBSET (1 .. Len(s))
  BY FS_Interval
<1>2. IsFiniteSet(places)
  BY <1>1, FS_Subset
<1>3. Cardinality(places) \in Nat
  BY <1>2, FS_CardinalityType
<1>4. Cardinality(places) = 0 <=> places = {}
  BY <1>2, FS_EmptySet
<1>5. places = {} <=> ~Has(s, x)
  BY DEF Has
<1> QED
  BY <1>3, <1>4, <1>5

LEMMA LengthOnce ==
  ASSUME NEW S, NEW s \in Seq(S), Once(s)
  PROVE  LET elements == {x \in S : Has(s, x)} IN
         IsFiniteSet(elements) /\ Cardinality(elements) = Len(s)
<1> DEFINE elements == {x \in S : Has(s, x)}
<1>1. s \in [1 .. Len(s) -> elements] /\ Len(s) \in Nat
  <2>1. s \in [1 .. Len(s) -> S] /\ Len(s) \in Nat
    OBVIOUS
  <2>2. \A i \in 1 .. Len(s) : s[i] \in elements
    BY <2>1 DEF Has
  <2> QED
    BY <2>1, <2>2
<1>2. s \in Injection(1 .. Len(s), elements)
  BY <1>1 DEF Once, Injection, IsInjective
<1>3. s \in Surjection(1 .. Len(s), elements)
  <2>1. \A x \in elements : \E i \in 1 .. Len(s) : s[i] = x
    BY DEF Has
  <2> QED
    BY <1>1, <2>1 DEF Surjection
<1>4. ExistsBijection(1 .. Len(s), elements)
  BY <1>2, <1>3 DEF ExistsBijection, Bijection
<1>5. IsFiniteSet(1 .. Len(s)) /\ Cardinality(1 .. Len(s)) = Len(s)
  <2>1. 1 \in Int /\ Len(s) \in Int /\ (1 > Len(s) => Len(s) = 0)
    BY <1>1
  <2> HIDE DEF elements
  <2>2. /\ IsFiniteSet(1 .. Len(s))
        /\ Cardinality(1 .. Len(s)) = IF 1 > Len(s) THEN 0 ELSE Len(s) - 1 + 1
    BY <2>1, FS_Interval
  <2> QED
    BY <2>1, <2>2
<1> HIDE DEF elements
<1> QED
  BY <1>4, <1>5, FS_Bijection DEF elements

-----------------------------------------------------------------------------
(* Only: what is kept of the first i elements.  The recursive function     *)
(* exists, for every length, and so it is what it is defined to be.        *)
Kept(f, s, S, i) ==
  IF i = 0 THEN <<>>
  ELSE IF s[i] \in S THEN Append(f[i - 1], s[i]) ELSE f[i - 1]

KeepsUpTo(f, s, S, n) == f = [i \in 0 .. n |-> Kept(f, s, S, i)]

LEMMA KeptExists ==
  ASSUME NEW s, NEW S, NEW n \in Nat
  PROVE  \E f : KeepsUpTo(f, s, S, n)
<1> DEFINE Exists(m) == \E f : f = [i \in 0 .. m |-> Kept(f, s, S, i)]
           T == {m \in Nat : Exists(m)}
<1>1. 0 \in T
  <2>1. [i \in 0 .. 0 |-> <<>>] =
          [i \in 0 .. 0 |-> Kept([j \in 0 .. 0 |-> <<>>], s, S, i)]
    BY DEF Kept
  <2> QED
    BY <2>1
<1>2. ASSUME NEW m \in T PROVE m + 1 \in T
  <2>1. PICK f : f = [i \in 0 .. m |-> Kept(f, s, S, i)]
    BY <1>2
  <2> DEFINE g == [i \in 0 .. m + 1 |-> IF i <= m THEN f[i] ELSE Kept(f, s, S, i)]
  <2>2. ASSUME NEW i \in 0 .. m + 1 PROVE g[i] = Kept(g, s, S, i)
    <3>1. i # 0 => g[i - 1] = f[i - 1]
      BY <1>2
    <3>2. Kept(g, s, S, i) = Kept(f, s, S, i)
      BY <3>1 DEF Kept
    <3>3. i <= m => f[i] = Kept(f, s, S, i)
      BY <2>1
    <3> QED
      BY <3>2, <3>3
  <2> HIDE DEF Exists
  <2>3. g = [i \in 0 .. m + 1 |-> Kept(g, s, S, i)]
    BY <2>2
  <2> HIDE DEF g
  <2>4. Exists(m + 1)
    BY <2>3 DEF Exists
  <2> QED
    BY <1>2, <2>4
<1>3. T = Nat
  <2> HIDE DEF T
  <2>1. T \in SUBSET Nat
    BY DEF T
  <2> QED
    BY <1>1, <1>2, <2>1, Induction
<1> QED
  BY <1>3 DEF KeepsUpTo

LEMMA OnlyElements ==
  ASSUME NEW R, NEW s \in Seq(R), NEW S
  PROVE  /\ Only(s, S) \in Seq(R \cap S)
         /\ \A x : Has(Only(s, S), x) <=> Has(s, x) /\ x \in S
         /\ OnceIn(s, S) => Once(Only(s, S))
         /\ Once(s) => Once(Only(s, S))
<1> DEFINE f == CHOOSE f : f = [i \in 0 .. Len(s) |-> Kept(f, s, S, i)]
<1>1. Len(s) \in Nat /\ \A i \in 1 .. Len(s) : s[i] \in R
  OBVIOUS
<1>2. Only(s, S) = f[Len(s)]
  BY DEF Only, Kept
<1>3. f = [i \in 0 .. Len(s) |-> Kept(f, s, S, i)]
  <2> HIDE DEF f
  <2>1. \E g : KeepsUpTo(g, s, S, Len(s))
    BY <1>1, KeptExists
  <2>2. \E g : g = [i \in 0 .. Len(s) |-> Kept(g, s, S, i)]
    BY <2>1 DEF KeepsUpTo
  <2> QED
    BY <2>2 DEF f
<1> HIDE DEF f
<1> DEFINE Good(n) ==
      n <= Len(s) =>
        /\ f[n] \in Seq(R \cap S)
        /\ \A x : Has(f[n], x) <=> x \in S /\ \E i \in 1 .. n : s[i] = x
        /\ OnceIn(s, S) => Once(f[n])
      T == {n \in Nat : Good(n)}
<1>4. 0 \in T
  <2>1. f[0] = <<>>
    BY <1>1, <1>3 DEF Kept
  <2>2. <<>> \in Seq(R \cap S) /\ ~\E i \in 1 .. 0 : TRUE
    OBVIOUS
  <2>3. Good(0)
    BY <2>1, <2>2, HasEmpty, OnceEmpty
  <2> QED
    BY <2>3
<1>5. ASSUME NEW n \in T PROVE n + 1 \in T
  <2> SUFFICES ASSUME n + 1 <= Len(s) PROVE Good(n + 1)
    BY <1>5
  <2>1. /\ f[n] \in Seq(R \cap S)
        /\ \A x : Has(f[n], x) <=> x \in S /\ \E i \in 1 .. n : s[i] = x
        /\ OnceIn(s, S) => Once(f[n])
        /\ n + 1 \in 1 .. Len(s) /\ n \in Nat
    BY <1>1, <1>5
  <2>2. f[n + 1] = IF s[n + 1] \in S THEN Append(f[n], s[n + 1]) ELSE f[n]
    <3>1. n + 1 \in 0 .. Len(s) /\ n + 1 # 0 /\ (n + 1) - 1 = n
      BY <1>1, <2>1
    <3>2. f[n + 1] = Kept(f, s, S, n + 1)
      BY <1>3, <3>1
    <3> QED
      BY <3>1, <3>2 DEF Kept
  <2>3. ASSUME NEW x PROVE (\E i \in 1 .. n + 1 : s[i] = x) <=>
                             (\E i \in 1 .. n : s[i] = x) \/ s[n + 1] = x
    BY <2>1
  <2>4. CASE s[n + 1] \in S
    <3>1. s[n + 1] \in R \cap S /\ f[n + 1] = Append(f[n], s[n + 1])
      BY <1>1, <2>1, <2>2, <2>4
    <3>2. f[n + 1] \in Seq(R \cap S)
      BY <2>1, <3>1, AppendProperties
    <3>3. /\ \A x : Has(f[n + 1], x) <=> Has(f[n], x) \/ x = s[n + 1]
          /\ Once(f[n]) /\ ~Has(f[n], s[n + 1]) => Once(f[n + 1])
      BY <2>1, <3>1, AppendElements
    <3>4. OnceIn(s, S) => ~Has(f[n], s[n + 1])
      BY <2>1, <2>4 DEF OnceIn
    <3> QED
      BY <2>1, <2>3, <2>4, <3>2, <3>3, <3>4
  <2>5. CASE s[n + 1] \notin S
    BY <2>1, <2>2, <2>3, <2>5
  <2> QED
    BY <2>4, <2>5
<1>6. T = Nat
  <2> HIDE DEF T
  <2>1. T \in SUBSET Nat
    BY DEF T
  <2> QED
    BY <1>4, <1>5, <2>1, Induction
<1>7. Good(Len(s))
  BY <1>1, <1>6
<1>8. Once(s) => OnceIn(s, S)
  BY DEF Once, OnceIn
<1> QED
  BY <1>1, <1>2, <1>7, <1>8 DEF Has

(* None that is in S twice.                                                *)
LEMMA OnceInEmpty == ASSUME NEW S PROVE OnceIn(<<>>, S)
BY DEF OnceIn

LEMMA AppendOnceIn ==
  ASSUME NEW R, NEW s \in Seq(R), NEW e \in R, NEW S, OnceIn(s, S),
         e \in S => ~Has(s, e)
  PROVE  OnceIn(Append(s, e), S)
<1>1. /\ Len(Append(s, e)) = Len(s) + 1 /\ Len(s) \in Nat
      /\ \A i \in 1 .. Len(s) : Append(s, e)[i] = s[i]
      /\ Append(s, e)[Len(s) + 1] = e
  OBVIOUS
<1>2. ASSUME NEW i \in 1 .. Len(s) + 1, NEW j \in 1 .. Len(s) + 1,
             Append(s, e)[i] = Append(s, e)[j], Append(s, e)[i] \in S
      PROVE  i = j
  BY <1>1, <1>2 DEF Has, OnceIn
<1> QED
  BY <1>1, <1>2 DEF OnceIn

LEMMA ConcatOnceIn ==
  ASSUME NEW R, NEW s \in Seq(R), NEW t \in Seq(R), NEW S, OnceIn(s, S), OnceIn(t, S),
         \A x \in S : ~(Has(s, x) /\ Has(t, x))
  PROVE  OnceIn(s \o t, S)
<1>1. /\ Len(s) \in Nat /\ Len(t) \in Nat /\ Len(s \o t) = Len(s) + Len(t)
      /\ \A i \in 1 .. Len(s) : (s \o t)[i] = s[i]
      /\ \A i \in Len(s) + 1 .. Len(s) + Len(t) : (s \o t)[i] = t[i - Len(s)]
  BY ConcatProperties
<1>2. ASSUME NEW i \in 1 .. Len(s) + Len(t), NEW j \in 1 .. Len(s) + Len(t),
             (s \o t)[i] = (s \o t)[j], (s \o t)[i] \in S
      PROVE  i = j
  <2>1. CASE i <= Len(s) /\ j <= Len(s)
    BY <1>1, <1>2, <2>1 DEF OnceIn
  <2>2. CASE i > Len(s) /\ j > Len(s)
    <3>1. /\ i - Len(s) \in 1 .. Len(t) /\ j - Len(s) \in 1 .. Len(t)
          /\ t[i - Len(s)] = t[j - Len(s)] /\ t[i - Len(s)] \in S
      BY <1>1, <1>2, <2>2
    <3>2. i - Len(s) = j - Len(s)
      BY <3>1 DEF OnceIn
    <3> QED
      BY <1>1, <3>2
  <2>3. CASE i <= Len(s) /\ j > Len(s)
    <3>1. s[i] = t[j - Len(s)] /\ j - Len(s) \in 1 .. Len(t) /\ s[i] \in S
      BY <1>1, <1>2, <2>3
    <3>2. Has(s, s[i]) /\ Has(t, s[i])
      BY <1>1, <2>3, <3>1 DEF Has
    <3> QED
      BY <3>1, <3>2
  <2>4. CASE i > Len(s) /\ j <= Len(s)
    <3>1. s[j] = t[i - Len(s)] /\ i - Len(s) \in 1 .. Len(t) /\ s[j] \in S
      BY <1>1, <1>2, <2>4
    <3>2. Has(s, s[j]) /\ Has(t, s[j])
      BY <1>1, <2>4, <3>1 DEF Has
    <3> QED
      BY <3>1, <3>2
  <2> QED
    BY <1>1, <2>1, <2>2, <2>3, <2>4
<1> QED
  BY <1>1, <1>2 DEF OnceIn

LEMMA SplitOnceIn ==
  ASSUME NEW R, NEW s \in Seq(R), NEW n \in 0 .. Len(s), NEW S, OnceIn(s, S)
  PROVE  LET front == SubSeq(s, 1, n)  back == SubSeq(s, n + 1, Len(s)) IN
         /\ OnceIn(front, S) /\ OnceIn(back, S)
         /\ \A x \in S : ~(Has(front, x) /\ Has(back, x))
<1> DEFINE front == SubSeq(s, 1, n)
           back == SubSeq(s, n + 1, Len(s))
<1>1. /\ Len(s) \in Nat /\ n \in Int
      /\ \A i \in 1 .. n : s[i] \in R
      /\ \A i \in n + 1 .. Len(s) : s[i] \in R
  OBVIOUS
<1>2. Len(front) = n /\ \A i \in 1 .. n : front[i] = s[i]
  BY <1>1, SubSeqProperties
<1>3. Len(back) = Len(s) - n /\ \A i \in 1 .. Len(s) - n : back[i] = s[n + i]
  BY <1>1, SubSeqProperties
<1> HIDE DEF front, back
<1>4. OnceIn(front, S)
  BY <1>1, <1>2 DEF OnceIn
<1>5. ASSUME NEW i \in 1 .. Len(s) - n, NEW j \in 1 .. Len(s) - n, back[i] = back[j],
             back[i] \in S
      PROVE  i = j
  <2>1. /\ n + i \in 1 .. Len(s) /\ n + j \in 1 .. Len(s)
        /\ s[n + i] = s[n + j] /\ s[n + i] \in S
    BY <1>1, <1>3, <1>5
  <2>2. n + i = n + j
    BY <2>1 DEF OnceIn
  <2> QED
    BY <1>1, <2>2
<1>6. ASSUME NEW x \in S, Has(front, x), Has(back, x) PROVE FALSE
  <2>1. PICK i \in 1 .. n : s[i] = x
    BY <1>2, <1>6 DEF Has
  <2>2. PICK j \in 1 .. Len(s) - n : s[n + j] = x
    BY <1>3, <1>6 DEF Has
  <2>3. i = n + j
    BY <1>1, <2>1, <2>2 DEF OnceIn
  <2> QED
    BY <1>1, <2>3
<1> QED
  BY <1>3, <1>4, <1>5, <1>6 DEF front, back, OnceIn

(* Nothing is left out of a sequence all of whose elements are kept.       *)
LEMMA OnlyAll ==
  ASSUME NEW S, NEW s \in Seq(S)
  PROVE  Only(s, S) = s
<1> DEFINE f == CHOOSE f : f = [i \in 0 .. Len(s) |-> Kept(f, s, S, i)]
<1>1. Len(s) \in Nat /\ \A i \in 1 .. Len(s) : s[i] \in S
  OBVIOUS
<1>2. Only(s, S) = f[Len(s)]
  BY DEF Only, Kept
<1>3. f = [i \in 0 .. Len(s) |-> Kept(f, s, S, i)]
  <2> HIDE DEF f
  <2>1. \E g : KeepsUpTo(g, s, S, Len(s))
    BY <1>1, KeptExists
  <2>2. \E g : g = [i \in 0 .. Len(s) |-> Kept(g, s, S, i)]
    BY <2>1 DEF KeepsUpTo
  <2> QED
    BY <2>2 DEF f
<1> HIDE DEF f
<1> DEFINE Prefix(n) ==
      n <= Len(s) => /\ f[n] \in Seq(S) /\ Len(f[n]) = n
                     /\ \A i \in 1 .. n : f[n][i] = s[i]
      T == {n \in Nat : Prefix(n)}
<1>4. 0 \in T
  <2>1. f[0] = <<>>
    BY <1>1, <1>3 DEF Kept
  <2>2. <<>> \in Seq(S) /\ Len(<<>>) = 0 /\ 1 .. 0 = {}
    OBVIOUS
  <2>3. Prefix(0)
    BY <2>1, <2>2
  <2> QED
    BY <2>3
<1>5. ASSUME NEW n \in T PROVE n + 1 \in T
  <2> SUFFICES ASSUME n + 1 <= Len(s) PROVE Prefix(n + 1)
    BY <1>5
  <2>1. /\ f[n] \in Seq(S) /\ Len(f[n]) = n /\ \A i \in 1 .. n : f[n][i] = s[i]
        /\ n + 1 \in 1 .. Len(s) /\ n \in Nat
    BY <1>1, <1>5
  <2>2. f[n + 1] = Append(f[n], s[n + 1])
    <3>1. n + 1 \in 0 .. Len(s) /\ n + 1 # 0 /\ (n + 1) - 1 = n /\ s[n + 1] \in S
      BY <1>1, <2>1
    <3>2. f[n + 1] = Kept(f, s, S, n + 1)
      BY <1>3, <3>1
    <3> QED
      BY <3>1, <3>2 DEF Kept
  <2>3. /\ f[n + 1] \in Seq(S) /\ Len(f[n + 1]) = n + 1
        /\ f[n + 1][n + 1] = s[n + 1] /\ \A i \in 1 .. n : f[n + 1][i] = f[n][i]
    BY <1>1, <2>1, <2>2
  <2> QED
    BY <2>1, <2>3
<1>6. T = Nat
  <2> HIDE DEF T
  <2>1. T \in SUBSET Nat
    BY DEF T
  <2> QED
    BY <1>4, <1>5, <2>1, Induction
<1>7. Prefix(Len(s))
  BY <1>1, <1>6
<1>8. f[Len(s)] = s
  <2> DEFINE g == f[Len(s)]
  <2>1. /\ g \in Seq(S) /\ Len(g) = Len(s) /\ \A i \in 1 .. Len(s) : g[i] = s[i]
    BY <1>1, <1>7
  <2> HIDE DEF g
  <2>2. g = s
    BY <2>1, SeqEqual
  <2> QED
    BY <2>2 DEF g
<1> QED
  BY <1>2, <1>8
=============================================================================
