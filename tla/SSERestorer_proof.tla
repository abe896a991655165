------------------------- MODULE SSERestorer_proof -------------------------
(***************************************************************************)
(* What module SSERestorer promises, for every map of placeholders,        *)
(* every set of streams and every way to cut a text into deltas.           *)
(***************************************************************************)
EXTENDS SSERestorer, SequenceTheorems, FiniteSetTheorems, WellFoundedInduction, TLAPS

-----------------------------------------------------------------------------
(* Texts under concatenation.                                              *)
LEMMA Least ==
  ASSUME NEW S \in SUBSET Nat, S # {}
  PROVE  \E n \in S : \A m \in S : n <= m
<1> DEFINE R == OpToRel(<, Nat)
<1>1. IsWellFoundedOn(R, Nat)
  BY NatLessThanWellFounded
<1>2. \A x, y \in Nat : x < y => <<x, y>> \in R
  BY DEF OpToRel
<1> HIDE DEF R
<1>3. PICK n \in S : \A m \in S : ~(<<m, n>> \in R)
  BY <1>1, WFMin
<1>4. \A m \in S : ~(m < n)
  BY <1>2, <1>3
<1> QED
  BY <1>4

u ++ v == u \o v

LEMMA Cat ==
  \A u, v \in Texts :
    u ++ v \in Texts /\ Len(u) \in Nat /\ Len(u ++ v) = Len(u) + Len(v)
BY ConcatProperties, LenProperties DEF Texts, ++

LEMMA Joined ==
  \A u, v \in Texts : u ++ v \in Texts
BY Cat

LEMMA CatAt ==
  ASSUME NEW u \in Texts, NEW v \in Texts
  PROVE  /\ \A i \in 1 .. Len(u) : (u ++ v)[i] = u[i]
         /\ \A i \in 1 .. Len(v) : (u ++ v)[Len(u) + i] = v[i]
<1>1. \A i \in 1 .. Len(u) + Len(v) :
        (u ++ v)[i] = IF i <= Len(u) THEN u[i] ELSE v[i - Len(u)]
  BY ConcatProperties DEF Texts, ++
<1>2. Len(u) \in Nat /\ Len(v) \in Nat
  BY LenProperties DEF Texts
<1>3. \A i \in 1 .. Len(v) : Len(u) + i \in 1 .. Len(u) + Len(v) /\ ~(Len(u) + i <= Len(u))
                             /\ (Len(u) + i) - Len(u) = i
  BY <1>2
<1>4. \A i \in 1 .. Len(u) : i \in 1 .. Len(u) + Len(v) /\ i <= Len(u)
  BY <1>2
<1> QED
  BY <1>1, <1>2, <1>3, <1>4

LEMMA Empty ==
  /\ <<>> \in Texts /\ Len(<<>>) = 0
  /\ \A u \in Texts : u ++ <<>> = u /\ <<>> ++ u = u /\ (u # <<>> <=> Len(u) > 0)
BY EmptySeq, ConcatEmptySeq, LenProperties DEF Texts, ++

LEMMA Assoc ==
  \A u, v, w \in Texts : (u ++ v) ++ w = u ++ (v ++ w)
<1> SUFFICES ASSUME NEW u \in Seq(Bytes), NEW v \in Seq(Bytes), NEW w \in Seq(Bytes)
             PROVE  (u \o v) \o w = u \o (v \o w)
  BY DEF Texts, ++
<1> QED
  BY ConcatAssociative

LEMMA Cancel ==
  \A u, v, w \in Texts : u ++ v = u ++ w => v = w
BY ConcatSimplifications DEF Texts, ++

LEMMA Same ==
  ASSUME NEW u \in Texts, NEW v \in Texts, Len(u) = Len(v), \A i \in 1 .. Len(u) : u[i] = v[i]
  PROVE  u = v
BY SeqEqual DEF Texts

LEMMA NoRest ==
  \A u, v \in Texts : u ++ v = <<>> <=> u = <<>> /\ v = <<>>
BY ConcatEqualIffEmpty DEF Texts, ++

(* A text from one byte to another.                                        *)
LEMMA Part ==
  ASSUME NEW s \in Texts, NEW m \in Nat \ {0}, NEW n \in Nat, m <= n + 1, n <= Len(s)
  PROVE  /\ SubSeq(s, m, n) \in Texts
         /\ Len(SubSeq(s, m, n)) = (n + 1) - m
         /\ \A i \in 1 .. (n + 1) - m : SubSeq(s, m, n)[i] = s[(m - 1) + i]
<1>1. \A i \in m .. n : s[i] \in Bytes
  BY ElementOfSeq, LenProperties DEF Texts
<1>2. /\ SubSeq(s, m, n) \in Seq(Bytes)
      /\ Len(SubSeq(s, m, n)) = IF m <= n THEN (n - m) + 1 ELSE 0
      /\ \A i \in 1 .. (n - m) + 1 : SubSeq(s, m, n)[i] = s[(m + i) - 1]
  BY <1>1, SubSeqProperties
<1>3. (n - m) + 1 = (n + 1) - m /\ \A i \in Int : (m + i) - 1 = (m - 1) + i
  OBVIOUS
<1> QED
  BY <1>2, <1>3 DEF Texts

LEMMA CutInTwo ==
  ASSUME NEW s \in Texts, NEW n \in 0 .. Len(s)
  PROVE  /\ SubSeq(s, 1, n) \in Texts /\ From(s, n + 1) \in Texts
         /\ Len(SubSeq(s, 1, n)) = n /\ Len(From(s, n + 1)) = Len(s) - n
         /\ s = SubSeq(s, 1, n) ++ From(s, n + 1)
<1> DEFINE u == SubSeq(s, 1, n)
           v == From(s, n + 1)
<1>1. Len(s) \in Nat /\ n \in Nat
  BY LenProperties DEF Texts
<1>2. u \in Texts /\ Len(u) = n /\ \A i \in 1 .. n : u[i] = s[i]
  <2>1. /\ u \in Texts /\ Len(u) = (n + 1) - 1
        /\ \A i \in 1 .. (n + 1) - 1 : u[i] = s[(1 - 1) + i]
    BY <1>1, Part
  <2> QED
    BY <1>1, <2>1
<1>3. v \in Texts /\ Len(v) = Len(s) - n /\ \A i \in 1 .. Len(s) - n : v[i] = s[n + i]
  <2>1. /\ v \in Texts /\ Len(v) = (Len(s) + 1) - (n + 1)
        /\ \A i \in 1 .. (Len(s) + 1) - (n + 1) : v[i] = s[((n + 1) - 1) + i]
    <3>1. n + 1 \in Nat \ {0} /\ n + 1 <= Len(s) + 1 /\ Len(s) <= Len(s)
      BY <1>1
    <3> QED
      BY <1>1, <3>1, Part DEF From
  <2> QED
    BY <1>1, <2>1
<1> HIDE DEF u, v
<1>4. /\ u ++ v \in Texts /\ Len(u ++ v) = Len(s)
      /\ \A i \in 1 .. n : (u ++ v)[i] = u[i]
      /\ \A i \in 1 .. Len(s) - n : (u ++ v)[n + i] = v[i]
  <2>1. /\ u ++ v \in Texts /\ Len(u ++ v) = Len(u) + Len(v)
        /\ \A i \in 1 .. Len(u) : (u ++ v)[i] = u[i]
        /\ \A i \in 1 .. Len(v) : (u ++ v)[Len(u) + i] = v[i]
    BY <1>2, <1>3, Cat, CatAt
  <2>2. n + (Len(s) - n) = Len(s)
    BY <1>1
  <2> QED
    BY <1>2, <1>3, <2>1, <2>2
<1>5. ASSUME NEW i \in 1 .. Len(s)
      PROVE  s[i] = (u ++ v)[i]
  <2>1. CASE i <= n
    <3>1. i \in 1 .. n
      BY <1>1, <2>1
    <3> QED
      BY <1>2, <1>4, <3>1
  <2>2. CASE i > n
    <3>1. i - n \in 1 .. Len(s) - n /\ n + (i - n) = i
      BY <1>1, <2>2
    <3>2. v[i - n] = s[n + (i - n)] /\ (u ++ v)[n + (i - n)] = v[i - n]
      BY <1>3, <1>4, <3>1
    <3> QED
      BY <3>1, <3>2
  <2>3. i <= n \/ i > n
    BY <1>1
  <2> QED
    BY <2>1, <2>2, <2>3
<1>6. s = u ++ v
  BY <1>4, <1>5, Same
<1> QED
  BY <1>2, <1>3, <1>6 DEF u, v

(* Of two ways to cut a text in two, one cuts first.                       *)
Between(a, b, c, d) == \E m \in Texts : c = a ++ m /\ b = m ++ d

LEMMA FirstCut ==
  ASSUME NEW a \in Texts, NEW b \in Texts, NEW c \in Texts, NEW d \in Texts,
         a ++ b = c ++ d, Len(a) <= Len(c)
  PROVE  Between(a, b, c, d)
<1>1. Len(a) \in 0 .. Len(c) /\ Len(a) \in Nat /\ Len(c) \in Nat
  BY Cat
<1>2. PICK e \in Texts, z \in Texts : Len(e) = Len(a) /\ c = e ++ z
  BY <1>1, CutInTwo
<1>3. \A i \in 1 .. Len(a) : e[i] = a[i]
  <2> SUFFICES ASSUME NEW i \in 1 .. Len(a) PROVE e[i] = a[i]
    OBVIOUS
  <2>1. (a ++ b)[i] = a[i]
    BY CatAt
  <2>2. c[i] = e[i]
    <3>1. i \in 1 .. Len(e)
      BY <1>2
    <3>2. (e ++ z)[i] = e[i]
      BY <3>1, CatAt
    <3> QED
      BY <1>2, <3>2
  <2>3. i \in 1 .. Len(c)
    BY <1>1
  <2>4. (c ++ d)[i] = c[i]
    BY <2>3, CatAt
  <2> QED
    BY <2>1, <2>2, <2>4
<1>4. e = a
  BY <1>2, <1>3, Same
<1>5. a ++ b = (a ++ z) ++ d
  BY <1>2, <1>4
<1>6. z ++ d \in Texts
  BY Cat
<1>7. (a ++ z) ++ d = a ++ (z ++ d)
  BY Assoc
<1>8. b = z ++ d
  BY <1>5, <1>6, <1>7, Cancel
<1> QED
  BY <1>2, <1>4, <1>8 DEF Between

LEMMA Levi ==
  ASSUME NEW u \in Texts, NEW v \in Texts, NEW x \in Texts, NEW y \in Texts, u ++ v = x ++ y
  PROVE  Between(u, v, x, y) \/ Between(x, y, u, v)
<1>1. Len(u) <= Len(x) \/ Len(x) <= Len(u)
  BY Cat
<1> QED
  BY <1>1, FirstCut

LEMMA PrefixIff ==
  ASSUME NEW u \in Texts, NEW s \in Texts
  PROVE  IsPrefix(u, s) <=> \E v \in Texts : s = u ++ v
<1>1. Len(u) \in Nat /\ Len(s) \in Nat /\ SubSeq(u, 1, Len(u)) = u
  BY LenProperties, SubSeqFull DEF Texts
<1>2. ASSUME IsPrefix(u, s)
      PROVE  \E v \in Texts : s = u ++ v
  <2>1. Len(u) \in 0 .. Len(s) /\ u = SubSeq(s, 1, Len(u))
    BY <1>1, <1>2 DEF IsPrefix
  <2>2. s = u ++ From(s, Len(u) + 1) /\ From(s, Len(u) + 1) \in Texts
    BY <2>1, CutInTwo
  <2> QED
    BY <2>2
<1>3. ASSUME NEW v \in Texts, s = u ++ v
      PROVE  IsPrefix(u, s)
  <2>1. Len(u) \in 0 .. Len(s) /\ \A i \in 1 .. Len(u) : s[i] = u[i]
    <3>1. Len(s) = Len(u) + Len(v) /\ Len(v) \in Nat
      BY <1>3, Cat
    <3> QED
      BY <1>1, <1>3, <3>1, CatAt
  <2> DEFINE a == SubSeq(s, 1, Len(u))
             b == From(s, Len(u) + 1)
  <2>2. a \in Texts /\ Len(a) = Len(u) /\ s = a ++ b /\ b \in Texts
    BY <2>1, CutInTwo
  <2> HIDE DEF a, b
  <2>3. \A i \in 1 .. Len(u) : s[i] = a[i]
    BY <2>2, CatAt
  <2>4. a = u
    BY <2>1, <2>2, <2>3, Same
  <2> QED
    BY <1>1, <2>1, <2>4 DEF IsPrefix, a
<1> QED
  BY <1>2, <1>3

LEMMA Comparable ==
  ASSUME NEW u \in Texts, NEW v \in Texts, NEW x \in Texts, NEW y \in Texts, u ++ v = x ++ y
  PROVE  IsPrefix(u, x) \/ IsPrefix(x, u)
<1>1. Between(u, v, x, y) => IsPrefix(u, x)
  BY PrefixIff DEF Between
<1>2. Between(x, y, u, v) => IsPrefix(x, u)
  BY PrefixIff DEF Between
<1> QED
  BY <1>1, <1>2, Levi

LEMMA FromOfCat ==
  ASSUME NEW u \in Texts, NEW v \in Texts
  PROVE  From(u ++ v, Len(u) + 1) = v
<1>1. u ++ v \in Texts /\ Len(u) \in 0 .. Len(u ++ v) /\ Len(u) \in Nat /\ Len(v) \in Nat
  BY Cat
<1> DEFINE a == SubSeq(u ++ v, 1, Len(u))
           b == From(u ++ v, Len(u) + 1)
<1>2. a \in Texts /\ b \in Texts /\ Len(a) = Len(u) /\ u ++ v = a ++ b
  BY <1>1, CutInTwo
<1> HIDE DEF a, b
<1>3. \A i \in 1 .. Len(u) : a[i] = u[i]
  BY <1>2, CatAt
<1>4. a = u
  BY <1>2, <1>3, Same
<1>5. b = v
  BY <1>2, <1>4, Cancel
<1> QED
  BY <1>5 DEF b

-----------------------------------------------------------------------------
(* What RestoreText computes: the three equations of its recursion.        *)
First(t) == CHOOSE p \in Here(t, Mapping) : TRUE

Step(f, t) ==
  IF t = <<>> THEN <<>>
  ELSE IF Here(t, Mapping) = {} THEN <<t[1]>> ++ f[From(t, 2)]
  ELSE Mapping[First(t)] ++ f[From(t, Len(First(t)) + 1)]

LEMMA MappingFacts ==
  /\ \A p \in DOMAIN Mapping : /\ p \in Texts /\ p # <<>> /\ ValidText(p)
                               /\ Mapping[p] \in Texts /\ Mapping[p] # <<>>
                               /\ ValidText(Mapping[p])
  /\ Unambiguous(Mapping)
BY SSERestorerAssumption

LEMMA HereIff ==
  \A t \in Texts : \A p :
    p \in Here(t, Mapping) <=> p \in DOMAIN Mapping /\ \E v \in Texts : t = p ++ v
<1> SUFFICES ASSUME NEW t \in Texts, NEW p \in DOMAIN Mapping
             PROVE  IsPrefix(p, t) <=> \E v \in Texts : t = p ++ v
  BY DEF Here
<1> QED
  BY MappingFacts, PrefixIff

LEMMA PrefixMeansSame ==
  \A p, q \in DOMAIN Mapping : IsPrefix(p, q) => p = q
<1> SUFFICES ASSUME NEW p \in DOMAIN Mapping, NEW q \in DOMAIN Mapping, IsPrefix(p, q)
             PROVE  p = q
  OBVIOUS
<1>1. q \in Texts /\ Len(q) \in Nat /\ Len(q) > 0
  BY MappingFacts, Empty, Cat
<1>2. From(q, 1) = q
  BY <1>1, SubSeqFull DEF From, Texts
<1>3. 1 \in 1 .. Len(q)
  BY <1>1
<1> QED
  BY <1>2, <1>3, MappingFacts DEF Unambiguous

LEMMA FirstByte ==
  ASSUME NEW t \in Texts, t # <<>>
  PROVE  1 \in 1 .. Len(t) /\ Len(t) \in Nat /\ t[1] \in Bytes
<1>1. Len(t) \in Nat /\ Len(t) > 0
  BY Empty, Cat
<1>2. 1 \in 1 .. Len(t)
  BY <1>1
<1> QED
  BY <1>1, <1>2, ElementOfSeq DEF Texts

(* What follows the head of a text, or the placeholder at its beginning.   *)
LEMMA StepDown ==
  ASSUME NEW t \in Texts, t # <<>>
  PROVE  /\ <<t[1]>> \in Texts /\ From(t, 2) \in Texts
         /\ Len(From(t, 2)) < Len(t) /\ t = <<t[1]>> ++ From(t, 2)
         /\ Here(t, Mapping) # {} =>
              /\ First(t) \in DOMAIN Mapping
              /\ From(t, Len(First(t)) + 1) \in Texts
              /\ Len(From(t, Len(First(t)) + 1)) < Len(t)
              /\ t = First(t) ++ From(t, Len(First(t)) + 1)
<1>1. Len(t) \in Nat /\ 1 \in 0 .. Len(t) /\ t[1] \in Bytes
  BY FirstByte
<1>2. PICK e \in Texts, z \in Texts :
        Len(e) = 1 /\ Len(z) = Len(t) - 1 /\ t = e ++ z /\ z = From(t, 1 + 1)
  BY <1>1, CutInTwo
<1>3. From(t, 1 + 1) = From(t, 2)
  OBVIOUS
<1>4. <<t[1]>> \in Texts /\ Len(<<t[1]>>) = 1 /\ <<t[1]>>[1] = t[1]
  BY <1>1 DEF Texts
<1>5. e[1] = t[1]
  <2>1. 1 \in 1 .. Len(e)
    BY <1>2
  <2>2. (e ++ z)[1] = e[1]
    BY <2>1, CatAt
  <2> QED
    BY <1>2, <2>2
<1>6. e = <<t[1]>>
  BY <1>2, <1>4, <1>5, Same
<1>7. ASSUME Here(t, Mapping) # {}
      PROVE  /\ First(t) \in DOMAIN Mapping
             /\ From(t, Len(First(t)) + 1) \in Texts
             /\ Len(From(t, Len(First(t)) + 1)) < Len(t)
             /\ t = First(t) ++ From(t, Len(First(t)) + 1)
  <2>1. First(t) \in Here(t, Mapping)
    BY <1>7 DEF First
  <2>2. First(t) \in DOMAIN Mapping /\ First(t) \in Texts /\ First(t) # <<>>
    BY <2>1, HereIff, MappingFacts
  <2>3. PICK v \in Texts : t = First(t) ++ v
    BY <2>1, HereIff
  <2>4. From(t, Len(First(t)) + 1) = v
    BY <2>2, <2>3, FromOfCat
  <2>5. Len(v) < Len(t)
    <3>1. Len(First(t)) > 0 /\ Len(First(t)) \in Nat /\ Len(v) \in Nat
      BY <2>2, Empty, Cat
    <3>2. Len(t) = Len(First(t)) + Len(v)
      BY <2>2, <2>3, Cat
    <3> QED
      BY <3>1, <3>2
  <2> QED
    BY <2>2, <2>3, <2>4, <2>5
<1>8. Len(From(t, 2)) < Len(t)
  BY <1>1, <1>2, <1>3
<1> QED
  BY <1>2, <1>3, <1>4, <1>6, <1>7, <1>8

LEMMA StepFacts ==
  ASSUME NEW f, NEW g \in [Texts -> Texts], NEW t \in Texts,
         \A u \in Texts : Len(u) < Len(t) => f[u] = g[u]
  PROVE  Step(f, t) = Step(g, t) /\ Step(f, t) \in Texts
<1>1. CASE t = <<>>
  BY <1>1, Empty DEF Step
<1>2. CASE t # <<>> /\ Here(t, Mapping) = {}
  <2>1. <<t[1]>> \in Texts /\ From(t, 2) \in Texts /\ f[From(t, 2)] = g[From(t, 2)]
    BY <1>2, StepDown
  <2>2. <<t[1]>> ++ f[From(t, 2)] \in Texts
    BY <2>1, Cat
  <2> QED
    BY <1>2, <2>1, <2>2 DEF Step
<1>3. CASE t # <<>> /\ Here(t, Mapping) # {}
  <2> DEFINE u == From(t, Len(First(t)) + 1)
  <2>1. u \in Texts /\ f[u] = g[u] /\ Mapping[First(t)] \in Texts
    BY <1>3, StepDown, MappingFacts
  <2>2. Step(f, t) = Mapping[First(t)] ++ f[u] /\ Step(g, t) = Mapping[First(t)] ++ g[u]
    BY <1>3 DEF Step
  <2> HIDE DEF u
  <2>3. Mapping[First(t)] ++ f[u] \in Texts
    BY <2>1, Cat
  <2> QED
    BY <2>1, <2>2, <2>3
<1> QED
  BY <1>1, <1>2, <1>3

(* A function that follows the recursion on texts up to a length.          *)
Upto(f, n) == f \in [Texts -> Texts] /\ \A t \in Texts : Len(t) <= n => f[t] = Step(f, t)

LEMMA SomeUpto ==
  \A n \in Nat : \E f : Upto(f, n)
<1> DEFINE Bad == {n \in Nat : ~\E f : Upto(f, n)}
<1>1. Bad = {} => \A n \in Nat : \E f : Upto(f, n)
  OBVIOUS
<1>2. \A n : n \in Bad <=> n \in Nat /\ ~\E f : Upto(f, n)
  OBVIOUS
<1> HIDE DEF Bad
<1>3. \E f : Upto(f, 0)
  <2> DEFINE f == [t \in Texts |-> <<>>]
  <2>1. f \in [Texts -> Texts] /\ \A t \in Texts : f[t] = <<>>
    BY Empty
  <2> HIDE DEF f
  <2>2. \A t \in Texts : Len(t) <= 0 => t = <<>>
    BY Empty, Cat
  <2>3. \A t \in Texts : t = <<>> => Step(f, t) = <<>>
    BY DEF Step
  <2>4. Upto(f, 0)
    BY <2>1, <2>2, <2>3 DEF Upto
  <2> QED
    BY <2>4
<1>4. ASSUME NEW n \in Nat, NEW f, Upto(f, n)
      PROVE  \E g : Upto(g, n + 1)
  <2> DEFINE g == [t \in Texts |-> Step(f, t)]
  <2>1. f \in [Texts -> Texts] /\ \A t \in Texts : Len(t) <= n => f[t] = Step(f, t)
    BY <1>4 DEF Upto
  <2>2. g \in [Texts -> Texts] /\ \A t \in Texts : g[t] = Step(f, t)
    BY <2>1, StepFacts
  <2> HIDE DEF g
  <2>3. ASSUME NEW t \in Texts, Len(t) <= n + 1
        PROVE  g[t] = Step(g, t)
    <3>1. \A u \in Texts : Len(u) < Len(t) => Len(u) <= n
      BY <2>3, Cat
    <3>2. \A u \in Texts : Len(u) < Len(t) => f[u] = g[u]
      BY <2>1, <2>2, <3>1
    <3>3. Step(f, t) = Step(g, t)
      BY <2>1, <2>2, <3>2, StepFacts
    <3> QED
      BY <2>2, <3>3
  <2>4. Upto(g, n + 1)
    BY <2>2, <2>3 DEF Upto
  <2> QED
    BY <2>4
<1>5. ASSUME Bad # {}
      PROVE  FALSE
  <2>1. PICK n \in Bad : \A m \in Bad : n <= m
    <3>1. Bad \in SUBSET Nat
      BY <1>2
    <3> QED
      BY <1>5, <3>1, Least
  <2>2. n \in Nat /\ n # 0
    BY <1>2, <1>3
  <2>3. n - 1 \in Nat /\ (n - 1) + 1 = n /\ ~(n <= n - 1)
    BY <2>2
  <2>4. PICK f : Upto(f, n - 1)
    BY <1>2, <2>1, <2>3
  <2>5. \E g : Upto(g, (n - 1) + 1)
    BY <1>4, <2>3, <2>4
  <2> QED
    BY <1>2, <2>3, <2>5
<1> QED
  BY <1>1, <1>5

LEMMA SameUpto ==
  ASSUME NEW f, NEW g, NEW n \in Nat, NEW m \in Nat, Upto(f, n), Upto(g, m), n <= m
  PROVE  \A t \in Texts : Len(t) <= n => f[t] = g[t]
<1> DEFINE Bad == {k \in Nat : \E t \in Texts : Len(t) = k /\ k <= n /\ f[t] # g[t]}
<1>1. \A k : k \in Bad <=> k \in Nat /\ \E t \in Texts : Len(t) = k /\ k <= n /\ f[t] # g[t]
  OBVIOUS
<1> HIDE DEF Bad
<1>2. ASSUME Bad # {}
      PROVE  FALSE
  <2>1. PICK k \in Bad : \A j \in Bad : k <= j
    <3>1. Bad \in SUBSET Nat
      BY <1>1
    <3> QED
      BY <1>2, <3>1, Least
  <2>2. PICK t \in Texts : Len(t) = k /\ k <= n /\ f[t] # g[t]
    BY <1>1
  <2>3. k \in Nat /\ k <= m
    BY <1>1, <2>2
  <2>4. \A u \in Texts : Len(u) < Len(t) => f[u] = g[u]
    <3> SUFFICES ASSUME NEW u \in Texts, Len(u) < Len(t), f[u] # g[u] PROVE FALSE
      OBVIOUS
    <3>1. Len(u) \in Nat
      BY Cat
    <3>2. Len(u) <= n /\ ~(k <= Len(u))
      BY <2>2, <2>3, <3>1
    <3> QED
      BY <1>1, <2>1, <3>1, <3>2
  <2>5. f \in [Texts -> Texts] /\ g \in [Texts -> Texts]
    BY DEF Upto
  <2>6. f[t] = Step(f, t) /\ g[t] = Step(g, t)
    BY <2>2, <2>3 DEF Upto
  <2>7. Step(f, t) = Step(g, t)
    BY <2>4, <2>5, StepFacts
  <2> QED
    BY <2>2, <2>6, <2>7
<1>3. \A t \in Texts : Len(t) \in Nat
  BY Cat
<1> QED
  BY <1>1, <1>2, <1>3

LEMMA SomeStepper ==
  \E f \in [Texts -> Texts] : f = [t \in Texts |-> Step(f, t)]
<1> DEFINE h == [n \in Nat |-> CHOOSE f : Upto(f, n)]
           g == [t \in Texts |-> h[Len(t)][t]]
<1>1. \A n \in Nat : Upto(h[n], n)
  BY SomeUpto
<1>2. \A t \in Texts : Len(t) \in Nat
  BY Cat
<1>3. \A n \in Nat : h[n] \in [Texts -> Texts]
  BY <1>1 DEF Upto
<1> HIDE DEF h
<1>4. g \in [Texts -> Texts] /\ \A t \in Texts : g[t] = h[Len(t)][t]
  BY <1>2, <1>3
<1> HIDE DEF g
<1>5. ASSUME NEW t \in Texts
      PROVE  g[t] = Step(g, t)
  <2>1. \A u \in Texts : Len(u) < Len(t) => h[Len(t)][u] = g[u]
    <3> SUFFICES ASSUME NEW u \in Texts, Len(u) < Len(t) PROVE h[Len(t)][u] = g[u]
      OBVIOUS
    <3>1. Len(u) \in Nat /\ Len(t) \in Nat /\ Len(u) <= Len(t) /\ Len(u) <= Len(u)
      BY <1>2
    <3>2. h[Len(u)][u] = h[Len(t)][u]
      BY <1>1, <3>1, SameUpto
    <3> QED
      BY <1>4, <3>2
  <2>2. Step(h[Len(t)], t) = Step(g, t)
    BY <1>2, <1>3, <1>4, <2>1, StepFacts
  <2>3. Len(t) \in Nat /\ Len(t) <= Len(t)
    BY <1>2
  <2>4. h[Len(t)][t] = Step(h[Len(t)], t)
    BY <1>1, <2>3 DEF Upto
  <2> QED
    BY <1>4, <2>2, <2>4
<1>6. g = [t \in Texts |-> Step(g, t)]
  BY <1>4, <1>5
<1> QED
  BY <1>4, <1>6

Stepper == CHOOSE f : f = [t \in Texts |-> Step(f, t)]

LEMMA RestoredIs ==
  \A t \in Texts : Restored(t) = Stepper[t]
BY DEF Restored, RestoreText, Stepper, Step, First, ++

LEMMA StepperFacts ==
  /\ Stepper \in [Texts -> Texts]
  /\ \A t \in Texts : Stepper[t] = Step(Stepper, t)
<1>1. Stepper = [t \in Texts |-> Step(Stepper, t)]
  BY SomeStepper DEF Stepper
<1>2. \A t \in Texts : Stepper[t] = Step(Stepper, t)
  BY <1>1
<1>3. PICK g \in [Texts -> Texts] : g = [t \in Texts |-> Step(g, t)]
  BY SomeStepper
<1>4. \A t \in Texts : g[t] = Step(g, t)
  BY <1>3
<1> DEFINE Bad == {k \in Nat : \E t \in Texts : Len(t) = k /\ Stepper[t] # g[t]}
<1>5. \A k : k \in Bad <=> k \in Nat /\ \E t \in Texts : Len(t) = k /\ Stepper[t] # g[t]
  OBVIOUS
<1> HIDE DEF Bad
<1>6. \A t \in Texts : Len(t) \in Nat
  BY Cat
<1>7. ASSUME Bad # {}
      PROVE  FALSE
  <2>1. PICK k \in Bad : \A j \in Bad : k <= j
    <3>1. Bad \in SUBSET Nat
      BY <1>5
    <3> QED
      BY <1>7, <3>1, Least
  <2>2. PICK t \in Texts : Len(t) = k /\ Stepper[t] # g[t]
    BY <1>5
  <2>3. \A u \in Texts : Len(u) < Len(t) => ~(k <= Len(u))
    BY <1>6, <2>2
  <2>4. \A u \in Texts : Len(u) < Len(t) => Stepper[u] = g[u]
    BY <1>5, <1>6, <2>1, <2>3
  <2>5. Step(Stepper, t) = Step(g, t)
    BY <2>4, StepFacts
  <2> QED
    BY <1>2, <1>4, <2>2, <2>5
<1>8. \A t \in Texts : Stepper[t] = g[t]
  BY <1>5, <1>6, <1>7
<1>9. Stepper = [t \in Texts |-> Stepper[t]]
  BY <1>1, <1>2
<1>10. Stepper \in [Texts -> Texts]
  BY <1>8, <1>9
<1> QED
  BY <1>2, <1>10

LEMMA RestoredType ==
  \A t \in Texts : Restored(t) \in Texts
BY RestoredIs, StepperFacts

LEMMA RestoredNothing ==
  Restored(<<>>) = <<>>
BY RestoredIs, StepperFacts, Empty DEF Step

(* No placeholder at the beginning: the first byte stays.                  *)
LEMMA RestoredByte ==
  ASSUME NEW c \in Bytes, NEW u \in Texts, Here(<<c>> ++ u, Mapping) = {}
  PROVE  Restored(<<c>> ++ u) = <<c>> ++ Restored(u)
<1> DEFINE t == <<c>> ++ u
<1>1. <<c>> \in Texts /\ Len(<<c>>) = 1 /\ <<c>>[1] = c
  BY DEF Texts
<1>2. t \in Texts /\ t # <<>> /\ t[1] = c
  <2>1. <<c>> # <<>>
    OBVIOUS
  <2>2. t \in Texts /\ t # <<>>
    BY <1>1, <2>1, Cat, NoRest
  <2>3. t[1] = c
    BY <1>1, CatAt
  <2> QED
    BY <2>2, <2>3
<1>3. From(t, 2) = u
  <2>1. From(t, Len(<<c>>) + 1) = u
    BY <1>1, FromOfCat
  <2> QED
    BY <1>1, <2>1
<1> HIDE DEF t
<1>4. Stepper[t] = <<c>> ++ Stepper[u]
  BY <1>2, <1>3, StepperFacts DEF Step, t
<1> QED
  BY <1>2, <1>4, RestoredIs DEF t

(* A placeholder at the beginning: its original takes its place.           *)
LEMMA RestoredPlaceholder ==
  ASSUME NEW p \in DOMAIN Mapping, NEW u \in Texts
  PROVE  Restored(p ++ u) = Mapping[p] ++ Restored(u)
<1> DEFINE t == p ++ u
<1>1. p \in Texts /\ p # <<>>
  BY MappingFacts
<1>2. t \in Texts /\ t # <<>>
  BY <1>1, Cat, NoRest
<1>3. p \in Here(t, Mapping)
  BY <1>2, HereIff
<1>4. First(t) \in Here(t, Mapping)
  BY <1>3 DEF First
<1>5. PICK q : q = First(t)
  OBVIOUS
<1>6. q \in DOMAIN Mapping /\ q \in Texts /\ \E v \in Texts : t = q ++ v
  BY <1>2, <1>4, <1>5, HereIff, MappingFacts
<1>7. q = p
  <2>1. PICK v \in Texts : p ++ u = q ++ v
    BY <1>6
  <2>2. IsPrefix(q, p) \/ IsPrefix(p, q)
    BY <1>1, <1>6, <2>1, Comparable
  <2> QED
    BY <1>1, <1>6, <2>2, PrefixMeansSame
<1>8. From(t, Len(p) + 1) = u
  BY <1>1, FromOfCat
<1>9. Step(Stepper, t) = Mapping[p] ++ Stepper[u]
  BY <1>2, <1>3, <1>5, <1>7, <1>8 DEF Step
<1> QED
  BY <1>2, <1>9, RestoredIs, StepperFacts

(* Every text begins with one of the two, or is empty.                     *)
LEMMA Beginning ==
  ASSUME NEW a \in Texts
  PROVE  \/ a = <<>>
         \/ \E p \in DOMAIN Mapping, u \in Texts :
              a = p ++ u /\ Len(u) < Len(a) /\ Restored(a) = Mapping[p] ++ Restored(u)
         \/ /\ Here(a, Mapping) = {}
            /\ \E k, u \in Texts : /\ Len(k) = 1 /\ a = k ++ u /\ Len(u) < Len(a)
                                   /\ Restored(a) = k ++ Restored(u)
<1>1. CASE a # <<>> /\ Here(a, Mapping) = {}
  <2>1. /\ <<a[1]>> \in Texts /\ From(a, 2) \in Texts
        /\ Len(From(a, 2)) < Len(a) /\ a = <<a[1]>> ++ From(a, 2)
    BY <1>1, StepDown
  <2>2. a[1] \in Bytes
    BY <1>1, FirstByte
  <2>3. Restored(<<a[1]>> ++ From(a, 2)) = <<a[1]>> ++ Restored(From(a, 2))
    BY <1>1, <2>1, <2>2, RestoredByte
  <2>4. Len(<<a[1]>>) = 1
    OBVIOUS
  <2> QED
    BY <1>1, <2>1, <2>3, <2>4
<1>2. CASE a # <<>> /\ Here(a, Mapping) # {}
  <2>1. /\ First(a) \in DOMAIN Mapping
        /\ From(a, Len(First(a)) + 1) \in Texts
        /\ Len(From(a, Len(First(a)) + 1)) < Len(a)
        /\ a = First(a) ++ From(a, Len(First(a)) + 1)
    BY <1>2, StepDown
  <2> QED
    BY <2>1, RestoredPlaceholder
<1> QED
  BY <1>1, <1>2

LEMMA Shortest ==
  ASSUME NEW S \in SUBSET Texts, S # {}
  PROVE  \E a \in S : \A b \in Texts : Len(b) < Len(a) => b \notin S
<1> DEFINE N == {n \in Nat : \E a \in S : Len(a) = n}
<1>1. \A n : n \in N <=> n \in Nat /\ \E a \in S : Len(a) = n
  OBVIOUS
<1> HIDE DEF N
<1>2. \A a \in Texts : Len(a) \in Nat
  BY Cat
<1>3. N \in SUBSET Nat /\ N # {}
  BY <1>1, <1>2
<1>4. PICK n \in N : \A m \in N : n <= m
  BY <1>3, Least
<1>5. PICK a \in S : Len(a) = n
  BY <1>1
<1>6. ASSUME NEW b \in Texts, Len(b) < Len(a), b \in S
      PROVE  FALSE
  <2>1. Len(b) \in Nat /\ Len(b) \in N
    BY <1>1, <1>2, <1>6
  <2> QED
    BY <1>2, <1>4, <1>5, <1>6, <2>1
<1> QED
  BY <1>6

-----------------------------------------------------------------------------
(* Originals that are apart from the placeholders: neither a placeholder   *)
(* that was begun in front of one, nor one that begins inside it, reads on *)
(* beyond.                                                                 *)
LEMMA ApartNever ==
  ASSUME NEW s \in Texts, NEW t \in Texts, Apart(s, t), NEW v \in Texts, NEW w \in Texts
  PROVE  s ++ v # t ++ w
<1> SUFFICES ASSUME s ++ v = t ++ w PROVE FALSE
  OBVIOUS
<1>1. IsPrefix(s, t) \/ IsPrefix(t, s)
  BY Comparable
<1> QED
  BY <1>1 DEF Apart

(* y is what is left of p behind its first bytes.                          *)
IsTail(y, p) == y \in Texts /\ y # <<>> /\ \E x \in Texts : x # <<>> /\ p = x ++ y

LEMMA TailIs ==
  ASSUME NEW x \in Texts, NEW y \in Texts, y # <<>>
  PROVE  /\ From(x ++ y, Len(x) + 1) = y
         /\ Len(x) + 1 \in 1 .. Len(x ++ y)
         /\ x # <<>> => Len(x) + 1 \in 2 .. Len(x ++ y)
<1>1. Len(x) \in Nat /\ Len(y) \in Nat /\ Len(y) > 0 /\ Len(x ++ y) = Len(x) + Len(y)
  BY Cat, Empty
<1>2. x # <<>> => Len(x) > 0
  BY Empty
<1> QED
  BY <1>1, <1>2, FromOfCat

LEMMA NoTailAtOriginal ==
  ASSUME OriginalsApart(Mapping), NEW p \in DOMAIN Mapping, NEW q \in DOMAIN Mapping,
         NEW y, IsTail(y, p), NEW v \in Texts, NEW w \in Texts
  PROVE  y ++ v # Mapping[q] ++ w
<1>1. PICK x \in Texts : y \in Texts /\ y # <<>> /\ x # <<>> /\ p = x ++ y
  BY DEF IsTail
<1>2. From(p, Len(x) + 1) = y /\ Len(x) + 1 \in 2 .. Len(p)
  BY <1>1, TailIs
<1>3. Apart(y, Mapping[q])
  BY <1>2 DEF OriginalsApart
<1> QED
  BY <1>1, <1>3, MappingFacts, ApartNever

LEMMA NoPlaceholderInOriginal ==
  ASSUME OriginalsApart(Mapping), NEW p \in DOMAIN Mapping, NEW q \in DOMAIN Mapping,
         NEW x \in Texts, NEW y \in Texts, y # <<>>, Mapping[q] = x ++ y,
         NEW v \in Texts, NEW w \in Texts
  PROVE  y ++ v # p ++ w
<1>1. From(Mapping[q], Len(x) + 1) = y /\ Len(x) + 1 \in 1 .. Len(Mapping[q])
  BY TailIs
<1>2. Apart(y, p)
  BY <1>1 DEF OriginalsApart
<1> QED
  BY <1>2, MappingFacts, ApartNever

(* A byte that another text begins with.                                   *)
LEMMA ByteFirst ==
  ASSUME NEW k \in Texts, Len(k) = 1, NEW r \in Texts, NEW y \in Texts, NEW v \in Texts,
         y # <<>>, k ++ r = y ++ v
  PROVE  \E z \in Texts : y = k ++ z /\ r = z ++ v
<1>1. Len(y) \in Nat /\ Len(y) > 0
  BY Cat, Empty
<1>2. Len(k) <= Len(y)
  BY <1>1
<1>3. Between(k, r, y, v)
  BY <1>2, FirstCut
<1> QED
  BY <1>3 DEF Between

LEMMA LongerTail ==
  ASSUME NEW p, NEW k \in Texts, k # <<>>, NEW z \in Texts, z # <<>>, IsTail(k ++ z, p)
  PROVE  IsTail(z, p)
<1>1. PICK x \in Texts : x # <<>> /\ p = x ++ (k ++ z)
  BY DEF IsTail
<1>2. x ++ k \in Texts /\ x ++ k # <<>> /\ (x ++ k) ++ z = x ++ (k ++ z)
  BY <1>1, Cat, NoRest, Assoc
<1> QED
  BY <1>1, <1>2 DEF IsTail

(* Restoring what stands behind the beginning of a placeholder does not    *)
(* complete it.                                                            *)
GrewTail(a) ==
  \E p \in DOMAIN Mapping : \E y, t \in Texts :
    IsTail(y, p) /\ IsPrefix(y, Restored(a) ++ t) /\ ~IsPrefix(y, a ++ t)

LEMMA NoTailGrows ==
  ASSUME OriginalsApart(Mapping)
  PROVE  \A a \in Texts : ~GrewTail(a)
<1> DEFINE Bad == {a \in Texts : GrewTail(a)}
<1>1. \A a : a \in Bad <=> a \in Texts /\ GrewTail(a)
  OBVIOUS
<1> HIDE DEF Bad
<1>2. ASSUME Bad # {}
      PROVE  FALSE
  <2>1. PICK a \in Bad : \A b \in Texts : Len(b) < Len(a) => b \notin Bad
    <3>1. Bad \in SUBSET Texts
      BY <1>1
    <3> QED
      BY <1>2, <3>1, Shortest
  <2>2. a \in Texts
    BY <1>1
  <2>3. PICK p \in DOMAIN Mapping, y \in Texts, t \in Texts :
          IsTail(y, p) /\ IsPrefix(y, Restored(a) ++ t) /\ ~IsPrefix(y, a ++ t)
    BY <1>1 DEF GrewTail
  <2>4. a ++ t \in Texts /\ Restored(a) ++ t \in Texts
    BY <2>2, RestoredType, Cat
  <2>5. PICK v \in Texts : Restored(a) ++ t = y ++ v
    BY <2>3, <2>4, PrefixIff
  <2>6. a # <<>>
    BY <2>3, RestoredNothing
  <2>7. ASSUME NEW q \in DOMAIN Mapping, NEW u \in Texts, Restored(a) = Mapping[q] ++ Restored(u)
        PROVE  FALSE
    <3>1. Restored(u) \in Texts /\ Mapping[q] \in Texts /\ Restored(u) ++ t \in Texts
      BY RestoredType, MappingFacts, Cat
    <3>2. (Mapping[q] ++ Restored(u)) ++ t = Mapping[q] ++ (Restored(u) ++ t)
      BY <3>1, Assoc
    <3>3. y ++ v = Mapping[q] ++ (Restored(u) ++ t)
      BY <2>5, <2>7, <3>2
    <3> QED
      BY <2>3, <3>1, <3>3, NoTailAtOriginal
  <2>8. ASSUME NEW k \in Texts, NEW u \in Texts, Len(k) = 1, a = k ++ u, Len(u) < Len(a),
               Restored(a) = k ++ Restored(u)
        PROVE  FALSE
    <3>1. PICK r \in Texts : r = Restored(u)
      BY RestoredType
    <3>2. r ++ t \in Texts /\ (k ++ r) ++ t = k ++ (r ++ t)
      BY Assoc, Cat
    <3>3. k ++ (r ++ t) = y ++ v
      BY <2>5, <2>8, <3>1, <3>2
    <3>4. y # <<>>
      BY <2>3 DEF IsTail
    <3>5. PICK z \in Texts : y = k ++ z /\ r ++ t = z ++ v
      BY <2>8, <3>2, <3>3, <3>4, ByteFirst
    <3>6. (k ++ u) ++ t = k ++ (u ++ t) /\ u ++ t \in Texts
      BY Assoc, Cat
    <3>7. z # <<>> => ~IsPrefix(z, u ++ t)
      <4> SUFFICES ASSUME IsPrefix(z, u ++ t) PROVE FALSE
        OBVIOUS
      <4>1. PICK w \in Texts : u ++ t = z ++ w
        BY <3>6, PrefixIff
      <4>2. (k ++ z) ++ w = k ++ (z ++ w)
        BY Assoc
      <4>3. a ++ t = y ++ w
        BY <2>8, <3>5, <3>6, <4>1, <4>2
      <4> QED
        BY <2>3, <2>4, <4>3, PrefixIff
    <3>8. CASE z = <<>>
      <4>1. y = k
        BY <3>5, <3>8, Empty
      <4>2. a ++ t = y ++ (u ++ t)
        BY <2>8, <3>6, <4>1
      <4> QED
        BY <2>3, <2>4, <3>6, <4>2, PrefixIff
    <3>9. CASE z # <<>>
      <4>1. k # <<>>
        BY <2>8, Empty
      <4>2. IsTail(z, p)
        BY <2>3, <3>5, <3>9, <4>1, LongerTail
      <4>3. ~GrewTail(u)
        BY <1>1, <2>1, <2>8
      <4>4. IsPrefix(z, r ++ t)
        BY <3>2, <3>5, PrefixIff
      <4> QED
        BY <3>1, <3>7, <3>9, <4>2, <4>3, <4>4 DEF GrewTail
    <3> QED
      BY <3>8, <3>9
  <2> QED
    BY <2>2, <2>6, <2>7, <2>8, Beginning
<1> QED
  BY <1>1, <1>2

-----------------------------------------------------------------------------
(* Text in which no placeholder begins passes through RestoreText.         *)
Clear(a, w) == \A x, y \in Texts : a = x ++ y /\ y # <<>> => Here(y ++ w, Mapping) = {}

Free(b) == \A x, y \in Texts : b = x ++ y => Here(y, Mapping) = {}

LEMMA OneByte ==
  ASSUME NEW a \in Texts, a # <<>>
  PROVE  \E k, u \in Texts : Len(k) = 1 /\ a = k ++ u /\ Len(u) < Len(a)
<1>1. /\ <<a[1]>> \in Texts /\ From(a, 2) \in Texts
      /\ Len(From(a, 2)) < Len(a) /\ a = <<a[1]>> ++ From(a, 2)
  BY StepDown
<1>2. Len(<<a[1]>>) = 1
  OBVIOUS
<1> QED
  BY <1>1, <1>2

LEMMA RestoredOneByte ==
  ASSUME NEW k \in Texts, Len(k) = 1, NEW u \in Texts, Here(k ++ u, Mapping) = {}
  PROVE  Restored(k ++ u) = k ++ Restored(u)
<1>1. k # <<>>
  <2>1. Len(k) > 0
    OBVIOUS
  <2> QED
    BY <2>1, Empty
<1>2. k[1] \in Bytes /\ k = <<k[1]>>
  <2>1. k[1] \in Bytes
    BY <1>1, FirstByte
  <2>2. <<k[1]>> \in Texts /\ Len(<<k[1]>>) = 1 /\ <<k[1]>>[1] = k[1]
    BY <2>1 DEF Texts
  <2>3. k = <<k[1]>>
    BY <2>2, Same
  <2> QED
    BY <2>1, <2>3
<1>3. PICK c \in Bytes : k = <<c>>
  BY <1>2
<1> QED
  BY <1>3, RestoredByte

LEMMA ClearPasses ==
  ASSUME NEW w \in Texts
  PROVE  \A a \in Texts : Clear(a, w) => Restored(a ++ w) = a ++ Restored(w)
<1> DEFINE Bad == {a \in Texts : Clear(a, w) /\ Restored(a ++ w) # a ++ Restored(w)}
<1>1. \A a : a \in Bad <=> a \in Texts /\ Clear(a, w) /\ Restored(a ++ w) # a ++ Restored(w)
  OBVIOUS
<1> HIDE DEF Bad
<1>2. ASSUME Bad # {}
      PROVE  FALSE
  <2>1. PICK a \in Bad : \A b \in Texts : Len(b) < Len(a) => b \notin Bad
    <3>1. Bad \in SUBSET Texts
      BY <1>1
    <3> QED
      BY <1>2, <3>1, Shortest
  <2>2. a \in Texts /\ Clear(a, w) /\ Restored(a ++ w) # a ++ Restored(w)
    BY <1>1
  <2>3. a # <<>>
    BY <2>2, Empty, RestoredType
  <2>4. PICK k \in Texts, u \in Texts : Len(k) = 1 /\ a = k ++ u /\ Len(u) < Len(a)
    BY <2>2, <2>3, OneByte
  <2>5. a ++ w = k ++ (u ++ w) /\ u ++ w \in Texts /\ Restored(w) \in Texts
    BY <2>4, Assoc, Joined, RestoredType
  <2>6. Here(a ++ w, Mapping) = {}
    <3>1. a = <<>> ++ a /\ <<>> \in Texts
      BY <2>2, Empty
    <3> QED
      BY <2>2, <2>3, <3>1 DEF Clear
  <2>7. Restored(a ++ w) = k ++ Restored(u ++ w)
    BY <2>4, <2>5, <2>6, RestoredOneByte
  <2>8. Clear(u, w)
    <3> SUFFICES ASSUME NEW x \in Texts, NEW y \in Texts, u = x ++ y, y # <<>>
                 PROVE  Here(y ++ w, Mapping) = {}
      BY DEF Clear
    <3>1. a = (k ++ x) ++ y /\ k ++ x \in Texts
      BY <2>4, Assoc, Cat
    <3> QED
      BY <2>2, <3>1 DEF Clear
  <2>9. Restored(u ++ w) = u ++ Restored(w)
    BY <1>1, <2>1, <2>4, <2>8
  <2>10. Restored(a ++ w) = a ++ Restored(w)
    BY <2>4, <2>5, <2>7, <2>9, Assoc
  <2> QED
    BY <2>2, <2>10
<1> QED
  BY <1>1, <1>2

LEMMA FreeStays ==
  ASSUME NEW a \in Texts, Free(a)
  PROVE  Restored(a) = a
<1>1. Clear(a, <<>>)
  BY Empty DEF Free, Clear
<1>2. Restored(a ++ <<>>) = a ++ Restored(<<>>)
  BY <1>1, ClearPasses, Empty
<1> QED
  BY <1>2, Empty, RestoredNothing

LEMMA FreePart ==
  ASSUME NEW u \in Texts, NEW v \in Texts, Free(u ++ v)
  PROVE  Free(v)
<1> SUFFICES ASSUME NEW x \in Texts, NEW y \in Texts, v = x ++ y
             PROVE  Here(y, Mapping) = {}
  BY DEF Free
<1>1. u ++ v = (u ++ x) ++ y /\ u ++ x \in Texts
  BY Assoc, Cat
<1> QED
  BY <1>1 DEF Free

LEMMA NothingHere ==
  ASSUME NEW t \in Texts, \A p \in DOMAIN Mapping : \A v \in Texts : t # p ++ v
  PROVE  Here(t, Mapping) = {}
BY HereIff

(* No placeholder in front of what was restored.                           *)
LEMMA NoneInFront ==
  ASSUME OriginalsApart(Mapping), NEW k \in Texts, Len(k) = 1, NEW u \in Texts, NEW t \in Texts,
         Here(k ++ (u ++ t), Mapping) = {}
  PROVE  Here(k ++ (Restored(u) ++ t), Mapping) = {}
<1>1. PICK r \in Texts : r = Restored(u)
  BY RestoredType
<1>2. k ++ (r ++ t) \in Texts /\ r ++ t \in Texts /\ u ++ t \in Texts /\ k # <<>>
      /\ k ++ (u ++ t) \in Texts
  <2>1. k # <<>>
    BY Empty
  <2> QED
    BY <2>1, Joined
<1>3. ASSUME NEW p \in DOMAIN Mapping, NEW v \in Texts, k ++ (r ++ t) = p ++ v
      PROVE  FALSE
  <2>1. p \in Texts /\ p # <<>>
    BY MappingFacts
  <2>2. PICK z \in Texts : p = k ++ z /\ r ++ t = z ++ v
    BY <1>2, <1>3, <2>1, ByteFirst
  <2>3. IsPrefix(z, u ++ t)
    <3>1. CASE z = <<>>
      BY <1>2, <3>1, Empty, PrefixIff
    <3>2. CASE z # <<>>
      <4>1. IsTail(z, p)
        BY <1>2, <2>2, <3>2 DEF IsTail
      <4>2. IsPrefix(z, r ++ t)
        BY <1>2, <2>2, PrefixIff
      <4> QED
        BY <1>1, <4>1, <4>2, NoTailGrows DEF GrewTail
    <3> QED
      BY <3>1, <3>2
  <2>4. PICK w \in Texts : u ++ t = z ++ w
    BY <1>2, <2>3, PrefixIff
  <2>5. k ++ (u ++ t) = p ++ w
    BY <2>2, <2>4, Assoc
  <2> QED
    BY <1>2, <2>5, HereIff
<1> QED
  BY <1>1, <1>2, <1>3, NothingHere

(* No placeholder begins in an original.                                   *)
LEMMA OriginalClear ==
  ASSUME OriginalsApart(Mapping), NEW q \in DOMAIN Mapping, NEW w \in Texts
  PROVE  Clear(Mapping[q], w)
<1> SUFFICES ASSUME NEW x \in Texts, NEW y \in Texts, Mapping[q] = x ++ y, y # <<>>
             PROVE  Here(y ++ w, Mapping) = {}
  BY DEF Clear
<1>1. y ++ w \in Texts
  BY Cat
<1>2. \A p \in DOMAIN Mapping : \A v \in Texts : y ++ w # p ++ v
  BY NoPlaceholderInOriginal
<1> QED
  BY <1>1, <1>2, NothingHere

(* What was restored holds no placeholder.                                 *)
LEMMA RestoredIsFree ==
  ASSUME OriginalsApart(Mapping)
  PROVE  \A a \in Texts : Free(Restored(a))
<1> DEFINE Bad == {a \in Texts : ~Free(Restored(a))}
<1>1. \A a : a \in Bad <=> a \in Texts /\ ~Free(Restored(a))
  OBVIOUS
<1> HIDE DEF Bad
<1>2. ASSUME Bad # {}
      PROVE  FALSE
  <2>1. PICK a \in Bad : \A b \in Texts : Len(b) < Len(a) => b \notin Bad
    <3>1. Bad \in SUBSET Texts
      BY <1>1
    <3> QED
      BY <1>2, <3>1, Shortest
  <2>2. a \in Texts /\ ~Free(Restored(a))
    BY <1>1
  <2>3. PICK x \in Texts, y \in Texts : Restored(a) = x ++ y /\ Here(y, Mapping) # {}
    BY <2>2 DEF Free
  <2>4. y # <<>>
    BY <2>3, HereIff, MappingFacts, NoRest, Empty
  <2>5. a # <<>>
    BY <2>3, <2>4, RestoredNothing, NoRest
  <2>6. ASSUME NEW q \in DOMAIN Mapping, NEW u \in Texts, Len(u) < Len(a),
               Restored(a) = Mapping[q] ++ Restored(u)
        PROVE  FALSE
    <3>1. PICK r \in Texts : r = Restored(u)
      BY RestoredType
    <3>2. PICK o \in Texts : o = Mapping[q]
      BY MappingFacts
    <3>3. Free(r)
      BY <1>1, <2>1, <2>6, <3>1
    <3>4. o ++ r = x ++ y
      BY <2>3, <2>6, <3>1, <3>2
    <3>5. CASE Between(o, r, x, y)
      <4>1. PICK m \in Texts : r = m ++ y
        BY <3>5 DEF Between
      <4> QED
        BY <2>3, <3>3, <4>1 DEF Free
    <3>6. CASE Between(x, y, o, r)
      <4>1. PICK m \in Texts : o = x ++ m /\ y = m ++ r
        BY <3>6 DEF Between
      <4>2. CASE m = <<>>
        <5>1. r = <<>> ++ y /\ <<>> \in Texts
          BY <4>1, <4>2, Empty
        <5> QED
          BY <2>3, <3>3, <5>1 DEF Free
      <4>3. CASE m # <<>>
        <5>1. Clear(Mapping[q], r)
          BY OriginalClear
        <5> QED
          BY <2>3, <3>2, <4>1, <4>3, <5>1 DEF Clear
      <4> QED
        BY <4>2, <4>3
    <3> QED
      BY <3>4, <3>5, <3>6, Levi
  <2>7. ASSUME NEW k \in Texts, NEW u \in Texts, Len(k) = 1, a = k ++ u, Len(u) < Len(a),
               Restored(a) = k ++ Restored(u), Here(a, Mapping) = {}
        PROVE  FALSE
    <3>1. PICK r \in Texts : r = Restored(u)
      BY RestoredType
    <3>2. Free(r)
      BY <1>1, <2>1, <2>7, <3>1
    <3>3. k ++ r = x ++ y
      BY <2>3, <2>7, <3>1
    <3>4. CASE x = <<>>
      <4>1. y = k ++ (r ++ <<>>)
        BY <3>3, <3>4, Empty
      <4>2. Here(k ++ (u ++ <<>>), Mapping) = {}
        BY <2>7, Empty
      <4>3. Here(k ++ (r ++ <<>>), Mapping) = {}
        BY <2>7, <3>1, <4>2, Empty, NoneInFront
      <4> QED
        BY <2>3, <4>1, <4>3
    <3>5. CASE x # <<>>
      <4>1. PICK z \in Texts : r = z ++ y
        BY <2>7, <3>3, <3>5, ByteFirst
      <4> QED
        BY <2>3, <3>2, <4>1 DEF Free
    <3> QED
      BY <3>4, <3>5
  <2> QED
    BY <2>2, <2>5, <2>6, <2>7, Beginning
<1> QED
  BY <1>1, <1>2

(* Text may be restored before or after more of it has come.               *)
Early(a) == \A t \in Texts : Restored(Restored(a) ++ t) = Restored(a ++ t)

LEMMA RestoredTwice ==
  ASSUME OriginalsApart(Mapping)
  PROVE  \A a \in Texts : Early(a)
<1> DEFINE Bad == {a \in Texts : ~Early(a)}
<1>1. \A a : a \in Bad <=> a \in Texts /\ ~Early(a)
  OBVIOUS
<1> HIDE DEF Bad
<1>2. ASSUME Bad # {}
      PROVE  FALSE
  <2>1. PICK a \in Bad : \A b \in Texts : Len(b) < Len(a) => b \notin Bad
    <3>1. Bad \in SUBSET Texts
      BY <1>1
    <3> QED
      BY <1>2, <3>1, Shortest
  <2>2. a \in Texts
    BY <1>1
  <2>3. PICK t \in Texts : Restored(Restored(a) ++ t) # Restored(a ++ t)
    BY <1>1, <2>1 DEF Early
  <2>4. a # <<>>
    BY <2>3, RestoredNothing
  <2>5. ASSUME NEW q \in DOMAIN Mapping, NEW u \in Texts, a = q ++ u, Len(u) < Len(a),
               Restored(a) = Mapping[q] ++ Restored(u)
        PROVE  FALSE
    <3>1. PICK r \in Texts : r = Restored(u)
      BY RestoredType
    <3>2. PICK o \in Texts : o = Mapping[q]
      BY MappingFacts
    <3>3. q \in Texts /\ r ++ t \in Texts /\ u ++ t \in Texts
      BY MappingFacts, Joined
    <3>4. Restored(o ++ (r ++ t)) = o ++ Restored(r ++ t)
      BY <3>2, <3>3, OriginalClear, ClearPasses
    <3>5. Restored(r ++ t) = Restored(u ++ t)
      BY <1>1, <2>1, <2>5, <3>1 DEF Early
    <3>6. Restored(q ++ (u ++ t)) = o ++ Restored(u ++ t)
      BY <3>2, <3>3, RestoredPlaceholder
    <3>7. Restored(a) ++ t = o ++ (r ++ t) /\ a ++ t = q ++ (u ++ t)
      BY <2>5, <3>1, <3>2, <3>3, Assoc
    <3> QED
      BY <2>3, <3>4, <3>5, <3>6, <3>7
  <2>6. ASSUME NEW k \in Texts, NEW u \in Texts, Len(k) = 1, a = k ++ u, Len(u) < Len(a),
               Restored(a) = k ++ Restored(u), Here(a ++ t, Mapping) = {}
        PROVE  FALSE
    <3>1. PICK r \in Texts : r = Restored(u)
      BY RestoredType
    <3>2. r ++ t \in Texts /\ u ++ t \in Texts
      BY Joined
    <3>3. Restored(a) ++ t = k ++ (r ++ t) /\ a ++ t = k ++ (u ++ t)
      BY <2>6, <3>1, Assoc
    <3>4. Restored(k ++ (u ++ t)) = k ++ Restored(u ++ t)
      BY <2>6, <3>2, <3>3, RestoredOneByte
    <3>5. Here(k ++ (r ++ t), Mapping) = {}
      BY <2>6, <3>1, <3>3, NoneInFront
    <3>6. Restored(k ++ (r ++ t)) = k ++ Restored(r ++ t)
      BY <2>6, <3>2, <3>5, RestoredOneByte
    <3>7. Restored(r ++ t) = Restored(u ++ t)
      BY <1>1, <2>1, <2>6, <3>1 DEF Early
    <3> QED
      BY <2>3, <3>3, <3>4, <3>6, <3>7
  <2>7. ASSUME NEW p \in DOMAIN Mapping, NEW v \in Texts, a ++ t = p ++ v, Here(a, Mapping) = {}
        PROVE  FALSE
    <3>1. p \in Texts
      BY MappingFacts
    <3>2. CASE Between(p, v, a, t)
      BY <2>2, <2>7, <3>1, <3>2, HereIff DEF Between
    <3>3. CASE Between(a, t, p, v)
      <4>1. PICK z \in Texts : p = a ++ z
        BY <3>3 DEF Between
      <4>2. Free(a)
        <5> SUFFICES ASSUME NEW x \in Texts, NEW y \in Texts, a = x ++ y,
                            NEW q \in DOMAIN Mapping, NEW w \in Texts, y = q ++ w
                     PROVE  FALSE
          BY <2>2, HereIff DEF Free
        <5>0. a = x ++ y /\ y = q ++ w
          OBVIOUS
        <5>1. p = x ++ (q ++ (w ++ z)) /\ w ++ z \in Texts /\ q \in Texts /\ q # <<>>
              /\ q ++ (w ++ z) \in Texts
          <6>1. q \in Texts /\ q # <<>>
            BY MappingFacts
          <6>2. w ++ z \in Texts /\ q ++ (w ++ z) \in Texts
            BY <6>1, Joined
          <6>3. (q ++ w) ++ z = q ++ (w ++ z)
            BY <6>1, Assoc
          <6>4. (x ++ y) ++ z = x ++ (y ++ z)
            BY Assoc
          <6> QED
            BY <4>1, <5>0, <6>1, <6>2, <6>3, <6>4
        <5>2. q ++ (w ++ z) # <<>>
          BY <5>1, NoRest
        <5>3. From(p, Len(x) + 1) = q ++ (w ++ z) /\ Len(x) + 1 \in 1 .. Len(p)
          BY <5>1, <5>2, TailIs
        <5>4. IsPrefix(q, From(p, Len(x) + 1))
          BY <5>1, <5>3, PrefixIff
        <5>5. Len(x) + 1 = 1
          BY <5>3, <5>4, MappingFacts DEF Unambiguous
        <5>6. Len(x) = 0
          BY <5>5, Cat
        <5>7. x = <<>>
          BY <5>6, Empty
        <5>8. a = q ++ w
          BY <5>7, Empty
        <5> QED
          BY <2>2, <2>7, <5>8, HereIff
      <4> QED
        BY <2>2, <2>3, <4>2, FreeStays
    <3> QED
      BY <2>2, <2>7, <3>1, <3>2, <3>3, Levi
  <2>8. a ++ t \in Texts
    BY <2>2, Joined
  <2> QED
    BY <2>2, <2>4, <2>5, <2>6, <2>7, <2>8, Beginning, HereIff
<1> QED
  BY <1>1, <1>2

-----------------------------------------------------------------------------
(* Greatest elements, for the longest placeholder and for the cut.         *)
LEMMA MaxFacts ==
  ASSUME NEW S \in SUBSET Nat, S # {}, NEW n \in Nat, \A x \in S : x <= n
  PROVE  Max(S) \in S /\ \A x \in S : x <= Max(S)
<1> DEFINE U == {m \in Nat : \A x \in S : x <= m}
<1>1. \A m : m \in U <=> m \in Nat /\ \A x \in S : x <= m
  OBVIOUS
<1> HIDE DEF U
<1>2. U \in SUBSET Nat /\ U # {}
  BY <1>1
<1>3. PICK m \in U : \A k \in U : m <= k
  BY <1>2, Least
<1>4. m \in Nat /\ \A x \in S : x <= m
  BY <1>1
<1>5. m \in S
  <2> SUFFICES ASSUME m \notin S PROVE FALSE
    OBVIOUS
  <2>1. \A x \in S : x \in Nat /\ x <= m /\ x # m
    BY <1>4
  <2>2. PICK y \in S : TRUE
    OBVIOUS
  <2>3. m - 1 \in Nat /\ ~(m <= m - 1)
    BY <1>4, <2>1, <2>2
  <2>4. \A x \in S : x <= m - 1
    BY <1>4, <2>1
  <2> QED
    BY <1>1, <1>3, <2>3, <2>4
<1>6. \A x \in S : m >= x
  BY <1>4
<1>7. Max(S) \in S /\ \A x \in S : Max(S) >= x
  BY <1>5, <1>6 DEF Max
<1> QED
  BY <1>7

LEMMA BoundedLengths ==
  ASSUME NEW D \in SUBSET Texts, IsFiniteSet(D)
  PROVE  \E n \in Nat : \A p \in D : Len(p) <= n
<1>1. PICK c \in Nat : ExistsSurjection(1 .. c, D)
  BY FS_NatSurjection
<1>2. PICK f \in [1 .. c -> D] : \A p \in D : \E i \in 1 .. c : f[i] = p
  BY <1>1 DEF ExistsSurjection, Surjection
<1> DEFINE Bound(i) == \E n \in Nat : \A j \in 1 .. i : j <= c => Len(f[j]) <= n
           Bad == {i \in Nat : ~Bound(i)}
<1>3. \A i : i \in Bad <=> i \in Nat /\ ~Bound(i)
  OBVIOUS
<1>4. \A j \in 1 .. c : Len(f[j]) \in Nat
  BY Cat
<1>5. Bound(0)
  OBVIOUS
<1>6. ASSUME NEW i \in Nat, i # 0, Bound(i - 1)
      PROVE  Bound(i)
  <2>1. PICK n \in Nat : \A j \in 1 .. i - 1 : j <= c => Len(f[j]) <= n
    BY <1>6
  <2>2. CASE i <= c
    <3>1. i \in 1 .. c
      BY <1>6, <2>2
    <3>2. PICK l \in Nat : l = Len(f[i])
      BY <1>4, <3>1
    <3>3. n + l \in Nat /\ n <= n + l /\ l <= n + l
      OBVIOUS
    <3>4. \A j \in 1 .. i : j \in 1 .. i - 1 \/ j = i
      BY <1>6
    <3>5. \A j \in 1 .. i - 1 : j <= c => Len(f[j]) \in Nat /\ Len(f[j]) <= n + l
      <4> SUFFICES ASSUME NEW j \in 1 .. i - 1, j <= c
                   PROVE  Len(f[j]) \in Nat /\ Len(f[j]) <= n + l
        OBVIOUS
      <4>1. j \in 1 .. c
        BY <1>6
      <4>2. Len(f[j]) \in Nat /\ Len(f[j]) <= n
        BY <1>4, <2>1, <4>1
      <4> QED
        BY <3>3, <4>2
    <3> QED
      BY <3>2, <3>3, <3>4, <3>5
  <2>3. CASE ~(i <= c)
    <3>1. \A j \in 1 .. i : j <= c => j \in 1 .. i - 1
      BY <1>6, <2>3
    <3> QED
      BY <2>1, <3>1
  <2> QED
    BY <2>2, <2>3
<1> HIDE DEF Bound, Bad
<1>7. ASSUME Bad # {}
      PROVE  FALSE
  <2>1. PICK i \in Bad : \A j \in Bad : i <= j
    <3>1. Bad \in SUBSET Nat
      BY <1>3
    <3> QED
      BY <1>7, <3>1, Least
  <2>2. i \in Nat /\ i # 0 /\ ~Bound(i)
    BY <1>3, <1>5
  <2>3. i - 1 \in Nat /\ ~(i <= i - 1)
    BY <2>2
  <2>4. Bound(i - 1)
    BY <1>3, <2>1, <2>3
  <2> QED
    BY <1>6, <2>2, <2>4
<1>8. Bound(c)
  BY <1>3, <1>7
<1>9. PICK n \in Nat : \A j \in 1 .. c : Len(f[j]) <= n
  BY <1>8 DEF Bound
<1> QED
  BY <1>2, <1>9

(* One byte more than is kept back makes the longest placeholder.          *)
LEMMA KeepBytesFacts ==
  KeepBytes \in Nat /\ \A p \in DOMAIN Mapping : Len(p) <= KeepBytes + 1
<1> DEFINE S == {Len(p) : p \in DOMAIN Mapping}
<1>1. \A l : l \in S <=> \E p \in DOMAIN Mapping : l = Len(p)
  OBVIOUS
<1>2. KeepBytes = Max(S) - 1
  BY DEF KeepBytes
<1> HIDE DEF S
<1>3. \A p \in DOMAIN Mapping : Len(p) \in Nat /\ Len(p) > 0
  BY MappingFacts, Empty, Cat
<1>4. S \in SUBSET Nat /\ S # {}
  BY <1>1, <1>3, SSERestorerAssumption
<1>5. DOMAIN Mapping \in SUBSET Texts /\ IsFiniteSet(DOMAIN Mapping)
  BY MappingFacts, SSERestorerAssumption
<1>6. PICK n \in Nat : \A p \in DOMAIN Mapping : Len(p) <= n
  BY <1>5, BoundedLengths
<1>7. \A l \in S : l <= n
  BY <1>1, <1>6
<1>8. Max(S) \in S /\ \A l \in S : l <= Max(S)
  BY <1>4, <1>7, MaxFacts
<1>9. Max(S) \in Nat /\ Max(S) > 0
  BY <1>1, <1>3, <1>8
<1>10. \A p \in DOMAIN Mapping : Len(p) <= Max(S)
  BY <1>1, <1>8
<1>11. Max(S) - 1 \in Nat /\ (Max(S) - 1) + 1 = Max(S)
  BY <1>9
<1> QED
  BY <1>2, <1>10, <1>11

(* Where a text is cut, and what is kept back of it.                       *)
LEMMA SplitFacts ==
  ASSUME NEW b \in Texts
  PROVE  \E u, v \in Texts :
           /\ SplitStreamingSuffix(b, KeepBytes) = [prefix |-> u, suffix |-> v]
           /\ b = u ++ v
           /\ u = <<>> \/ Len(v) >= KeepBytes
           /\ u = <<>> \/ v = <<>> \/ Starts(v[1])
           /\ \/ Len(v) <= KeepBytes
              \/ /\ KeepBytes # 0
                 /\ \A i \in Len(u) + 1 .. Len(b) - KeepBytes : ~Starts(b[i + 1])
<1> DEFINE n == KeepBytes
<1>1. n \in Nat /\ Len(b) \in Nat
  BY KeepBytesFacts, Cat
<1> HIDE DEF n
<1>2. CASE n = 0
  <2>1. SplitStreamingSuffix(b, n) = [prefix |-> b, suffix |-> <<>>]
    BY <1>2 DEF SplitStreamingSuffix
  <2> QED
    BY <1>2, <2>1, Empty DEF n
<1>3. CASE n # 0 /\ Len(b) <= n
  <2>1. SplitStreamingSuffix(b, n) = [prefix |-> <<>>, suffix |-> b]
    BY <1>3 DEF SplitStreamingSuffix
  <2> QED
    BY <1>3, <2>1, Empty DEF n
<1>4. CASE n # 0 /\ ~(Len(b) <= n)
  <2> DEFINE C == {c \in 0 .. Len(b) - n : c = 0 \/ Starts(b[c + 1])}
  <2>1. \A c : c \in C <=> c \in 0 .. Len(b) - n /\ (c = 0 \/ Starts(b[c + 1]))
    OBVIOUS
  <2>2. CutBefore(b, n) = Max(C)
    BY DEF CutBefore
  <2> HIDE DEF C
  <2>3. Len(b) - n \in Nat /\ 0 \in 0 .. Len(b) - n
    BY <1>1, <1>4
  <2>4. C \in SUBSET Nat /\ C # {} /\ \A c \in C : c <= Len(b) - n
    <3>1. 0 \in C
      BY <2>1, <2>3
    <3>2. \A c \in C : c \in Nat /\ c <= Len(b) - n
      BY <2>1, <2>3
    <3> QED
      BY <3>1, <3>2
  <2>5. PICK c : c = Max(C)
    OBVIOUS
  <2>6. c \in C /\ \A x \in C : x <= c
    BY <2>3, <2>4, <2>5, MaxFacts
  <2>7. c \in 0 .. Len(b) - n /\ c \in Nat /\ (c = 0 \/ Starts(b[c + 1]))
    BY <2>1, <2>4, <2>6
  <2>8. c \in 0 .. Len(b)
    BY <1>1, <2>7
  <2>9. PICK u \in Texts, v \in Texts : /\ u = SubSeq(b, 1, c) /\ v = From(b, c + 1)
                                      /\ Len(u) = c /\ Len(v) = Len(b) - c /\ b = u ++ v
    BY <2>8, CutInTwo
  <2>10. SplitStreamingSuffix(b, n) = [prefix |-> u, suffix |-> v]
    BY <1>4, <2>2, <2>5, <2>9 DEF SplitStreamingSuffix
  <2>11. Len(v) >= n
    BY <1>1, <2>7, <2>9
  <2>12. u = <<>> \/ v = <<>> \/ Starts(v[1])
    <3> SUFFICES ASSUME u # <<>>, v # <<>> PROVE Starts(v[1])
      OBVIOUS
    <3>1. c # 0
      BY <2>9, Empty
    <3>2. 1 \in 1 .. Len(v)
      BY FirstByte
    <3>3. (u ++ v)[Len(u) + 1] = v[1]
      BY <3>2, CatAt
    <3> QED
      BY <2>7, <2>9, <3>1, <3>3
  <2>13. \A i \in Len(u) + 1 .. Len(b) - n : ~Starts(b[i + 1])
    <3> SUFFICES ASSUME NEW i \in Len(u) + 1 .. Len(b) - n, Starts(b[i + 1]) PROVE FALSE
      OBVIOUS
    <3>1. i \in 0 .. Len(b) - n /\ ~(i <= c)
      BY <1>1, <2>7, <2>9
    <3> QED
      BY <2>1, <2>6, <3>1
  <2> QED
    BY <1>4, <2>9, <2>10, <2>11, <2>12, <2>13 DEF n
<1> QED
  BY <1>2, <1>3, <1>4

(* A delta: what goes out and what is kept back, followed by any text,     *)
(* reads as what was kept back before, the delta, and that text.           *)
LEMMA DeltaFacts ==
  ASSUME OriginalsApart(Mapping), NEW a \in Texts, NEW u \in Texts, NEW v \in Texts,
         SplitStreamingSuffix(Restored(a), KeepBytes) = [prefix |-> u, suffix |-> v]
  PROVE  Free(v) /\ \A t \in Texts : Restored(a ++ t) = u ++ Restored(v ++ t)
<1>1. PICK b \in Texts : b = Restored(a)
  BY RestoredType
<1>2. b = u ++ v /\ (u = <<>> \/ Len(v) >= KeepBytes)
  <2>1. PICK u1 \in Texts, v1 \in Texts :
           /\ SplitStreamingSuffix(b, KeepBytes) = [prefix |-> u1, suffix |-> v1]
           /\ b = u1 ++ v1
           /\ u1 = <<>> \/ Len(v1) >= KeepBytes
    BY SplitFacts
  <2>2. u1 = u /\ v1 = v
    BY <1>1, <2>1
  <2> QED
    BY <2>1, <2>2
<1>3. Free(b)
  BY <1>1, RestoredIsFree
<1>4. Free(v)
  BY <1>2, <1>3, FreePart
<1>5. ASSUME NEW t \in Texts
      PROVE  Restored(a ++ t) = u ++ Restored(v ++ t)
  <2>1. v ++ t \in Texts /\ b ++ t = u ++ (v ++ t)
    BY <1>2, Joined, Assoc
  <2>2. Clear(u, v ++ t)
    <3> SUFFICES ASSUME NEW x \in Texts, NEW y \in Texts, u = x ++ y, y # <<>>
                 PROVE  Here(y ++ (v ++ t), Mapping) = {}
      BY DEF Clear
    <3>1. y ++ v \in Texts /\ y ++ (v ++ t) = (y ++ v) ++ t /\ b = x ++ (y ++ v)
          /\ y ++ (v ++ t) \in Texts
      BY <1>2, <2>1, Assoc, Joined
    <3>2. ASSUME NEW p \in DOMAIN Mapping, NEW w \in Texts, (y ++ v) ++ t = p ++ w
          PROVE  FALSE
      <4>1. p \in Texts /\ Here(y ++ v, Mapping) = {}
        BY <1>3, <3>1, MappingFacts DEF Free
      <4>2. CASE Between(p, w, y ++ v, t)
        BY <3>1, <4>1, <4>2, HereIff DEF Between
      <4>3. CASE Between(y ++ v, t, p, w)
        <5>1. PICK z \in Texts : p = (y ++ v) ++ z
          BY <4>3 DEF Between
        <5>2. u # <<>>
          BY <3>2, NoRest
        <5>3. Len(y) > 0 /\ Len(y) \in Nat /\ Len(v) \in Nat /\ Len(z) \in Nat
              /\ Len(p) = (Len(y) + Len(v)) + Len(z)
          <6>1. Len(y) > 0 /\ Len(y) \in Nat /\ Len(v) \in Nat /\ Len(z) \in Nat
            BY Empty, Cat
          <6>2. Len(y ++ v) = Len(y) + Len(v)
            BY Cat
          <6>3. Len((y ++ v) ++ z) = Len(y ++ v) + Len(z)
            BY <3>1, Cat
          <6> QED
            BY <5>1, <6>1, <6>2, <6>3
        <5>4. Len(p) <= KeepBytes + 1 /\ Len(v) >= KeepBytes /\ KeepBytes \in Nat
          BY <1>2, <5>2, KeepBytesFacts
        <5>5. Len(z) = 0
          BY <5>3, <5>4
        <5>6. p = y ++ v
          BY <3>1, <5>1, <5>5, Empty
        <5>7. y ++ v = p ++ <<>> /\ <<>> \in Texts
          BY <4>1, <5>6, Empty
        <5> QED
          BY <3>1, <4>1, <5>7, HereIff
      <4> QED
        BY <3>1, <3>2, <4>1, <4>2, <4>3, Levi
    <3> QED
      BY <3>1, <3>2, NothingHere
  <2>3. Restored(u ++ (v ++ t)) = u ++ Restored(v ++ t)
    BY <2>1, <2>2, ClearPasses
  <2>4. Restored(b ++ t) = Restored(a ++ t)
    BY <1>1, RestoredTwice DEF Early
  <2> QED
    BY <2>1, <2>3, <2>4
<1> QED
  BY <1>4, <1>5

-----------------------------------------------------------------------------
(* Whole characters.                                                       *)
LEMMA StartsIff ==
  ASSUME NEW b \in Bytes
  PROVE  /\ Width[b] \in 0 .. MaxRune /\ MaxRune \in Nat \ {0}
         /\ Starts(b) <=> Width[b] > 0
BY SSERestorerAssumption DEF Starts

(* The bytes of two texts that are joined.                                 *)
LEMMA JoinedAt ==
  ASSUME NEW u \in Texts, NEW v \in Texts, NEW i \in 1 .. Len(u ++ v)
  PROVE  /\ i \in Nat /\ Len(u) \in Nat /\ Len(v) \in Nat
         /\ (u ++ v)[i] \in Bytes
         /\ i <= Len(u) => i \in 1 .. Len(u) /\ (u ++ v)[i] = u[i]
         /\ i > Len(u) => i - Len(u) \in 1 .. Len(v) /\ (u ++ v)[i] = v[i - Len(u)]
<1>1. Len(u) \in Nat /\ Len(v) \in Nat /\ Len(u ++ v) = Len(u) + Len(v) /\ u ++ v \in Texts
  BY Cat
<1>2. i \in Nat /\ i >= 1 /\ i <= Len(u) + Len(v)
  BY <1>1
<1>3. (u ++ v)[i] \in Bytes
  BY <1>1, ElementOfSeq DEF Texts
<1>4. ASSUME i <= Len(u)
      PROVE  i \in 1 .. Len(u) /\ (u ++ v)[i] = u[i]
  <2>1. i \in 1 .. Len(u)
    BY <1>2, <1>4
  <2> QED
    BY <2>1, CatAt
<1>5. ASSUME i > Len(u)
      PROVE  i - Len(u) \in 1 .. Len(v) /\ (u ++ v)[i] = v[i - Len(u)]
  <2>1. i - Len(u) \in 1 .. Len(v) /\ Len(u) + (i - Len(u)) = i
    BY <1>1, <1>2, <1>5
  <2>2. (u ++ v)[Len(u) + (i - Len(u))] = v[i - Len(u)]
    BY <2>1, CatAt
  <2> QED
    BY <2>1, <2>2
<1> QED
  BY <1>1, <1>2, <1>3, <1>4, <1>5

(* ... with a set of starts in place of the bytes: where the characters    *)
(* begin says all there is to know.                                        *)
At(s, i) == Starts(s[i])

LEMMA ValidIff ==
  ASSUME NEW s \in Texts
  PROVE  ValidText(s) <=>
           /\ Len(s) > 0 => At(s, 1)
           /\ \A i \in 1 .. Len(s) : At(s, i) =>
                /\ i + Width[s[i]] <= Len(s) + 1
                /\ i + Width[s[i]] <= Len(s) => At(s, i + Width[s[i]])
                /\ \A j \in i + 1 .. (i + Width[s[i]]) - 1 : ~At(s, j)
<1>1. s # <<>> <=> Len(s) > 0
  BY Empty
<1> QED
  BY <1>1 DEF ValidText, Character, At

LEMMA WidthAt ==
  ASSUME NEW s \in Texts, NEW i \in 1 .. Len(s)
  PROVE  /\ i \in Nat /\ Len(s) \in Nat /\ Width[s[i]] \in Nat /\ Width[s[i]] <= MaxRune
         /\ At(s, i) => Width[s[i]] > 0
<1>1. s[i] \in Bytes /\ Len(s) \in Nat
  BY ElementOfSeq, Cat DEF Texts
<1> QED
  BY <1>1, StartsIff DEF At

LEMMA ValidJoined ==
  ASSUME NEW u \in Texts, NEW v \in Texts, ValidText(u), ValidText(v)
  PROVE  ValidText(u ++ v)
<1> DEFINE s == u ++ v
<1>1. s \in Texts /\ Len(u) \in Nat /\ Len(v) \in Nat /\ Len(s) = Len(u) + Len(v)
  BY Cat
<1>2. \A i \in 1 .. Len(s) :
        /\ i <= Len(u) => i \in 1 .. Len(u) /\ s[i] = u[i]
        /\ i > Len(u) => i - Len(u) \in 1 .. Len(v) /\ s[i] = v[i - Len(u)]
  BY JoinedAt
<1> HIDE DEF s
<1>3. \A i \in 1 .. Len(s) :
        /\ i <= Len(u) => (At(s, i) <=> At(u, i))
        /\ i > Len(u) => (At(s, i) <=> At(v, i - Len(u)))
  BY <1>2 DEF At
<1>4. Len(s) > 0 => At(s, 1)
  <2> SUFFICES ASSUME Len(s) > 0 PROVE At(s, 1)
    OBVIOUS
  <2>1. 1 \in 1 .. Len(s)
    BY <1>1
  <2>2. CASE Len(u) > 0
    BY <1>1, <1>3, <2>1, <2>2, ValidIff
  <2>3. CASE Len(u) = 0
    <3>1. 1 > Len(u) /\ 1 - Len(u) = 1 /\ Len(v) > 0
      BY <1>1, <2>3
    <3> QED
      BY <1>3, <2>1, <3>1, ValidIff
  <2> QED
    BY <1>1, <2>2, <2>3
<1>5. ASSUME NEW i \in 1 .. Len(s), At(s, i)
      PROVE  /\ i + Width[s[i]] <= Len(s) + 1
             /\ i + Width[s[i]] <= Len(s) => At(s, i + Width[s[i]])
             /\ \A j \in i + 1 .. (i + Width[s[i]]) - 1 : ~At(s, j)
  <2>1. PICK w \in Nat : w = Width[s[i]] /\ i \in Nat /\ i >= 1 /\ w > 0
    BY <1>1, <1>5, WidthAt
  <2>2. CASE i <= Len(u)
    <3>1. i \in 1 .. Len(u) /\ u[i] = s[i] /\ At(u, i)
      BY <1>2, <1>3, <1>5, <2>2
    <3>2. /\ i + w <= Len(u) + 1
          /\ i + w <= Len(u) => At(u, i + w)
          /\ \A j \in i + 1 .. (i + w) - 1 : ~At(u, j)
      BY <2>1, <3>1, ValidIff
    <3>3. i + w <= Len(s) + 1
      BY <1>1, <2>1, <3>2
    <3>4. i + w <= Len(s) => At(s, i + w)
      <4> SUFFICES ASSUME i + w <= Len(s) PROVE At(s, i + w)
        OBVIOUS
      <4>1. i + w \in 1 .. Len(s)
        BY <1>1, <2>1
      <4>2. CASE i + w <= Len(u)
        BY <1>3, <3>2, <4>1, <4>2
      <4>3. CASE ~(i + w <= Len(u))
        <5>1. i + w > Len(u) /\ (i + w) - Len(u) = 1 /\ Len(v) > 0
          BY <1>1, <2>1, <3>2, <4>1, <4>3
        <5> QED
          BY <1>3, <4>1, <5>1, ValidIff
      <4> QED
        BY <4>2, <4>3
    <3>5. \A j \in i + 1 .. (i + w) - 1 : ~At(s, j)
      <4> SUFFICES ASSUME NEW j \in i + 1 .. (i + w) - 1 PROVE ~At(s, j)
        OBVIOUS
      <4>1. j \in Int /\ i + 1 <= j /\ j <= (i + w) - 1
        BY <2>1
      <4>2. j <= Len(u)
        BY <1>1, <2>1, <3>2, <4>1
      <4>3. j \in 1 .. Len(s)
        BY <1>1, <2>1, <4>1, <4>2
      <4> QED
        BY <1>3, <3>2, <4>2, <4>3
    <3> QED
      BY <2>1, <3>3, <3>4, <3>5
  <2>3. CASE i > Len(u)
    <3>1. PICK k \in 1 .. Len(v) : k = i - Len(u) /\ v[k] = s[i] /\ At(v, k)
      BY <1>2, <1>3, <1>5, <2>3
    <3>2. /\ k + w <= Len(v) + 1
          /\ k + w <= Len(v) => At(v, k + w)
          /\ \A j \in k + 1 .. (k + w) - 1 : ~At(v, j)
      BY <2>1, <3>1, ValidIff
    <3>3. k \in Nat /\ i = Len(u) + k
      BY <1>1, <2>1, <3>1
    <3>4. i + w <= Len(s) + 1
      BY <1>1, <2>1, <3>2, <3>3
    <3>5. i + w <= Len(s) => At(s, i + w)
      <4> SUFFICES ASSUME i + w <= Len(s) PROVE At(s, i + w)
        OBVIOUS
      <4>1. i + w \in 1 .. Len(s) /\ i + w > Len(u)
        BY <1>1, <2>1, <2>3
      <4>2. (i + w) - Len(u) = k + w /\ k + w <= Len(v)
        BY <1>1, <2>1, <3>3
      <4> QED
        BY <1>3, <3>2, <4>1, <4>2
    <3>6. \A j \in i + 1 .. (i + w) - 1 : ~At(s, j)
      <4> SUFFICES ASSUME NEW j \in i + 1 .. (i + w) - 1 PROVE ~At(s, j)
        OBVIOUS
      <4>1. j \in Int /\ (Len(u) + k) + 1 <= j /\ j <= ((Len(u) + k) + w) - 1
        BY <1>1, <2>1, <3>3
      <4>2. Len(u) \in Nat /\ Len(v) \in Nat /\ k \in Nat /\ w \in Nat
            /\ k + w <= Len(v) + 1
        BY <1>1, <3>2, <3>3
      <4>3. \A l, m, x, z \in Nat, y \in Int :
              (l + x) + 1 <= y /\ y <= ((l + x) + z) - 1 /\ x + z <= m + 1 =>
                /\ y >= 1 /\ y > l /\ y <= l + m
                /\ y - l \in Int /\ x + 1 <= y - l /\ y - l <= (x + z) - 1
        OBVIOUS
      <4>4. /\ j >= 1 /\ j > Len(u) /\ j <= Len(u) + Len(v)
            /\ j - Len(u) \in Int /\ k + 1 <= j - Len(u) /\ j - Len(u) <= (k + w) - 1
        BY <4>1, <4>2, <4>3
      <4>5. j \in 1 .. Len(s)
        BY <1>1, <4>1, <4>4
      <4>6. PICK n \in Int : n = j - Len(u) /\ k + 1 <= n /\ n <= (k + w) - 1
        BY <4>4
      <4>7. n \in k + 1 .. (k + w) - 1
        BY <4>2, <4>6
      <4> QED
        BY <1>3, <3>2, <4>4, <4>5, <4>6, <4>7
    <3> QED
      BY <2>1, <3>4, <3>5, <3>6
  <2> QED
    BY <1>1, <2>1, <2>2, <2>3
<1>6. ValidText(s)
  BY <1>1, <1>4, <1>5, ValidIff
<1> QED
  BY <1>6 DEF s

(* A text of whole characters that is cut in front of a start.             *)
LEMMA ValidCut ==
  ASSUME NEW u \in Texts, NEW v \in Texts, ValidText(u ++ v), v = <<>> \/ At(v, 1)
  PROVE  ValidText(u) /\ ValidText(v)
<1> DEFINE s == u ++ v
<1>1. s \in Texts /\ Len(u) \in Nat /\ Len(v) \in Nat /\ Len(s) = Len(u) + Len(v)
  BY Cat
<1>2. (\A i \in 1 .. Len(u) : s[i] = u[i]) /\ (\A i \in 1 .. Len(v) : s[Len(u) + i] = v[i])
  BY CatAt
<1>3. ValidText(s)
  OBVIOUS
<1> HIDE DEF s
<1>4. /\ \A i \in 1 .. Len(u) : At(s, i) <=> At(u, i)
      /\ \A i \in 1 .. Len(v) : At(s, Len(u) + i) <=> At(v, i)
  BY <1>2 DEF At
<1>5. ValidText(u)
  <2>1. Len(u) > 0 => At(u, 1)
    <3> SUFFICES ASSUME Len(u) > 0 PROVE At(u, 1)
      OBVIOUS
    <3>1. 1 \in 1 .. Len(u) /\ Len(s) > 0
      BY <1>1
    <3> QED
      BY <1>1, <1>3, <1>4, <3>1, ValidIff
  <2>2. ASSUME NEW i \in 1 .. Len(u), At(u, i)
        PROVE  /\ i + Width[u[i]] <= Len(u) + 1
               /\ i + Width[u[i]] <= Len(u) => At(u, i + Width[u[i]])
               /\ \A j \in i + 1 .. (i + Width[u[i]]) - 1 : ~At(u, j)
    <3>1. PICK w \in Nat : w = Width[u[i]] /\ i \in Nat /\ i >= 1 /\ w > 0 /\ w = Width[s[i]]
      BY <1>1, <1>2, <2>2, WidthAt
    <3>2. i \in 1 .. Len(s) /\ At(s, i)
      BY <1>1, <1>4, <2>2
    <3>3. /\ i + w <= Len(s) + 1
          /\ i + w <= Len(s) => At(s, i + w)
          /\ \A j \in i + 1 .. (i + w) - 1 : ~At(s, j)
      BY <1>1, <1>3, <3>1, <3>2, ValidIff
    <3>4. i + w <= Len(u) + 1
      <4> SUFFICES ASSUME i + w > Len(u) + 1 PROVE FALSE
        BY <1>1, <3>1
      <4>1. Len(v) > 0 /\ 1 \in 1 .. Len(v)
        BY <1>1, <3>1, <3>3
      <4>2. At(s, Len(u) + 1)
        BY <1>4, <4>1, Empty
      <4>3. Len(u) + 1 \in i + 1 .. (i + w) - 1
        BY <1>1, <3>1
      <4> QED
        BY <3>3, <4>2, <4>3
    <3>5. i + w <= Len(u) => At(u, i + w)
      <4> SUFFICES ASSUME i + w <= Len(u) PROVE At(u, i + w)
        OBVIOUS
      <4>1. i + w \in 1 .. Len(u) /\ i + w <= Len(s)
        BY <1>1, <3>1
      <4> QED
        BY <1>4, <3>3, <4>1
    <3>6. \A j \in i + 1 .. (i + w) - 1 : ~At(u, j)
      <4> SUFFICES ASSUME NEW j \in i + 1 .. (i + w) - 1 PROVE ~At(u, j)
        OBVIOUS
      <4>1. j \in 1 .. Len(u)
        BY <1>1, <3>1, <3>4
      <4> QED
        BY <1>4, <3>3, <4>1
    <3> QED
      BY <3>1, <3>4, <3>5, <3>6
  <2> QED
    BY <2>1, <2>2, ValidIff
<1>6. ValidText(v)
  <2>1. Len(v) > 0 => At(v, 1)
    BY Empty
  <2>2. ASSUME NEW k \in 1 .. Len(v), At(v, k)
        PROVE  /\ k + Width[v[k]] <= Len(v) + 1
               /\ k + Width[v[k]] <= Len(v) => At(v, k + Width[v[k]])
               /\ \A j \in k + 1 .. (k + Width[v[k]]) - 1 : ~At(v, j)
    <3>1. PICK w \in Nat : w = Width[v[k]] /\ k \in Nat /\ k >= 1 /\ w > 0
                           /\ w = Width[s[Len(u) + k]]
      BY <1>1, <1>2, <2>2, WidthAt
    <3>2. Len(u) + k \in 1 .. Len(s) /\ At(s, Len(u) + k)
      BY <1>1, <1>4, <2>2
    <3>3. /\ (Len(u) + k) + w <= Len(s) + 1
          /\ (Len(u) + k) + w <= Len(s) => At(s, (Len(u) + k) + w)
          /\ \A j \in (Len(u) + k) + 1 .. ((Len(u) + k) + w) - 1 : ~At(s, j)
      BY <1>1, <1>3, <3>1, <3>2, ValidIff
    <3>4. k + w <= Len(v) + 1
      BY <1>1, <3>1, <3>3
    <3>5. k + w <= Len(v) => At(v, k + w)
      <4> SUFFICES ASSUME k + w <= Len(v) PROVE At(v, k + w)
        OBVIOUS
      <4>1. k + w \in 1 .. Len(v) /\ (Len(u) + k) + w <= Len(s)
            /\ Len(u) + (k + w) = (Len(u) + k) + w
        BY <1>1, <3>1
      <4> QED
        BY <1>4, <3>3, <4>1
    <3>6. \A j \in k + 1 .. (k + w) - 1 : ~At(v, j)
      <4> SUFFICES ASSUME NEW j \in k + 1 .. (k + w) - 1 PROVE ~At(v, j)
        OBVIOUS
      <4>1. j \in Int /\ k + 1 <= j /\ j <= (k + w) - 1
        BY <3>1
      <4>2. j \in 1 .. Len(v)
        BY <1>1, <3>1, <3>4, <4>1
      <4>3. Len(u) + j \in (Len(u) + k) + 1 .. ((Len(u) + k) + w) - 1
        <5>1. \A l, x, z \in Nat, y \in Int :
                x + 1 <= y /\ y <= (x + z) - 1 =>
                  l + y \in Int /\ (l + x) + 1 <= l + y /\ l + y <= ((l + x) + z) - 1
          OBVIOUS
        <5>2. PICK n \in Int :
                n = Len(u) + j /\ (Len(u) + k) + 1 <= n /\ n <= ((Len(u) + k) + w) - 1
          BY <1>1, <3>1, <4>1, <5>1
        <5> QED
          BY <1>1, <3>1, <5>2
      <4> QED
        BY <1>4, <3>3, <4>2, <4>3
    <3> QED
      BY <3>1, <3>4, <3>5, <3>6
  <2> QED
    BY <2>1, <2>2, ValidIff
<1> QED
  BY <1>5, <1>6

(* Behind whole characters another one begins.                             *)
LEMMA ValidRest ==
  ASSUME NEW u \in Texts, NEW v \in Texts, ValidText(u ++ v), ValidText(u)
  PROVE  ValidText(v)
<1>1. /\ u ++ v \in Texts /\ Len(u) \in Nat /\ Len(v) \in Nat
      /\ Len(u ++ v) = Len(u) + Len(v)
      /\ \A i \in 1 .. Len(u) : (u ++ v)[i] = u[i]
      /\ \A i \in 1 .. Len(v) : (u ++ v)[Len(u) + i] = v[i]
  BY Cat, CatAt
<1>2. CASE u = <<>>
  BY <1>2, Empty
<1>3. CASE v = <<>>
  <2>1. \A i \in 1 .. Len(v) : FALSE
    BY <1>3, Empty
  <2> QED
    BY <1>3, <2>1 DEF ValidText
<1>4. CASE u # <<>> /\ v # <<>>
  <2> DEFINE Q == {i \in 1 .. Len(u) : At(u, i)}
  <2>1. \A i : i \in Q <=> i \in 1 .. Len(u) /\ At(u, i)
    OBVIOUS
  <2> HIDE DEF Q
  <2>2. 1 \in Q /\ Q \in SUBSET Nat /\ \A i \in Q : i <= Len(u)
    BY <1>1, <1>4, <2>1, FirstByte, Empty, ValidIff
  <2>3. PICK q : q = Max(Q)
    OBVIOUS
  <2>4. q \in Q /\ \A i \in Q : i <= q
    BY <1>1, <2>2, <2>3, MaxFacts
  <2>5. q \in 1 .. Len(u) /\ At(u, q)
    BY <2>1, <2>4
  <2>6. PICK w \in Nat : w = Width[u[q]] /\ q \in Nat /\ q >= 1 /\ w > 0
    BY <2>5, WidthAt
  <2>7. q + w <= Len(u) + 1 /\ (q + w <= Len(u) => At(u, q + w))
    BY <2>5, <2>6, ValidIff
  <2>8. q + w = Len(u) + 1
    <3> SUFFICES ASSUME q + w <= Len(u) PROVE FALSE
      BY <1>1, <2>6, <2>7
    <3>1. q + w \in 1 .. Len(u)
      BY <1>1, <2>6
    <3>2. q + w \in Q /\ ~(q + w <= q)
      BY <2>1, <2>6, <2>7, <3>1
    <3> QED
      BY <2>4, <3>2
  <2>9. 1 \in 1 .. Len(v)
    BY <1>4, FirstByte
  <2>10. q \in 1 .. Len(u ++ v) /\ At(u ++ v, q) /\ w = Width[(u ++ v)[q]]
         /\ Len(u) + 1 <= Len(u ++ v)
    <3>1. (u ++ v)[q] = u[q]
      BY <1>1, <2>5
    <3>2. q \in 1 .. Len(u ++ v) /\ Len(u) + 1 <= Len(u ++ v)
      BY <1>1, <2>5, <2>9
    <3> QED
      BY <2>5, <2>6, <3>1, <3>2 DEF At
  <2>11. At(u ++ v, Len(u) + 1)
    BY <1>1, <2>8, <2>10, ValidIff
  <2>12. At(v, 1)
    BY <1>1, <2>9, <2>11 DEF At
  <2> QED
    BY <2>12, ValidCut
<1> QED
  BY <1>2, <1>3, <1>4

LEMMA EmptyValid ==
  ValidText(<<>>)
<1>1. \A i \in 1 .. Len(<<>>) : FALSE
  BY Empty
<1> QED
  BY <1>1 DEF ValidText

(* The first character of a text.                                          *)
LEMMA FirstCharacter ==
  ASSUME NEW a \in Texts, a # <<>>, ValidText(a)
  PROVE  \E c, u \in Texts :
           /\ a = c ++ u /\ Len(u) < Len(a) /\ Len(c) = Width[a[1]]
           /\ ValidText(c) /\ ValidText(u)
           /\ \A i \in 2 .. Len(c) : ~At(c, i)
<1>1. 1 \in 1 .. Len(a) /\ Len(a) \in Nat /\ Len(a) > 0
  BY FirstByte, Empty
<1>2. At(a, 1)
  BY <1>1, ValidIff
<1>3. PICK w \in Nat : w = Width[a[1]] /\ w > 0
  BY <1>1, <1>2, WidthAt
<1>4. /\ 1 + w <= Len(a) + 1
      /\ 1 + w <= Len(a) => At(a, 1 + w)
      /\ \A j \in 1 + 1 .. (1 + w) - 1 : ~At(a, j)
  BY <1>1, <1>2, <1>3, ValidIff
<1>5. w \in 0 .. Len(a)
  BY <1>1, <1>3, <1>4
<1>6. PICK c \in Texts, u \in Texts : Len(c) = w /\ Len(u) = Len(a) - w /\ a = c ++ u
  BY <1>5, CutInTwo
<1>7. (\A i \in 1 .. Len(c) : a[i] = c[i]) /\ (\A i \in 1 .. Len(u) : a[Len(c) + i] = u[i])
  BY <1>6, CatAt
<1>8. u = <<>> \/ At(u, 1)
  <2> SUFFICES ASSUME u # <<>> PROVE At(u, 1)
    OBVIOUS
  <2>1. 1 \in 1 .. Len(u) /\ Len(u) \in Nat
    BY FirstByte
  <2>2. w + 1 <= Len(a) /\ w + 1 = 1 + w
    BY <1>1, <1>3, <1>6, <2>1
  <2>3. At(a, w + 1)
    BY <1>4, <2>2
  <2>4. a[w + 1] = u[1]
    BY <1>6, <1>7, <2>1
  <2> QED
    BY <2>3, <2>4 DEF At
<1>9. ValidText(c) /\ ValidText(u)
  BY <1>6, <1>8, ValidCut
<1>10. \A i \in 2 .. Len(c) : ~At(c, i)
  <2> SUFFICES ASSUME NEW i \in 2 .. Len(c) PROVE ~At(c, i)
    OBVIOUS
  <2>1. i \in 1 .. Len(c) /\ i \in 1 + 1 .. (1 + w) - 1
    BY <1>3, <1>6
  <2>2. ~At(a, i) /\ a[i] = c[i]
    BY <1>4, <1>7, <2>1
  <2> QED
    BY <2>2 DEF At
<1>11. Len(u) < Len(a)
  BY <1>1, <1>3, <1>6
<1> QED
  BY <1>3, <1>6, <1>9, <1>10, <1>11

(* Restoring puts whole characters in the place of whole characters.       *)
RestoredBroken(a) == ValidText(a) /\ ~ValidText(Restored(a))

LEMMA RestoredValid ==
  \A a \in Texts : ValidText(a) => ValidText(Restored(a))
<1> DEFINE S == {a \in Texts : RestoredBroken(a)}
<1>1. \A a : a \in S <=> a \in Texts /\ RestoredBroken(a)
  OBVIOUS
<1> HIDE DEF S
<1>2. S \in SUBSET Texts
  BY <1>1
<1>3. SUFFICES ASSUME S # {} PROVE FALSE
  BY <1>1, <1>3 DEF RestoredBroken
<1>4. PICK a \in S : \A b \in Texts : Len(b) < Len(a) => b \notin S
  BY <1>2, <1>3, Shortest
<1>5. a \in Texts /\ ValidText(a) /\ ~ValidText(Restored(a))
  BY <1>1, <1>4 DEF RestoredBroken
<1>6. \A b \in Texts : Len(b) < Len(a) /\ ValidText(b) => ValidText(Restored(b))
  BY <1>1, <1>4 DEF RestoredBroken
<1>7. CASE a = <<>>
  BY <1>5, <1>7, RestoredNothing, EmptyValid
<1>8. ASSUME NEW p \in DOMAIN Mapping, NEW u \in Texts, a = p ++ u, Len(u) < Len(a),
             Restored(a) = Mapping[p] ++ Restored(u)
      PROVE  FALSE
  <2>1. p \in Texts /\ ValidText(p) /\ Mapping[p] \in Texts /\ ValidText(Mapping[p])
    BY MappingFacts
  <2>2. ValidText(u)
    BY <1>5, <1>8, <2>1, ValidRest
  <2>3. ValidText(Restored(u)) /\ Restored(u) \in Texts
    BY <1>6, <1>8, <2>2, RestoredType
  <2>4. ValidText(Mapping[p] ++ Restored(u))
    BY <2>1, <2>3, ValidJoined
  <2> QED
    BY <1>5, <1>8, <2>4
<1>9. ASSUME a # <<>>, Here(a, Mapping) = {}
      PROVE  FALSE
  <2>1. PICK c \in Texts, u \in Texts :
           /\ a = c ++ u /\ Len(u) < Len(a) /\ Len(c) = Width[a[1]]
           /\ ValidText(c) /\ ValidText(u)
           /\ \A i \in 2 .. Len(c) : ~At(c, i)
    BY <1>5, <1>9, FirstCharacter
  <2>2. Clear(c, u)
    <3> SUFFICES ASSUME NEW x \in Texts, NEW y \in Texts, c = x ++ y, y # <<>>
                 PROVE  Here(y ++ u, Mapping) = {}
      BY DEF Clear
    <3>1. CASE x = <<>>
      <4>1. y = c
        BY <3>1, Empty
      <4> QED
        BY <1>9, <2>1, <4>1
    <3>2. CASE x # <<>>
      <4>1. 1 \in 1 .. Len(y) /\ Len(y) \in Nat
        BY FirstByte
      <4>2. Len(x) > 0 /\ Len(x) \in Nat /\ Len(c) = Len(x) + Len(y)
        BY <3>2, Cat, Empty
      <4>3. Len(x) + 1 \in 2 .. Len(c)
        BY <4>1, <4>2
      <4>4. c[Len(x) + 1] = y[1]
        BY <4>1, CatAt
      <4>5. ~At(y, 1)
        BY <2>1, <4>3, <4>4 DEF At
      <4>6. ASSUME NEW p \in DOMAIN Mapping, NEW v \in Texts, y ++ u = p ++ v
            PROVE  FALSE
        <5>1. p \in Texts /\ p # <<>> /\ ValidText(p)
          BY MappingFacts
        <5>2. 1 \in 1 .. Len(p) /\ Len(p) > 0
          BY <5>1, FirstByte, Empty
        <5>3. (p ++ v)[1] = p[1] /\ (y ++ u)[1] = y[1]
          BY <4>1, <5>1, <5>2, CatAt
        <5>4. At(p, 1)
          BY <5>1, <5>2, ValidIff
        <5> QED
          BY <4>5, <4>6, <5>3, <5>4 DEF At
      <4>7. y ++ u \in Texts
        BY Joined
      <4> QED
        BY <4>6, <4>7, NothingHere
    <3> QED
      BY <3>1, <3>2
  <2>3. Restored(a) = c ++ Restored(u)
    BY <2>1, <2>2, ClearPasses
  <2>4. ValidText(Restored(u)) /\ Restored(u) \in Texts
    BY <1>6, <2>1, RestoredType
  <2> QED
    BY <1>5, <2>1, <2>3, <2>4, ValidJoined
<1> QED
  BY <1>5, <1>7, <1>8, <1>9, Beginning

(* What a delta sends and what it keeps back are whole characters, and     *)
(* less is kept back than a placeholder and a character.                   *)
LEMMA SplitWhole ==
  ASSUME NEW b \in Texts, ValidText(b), NEW u, NEW v,
         SplitStreamingSuffix(b, KeepBytes) = [prefix |-> u, suffix |-> v]
  PROVE  /\ u \in Texts /\ v \in Texts /\ ValidText(u) /\ ValidText(v)
         /\ Len(v) <= (KeepBytes + MaxRune) - 1
<1>1. /\ u \in Texts /\ v \in Texts /\ b = u ++ v
      /\ u = <<>> \/ v = <<>> \/ Starts(v[1])
      /\ \/ Len(v) <= KeepBytes
         \/ /\ KeepBytes # 0
            /\ \A i \in Len(u) + 1 .. Len(b) - KeepBytes : ~Starts(b[i + 1])
  <2>1. PICK u1 \in Texts, v1 \in Texts :
           /\ SplitStreamingSuffix(b, KeepBytes) = [prefix |-> u1, suffix |-> v1]
           /\ b = u1 ++ v1
           /\ u1 = <<>> \/ v1 = <<>> \/ Starts(v1[1])
           /\ \/ Len(v1) <= KeepBytes
              \/ /\ KeepBytes # 0
                 /\ \A i \in Len(u1) + 1 .. Len(b) - KeepBytes : ~Starts(b[i + 1])
    BY SplitFacts
  <2>2. u1 = u /\ v1 = v
    BY <2>1
  <2> QED
    BY <2>1, <2>2
<1>2. ValidText(u) /\ ValidText(v)
  <2>1. CASE u = <<>>
    BY <1>1, <2>1, Empty, EmptyValid
  <2>2. CASE u # <<>>
    BY <1>1, <2>2, ValidCut DEF At
  <2> QED
    BY <2>1, <2>2
<1>3. Len(u) \in Nat /\ Len(v) \in Nat /\ Len(b) = Len(u) + Len(v)
  BY <1>1, Cat
<1>4. KeepBytes \in Nat /\ MaxRune \in Nat /\ MaxRune > 0
  BY KeepBytesFacts, SSERestorerAssumption
<1>5. CASE Len(v) <= KeepBytes
  BY <1>1, <1>2, <1>3, <1>4, <1>5
<1>6. CASE ~(Len(v) <= KeepBytes)
  <2>1. 1 \in 1 .. Len(v) /\ Len(v) > 0
    BY <1>3, <1>4, <1>6
  <2>2. At(v, 1)
    BY <1>1, <1>2, <2>1, ValidIff
  <2>3. PICK w \in Nat : w = Width[v[1]] /\ w > 0 /\ w <= MaxRune
    BY <1>1, <2>1, <2>2, WidthAt
  <2>4. /\ 1 + w <= Len(v) + 1
        /\ 1 + w <= Len(v) => At(v, 1 + w)
    BY <1>1, <1>2, <2>1, <2>2, <2>3, ValidIff
  <2>5. ASSUME w <= Len(v) - KeepBytes
        PROVE  FALSE
    <3>1. KeepBytes # 0 /\ \A i \in Len(u) + 1 .. Len(b) - KeepBytes : ~Starts(b[i + 1])
      BY <1>1, <1>6
    <3>2. 1 + w <= Len(v) /\ 1 + w \in 1 .. Len(v)
      BY <1>3, <1>4, <2>3, <2>5, <3>1
    <3>3. b[Len(u) + (1 + w)] = v[1 + w]
      BY <1>1, <3>2, CatAt
    <3>4. Len(u) + w \in Len(u) + 1 .. Len(b) - KeepBytes
      BY <1>3, <1>4, <2>3, <2>5
    <3>5. (Len(u) + w) + 1 = Len(u) + (1 + w)
      BY <1>3, <2>3
    <3> QED
      BY <2>4, <3>1, <3>2, <3>3, <3>4, <3>5 DEF At
  <2>6. Len(v) <= (KeepBytes + MaxRune) - 1
    BY <1>3, <1>4, <2>3, <2>5
  <2> QED
    BY <1>1, <1>2, <2>6
<1> QED
  BY <1>5, <1>6

-----------------------------------------------------------------------------
(* Texts put together: the text of the items of a write, and of the        *)
(* segments that were restored one by one.                                 *)
Joins(f, texts) ==
  /\ f \in [0 .. Len(texts) -> Texts]
  /\ f[0] = <<>>
  /\ \A i \in 1 .. Len(texts) : f[i] = f[i - 1] ++ texts[i]

JoinsFrom1(g, texts) ==
  g = [i \in 1 .. Len(texts) |-> IF i = 1 THEN texts[i] ELSE g[i - 1] ++ texts[i]]

LEMMA FlattenIs ==
  \A texts : FlattenSeq(texts) =
    IF Len(texts) = 0 THEN texts
    ELSE LET g == CHOOSE g : JoinsFrom1(g, texts) IN g[Len(texts)]
BY DEF FlattenSeq, JoinsFrom1, ++

LEMMA JoinsGive ==
  ASSUME NEW texts \in Seq(Texts), NEW f, Joins(f, texts)
  PROVE  FlattenSeq(texts) = f[Len(texts)]
<1> DEFINE n == Len(texts)
<1>1. n \in Nat /\ \A i \in 1 .. n : texts[i] \in Texts
  BY ElementOfSeq, LenProperties
<1>2. CASE n = 0
  <2>1. texts = <<>>
    BY <1>2, EmptySeq
  <2> QED
    BY <1>2, <2>1, FlattenIs DEF Joins
<1>3. CASE n # 0
  <2> HIDE DEF n
  <2>1. /\ f \in [0 .. n -> Texts] /\ f[0] = <<>>
        /\ \A i \in 1 .. n : f[i] = f[i - 1] ++ texts[i]
    BY DEF Joins, n
  <2>2. \E g : JoinsFrom1(g, texts)
    <3> DEFINE g == [i \in 1 .. n |-> f[i]]
    <3>1. \A i \in 1 .. n : g[i] = f[i]
      OBVIOUS
    <3>2. g = [i \in 1 .. n |-> g[i]]
      OBVIOUS
    <3> HIDE DEF g
    <3>3. ASSUME NEW i \in 1 .. n
          PROVE  g[i] = IF i = 1 THEN texts[i] ELSE g[i - 1] ++ texts[i]
      <4>1. CASE i = 1
        <5>1. f[1] = f[1 - 1] ++ texts[1] /\ 1 - 1 = 0 /\ texts[1] \in Texts
          BY <1>1, <2>1, <4>1
        <5>2. f[1] = texts[1]
          BY <2>1, <5>1, Empty
        <5> QED
          BY <3>1, <4>1, <5>2
      <4>2. CASE i # 1
        <5>1. i - 1 \in 1 .. n
          BY <1>1, <4>2 DEF n
        <5> QED
          BY <2>1, <3>1, <4>2, <5>1
      <4> QED
        BY <4>1, <4>2
    <3>4. JoinsFrom1(g, texts)
      BY <3>2, <3>3 DEF JoinsFrom1, n
    <3> QED
      BY <3>4
  <2>3. PICK g : g = CHOOSE h : JoinsFrom1(h, texts)
    OBVIOUS
  <2>4. \A i \in 1 .. n : g[i] = IF i = 1 THEN texts[i] ELSE g[i - 1] ++ texts[i]
    <3>1. JoinsFrom1(g, texts)
      BY <2>2, <2>3
    <3>2. g = [i \in 1 .. n |-> IF i = 1 THEN texts[i] ELSE g[i - 1] ++ texts[i]]
      BY <3>1 DEF JoinsFrom1, n
    <3> QED
      BY <3>2
  <2> DEFINE Bad == {i \in 1 .. n : g[i] # f[i]}
  <2>5. \A i : i \in Bad <=> i \in 1 .. n /\ g[i] # f[i]
    OBVIOUS
  <2> HIDE DEF Bad
  <2>6. ASSUME Bad # {}
        PROVE  FALSE
    <3>1. PICK i \in Bad : \A j \in Bad : i <= j
      <4>1. Bad \in SUBSET Nat
        BY <2>5
      <4> QED
        BY <2>6, <4>1, Least
    <3>2. i \in 1 .. n /\ g[i] # f[i] /\ i \in Nat
      BY <2>5
    <3>3. CASE i = 1
      <4>1. f[1] = f[1 - 1] ++ texts[1] /\ 1 - 1 = 0 /\ texts[1] \in Texts /\ 1 \in 1 .. n
        BY <1>1, <2>1, <3>2, <3>3 DEF n
      <4>2. f[1] = texts[1]
        BY <2>1, <4>1, Empty
      <4> QED
        BY <2>4, <3>2, <3>3, <4>1, <4>2
    <3>4. CASE i # 1
      <4>1. i - 1 \in 1 .. n /\ ~(i <= i - 1)
        BY <1>1, <3>2, <3>4 DEF n
      <4>2. g[i - 1] = f[i - 1]
        BY <2>5, <3>1, <4>1
      <4> QED
        BY <2>1, <2>4, <3>2, <3>4, <4>2
    <3> QED
      BY <3>3, <3>4
  <2>7. n \in 1 .. n
    BY <1>1, <1>3 DEF n
  <2>8. g[n] = f[n]
    BY <2>5, <2>6, <2>7
  <2> QED
    BY <1>3, <2>3, <2>8, FlattenIs DEF n
<1> QED
  BY <1>2, <1>3

LEMMA SomeJoins ==
  \A texts \in Seq(Texts) : \E f : Joins(f, texts)
<1> DEFINE Bad == {n \in Nat : \E texts \in Seq(Texts) : Len(texts) = n /\ ~\E f : Joins(f, texts)}
<1>1. \A n : n \in Bad <=>
               n \in Nat /\ \E texts \in Seq(Texts) : Len(texts) = n /\ ~\E f : Joins(f, texts)
  OBVIOUS
<1> HIDE DEF Bad
<1>2. ASSUME Bad # {}
      PROVE  FALSE
  <2>1. PICK n \in Bad : \A m \in Bad : n <= m
    <3>1. Bad \in SUBSET Nat
      BY <1>1
    <3> QED
      BY <1>2, <3>1, Least
  <2>2. PICK texts \in Seq(Texts) : Len(texts) = n /\ ~\E f : Joins(f, texts)
    BY <1>1
  <2>3. n \in Nat
    BY <1>1
  <2>4. CASE texts = <<>>
    <3> DEFINE f == [i \in {0} |-> <<>>]
    <3>1. f \in [0 .. 0 -> Texts] /\ f[0] = <<>> /\ Len(texts) = 0 /\ \A i \in 1 .. 0 : FALSE
      BY <2>4, Empty
    <3> HIDE DEF f
    <3>2. Joins(f, texts)
      BY <3>1 DEF Joins
    <3> QED
      BY <2>2, <3>2
  <2>5. ASSUME NEW q \in Seq(Texts), NEW x \in Texts, texts = Append(q, x)
        PROVE  FALSE
    <3>1. /\ Len(q) \in Nat /\ n = Len(q) + 1
          /\ \A i \in 1 .. Len(q) : texts[i] = q[i]
          /\ texts[Len(q) + 1] = x
      BY <2>2, <2>5, AppendProperties, LenProperties
    <3>2. PICK f : Joins(f, q)
      <4>1. ~(n <= Len(q))
        BY <3>1
      <4> QED
        BY <1>1, <2>1, <3>1, <4>1
    <3> DEFINE l == Len(q)
               g == [i \in 0 .. n |-> IF i = n THEN f[l] ++ x ELSE f[i]]
    <3>3. /\ f \in [0 .. l -> Texts] /\ f[0] = <<>> /\ l \in Nat /\ n = l + 1
          /\ \A i \in 1 .. l : f[i] = f[i - 1] ++ q[i]
      BY <3>1, <3>2 DEF Joins
    <3> HIDE DEF l
    <3>4. f[l] ++ x \in Texts
      BY <3>3, Joined
    <3>5. \A i \in 0 .. n : i # n => i \in 0 .. l
      BY <3>3
    <3>6. g \in [0 .. n -> Texts]
      BY <3>3, <3>4, <3>5
    <3>7. g[n] = f[l] ++ x /\ \A i \in 0 .. l : g[i] = f[i]
      BY <3>3
    <3> HIDE DEF g
    <3>8. ASSUME NEW i \in 1 .. n
          PROVE  g[i] = g[i - 1] ++ texts[i]
      <4>1. CASE i = n
        <5>1. i - 1 = l /\ l \in 0 .. l /\ texts[i] = x
          BY <3>1, <3>3, <4>1 DEF l
        <5> QED
          BY <3>7, <4>1, <5>1
      <4>2. CASE i # n
        <5>1. i \in 1 .. l /\ i \in 0 .. l /\ i - 1 \in 0 .. l
          BY <3>3, <4>2
        <5>2. texts[i] = q[i]
          BY <3>1, <5>1 DEF l
        <5> QED
          BY <3>3, <3>7, <5>1, <5>2
      <4> QED
        BY <4>1, <4>2
    <3>9. g[0] = <<>>
      BY <3>3, <3>7
    <3>10. Joins(g, texts)
      BY <2>2, <3>6, <3>8, <3>9 DEF Joins
    <3> QED
      BY <2>2, <3>10
  <2> QED
    BY <2>4, <2>5, SequenceEmptyOrAppend
<1>3. \A texts \in Seq(Texts) : Len(texts) \in Nat
  BY LenProperties
<1> QED
  BY <1>1, <1>2, <1>3

LEMMA FlattenFacts ==
  /\ FlattenSeq(<<>>) = <<>>
  /\ \A texts \in Seq(Texts) : FlattenSeq(texts) \in Texts
  /\ \A texts \in Seq(Texts), x \in Texts :
       FlattenSeq(Append(texts, x)) = FlattenSeq(texts) ++ x
<1>1. FlattenSeq(<<>>) = <<>>
  BY Empty, FlattenIs
<1>2. \A texts \in Seq(Texts) : FlattenSeq(texts) \in Texts
  <2> SUFFICES ASSUME NEW texts \in Seq(Texts) PROVE FlattenSeq(texts) \in Texts
    OBVIOUS
  <2>1. PICK f : Joins(f, texts)
    BY SomeJoins
  <2>2. Len(texts) \in 0 .. Len(texts)
    BY LenProperties
  <2> QED
    BY <2>1, <2>2, JoinsGive DEF Joins
<1>3. ASSUME NEW texts \in Seq(Texts), NEW x \in Texts
      PROVE  FlattenSeq(Append(texts, x)) = FlattenSeq(texts) ++ x
  <2> DEFINE all == Append(texts, x)
             n == Len(texts)
  <2>1. /\ n \in Nat /\ all \in Seq(Texts) /\ Len(all) = n + 1
        /\ \A i \in 1 .. n : all[i] = texts[i]
        /\ all[n + 1] = x
    BY AppendProperties, LenProperties
  <2>2. PICK f : Joins(f, all)
    BY <2>1, SomeJoins
  <2> DEFINE g == [i \in 0 .. n |-> f[i]]
  <2>3. /\ f \in [0 .. n + 1 -> Texts] /\ f[0] = <<>>
        /\ \A i \in 1 .. n + 1 : f[i] = f[i - 1] ++ all[i]
    BY <2>1, <2>2 DEF Joins
  <2> HIDE DEF n
  <2>4. \A i \in 0 .. n : i \in 0 .. n + 1
    BY <2>1
  <2>5. g \in [0 .. n -> Texts] /\ \A i \in 0 .. n : g[i] = f[i]
    BY <2>3, <2>4
  <2> HIDE DEF g, all
  <2>6. \A i \in 1 .. n : i \in 1 .. n + 1 /\ i \in 0 .. n /\ i - 1 \in 0 .. n
    BY <2>1
  <2>7. \A i \in 1 .. n : g[i] = g[i - 1] ++ texts[i]
    BY <2>1, <2>3, <2>5, <2>6
  <2>8. g[0] = <<>>
    BY <2>1, <2>3, <2>5
  <2>9. Joins(g, texts)
    BY <2>5, <2>7, <2>8 DEF Joins, n
  <2>10. FlattenSeq(texts) = g[n] /\ FlattenSeq(all) = f[n + 1]
    BY <2>1, <2>2, <2>9, JoinsGive DEF n
  <2>11. n \in 0 .. n /\ n + 1 \in 1 .. n + 1 /\ (n + 1) - 1 = n
    BY <2>1
  <2> QED
    BY <2>1, <2>3, <2>5, <2>10, <2>11 DEF all
<1> QED
  BY <1>1, <1>2, <1>3

LEMMA AsSeq ==
  ASSUME NEW S, NEW n \in Nat, NEW f \in [1 .. n -> S]
  PROVE  f \in Seq(S) /\ Len(f) = n
<1>1. f \in UNION {[1 .. m -> S] : m \in Nat}
  OBVIOUS
<1>2. f \in Seq(S)
  BY <1>1, SeqDef
<1>3. Len(f) \in Nat /\ DOMAIN f = 1 .. Len(f) /\ DOMAIN f = 1 .. n
  BY <1>2, LenProperties
<1>4. \A m \in Nat : 1 .. m = 1 .. n => m = n
  <2> SUFFICES ASSUME NEW m \in Nat, 1 .. m = 1 .. n PROVE m = n
    OBVIOUS
  <2>1. \A i \in Int : i \in 1 .. m <=> i \in 1 .. n
    OBVIOUS
  <2>2. m \in 1 .. m <=> m >= 1
    OBVIOUS
  <2>3. n \in 1 .. n <=> n >= 1
    OBVIOUS
  <2>4. (m \in 1 .. n => m <= n) /\ (n \in 1 .. m => n <= m)
    OBVIOUS
  <2> QED
    BY <2>1, <2>2, <2>3, <2>4
<1> QED
  BY <1>2, <1>3, <1>4

(* What of one item belongs to a stream.                                   *)
Taken(item, key) == IF item.kind # "whole" /\ item.key = key THEN item.text ELSE <<>>

AllTaken(items, key) == [i \in DOMAIN items |-> Taken(items[i], key)]

LEMMA TextOfIs ==
  \A items, key : TextOf(items, key) = FlattenSeq(AllTaken(items, key))
BY DEF TextOf, AllTaken, Taken

LEMMA ItemFacts ==
  /\ \A x \in Items : x.text \in Texts /\ (x.kind # "whole" => x.key \in Keys)
                      /\ x.kind \in {"delta", "flush", "whole"}
  /\ \A x \in Items : \A key : Taken(x, key) \in Texts
  /\ \A k \in Keys, t \in Texts : Delta(k, t) \in Items /\ Flushed(k, t) \in Items
  /\ \A t \in Texts : Whole(t) \in Items
<1>1. \A x \in Items : x.text \in Texts /\ (x.kind # "whole" => x.key \in Keys)
                       /\ x.kind \in {"delta", "flush", "whole"}
  BY DEF Items
<1>2. \A x \in Items : \A key : Taken(x, key) \in Texts
  BY <1>1, Empty DEF Taken
<1>3. \A k \in Keys, t \in Texts : Delta(k, t) \in Items /\ Flushed(k, t) \in Items
  BY DEF Items, Delta, Flushed
<1>4. \A t \in Texts : Whole(t) \in Items
  BY DEF Items, Whole
<1> QED
  BY <1>1, <1>2, <1>3, <1>4

LEMMA AllTakenFacts ==
  ASSUME NEW items \in Seq(Items), NEW key
  PROVE  /\ AllTaken(items, key) \in Seq(Texts)
         /\ Len(AllTaken(items, key)) = Len(items)
         /\ \A i \in 1 .. Len(items) : AllTaken(items, key)[i] = Taken(items[i], key)
<1>1. Len(items) \in Nat /\ DOMAIN items = 1 .. Len(items)
      /\ \A i \in 1 .. Len(items) : items[i] \in Items
  BY LenProperties, ElementOfSeq
<1>2. /\ AllTaken(items, key) \in [1 .. Len(items) -> Texts]
      /\ \A i \in 1 .. Len(items) : AllTaken(items, key)[i] = Taken(items[i], key)
  BY <1>1, ItemFacts DEF AllTaken
<1> QED
  BY <1>1, <1>2, AsSeq

(* The text of a write, one item after the other.                          *)
LEMMA TextOfFacts ==
  ASSUME NEW key
  PROVE  /\ TextOf(<<>>, key) = <<>>
         /\ \A items \in Seq(Items) : TextOf(items, key) \in Texts
         /\ \A items \in Seq(Items), x \in Items :
              TextOf(Append(items, x), key) = TextOf(items, key) ++ Taken(x, key)
<1>1. TextOf(<<>>, key) = <<>>
  <2>1. <<>> \in Seq(Items) /\ Len(<<>>) = 0
    BY EmptySeq
  <2>2. AllTaken(<<>>, key) \in Seq(Texts) /\ Len(AllTaken(<<>>, key)) = 0
    BY <2>1, AllTakenFacts
  <2>3. AllTaken(<<>>, key) = <<>>
    BY <2>2, EmptySeq
  <2> QED
    BY <2>3, TextOfIs, FlattenFacts
<1>2. \A items \in Seq(Items) : TextOf(items, key) \in Texts
  BY AllTakenFacts, TextOfIs, FlattenFacts
<1>3. ASSUME NEW items \in Seq(Items), NEW x \in Items
      PROVE  TextOf(Append(items, x), key) = TextOf(items, key) ++ Taken(x, key)
  <2> DEFINE all == Append(items, x)
             n == Len(items)
             a == AllTaken(items, key)
             b == AllTaken(all, key)
             c == Append(a, Taken(x, key))
  <2>1. /\ n \in Nat /\ all \in Seq(Items) /\ Len(all) = n + 1
        /\ \A i \in 1 .. n : all[i] = items[i]
        /\ all[n + 1] = x
    BY AppendProperties, LenProperties
  <2>2. Taken(x, key) \in Texts
    BY ItemFacts
  <2>3. a \in Seq(Texts) /\ Len(a) = n /\ \A i \in 1 .. n : a[i] = Taken(items[i], key)
    BY AllTakenFacts
  <2>4. /\ c \in Seq(Texts) /\ Len(c) = Len(a) + 1
        /\ \A i \in 1 .. Len(a) : c[i] = a[i]
        /\ c[Len(a) + 1] = Taken(x, key)
    BY <2>2, <2>3, AppendProperties
  <2>5. b \in Seq(Texts) /\ Len(b) = n + 1 /\ \A i \in 1 .. n + 1 : b[i] = Taken(all[i], key)
    BY <2>1, AllTakenFacts
  <2> HIDE DEF a, b, c, n, all
  <2>6. \A i \in 1 .. n + 1 : i \in 1 .. n \/ i = n + 1
    BY <2>1
  <2>7. ASSUME NEW i \in 1 .. n + 1
        PROVE  b[i] = c[i]
    <3>1. CASE i \in 1 .. n
      BY <2>1, <2>3, <2>4, <2>5, <3>1
    <3>2. CASE i = n + 1
      BY <2>1, <2>3, <2>4, <2>5, <3>2
    <3> QED
      BY <2>6, <3>1, <3>2
  <2>8. Len(c) = Len(b)
    BY <2>3, <2>4, <2>5
  <2>9. b = c
    BY <2>4, <2>5, <2>7, <2>8, SeqEqual
  <2>10. FlattenSeq(c) = FlattenSeq(a) ++ Taken(x, key)
    BY <2>2, <2>3, FlattenFacts DEF c
  <2> QED
    BY <2>9, <2>10, TextOfIs DEF a, b, all
<1> QED
  BY <1>1, <1>2, <1>3

(* Every stream with text kept back is flushed, and none twice.            *)
LEMMA OrderFacts ==
  ASSUME NEW kept \in [Keys -> Texts], NEW order \in FlushOrders(kept)
  PROVE  /\ order \in Seq(Keys) /\ DOMAIN order = 1 .. Len(order) /\ Len(order) \in Nat
         /\ \A i, j \in 1 .. Len(order) : i # j => order[i] # order[j]
         /\ \A k \in Keys : kept[k] # <<>> <=> \E i \in 1 .. Len(order) : order[i] = k
<1> DEFINE K == KeptBack(kept)
<1>1. \A k : k \in K <=> k \in Keys /\ kept[k] # <<>>
  BY DEF KeptBack
<1>2. order \in SetToSeqs(K)
  BY DEF FlushOrders
<1> HIDE DEF K
<1>3. IsFiniteSet(K)
  <2>1. K \in SUBSET Keys /\ IsFiniteSet(Keys)
    BY <1>1, SSERestorerAssumption
  <2> QED
    BY <2>1, FS_Subset
<1>4. PICK n \in Nat : n = Cardinality(K)
  BY <1>3, FS_CardinalityType
<1>5. order \in [1 .. n -> K] /\ \A i, j \in 1 .. n : i # j => order[i] # order[j]
  BY <1>2, <1>4 DEF SetToSeqs
<1>6. order \in Injection(1 .. n, K)
  BY <1>5 DEF Injection, IsInjective
<1>7. Cardinality(1 .. n) = n
  <2>1. 1 \in Int /\ n \in Int /\ (IF 1 > n THEN 0 ELSE (n - 1) + 1) = n
    OBVIOUS
  <2> QED
    BY <2>1, FS_Interval
<1>8. order \in Surjection(1 .. n, K)
  BY <1>3, <1>4, <1>6, <1>7, FS_Injection
<1>9. \A k \in K : \E i \in 1 .. n : order[i] = k
  BY <1>8 DEF Surjection
<1>10. order \in [1 .. n -> Keys]
  BY <1>1, <1>5
<1>11. order \in Seq(Keys) /\ Len(order) = n
  BY <1>10, AsSeq
<1> QED
  BY <1>1, <1>5, <1>9, <1>10, <1>11

(* A flush sends of every stream what was kept back of it.                 *)
LEMMA FlushFacts ==
  ASSUME NEW kept \in [Keys -> Texts], NEW order \in FlushOrders(kept)
  PROVE  /\ FlushItems(order, kept) \in Seq(Items)
         /\ Len(FlushItems(order, kept)) = Len(order)
         /\ \A i \in 1 .. Len(order) :
              FlushItems(order, kept)[i] = Flushed(order[i], Restored(kept[order[i]]))
         /\ \A k \in Keys : TextOf(FlushItems(order, kept), k) = Restored(kept[k])
<1> DEFINE items == FlushItems(order, kept)
           n == Len(order)
<1>1. /\ order \in Seq(Keys) /\ DOMAIN order = 1 .. n /\ n \in Nat
      /\ \A i, j \in 1 .. n : i # j => order[i] # order[j]
      /\ \A k \in Keys : kept[k] # <<>> <=> \E i \in 1 .. n : order[i] = k
  BY OrderFacts
<1>2. \A i \in 1 .. n : order[i] \in Keys /\ Restored(kept[order[i]]) \in Texts
  BY <1>1, ElementOfSeq, RestoredType
<1>3. /\ items \in [1 .. n -> Items]
      /\ \A i \in 1 .. n : items[i] = Flushed(order[i], Restored(kept[order[i]]))
  BY <1>1, <1>2, ItemFacts DEF FlushItems
<1> HIDE DEF n, items
<1>4. items \in Seq(Items) /\ Len(items) = n
  BY <1>1, <1>3, AsSeq
<1>5. ASSUME NEW k \in Keys
      PROVE  TextOf(items, k) = Restored(kept[k])
  <2> DEFINE a == AllTaken(items, k)
             r == Restored(kept[k])
             Done(i) == \E j \in 1 .. i : order[j] = k
             f == [i \in 0 .. n |-> IF Done(i) THEN r ELSE <<>>]
  <2>1. a \in Seq(Texts) /\ Len(a) = n /\ \A i \in 1 .. n : a[i] = Taken(items[i], k)
    BY <1>4, AllTakenFacts
  <2>2. \A i \in 1 .. n : Taken(items[i], k) = IF order[i] = k THEN r ELSE <<>>
    BY <1>3 DEF Taken, Flushed
  <2>3. r \in Texts
    BY RestoredType
  <2> HIDE DEF a, r
  <2>4. f \in [0 .. n -> Texts] /\ \A i \in 0 .. n : f[i] = IF Done(i) THEN r ELSE <<>>
    BY <2>3, Empty
  <2>5. f[0] = <<>>
    BY <1>1, <2>4
  <2> HIDE DEF f
  <2>6. ASSUME NEW i \in 1 .. n
        PROVE  f[i] = f[i - 1] ++ a[i]
    <3>1. i \in 0 .. n /\ i - 1 \in 0 .. n /\ i \in 1 .. i
      BY <1>1
    <3>2. \A j \in 1 .. i : j = i \/ j \in 1 .. i - 1
      BY <1>1
    <3>3. \A j \in 1 .. i - 1 : j \in 1 .. i /\ j # i /\ j \in 1 .. n
      BY <1>1
    <3>4. CASE order[i] = k
      <4>1. Done(i) /\ ~Done(i - 1)
        BY <1>1, <3>1, <3>3, <3>4
      <4>2. f[i] = r /\ f[i - 1] = <<>> /\ a[i] = r
        BY <2>1, <2>2, <2>4, <3>1, <3>4, <4>1
      <4> QED
        BY <2>3, <4>2, Empty
    <3>5. CASE order[i] # k
      <4>1. Done(i) <=> Done(i - 1)
        BY <3>1, <3>2, <3>3, <3>5
      <4>2. f[i] = f[i - 1] /\ f[i - 1] \in Texts /\ a[i] = <<>>
        BY <2>1, <2>2, <2>4, <3>1, <3>5, <4>1
      <4> QED
        BY <4>2, Empty
    <3> QED
      BY <3>4, <3>5
  <2>7. Joins(f, a)
    BY <2>1, <2>4, <2>5, <2>6 DEF Joins
  <2>8. TextOf(items, k) = f[n]
    BY <2>1, <2>7, JoinsGive, TextOfIs DEF a
  <2>9. n \in 0 .. n
    BY <1>1
  <2>10. CASE kept[k] = <<>>
    BY <1>1, <2>4, <2>8, <2>9, <2>10, RestoredNothing DEF r
  <2>11. CASE kept[k] # <<>>
    BY <1>1, <2>4, <2>8, <2>9, <2>11 DEF r
  <2> QED
    BY <2>10, <2>11
<1> QED
  BY <1>3, <1>4, <1>5 DEF n, items

(* The text that was received, cut where it was flushed.                   *)
ExpectedOf(r) == FlattenSeq([i \in DOMAIN r |-> Restored(r[i])])

LEMMA ExpectedFacts ==
  /\ \A key : Expected(key) = ExpectedOf(raw[key])
  /\ ExpectedOf(<<>>) = <<>>
  /\ \A r \in Seq(Texts) : ExpectedOf(r) \in Texts
  /\ \A r \in Seq(Texts), x \in Texts : ExpectedOf(Append(r, x)) = ExpectedOf(r) ++ Restored(x)
<1> DEFINE Each(r) == [i \in DOMAIN r |-> Restored(r[i])]
<1>1. ASSUME NEW r \in Seq(Texts)
      PROVE  /\ Each(r) \in Seq(Texts) /\ Len(Each(r)) = Len(r)
             /\ \A i \in 1 .. Len(r) : Each(r)[i] = Restored(r[i])
  <2>1. Len(r) \in Nat /\ DOMAIN r = 1 .. Len(r)
        /\ \A i \in 1 .. Len(r) : Restored(r[i]) \in Texts
    BY LenProperties, ElementOfSeq, RestoredType
  <2>2. /\ Each(r) \in [1 .. Len(r) -> Texts]
        /\ \A i \in 1 .. Len(r) : Each(r)[i] = Restored(r[i])
    BY <2>1
  <2> QED
    BY <2>1, <2>2, AsSeq
<1>2. \A r : ExpectedOf(r) = FlattenSeq(Each(r))
  BY DEF ExpectedOf
<1>3. \A key : Expected(key) = ExpectedOf(raw[key])
  BY DEF Expected, ExpectedOf
<1> HIDE DEF Each
<1>4. ExpectedOf(<<>>) = <<>>
  <2>1. <<>> \in Seq(Texts) /\ Len(<<>>) = 0
    BY EmptySeq
  <2>2. Each(<<>>) \in Seq(Texts) /\ Len(Each(<<>>)) = 0
    BY <1>1, <2>1
  <2>3. Each(<<>>) = <<>>
    BY <2>2, EmptySeq
  <2> QED
    BY <1>2, <2>3, FlattenFacts
<1>5. \A r \in Seq(Texts) : ExpectedOf(r) \in Texts
  BY <1>1, <1>2, FlattenFacts
<1>6. ASSUME NEW r \in Seq(Texts), NEW x \in Texts
      PROVE  ExpectedOf(Append(r, x)) = ExpectedOf(r) ++ Restored(x)
  <2> DEFINE all == Append(r, x)
             n == Len(r)
             c == Append(Each(r), Restored(x))
  <2>1. /\ n \in Nat /\ all \in Seq(Texts) /\ Len(all) = n + 1
        /\ \A i \in 1 .. n : all[i] = r[i]
        /\ all[n + 1] = x
    BY AppendProperties, LenProperties
  <2>2. Restored(x) \in Texts
    BY RestoredType
  <2>3. /\ Each(r) \in Seq(Texts) /\ Len(Each(r)) = n
        /\ \A i \in 1 .. n : Each(r)[i] = Restored(r[i])
    BY <1>1
  <2>4. /\ c \in Seq(Texts) /\ Len(c) = Len(Each(r)) + 1
        /\ \A i \in 1 .. Len(Each(r)) : c[i] = Each(r)[i]
        /\ c[Len(Each(r)) + 1] = Restored(x)
    BY <2>2, <2>3, AppendProperties
  <2>5. /\ Each(all) \in Seq(Texts) /\ Len(Each(all)) = n + 1
        /\ \A i \in 1 .. n + 1 : Each(all)[i] = Restored(all[i])
    BY <1>1, <2>1
  <2>6. FlattenSeq(c) = FlattenSeq(Each(r)) ++ Restored(x)
    BY <2>2, <2>3, FlattenFacts
  <2> HIDE DEF all, n, c
  <2>7. \A i \in 1 .. n + 1 : i \in 1 .. n \/ i = n + 1
    BY <2>1
  <2>8. \A i \in 1 .. n + 1 : Each(all)[i] = c[i]
    BY <2>1, <2>3, <2>4, <2>5, <2>7
  <2>9. Len(c) = Len(Each(all))
    BY <2>3, <2>4, <2>5
  <2>10. Each(all) = c
    BY <2>4, <2>5, <2>8, <2>9, SeqEqual
  <2> QED
    BY <1>2, <2>6, <2>10 DEF all
<1> QED
  BY <1>3, <1>4, <1>5, <1>6

LEMMA LastFacts ==
  /\ \A q \in Seq(Texts), x \in Texts :
       /\ Append(q, x) \in Seq(Texts) /\ Append(q, x) # <<>>
       /\ Front(Append(q, x)) = q /\ Last(Append(q, x)) = x
  /\ \A r \in Seq(Texts) : r # <<>> =>
       Front(r) \in Seq(Texts) /\ Last(r) \in Texts /\ r = Append(Front(r), Last(r))
<1>1. ASSUME NEW q \in Seq(Texts), NEW x \in Texts
      PROVE  /\ Append(q, x) \in Seq(Texts) /\ Append(q, x) # <<>>
             /\ Front(Append(q, x)) = q /\ Last(Append(q, x)) = x
  <2> DEFINE r == Append(q, x)
             n == Len(q)
  <2>1. /\ n \in Nat /\ r \in Seq(Texts) /\ r # <<>> /\ Len(r) = n + 1
        /\ \A i \in 1 .. n : r[i] = q[i] /\ q[i] \in Texts
        /\ r[n + 1] = x
    BY AppendProperties, LenProperties, ElementOfSeq
  <2>2. Last(r) = x
    BY <2>1 DEF Last
  <2>3. Front(r) = SubSeq(r, 1, n)
    <3>1. (n + 1) - 1 = n
      BY <2>1
    <3> QED
      BY <2>1, <3>1 DEF Front
  <2> HIDE DEF r, n
  <2>4. /\ SubSeq(r, 1, n) \in Seq(Texts)
        /\ Len(SubSeq(r, 1, n)) = (IF 1 <= n THEN (n - 1) + 1 ELSE 0)
        /\ \A i \in 1 .. (n - 1) + 1 : SubSeq(r, 1, n)[i] = r[(1 + i) - 1]
    <3>1. 1 \in Int /\ n \in Int /\ \A i \in 1 .. n : r[i] \in Texts
      BY <2>1
    <3> QED
      BY <3>1, SubSeqProperties
  <2>5. (IF 1 <= n THEN (n - 1) + 1 ELSE 0) = n /\ (n - 1) + 1 = n
        /\ \A i \in 1 .. n : (1 + i) - 1 = i
    BY <2>1
  <2>6. Len(SubSeq(r, 1, n)) = Len(q) /\ \A i \in 1 .. Len(q) : q[i] = SubSeq(r, 1, n)[i]
    BY <2>1, <2>4, <2>5 DEF n
  <2>7. SubSeq(r, 1, n) = q
    BY <2>4, <2>6, SeqEqual
  <2> QED
    BY <2>1, <2>2, <2>3, <2>7 DEF r
<1>2. ASSUME NEW r \in Seq(Texts), r # <<>>
      PROVE  Front(r) \in Seq(Texts) /\ Last(r) \in Texts /\ r = Append(Front(r), Last(r))
  <2>1. PICK q \in Seq(Texts), x \in Texts : r = Append(q, x)
    BY <1>2, SequenceEmptyOrAppend
  <2> QED
    BY <1>1, <2>1
<1> QED
  BY <1>1, <1>2

-----------------------------------------------------------------------------
(* The data lines of an event.                                             *)
States ==
  [out : Seq(Items), pending : [Keys -> Texts], raw : [Keys -> Seq(Texts) \ {<<>>}]]

LEMMA LineFacts ==
  \A line \in Lines :
    /\ line.text \in Texts
    /\ line.kind # "whole" => line.key \in Keys /\ line.kind \in {"delta", "late"}
BY DEF Lines

LEMMA WholeLine ==
  ASSUME NEW s \in States, NEW line \in Lines, line.kind = "whole"
  PROVE  /\ TransformData(s, line) \in States
         /\ TransformData(s, line).out = Append(s.out, Whole(Restored(line.text)))
         /\ Whole(Restored(line.text)) \in Items
         /\ TransformData(s, line).pending = s.pending
         /\ TransformData(s, line).raw = s.raw
<1>1. Whole(Restored(line.text)) \in Items
  BY LineFacts, RestoredType, ItemFacts
<1>2. s.out \in Seq(Items)
  BY DEF States
<1>3. PICK o \in Seq(Items) : o = Append(s.out, Whole(Restored(line.text)))
  BY <1>1, <1>2, AppendProperties
<1>4. TransformData(s, line) = [s EXCEPT !.out = o]
  BY <1>3 DEF TransformData
<1> QED
  BY <1>1, <1>3, <1>4 DEF States

(* u goes out and v is kept back.                                          *)
Parted(s, line, u, v) ==
  /\ SplitStreamingSuffix(Restored(s.pending[line.key] ++ line.text), KeepBytes)
       = [prefix |-> u, suffix |-> v]
  /\ TransformData(s, line) \in States
  /\ TransformData(s, line).out = Append(s.out, Delta(line.key, u))
  /\ Delta(line.key, u) \in Items
  /\ TransformData(s, line).pending = [s.pending EXCEPT ![line.key] = v]
  /\ TransformData(s, line).raw =
       [s.raw EXCEPT ![line.key] = Append(Front(s.raw[line.key]),
                                          Last(s.raw[line.key]) ++ line.text)]

LEMMA DeltaLine ==
  ASSUME NEW s \in States, NEW line \in Lines, line.kind # "whole"
  PROVE  \E u, v \in Texts : Parted(s, line, u, v)
<1>1. line.key \in Keys /\ line.text \in Texts
  BY LineFacts
<1>2. /\ s.out \in Seq(Items) /\ s.pending \in [Keys -> Texts]
      /\ s.raw \in [Keys -> Seq(Texts) \ {<<>>}]
  BY DEF States
<1>3. PICK a \in Texts : a = s.pending[line.key] ++ line.text
  BY <1>1, <1>2, Joined
<1>4. Restored(a) \in Texts
  BY RestoredType
<1>5. PICK u \in Texts, v \in Texts :
        SplitStreamingSuffix(Restored(a), KeepBytes) = [prefix |-> u, suffix |-> v]
  BY <1>4, SplitFacts
<1>6. TransformDelta(s.pending[line.key], line.text) = [prefix |-> u, suffix |-> v]
  BY <1>3, <1>5 DEF TransformDelta, ++
<1>7. Delta(line.key, u) \in Items
  BY <1>1, ItemFacts
<1>8. PICK o \in Seq(Items) : o = Append(s.out, Delta(line.key, u))
  BY <1>2, <1>7, AppendProperties
<1>9. PICK r \in Seq(Texts) \ {<<>>} :
        r = Append(Front(s.raw[line.key]), Last(s.raw[line.key]) ++ line.text)
  <2>1. s.raw[line.key] \in Seq(Texts) /\ s.raw[line.key] # <<>>
    BY <1>1, <1>2
  <2>2. Front(s.raw[line.key]) \in Seq(Texts) /\ Last(s.raw[line.key]) \in Texts
    BY <2>1, LastFacts
  <2>3. Last(s.raw[line.key]) ++ line.text \in Texts
    BY <1>1, <2>2, Joined
  <2> QED
    BY <2>2, <2>3, LastFacts
<1>10. Received(s.raw, line.key, line.text) = [s.raw EXCEPT ![line.key] = r]
  BY <1>1, <1>2, <1>9 DEF Received, ++
<1>11. TransformData(s, line) = [out     |-> o,
                                 pending |-> [s.pending EXCEPT ![line.key] = v],
                                 raw     |-> [s.raw EXCEPT ![line.key] = r]]
  BY <1>6, <1>8, <1>10 DEF TransformData
<1>12. [s.pending EXCEPT ![line.key] = v] \in [Keys -> Texts]
  BY <1>1, <1>2
<1>13. [s.raw EXCEPT ![line.key] = r] \in [Keys -> Seq(Texts) \ {<<>>}]
  BY <1>1, <1>2
<1>14. TransformData(s, line) \in States
  BY <1>11, <1>12, <1>13 DEF States
<1>15. /\ TransformData(s, line).out = o
       /\ TransformData(s, line).pending = [s.pending EXCEPT ![line.key] = v]
       /\ TransformData(s, line).raw = [s.raw EXCEPT ![line.key] = r]
  BY <1>11
<1>16. Parted(s, line, u, v)
  BY <1>3, <1>5, <1>7, <1>8, <1>9, <1>14, <1>15 DEF Parted
<1> QED
  BY <1>16

LinesUpto(f, start, event, n) ==
  f = [i \in 0 .. n |-> IF i = 0 THEN start ELSE TransformData(f[i - 1], event[i])]

LEMMA TransformedIs ==
  \A start, event :
    Transformed(start, event) =
      LET f == CHOOSE f : LinesUpto(f, start, event, Len(event)) IN f[Len(event)]
BY DEF Transformed, LinesUpto

LEMMA SomeLinesUpto ==
  ASSUME NEW start, NEW event
  PROVE  \A n \in Nat : \E f : LinesUpto(f, start, event, n)
<1> DEFINE Bad == {n \in Nat : ~\E f : LinesUpto(f, start, event, n)}
<1>1. \A n : n \in Bad <=> n \in Nat /\ ~\E f : LinesUpto(f, start, event, n)
  OBVIOUS
<1> HIDE DEF Bad
<1>2. \E f : LinesUpto(f, start, event, 0)
  <2> DEFINE f == [i \in 0 .. 0 |-> start]
  <2>1. \A i \in 0 .. 0 : i = 0
    OBVIOUS
  <2>2. f = [i \in 0 .. 0 |-> IF i = 0 THEN start ELSE TransformData(f[i - 1], event[i])]
    BY <2>1
  <2>3. LinesUpto(f, start, event, 0)
    BY <2>2 DEF LinesUpto
  <2> QED
    BY <2>3
<1>3. ASSUME NEW n \in Nat, NEW f, LinesUpto(f, start, event, n)
      PROVE  \E g : LinesUpto(g, start, event, n + 1)
  <2> DEFINE g == [i \in 0 .. n + 1 |->
                     IF i = n + 1 THEN TransformData(f[n], event[n + 1]) ELSE f[i]]
  <2>1. f = [i \in 0 .. n |-> IF i = 0 THEN start ELSE TransformData(f[i - 1], event[i])]
    BY <1>3 DEF LinesUpto
  <2>2. \A i \in 0 .. n : f[i] = IF i = 0 THEN start ELSE TransformData(f[i - 1], event[i])
    BY <2>1
  <2>3. \A i \in 0 .. n : i \in 0 .. n + 1 /\ i # n + 1
    OBVIOUS
  <2>4. n + 1 \in 0 .. n + 1
    OBVIOUS
  <2>5. g[n + 1] = TransformData(f[n], event[n + 1]) /\ \A i \in 0 .. n : g[i] = f[i]
    BY <2>3, <2>4
  <2>6. g = [i \in 0 .. n + 1 |-> g[i]]
    OBVIOUS
  <2> HIDE DEF g
  <2>7. ASSUME NEW i \in 0 .. n + 1
        PROVE  g[i] = IF i = 0 THEN start ELSE TransformData(g[i - 1], event[i])
    <3>1. CASE i = n + 1
      <4>1. i # 0 /\ i - 1 = n /\ n \in 0 .. n
        BY <3>1
      <4>2. g[i - 1] = f[n]
        BY <2>5, <4>1
      <4> QED
        BY <2>5, <3>1, <4>1, <4>2
    <3>2. CASE i # n + 1
      <4>1. i \in 0 .. n /\ (i # 0 => i - 1 \in 0 .. n)
        BY <3>2
      <4> QED
        BY <2>2, <2>5, <4>1
    <3> QED
      BY <3>1, <3>2
  <2>8. LinesUpto(g, start, event, n + 1)
    BY <2>6, <2>7 DEF LinesUpto
  <2> QED
    BY <2>8
<1>4. ASSUME Bad # {}
      PROVE  FALSE
  <2>1. PICK n \in Bad : \A m \in Bad : n <= m
    <3>1. Bad \in SUBSET Nat
      BY <1>1
    <3> QED
      BY <1>4, <3>1, Least
  <2>2. n \in Nat /\ n # 0
    BY <1>1, <1>2
  <2>3. n - 1 \in Nat /\ (n - 1) + 1 = n /\ ~(n <= n - 1)
    BY <2>2
  <2>4. PICK f : LinesUpto(f, start, event, n - 1)
    BY <1>1, <2>1, <2>3
  <2>5. \E g : LinesUpto(g, start, event, (n - 1) + 1)
    BY <1>3, <2>3, <2>4
  <2> QED
    BY <1>1, <2>3, <2>5
<1> QED
  BY <1>1, <1>4

(* What holds before the first data line and passes on from each to the    *)
(* next holds behind the last one.                                         *)
LEMMA LineByLine ==
  ASSUME NEW event \in Seq(Lines), NEW J, NEW start \in J[0],
         \A i \in 1 .. Len(event) : \A s \in J[i - 1] : TransformData(s, event[i]) \in J[i]
  PROVE  Transformed(start, event) \in J[Len(event)]
<1> DEFINE n == Len(event)
<1>1. n \in Nat
  BY LenProperties
<1>2. PICK f : f = CHOOSE g : LinesUpto(g, start, event, n)
  OBVIOUS
<1>3. Transformed(start, event) = f[n]
  BY <1>2, TransformedIs
<1> HIDE DEF n
<1>4. LinesUpto(f, start, event, n)
  BY <1>1, <1>2, SomeLinesUpto
<1>5. f = [i \in 0 .. n |-> IF i = 0 THEN start ELSE TransformData(f[i - 1], event[i])]
  BY <1>4 DEF LinesUpto
<1>6. \A i \in 0 .. n : f[i] = IF i = 0 THEN start ELSE TransformData(f[i - 1], event[i])
  BY <1>5
<1> DEFINE Bad == {i \in 0 .. n : f[i] \notin J[i]}
<1>7. \A i : i \in Bad <=> i \in 0 .. n /\ f[i] \notin J[i]
  OBVIOUS
<1> HIDE DEF Bad
<1>8. ASSUME Bad # {}
      PROVE  FALSE
  <2>1. PICK i \in Bad : \A j \in Bad : i <= j
    <3>1. Bad \in SUBSET Nat
      BY <1>7
    <3> QED
      BY <1>8, <3>1, Least
  <2>2. i \in 0 .. n /\ f[i] \notin J[i]
    BY <1>7
  <2>3. i # 0
    BY <1>6, <2>2
  <2>4. i - 1 \in 0 .. n /\ ~(i <= i - 1) /\ i \in 1 .. n
    BY <1>1, <2>2, <2>3
  <2>5. f[i - 1] \in J[i - 1]
    BY <1>7, <2>1, <2>4
  <2>6. TransformData(f[i - 1], event[i]) \in J[i]
    BY <2>4, <2>5 DEF n
  <2> QED
    BY <1>6, <2>2, <2>3, <2>6
<1>9. n \in 0 .. n
  BY <1>1
<1> QED
  BY <1>3, <1>7, <1>8, <1>9 DEF n

LEMMA LinesTyped ==
  ASSUME NEW event \in Seq(Lines), NEW start \in States
  PROVE  Transformed(start, event) \in States
<1> DEFINE J == [i \in 0 .. Len(event) |-> States]
<1>1. Len(event) \in Nat /\ \A i \in 1 .. Len(event) : event[i] \in Lines
  BY LenProperties, ElementOfSeq
<1>2. \A i \in 0 .. Len(event) : J[i] = States
  OBVIOUS
<1> HIDE DEF J
<1>3. 0 \in 0 .. Len(event) /\ Len(event) \in 0 .. Len(event)
      /\ \A i \in 1 .. Len(event) : i \in 0 .. Len(event) /\ i - 1 \in 0 .. Len(event)
  BY <1>1
<1>4. \A s \in States, line \in Lines : TransformData(s, line) \in States
  <2> SUFFICES ASSUME NEW s \in States, NEW line \in Lines PROVE TransformData(s, line) \in States
    OBVIOUS
  <2>1. CASE line.kind = "whole"
    BY <2>1, WholeLine
  <2>2. CASE line.kind # "whole"
    BY <2>2, DeltaLine DEF Parted
  <2> QED
    BY <2>1, <2>2
<1>5. \A i \in 1 .. Len(event) : \A s \in J[i - 1] : TransformData(s, event[i]) \in J[i]
  BY <1>1, <1>2, <1>3, <1>4
<1>6. start \in J[0]
  BY <1>2, <1>3
<1> QED
  BY <1>2, <1>3, <1>5, <1>6, LineByLine

-----------------------------------------------------------------------------
(* What an event starts from: what was kept back has been flushed, or it   *)
(* stays.                                                                  *)
Flushes(event) == ~Recognised(event) /\ KeptBack(pending) # {}

Orders(flush) == IF flush THEN FlushOrders(pending) ELSE {<<>>}

Started(order, flush) ==
  [out     |-> FlushItems(order, pending),
   pending |-> IF flush THEN Emptied ELSE pending,
   raw     |-> IF flush THEN CutOff(raw) ELSE raw]

LEMMA ProcessIs ==
  ASSUME NEW event
  PROVE  ProcessEvent(event) <=>
           \E order \in Orders(Flushes(event)) :
             /\ out' = Transformed(Started(order, Flushes(event)), event).out
             /\ pending' = Transformed(Started(order, Flushes(event)), event).pending
             /\ raw' = Transformed(Started(order, Flushes(event)), event).raw
BY DEF ProcessEvent, Flushes, Orders, Started

LEMMA FlushAllIs ==
  FlushAll <=>
    \E order \in Orders(TRUE) :
      /\ out' = Started(order, TRUE).out
      /\ pending' = Started(order, TRUE).pending
      /\ raw' = Started(order, TRUE).raw
BY DEF FlushAll, Orders, Started

LEMMA EmptiedFacts ==
  Emptied \in [Keys -> Texts] /\ KeptBack(Emptied) = {} /\ \A k \in Keys : Emptied[k] = <<>>
BY Empty DEF Emptied, KeptBack

LEMMA NoItems ==
  /\ \A kept : FlushItems(<<>>, kept) = <<>>
  /\ <<>> \in Seq(Items) /\ Len(<<>>) = 0 /\ DOMAIN <<>> = {}
<1>1. DOMAIN <<>> = {}
  OBVIOUS
<1>2. <<>> \in Seq(Items) /\ Len(<<>>) = 0
  BY EmptySeq
<1>3. ASSUME NEW kept
      PROVE  FlushItems(<<>>, kept) = <<>>
  <2> DEFINE f == FlushItems(<<>>, kept)
  <2>1. f \in [1 .. 0 -> Items]
    <3>1. \A i \in 1 .. 0 : FALSE
      OBVIOUS
    <3>2. 1 .. 0 = {}
      OBVIOUS
    <3> QED
      BY <1>1, <3>1, <3>2 DEF FlushItems
  <2>2. f \in Seq(Items) /\ Len(f) = 0
    BY <2>1, AsSeq
  <2> QED
    BY <2>2, EmptySeq
<1> QED
  BY <1>1, <1>2, <1>3

LEMMA CutOffFacts ==
  ASSUME TypeOK
  PROVE  /\ CutOff(raw) \in [Keys -> Seq(Texts) \ {<<>>}]
         /\ \A k \in Keys :
              CutOff(raw)[k] = IF pending[k] # <<>> THEN Append(raw[k], <<>>) ELSE raw[k]
<1>1. raw \in [Keys -> Seq(Texts) \ {<<>>}]
  BY DEF TypeOK
<1>2. \A k \in Keys : Append(raw[k], <<>>) \in Seq(Texts) \ {<<>>}
  BY <1>1, Empty, LastFacts
<1> QED
  BY <1>1, <1>2 DEF CutOff

LEMMA StartTyped ==
  ASSUME TypeOK, NEW flush \in BOOLEAN, NEW order \in Orders(flush)
  PROVE  Started(order, flush) \in States
<1>1. pending \in [Keys -> Texts] /\ raw \in [Keys -> Seq(Texts) \ {<<>>}]
  BY DEF TypeOK
<1>2. FlushItems(order, pending) \in Seq(Items)
  BY <1>1, FlushFacts, NoItems DEF Orders
<1>3. (IF flush THEN Emptied ELSE pending) \in [Keys -> Texts]
  BY <1>1, EmptiedFacts
<1>4. (IF flush THEN CutOff(raw) ELSE raw) \in [Keys -> Seq(Texts) \ {<<>>}]
  BY <1>1, CutOffFacts
<1> QED
  BY <1>2, <1>3, <1>4 DEF Started, States

LEMMA EventFacts ==
  \A event \in Events : event \in Seq(Lines) /\ \A i \in 1 .. Len(event) : ValidText(event[i].text)
BY SSERestorerAssumption

LEMMA ProcessTyped ==
  ASSUME TypeOK, NEW event \in Events, ProcessEvent(event)
  PROVE  /\ out' \in Seq(Items) /\ pending' \in [Keys -> Texts]
         /\ raw' \in [Keys -> Seq(Texts) \ {<<>>}]
<1>1. PICK order \in Orders(Flushes(event)) :
        /\ out' = Transformed(Started(order, Flushes(event)), event).out
        /\ pending' = Transformed(Started(order, Flushes(event)), event).pending
        /\ raw' = Transformed(Started(order, Flushes(event)), event).raw
  BY ProcessIs
<1>2. Flushes(event) \in BOOLEAN
  BY DEF Flushes
<1>3. Transformed(Started(order, Flushes(event)), event) \in States
  BY <1>2, StartTyped, EventFacts, LinesTyped
<1> QED
  BY <1>1, <1>3 DEF States

LEMMA FlushTyped ==
  ASSUME TypeOK, FlushAll
  PROVE  /\ out' \in Seq(Items) /\ pending' \in [Keys -> Texts]
         /\ raw' \in [Keys -> Seq(Texts) \ {<<>>}]
<1>1. PICK order \in Orders(TRUE) :
        /\ out' = Started(order, TRUE).out
        /\ pending' = Started(order, TRUE).pending
        /\ raw' = Started(order, TRUE).raw
  BY FlushAllIs
<1>2. Started(order, TRUE) \in States
  BY StartTyped
<1> QED
  BY <1>1, <1>2 DEF States

(* Every variable has its type.                                            *)
THEOREM Typed ==
  Spec => []TypeOK
<1>1. Init => TypeOK
  <2> SUFFICES ASSUME Init PROVE TypeOK
    OBVIOUS
  <2>1. 0 \in 0 .. MaxEvents
    BY SSERestorerAssumption
  <2>2. [k \in Keys |-> <<>>] \in [Keys -> Texts]
    BY Empty
  <2>3. << <<>> >> \in Seq(Texts) \ {<<>>}
    <3>1. <<>> \in Seq(Texts) /\ <<>> \in Texts
      BY EmptySeq, Empty
    <3>2. Append(<<>>, <<>>) \in Seq(Texts) /\ Append(<<>>, <<>>) # <<>>
      BY <3>1, AppendProperties
    <3>3. Append(<<>>, <<>>) = << <<>> >>
      OBVIOUS
    <3> QED
      BY <3>2, <3>3
  <2>4. [k \in Keys |-> << <<>> >>] \in [Keys -> Seq(Texts) \ {<<>>}]
    BY <2>3
  <2> QED
    BY <2>1, <2>2, <2>4, NoItems DEF Init, TypeOK
<1>2. TypeOK /\ [Next]_vars => TypeOK'
  <2> SUFFICES ASSUME TypeOK, [Next]_vars PROVE TypeOK'
    OBVIOUS
  <2>1. CASE ReadEvent
    <3>1. PICK event \in Events : ProcessEvent(event)
      BY <2>1 DEF ReadEvent
    <3>2. /\ out' \in Seq(Items) /\ pending' \in [Keys -> Texts]
          /\ raw' \in [Keys -> Seq(Texts) \ {<<>>}]
      BY <3>1, ProcessTyped
    <3>3. events' \in 0 .. MaxEvents
      BY <2>1, SSERestorerAssumption DEF ReadEvent, TypeOK
    <3> QED
      BY <2>1, <3>2, <3>3 DEF ReadEvent, TypeOK
  <2>2. CASE ReadEOF
    <3>1. /\ out' \in Seq(Items) /\ pending' \in [Keys -> Texts]
          /\ raw' \in [Keys -> Seq(Texts) \ {<<>>}]
      BY <2>2, FlushTyped DEF ReadEOF
    <3> QED
      BY <2>2, <3>1 DEF ReadEOF, TypeOK
  <2>3. CASE ReadError
    BY <2>3 DEF ReadError, End, TypeOK
  <2>4. CASE Written
    <3>1. out \in Seq(Items) /\ sent \in [Keys -> Texts]
      BY DEF TypeOK
    <3>2. \A k \in Keys : sent[k] ++ TextOf(out, k) \in Texts
      BY <3>1, TextOfFacts, Joined
    <3>3. sent' \in [Keys -> Texts]
      BY <2>4, <3>2 DEF Written, ++
    <3>4. CASE after = "flush"
      <4>1. FlushAll /\ after' = "close" /\ UNCHANGED <<pc, ending, events, client>>
        BY <2>4, <3>4 DEF Written
      <4>2. /\ out' \in Seq(Items) /\ pending' \in [Keys -> Texts]
            /\ raw' \in [Keys -> Seq(Texts) \ {<<>>}]
        BY <4>1, FlushTyped
      <4> QED
        BY <3>3, <4>1, <4>2 DEF TypeOK
    <3>5. CASE after # "flush"
      <4>1. out' = <<>> /\ after' = "read" /\ UNCHANGED <<pending, raw, events, client>>
        BY <2>4, <3>5 DEF Written
      <4>2. pc' \in {"reading", "ended"} /\ ending' \in {"open", "closed", "error"}
        BY <2>4, <3>5 DEF Written, End, TypeOK
      <4> QED
        BY <3>3, <4>1, <4>2, NoItems DEF TypeOK
    <3> QED
      BY <3>4, <3>5
  <2>5. CASE WriteFails
    BY <2>5, NoItems DEF WriteFails, End, TypeOK
  <2>6. CASE ClientLeaves
    BY <2>6 DEF ClientLeaves, TypeOK
  <2>7. CASE Over
    BY <2>7 DEF Over, vars, TypeOK
  <2>8. CASE UNCHANGED vars
    BY <2>8 DEF vars, TypeOK
  <2> QED
    BY <2>1, <2>2, <2>3, <2>4, <2>5, <2>6, <2>7, <2>8 DEF Next
<1> QED
  BY <1>1, <1>2, PTL DEF Spec

-----------------------------------------------------------------------------
(* Whole characters go out and are kept back, and little is kept back.     *)
AllWhole(items) == \A i \in 1 .. Len(items) : ValidText(items[i].text)

KeptWhole(kept) ==
  \A k \in Keys : ValidText(kept[k]) /\ Len(kept[k]) <= (KeepBytes + MaxRune) - 1

WholeStates == {s \in States : AllWhole(s.out) /\ KeptWhole(s.pending)}

LEMMA AppendWhole ==
  ASSUME NEW items \in Seq(Items), AllWhole(items), NEW x \in Items, ValidText(x.text)
  PROVE  AllWhole(Append(items, x))
<1>1. /\ Len(items) \in Nat /\ Len(Append(items, x)) = Len(items) + 1
      /\ \A i \in 1 .. Len(items) : Append(items, x)[i] = items[i]
      /\ Append(items, x)[Len(items) + 1] = x
  BY AppendProperties, LenProperties
<1>2. \A i \in 1 .. Len(items) + 1 : i \in 1 .. Len(items) \/ i = Len(items) + 1
  BY <1>1
<1> QED
  BY <1>1, <1>2 DEF AllWhole

LEMMA LineWhole ==
  ASSUME NEW s \in WholeStates, NEW line \in Lines, ValidText(line.text)
  PROVE  TransformData(s, line) \in WholeStates
<1>1. s \in States /\ AllWhole(s.out) /\ KeptWhole(s.pending)
      /\ s.out \in Seq(Items) /\ s.pending \in [Keys -> Texts] /\ line.text \in Texts
  BY LineFacts DEF WholeStates, States
<1>2. CASE line.kind = "whole"
  <2> DEFINE x == Whole(Restored(line.text))
  <2>1. /\ TransformData(s, line) \in States
        /\ TransformData(s, line).out = Append(s.out, x)
        /\ x \in Items
        /\ TransformData(s, line).pending = s.pending
    BY <1>1, <1>2, WholeLine
  <2>2. ValidText(x.text)
    BY <1>1, RestoredValid DEF Whole
  <2> HIDE DEF x
  <2>3. AllWhole(Append(s.out, x))
    BY <1>1, <2>1, <2>2, AppendWhole
  <2> QED
    BY <1>1, <2>1, <2>3 DEF WholeStates
<1>3. CASE line.kind # "whole"
  <2> PICK u \in Texts, v \in Texts : Parted(s, line, u, v)
    BY <1>1, <1>3, DeltaLine
  <2>1. /\ SplitStreamingSuffix(Restored(s.pending[line.key] ++ line.text), KeepBytes)
             = [prefix |-> u, suffix |-> v]
        /\ TransformData(s, line) \in States
        /\ TransformData(s, line).out = Append(s.out, Delta(line.key, u))
        /\ Delta(line.key, u) \in Items
        /\ TransformData(s, line).pending = [s.pending EXCEPT ![line.key] = v]
    BY DEF Parted
  <2>2. line.key \in Keys /\ s.pending[line.key] \in Texts /\ ValidText(s.pending[line.key])
    BY <1>1, <1>3, LineFacts DEF KeptWhole
  <2>3. PICK a \in Texts : a = s.pending[line.key] ++ line.text
    BY <1>1, <2>2, Joined
  <2>4. ValidText(a)
    BY <1>1, <2>2, <2>3, ValidJoined
  <2>5. Restored(a) \in Texts /\ ValidText(Restored(a))
    BY <2>4, RestoredType, RestoredValid
  <2>6. ValidText(u) /\ ValidText(v) /\ Len(v) <= (KeepBytes + MaxRune) - 1
    BY <2>1, <2>3, <2>5, SplitWhole
  <2>7. Delta(line.key, u).text = u
    BY DEF Delta
  <2>8. AllWhole(Append(s.out, Delta(line.key, u)))
    BY <1>1, <2>1, <2>6, <2>7, AppendWhole
  <2>9. \A k \in Keys : [s.pending EXCEPT ![line.key] = v][k] =
                          IF k = line.key THEN v ELSE s.pending[k]
    BY <1>1
  <2>10. KeptWhole([s.pending EXCEPT ![line.key] = v])
    BY <1>1, <2>6, <2>9 DEF KeptWhole
  <2> QED
    BY <2>1, <2>8, <2>10 DEF WholeStates
<1> QED
  BY <1>2, <1>3

LEMMA LinesWhole ==
  ASSUME NEW event \in Events, NEW start \in WholeStates
  PROVE  Transformed(start, event) \in WholeStates
<1> DEFINE J == [i \in 0 .. Len(event) |-> WholeStates]
<1>1. event \in Seq(Lines) /\ \A i \in 1 .. Len(event) : ValidText(event[i].text)
  BY EventFacts
<1>2. Len(event) \in Nat /\ \A i \in 1 .. Len(event) : event[i] \in Lines
  BY <1>1, LenProperties, ElementOfSeq
<1>3. \A i \in 0 .. Len(event) : J[i] = WholeStates
  OBVIOUS
<1> HIDE DEF J
<1>4. 0 \in 0 .. Len(event) /\ Len(event) \in 0 .. Len(event)
      /\ \A i \in 1 .. Len(event) : i \in 0 .. Len(event) /\ i - 1 \in 0 .. Len(event)
  BY <1>2
<1>5. \A i \in 1 .. Len(event) : \A s \in J[i - 1] : TransformData(s, event[i]) \in J[i]
  BY <1>1, <1>2, <1>3, <1>4, LineWhole
<1>6. start \in J[0]
  BY <1>3, <1>4
<1> QED
  BY <1>1, <1>3, <1>4, <1>5, <1>6, LineByLine

LEMMA EmptiedWhole ==
  KeptWhole(Emptied)
<1>1. \A k \in Keys : ValidText(Emptied[k]) /\ Len(Emptied[k]) = 0
  BY EmptiedFacts, EmptyValid, Empty
<1>2. 0 <= (KeepBytes + MaxRune) - 1
  BY KeepBytesFacts, SSERestorerAssumption
<1> QED
  BY <1>1, <1>2 DEF KeptWhole

LEMMA StartWhole ==
  ASSUME TypeOK, KeptWhole(pending), NEW flush \in BOOLEAN, NEW order \in Orders(flush)
  PROVE  Started(order, flush) \in WholeStates
<1>1. pending \in [Keys -> Texts]
  BY DEF TypeOK
<1>2. Started(order, flush) \in States
  BY StartTyped
<1>3. AllWhole(FlushItems(order, pending))
  <2>1. CASE flush
    <3>1. order \in FlushOrders(pending)
      BY <2>1 DEF Orders
    <3>2. /\ Len(FlushItems(order, pending)) = Len(order)
          /\ \A i \in 1 .. Len(order) :
               FlushItems(order, pending)[i] = Flushed(order[i], Restored(pending[order[i]]))
      BY <1>1, <3>1, FlushFacts
    <3>3. \A i \in 1 .. Len(order) : order[i] \in Keys
      BY <1>1, <3>1, OrderFacts, ElementOfSeq
    <3>4. \A i \in 1 .. Len(order) : ValidText(Restored(pending[order[i]]))
      BY <1>1, <3>3, RestoredValid DEF KeptWhole
    <3>5. \A k, t : Flushed(k, t).text = t
      BY DEF Flushed
    <3>6. \A i \in 1 .. Len(order) :
            FlushItems(order, pending)[i].text = Restored(pending[order[i]])
      BY <3>2, <3>5
    <3> QED
      BY <3>2, <3>4, <3>6 DEF AllWhole
  <2>2. CASE ~flush
    <3>1. FlushItems(order, pending) = <<>>
      BY <2>2, NoItems DEF Orders
    <3>2. \A i \in 1 .. Len(<<>>) : FALSE
      BY NoItems
    <3> QED
      BY <3>1, <3>2 DEF AllWhole
  <2> QED
    BY <2>1, <2>2
<1>4. KeptWhole(IF flush THEN Emptied ELSE pending)
  BY EmptiedWhole
<1> QED
  BY <1>2, <1>3, <1>4 DEF WholeStates, Started

WholeInv == AllWhole(out) /\ KeptWhole(pending)

LEMMA WholeInvIs ==
  ASSUME TypeOK
  PROVE  WholeInv <=> CharactersWhole /\ PendingBounded
<1>1. DOMAIN out = 1 .. Len(out)
  BY LenProperties DEF TypeOK
<1>2. CharactersWhole <=> AllWhole(out) /\ \A k \in Keys : ValidText(pending[k])
  BY <1>1 DEF AllWhole, CharactersWhole
<1>3. KeptWhole(pending) <=> (\A k \in Keys : ValidText(pending[k])) /\ PendingBounded
  <2>1. KeepBytes + MaxRune - 1 = (KeepBytes + MaxRune) - 1
    BY KeepBytesFacts, SSERestorerAssumption
  <2> QED
    BY <2>1 DEF KeptWhole, PendingBounded
<1> QED
  BY <1>2, <1>3 DEF WholeInv

LEMMA WholeInvHolds ==
  Spec => []WholeInv
<1>1. Init => WholeInv
  <2> SUFFICES ASSUME Init PROVE WholeInv
    OBVIOUS
  <2>1. pending = Emptied /\ out = <<>>
    BY DEF Init, Emptied
  <2>2. \A i \in 1 .. Len(<<>>) : FALSE
    BY NoItems
  <2> QED
    BY <2>1, <2>2, EmptiedWhole DEF WholeInv, AllWhole
<1>2. TypeOK /\ WholeInv /\ [Next]_vars => WholeInv'
  <2> SUFFICES ASSUME TypeOK, WholeInv, [Next]_vars PROVE WholeInv'
    OBVIOUS
  <2>1. KeptWhole(pending)
    BY DEF WholeInv
  <2>2. \A s \in WholeStates : AllWhole(s.out) /\ KeptWhole(s.pending)
    BY DEF WholeStates
  <2>3. ASSUME FlushAll PROVE WholeInv'
    <3>1. PICK order \in Orders(TRUE) :
            out' = Started(order, TRUE).out /\ pending' = Started(order, TRUE).pending
      BY <2>3, FlushAllIs
    <3>2. Started(order, TRUE) \in WholeStates
      BY <2>1, StartWhole
    <3> QED
      BY <2>2, <3>1, <3>2 DEF WholeInv, AllWhole, KeptWhole
  <2>4. ASSUME out' = <<>>, pending' = pending PROVE WholeInv'
    <3>1. \A i \in 1 .. Len(<<>>) : FALSE
      BY NoItems
    <3> QED
      BY <2>1, <2>4, <3>1 DEF WholeInv, AllWhole, KeptWhole
  <2>5. ASSUME UNCHANGED <<out, pending>> PROVE WholeInv'
    BY <2>5 DEF WholeInv, AllWhole, KeptWhole
  <2>6. CASE ReadEvent
    <3>1. PICK event \in Events : ProcessEvent(event)
      BY <2>6 DEF ReadEvent
    <3>2. PICK order \in Orders(Flushes(event)) :
            /\ out' = Transformed(Started(order, Flushes(event)), event).out
            /\ pending' = Transformed(Started(order, Flushes(event)), event).pending
      BY <3>1, ProcessIs
    <3>3. Flushes(event) \in BOOLEAN
      BY DEF Flushes
    <3>4. Transformed(Started(order, Flushes(event)), event) \in WholeStates
      BY <2>1, <3>3, StartWhole, LinesWhole
    <3> QED
      BY <2>2, <3>2, <3>4 DEF WholeInv, AllWhole, KeptWhole
  <2>7. CASE ReadEOF
    BY <2>3, <2>7 DEF ReadEOF
  <2>8. CASE ReadError
    BY <2>5, <2>8 DEF ReadError
  <2>9. CASE Written
    BY <2>3, <2>4, <2>9 DEF Written
  <2>10. CASE WriteFails
    BY <2>4, <2>10 DEF WriteFails
  <2>11. CASE ClientLeaves
    BY <2>5, <2>11 DEF ClientLeaves
  <2>12. CASE Over
    BY <2>5, <2>12 DEF Over, vars
  <2>13. CASE UNCHANGED vars
    BY <2>5, <2>13 DEF vars
  <2> QED
    BY <2>6, <2>7, <2>8, <2>9, <2>10, <2>11, <2>12, <2>13 DEF Next
<1> QED
  BY <1>1, <1>2, Typed, PTL DEF Spec

(* No character is cut in two, neither in what goes out nor in what is     *)
(* kept back.                                                              *)
THEOREM NoCharacterCut ==
  Spec => []CharactersWhole
BY Typed, WholeInvHolds, WholeInvIs, PTL

(* Less is kept back of a stream than a placeholder and a character, for   *)
(* every map and however the text is cut.                                  *)
THEOREM LittleKeptBack ==
  Spec => []PendingBounded
BY Typed, WholeInvHolds, WholeInvIs, PTL

-----------------------------------------------------------------------------
(* What was flushed stands in front, and one item per data line behind it; *)
(* as long as no line is a delta, nothing new is kept back.                *)
KindOf(line) == IF line.kind = "whole" THEN "whole" ELSE "delta"

Shaped(start, event, j, s) ==
  /\ Len(s.out) = Len(start.out) + j
  /\ \A i \in 1 .. Len(start.out) : s.out[i].kind = "flush"
  /\ \A i \in 1 .. j : s.out[Len(start.out) + i].kind = KindOf(event[i])
  /\ (\A i \in 1 .. j : event[i].kind = "whole") => s.pending = start.pending

LEMMA LineShaped ==
  ASSUME NEW start \in States, NEW event \in Seq(Lines), NEW j \in 1 .. Len(event),
         NEW s \in States, Shaped(start, event, j - 1, s)
  PROVE  /\ TransformData(s, event[j]) \in States
         /\ Shaped(start, event, j, TransformData(s, event[j]))
<1> DEFINE n == Len(start.out)
           line == event[j]
           d == TransformData(s, line)
<1>1. /\ n \in Nat /\ j \in Nat /\ j >= 1 /\ s.out \in Seq(Items) /\ line \in Lines
  <2>1. start.out \in Seq(Items) /\ s.out \in Seq(Items)
    BY DEF States
  <2>2. Len(event) \in Nat /\ line \in Lines
    BY LenProperties, ElementOfSeq
  <2> QED
    BY <2>1, <2>2, LenProperties
<1>2. /\ d \in States
      /\ \E x \in Items : d.out = Append(s.out, x) /\ x.kind = KindOf(line)
      /\ line.kind = "whole" => d.pending = s.pending
  <2>1. CASE line.kind = "whole"
    <3>1. \A t : Whole(t).kind = "whole"
      BY DEF Whole
    <3>2. KindOf(line) = "whole"
      BY <2>1 DEF KindOf
    <3> QED
      BY <1>1, <2>1, <3>1, <3>2, WholeLine
  <2>2. CASE line.kind # "whole"
    <3>1. PICK u \in Texts, v \in Texts : Parted(s, line, u, v)
      BY <1>1, <2>2, DeltaLine
    <3>2. /\ d \in States /\ d.out = Append(s.out, Delta(line.key, u))
          /\ Delta(line.key, u) \in Items
      BY <3>1 DEF Parted
    <3>3. Delta(line.key, u).kind = "delta" /\ KindOf(line) = "delta"
      BY <2>2 DEF Delta, KindOf
    <3> QED
      BY <2>2, <3>2, <3>3
  <2> QED
    BY <2>1, <2>2
<1>3. PICK x \in Items : d.out = Append(s.out, x) /\ x.kind = KindOf(line)
  BY <1>2
<1>4. /\ Len(s.out) = n + (j - 1)
      /\ \A i \in 1 .. n : s.out[i].kind = "flush"
      /\ \A i \in 1 .. j - 1 : s.out[n + i].kind = KindOf(event[i])
      /\ (\A i \in 1 .. j - 1 : event[i].kind = "whole") => s.pending = start.pending
  BY DEF Shaped
<1> HIDE DEF n, line, d
<1>5. /\ Len(d.out) = n + j
      /\ \A i \in 1 .. n + (j - 1) : d.out[i] = s.out[i]
      /\ d.out[n + j] = x
  <2>1. /\ Len(Append(s.out, x)) = Len(s.out) + 1
        /\ \A i \in 1 .. Len(s.out) : Append(s.out, x)[i] = s.out[i]
        /\ Append(s.out, x)[Len(s.out) + 1] = x
    BY <1>1, AppendProperties
  <2>2. (n + (j - 1)) + 1 = n + j
    BY <1>1
  <2> QED
    BY <1>3, <1>4, <2>1, <2>2
<1>6. \A i \in 1 .. n : d.out[i].kind = "flush"
  <2>1. \A i \in 1 .. n : i \in 1 .. n + (j - 1)
    BY <1>1
  <2> QED
    BY <1>4, <1>5, <2>1
<1>7. \A i \in 1 .. j : d.out[n + i].kind = KindOf(event[i])
  <2> SUFFICES ASSUME NEW i \in 1 .. j PROVE d.out[n + i].kind = KindOf(event[i])
    OBVIOUS
  <2>1. CASE i = j
    BY <1>3, <1>5, <2>1 DEF line
  <2>2. CASE i # j
    <3>1. i \in 1 .. j - 1 /\ n + i \in 1 .. n + (j - 1)
      BY <1>1, <2>2
    <3> QED
      BY <1>4, <1>5, <3>1
  <2> QED
    BY <2>1, <2>2
<1>8. ASSUME \A i \in 1 .. j : event[i].kind = "whole"
      PROVE  d.pending = start.pending
  <2>1. j \in 1 .. j /\ \A i \in 1 .. j - 1 : i \in 1 .. j
    BY <1>1
  <2>2. s.pending = start.pending
    BY <1>4, <1>8, <2>1
  <2> QED
    BY <1>2, <1>8, <2>1, <2>2 DEF line
<1> QED
  BY <1>2, <1>5, <1>6, <1>7, <1>8 DEF Shaped, n, d, line

LEMMA LinesShaped ==
  ASSUME NEW event \in Seq(Lines), NEW start \in States,
         \A i \in 1 .. Len(start.out) : start.out[i].kind = "flush"
  PROVE  Shaped(start, event, Len(event), Transformed(start, event))
<1> DEFINE J == [i \in 0 .. Len(event) |-> {s \in States : Shaped(start, event, i, s)}]
<1>1. Len(event) \in Nat
  BY LenProperties
<1>2. \A i \in 0 .. Len(event) : \A s : s \in J[i] <=> s \in States /\ Shaped(start, event, i, s)
  OBVIOUS
<1> HIDE DEF J
<1>3. 0 \in 0 .. Len(event) /\ Len(event) \in 0 .. Len(event)
      /\ \A i \in 1 .. Len(event) : i \in 0 .. Len(event) /\ i - 1 \in 0 .. Len(event)
  BY <1>1
<1>4. Shaped(start, event, 0, start)
  <2>1. Len(start.out) \in Nat /\ \A i \in 1 .. 0 : FALSE
    BY LenProperties DEF States
  <2>2. Len(start.out) = Len(start.out) + 0
    BY <2>1
  <2> QED
    BY <2>1, <2>2 DEF Shaped
<1>5. start \in J[0]
  BY <1>2, <1>3, <1>4
<1>6. \A i \in 1 .. Len(event) : \A s \in J[i - 1] : TransformData(s, event[i]) \in J[i]
  BY <1>2, <1>3, LineShaped
<1>7. Transformed(start, event) \in J[Len(event)]
  BY <1>5, <1>6, LineByLine
<1> QED
  BY <1>2, <1>3, <1>7

LEMMA ProcessOvertakesNothing ==
  ASSUME TypeOK, NEW event \in Events, ProcessEvent(event)
  PROVE  NothingOvertaken'
<1> DEFINE flush == Flushes(event)
<1>1. PICK order \in Orders(flush) :
        /\ out' = Transformed(Started(order, flush), event).out
        /\ pending' = Transformed(Started(order, flush), event).pending
  BY ProcessIs
<1>2. flush \in BOOLEAN /\ event \in Seq(Lines) /\ pending \in [Keys -> Texts]
  BY EventFacts DEF Flushes, TypeOK
<1>3. PICK start \in States : start = Started(order, flush)
  BY <1>2, StartTyped
<1>4. start.out = FlushItems(order, pending) /\ start.pending = IF flush THEN Emptied ELSE pending
  BY <1>3 DEF Started
<1>5. \A i \in 1 .. Len(start.out) : start.out[i].kind = "flush"
  <2>1. CASE flush
    <3>1. order \in FlushOrders(pending)
      BY <2>1 DEF Orders
    <3>2. /\ Len(start.out) = Len(order)
          /\ \A i \in 1 .. Len(order) : start.out[i] = Flushed(order[i], Restored(pending[order[i]]))
      BY <1>2, <1>4, <3>1, FlushFacts
    <3>3. \A k, t : Flushed(k, t).kind = "flush"
      BY DEF Flushed
    <3> QED
      BY <3>2, <3>3
  <2>2. CASE ~flush
    <3>1. start.out = <<>>
      BY <1>4, <2>2, NoItems DEF Orders
    <3>2. \A i \in 1 .. Len(<<>>) : FALSE
      BY NoItems
    <3> QED
      BY <3>1, <3>2
  <2> QED
    BY <1>2, <2>1, <2>2
<1>6. PICK m \in Nat, n \in Nat : m = Len(start.out) /\ n = Len(event) /\ DOMAIN event = 1 .. n
  <2>1. start.out \in Seq(Items)
    BY DEF States
  <2> QED
    BY <1>2, <2>1, LenProperties
<1>7. /\ Len(out') = m + n
      /\ \A i \in 1 .. m : out'[i].kind = "flush"
      /\ \A i \in 1 .. n : out'[m + i].kind = KindOf(event[i])
      /\ (\A i \in 1 .. n : event[i].kind = "whole") => pending' = start.pending
  <2>1. Shaped(start, event, n, Transformed(start, event))
    BY <1>2, <1>5, <1>6, LinesShaped
  <2> QED
    BY <1>1, <1>3, <1>6, <2>1 DEF Shaped
<1>8. DOMAIN (out') = 1 .. m + n
  <2>1. out' \in Seq(Items)
    BY ProcessTyped
  <2> QED
    BY <1>7, <2>1, LenProperties
<1> HIDE DEF flush
<1>9. ASSUME \A i \in 1 .. m + n : out'[i].kind # "delta"
      PROVE  /\ KeptBack(pending') = {}
             /\ \A i, j \in 1 .. m + n : out'[i].kind = "flush" /\ out'[j].kind = "whole" => i < j
  <2>1. ASSUME NEW i \in 1 .. n
        PROVE  event[i].kind = "whole" /\ out'[m + i].kind = "whole"
    <3>1. m + i \in 1 .. m + n
      OBVIOUS
    <3> QED
      BY <1>7, <1>9, <3>1 DEF KindOf
  <2>2. pending' = IF flush THEN Emptied ELSE pending
    BY <1>4, <1>7, <2>1
  <2>3. ~Recognised(event)
    <3>1. \A i \in DOMAIN event : event[i].kind # "delta"
      BY <1>6, <2>1
    <3> QED
      BY <3>1 DEF Recognised
  <2>4. KeptBack(pending') = {}
    BY <2>2, <2>3, EmptiedFacts DEF flush, Flushes
  <2>5. ASSUME NEW i \in 1 .. m + n, NEW j \in 1 .. m + n,
               out'[i].kind = "flush", out'[j].kind = "whole"
        PROVE  i < j
    <3>1. i <= m
      <4> SUFFICES ASSUME i > m PROVE FALSE
        OBVIOUS
      <4>1. i - m \in 1 .. n /\ m + (i - m) = i
        OBVIOUS
      <4>2. out'[m + (i - m)].kind = "whole"
        BY <2>1, <4>1
      <4> QED
        BY <2>5, <4>1, <4>2
    <3>2. j > m
      <4> SUFFICES ASSUME j <= m PROVE FALSE
        OBVIOUS
      <4>1. j \in 1 .. m
        OBVIOUS
      <4> QED
        BY <1>7, <2>5, <4>1
    <3> QED
      BY <3>1, <3>2
  <2> QED
    BY <2>4, <2>5
<1> DEFINE Places(kind) == {i \in DOMAIN (out') : out'[i].kind = kind}
<1>10. \A kind, i : i \in Places(kind) <=> i \in 1 .. m + n /\ out'[i].kind = kind
  BY <1>8
<1>11. NothingOvertaken' <=>
         (Places("whole") # {} /\ Places("delta") = {} =>
            /\ KeptBack(pending') = {}
            /\ \A i \in Places("flush"), j \in Places("whole") : i < j)
  BY DEF NothingOvertaken, KeptBack
<1> HIDE DEF Places
<1>12. SUFFICES ASSUME Places("delta") = {}
                PROVE  /\ KeptBack(pending') = {}
                       /\ \A i \in Places("flush"), j \in Places("whole") : i < j
  BY <1>11
<1>13. \A i \in 1 .. m + n : out'[i].kind # "delta"
  BY <1>10, <1>12
<1> QED
  BY <1>9, <1>10, <1>13

(* An event without a delta overtakes no text.                             *)
THEOREM EventsInOrder ==
  Spec => []NothingOvertaken
<1>1. Init => NothingOvertaken
  BY NoItems DEF Init, NothingOvertaken
<1>2. TypeOK /\ NothingOvertaken /\ [Next]_vars => NothingOvertaken'
  <2> SUFFICES ASSUME TypeOK, NothingOvertaken, [Next]_vars PROVE NothingOvertaken'
    OBVIOUS
  <2>1. ASSUME out' = <<>> PROVE NothingOvertaken'
    BY <2>1, NoItems DEF NothingOvertaken
  <2>2. ASSUME FlushAll PROVE NothingOvertaken'
    <3>1. PICK order \in FlushOrders(pending) : out' = FlushItems(order, pending)
      BY <2>2 DEF FlushAll
    <3>2. pending \in [Keys -> Texts] /\ out' \in Seq(Items)
      BY <2>2, FlushTyped DEF TypeOK
    <3>3. /\ Len(out') = Len(order)
          /\ \A i \in 1 .. Len(order) : out'[i] = Flushed(order[i], Restored(pending[order[i]]))
      BY <3>1, <3>2, FlushFacts
    <3>4. \A k, t : Flushed(k, t).kind = "flush"
      BY DEF Flushed
    <3>5. \A i \in DOMAIN (out') : out'[i].kind = "flush"
      BY <3>2, <3>3, <3>4, LenProperties
    <3> QED
      BY <3>5 DEF NothingOvertaken
  <2>3. ASSUME UNCHANGED <<out, pending>> PROVE NothingOvertaken'
    BY <2>3 DEF NothingOvertaken, KeptBack
  <2>4. CASE ReadEvent
    BY <2>4, ProcessOvertakesNothing DEF ReadEvent
  <2>5. CASE ReadEOF
    BY <2>2, <2>5 DEF ReadEOF
  <2>6. CASE ReadError
    BY <2>3, <2>6 DEF ReadError
  <2>7. CASE Written
    BY <2>1, <2>2, <2>7 DEF Written
  <2>8. CASE WriteFails
    BY <2>1, <2>8 DEF WriteFails
  <2>9. CASE ClientLeaves
    BY <2>3, <2>9 DEF ClientLeaves
  <2>10. CASE Over
    BY <2>3, <2>10 DEF Over, vars
  <2>11. CASE UNCHANGED vars
    BY <2>3, <2>11 DEF vars
  <2> QED
    BY <2>4, <2>5, <2>6, <2>7, <2>8, <2>9, <2>10, <2>11 DEF Next
<1> QED
  BY <1>1, <1>2, Typed, PTL DEF Spec

-----------------------------------------------------------------------------
(* How the goroutine, the pipe and what is kept back go together.          *)
Phases ==
  /\ pc = "ended" <=> ending # "open"
  /\ pc # "writing" => out = <<>>
  /\ pc = "writing" /\ after = "close" => pending = Emptied
  /\ ending = "closed" => pending = Emptied

LEMMA PhasesHold ==
  Spec => []Phases
<1>1. Init => Phases
  BY DEF Init, Phases
<1>2. Phases /\ [Next]_vars => Phases'
  <2> SUFFICES ASSUME Phases, [Next]_vars PROVE Phases'
    OBVIOUS
  <2>1. CASE ReadEvent
    BY <2>1 DEF ReadEvent, Phases, Emptied
  <2>2. CASE ReadEOF
    BY <2>2 DEF ReadEOF, FlushAll, Phases, Emptied
  <2>3. CASE ReadError
    BY <2>3 DEF ReadError, End, Phases, Emptied
  <2>4. CASE Written
    <3>1. CASE after = "flush"
      BY <2>4, <3>1 DEF Written, FlushAll, Phases, Emptied
    <3>2. CASE after = "close"
      BY <2>4, <3>2 DEF Written, End, Phases, Emptied
    <3>3. CASE after # "flush" /\ after # "close"
      BY <2>4, <3>3 DEF Written, Phases, Emptied
    <3> QED
      BY <3>1, <3>2, <3>3
  <2>5. CASE WriteFails
    BY <2>5 DEF WriteFails, End, Phases, Emptied
  <2>6. CASE ClientLeaves
    BY <2>6 DEF ClientLeaves, Phases, Emptied
  <2>7. CASE Over
    BY <2>7 DEF Over, vars, Phases, Emptied
  <2>8. CASE UNCHANGED vars
    BY <2>8 DEF vars, Phases, Emptied
  <2> QED
    BY <2>1, <2>2, <2>3, <2>4, <2>5, <2>6, <2>7, <2>8 DEF Next
<1> QED
  BY <1>1, <1>2, PTL DEF Spec

(* What the client got of a stream and what is kept back of it, followed   *)
(* by any text, is what the text received, followed by that text, reads    *)
(* when it is restored in one piece.                                       *)
Kept(r, got, kept) ==
  /\ Free(kept)
  /\ \A t \in Texts : ExpectedOf(Front(r)) ++ Restored(Last(r) ++ t) = got ++ Restored(kept ++ t)

LEMMA NothingFree ==
  Free(<<>>)
<1>1. ASSUME NEW y \in Texts, y = <<>>, NEW p \in DOMAIN Mapping, NEW v \in Texts, y = p ++ v
      PROVE  FALSE
  BY <1>1, MappingFacts, NoRest
<1>2. \A x, y \in Texts : <<>> = x ++ y => y = <<>>
  BY NoRest
<1>3. \A y \in Texts : y = <<>> => Here(y, Mapping) = {}
  BY <1>1, NothingHere
<1> QED
  BY <1>2, <1>3 DEF Free

LEMMA KeptMore ==
  ASSUME OriginalsApart(Mapping), NEW r \in Seq(Texts) \ {<<>>}, NEW got \in Texts,
         NEW kept \in Texts, NEW text \in Texts, NEW u \in Texts, NEW v \in Texts,
         Kept(r, got, kept),
         SplitStreamingSuffix(Restored(kept ++ text), KeepBytes) = [prefix |-> u, suffix |-> v]
  PROVE  Kept(Append(Front(r), Last(r) ++ text), got ++ u, v)
<1>1. Front(r) \in Seq(Texts) /\ Last(r) \in Texts
  BY LastFacts
<1>2. PICK q \in Seq(Texts), l \in Texts : q = Front(r) /\ l = Last(r)
  BY <1>1
<1>3. l ++ text \in Texts /\ kept ++ text \in Texts /\ ExpectedOf(q) \in Texts
  BY <1>2, Joined, ExpectedFacts
<1>4. Front(Append(q, l ++ text)) = q /\ Last(Append(q, l ++ text)) = l ++ text
  BY <1>3, LastFacts
<1>5. PICK a \in Texts : a = kept ++ text
  BY <1>3
<1>6. Free(v) /\ \A t \in Texts : Restored(a ++ t) = u ++ Restored(v ++ t)
  BY <1>5, DeltaFacts
<1>7. ASSUME NEW t \in Texts
      PROVE  ExpectedOf(q) ++ Restored((l ++ text) ++ t) = (got ++ u) ++ Restored(v ++ t)
  <2>1. text ++ t \in Texts /\ (l ++ text) ++ t = l ++ (text ++ t)
        /\ a ++ t = kept ++ (text ++ t)
    BY <1>5, Joined, Assoc
  <2>2. ExpectedOf(q) ++ Restored(l ++ (text ++ t)) = got ++ Restored(kept ++ (text ++ t))
    BY <1>2, <2>1 DEF Kept
  <2>3. Restored(a ++ t) = u ++ Restored(v ++ t)
    BY <1>6
  <2>4. v ++ t \in Texts
    BY Joined
  <2>5. Restored(v ++ t) \in Texts
    BY <2>4, RestoredType
  <2>6. got ++ (u ++ Restored(v ++ t)) = (got ++ u) ++ Restored(v ++ t)
    BY <2>5, Assoc
  <2> QED
    BY <2>1, <2>2, <2>3, <2>6
<1> QED
  BY <1>2, <1>4, <1>6, <1>7 DEF Kept

LEMMA KeptFlushed ==
  ASSUME NEW r \in Seq(Texts) \ {<<>>}, NEW got \in Texts, NEW kept \in Texts, Kept(r, got, kept)
  PROVE  Kept(Append(r, <<>>), got ++ Restored(kept), <<>>)
<1>1. <<>> \in Texts /\ r \in Seq(Texts) /\ r # <<>>
  BY Empty
<1>2. Front(Append(r, <<>>)) = r /\ Last(Append(r, <<>>)) = <<>>
  BY <1>1, LastFacts
<1>3. PICK q \in Seq(Texts), l \in Texts : q = Front(r) /\ l = Last(r) /\ r = Append(q, l)
  BY <1>1, LastFacts
<1>4. ExpectedOf(r) = ExpectedOf(q) ++ Restored(l)
  BY <1>3, ExpectedFacts
<1>5. l ++ <<>> = l /\ kept ++ <<>> = kept
  BY Empty
<1>6. ExpectedOf(q) ++ Restored(l ++ <<>>) = got ++ Restored(kept ++ <<>>)
  BY <1>1, <1>3 DEF Kept
<1>7. ExpectedOf(r) = got ++ Restored(kept)
  BY <1>4, <1>5, <1>6
<1> QED
  BY <1>2, <1>7, NothingFree DEF Kept

LEMMA KeptInAll ==
  ASSUME NEW r \in Seq(Texts) \ {<<>>}, NEW got \in Texts, NEW kept \in Texts, Kept(r, got, kept)
  PROVE  got ++ kept = ExpectedOf(r)
<1>1. <<>> \in Texts /\ r \in Seq(Texts) /\ r # <<>>
  BY Empty
<1>2. PICK q \in Seq(Texts), l \in Texts : q = Front(r) /\ l = Last(r) /\ r = Append(q, l)
  BY <1>1, LastFacts
<1>3. ExpectedOf(r) = ExpectedOf(q) ++ Restored(l)
  BY <1>2, ExpectedFacts
<1>4. l ++ <<>> = l /\ kept ++ <<>> = kept
  BY Empty
<1>5. ExpectedOf(q) ++ Restored(l ++ <<>>) = got ++ Restored(kept ++ <<>>)
  BY <1>1, <1>2 DEF Kept
<1>6. Restored(kept) = kept
  BY FreeStays DEF Kept
<1> QED
  BY <1>3, <1>4, <1>5, <1>6

(* ... of every stream.                                                    *)
Matches(got, s) ==
  \A k \in Keys : Kept(s.raw[k], got[k] ++ TextOf(s.out, k), s.pending[k])

LEMMA LineMatches ==
  ASSUME OriginalsApart(Mapping), NEW got \in [Keys -> Texts], NEW s \in States, Matches(got, s),
         NEW line \in Lines
  PROVE  TransformData(s, line) \in States /\ Matches(got, TransformData(s, line))
<1> DEFINE d == TransformData(s, line)
<1>1. /\ s.out \in Seq(Items) /\ s.pending \in [Keys -> Texts]
      /\ s.raw \in [Keys -> Seq(Texts) \ {<<>>}]
  BY DEF States
<1>2. CASE line.kind = "whole"
  <2>1. /\ d \in States /\ d.out = Append(s.out, Whole(Restored(line.text)))
        /\ Whole(Restored(line.text)) \in Items
        /\ d.pending = s.pending /\ d.raw = s.raw
    BY <1>2, WholeLine
  <2>2. ASSUME NEW k \in Keys
        PROVE  TextOf(d.out, k) = TextOf(s.out, k)
    <3>1. Taken(Whole(Restored(line.text)), k) = <<>>
      BY DEF Taken, Whole
    <3>2. TextOf(d.out, k) = TextOf(s.out, k) ++ <<>> /\ TextOf(s.out, k) \in Texts
      BY <1>1, <2>1, <3>1, TextOfFacts
    <3> QED
      BY <3>2, Empty
  <2> HIDE DEF d
  <2>3. Matches(got, d)
    BY <2>1, <2>2 DEF Matches
  <2> QED
    BY <2>1, <2>3 DEF d
<1>3. CASE line.kind # "whole"
  <2> PICK u \in Texts, v \in Texts : Parted(s, line, u, v)
    BY <1>3, DeltaLine
  <2>1. /\ SplitStreamingSuffix(Restored(s.pending[line.key] ++ line.text), KeepBytes)
             = [prefix |-> u, suffix |-> v]
        /\ d \in States
        /\ d.out = Append(s.out, Delta(line.key, u))
        /\ Delta(line.key, u) \in Items
        /\ d.pending = [s.pending EXCEPT ![line.key] = v]
        /\ d.raw = [s.raw EXCEPT ![line.key] = Append(Front(s.raw[line.key]),
                                                      Last(s.raw[line.key]) ++ line.text)]
    BY DEF Parted
  <2>2. line.key \in Keys /\ line.text \in Texts
    BY <1>3, LineFacts
  <2> HIDE DEF d
  <2>3. ASSUME NEW k \in Keys
        PROVE  Kept(d.raw[k], got[k] ++ TextOf(d.out, k), d.pending[k])
    <3>1. PICK b \in Texts : b = TextOf(s.out, k)
      BY <1>1, TextOfFacts
    <3>2. Kept(s.raw[k], got[k] ++ b, s.pending[k]) /\ got[k] \in Texts
      BY <3>1 DEF Matches
    <3>3. TextOf(d.out, k) = b ++ Taken(Delta(line.key, u), k)
      BY <1>1, <2>1, <3>1, TextOfFacts
    <3>4. CASE k = line.key
      <4>1. Taken(Delta(line.key, u), k) = u
        BY <3>4 DEF Taken, Delta
      <4>2. d.pending[k] = v /\ d.raw[k] = Append(Front(s.raw[k]), Last(s.raw[k]) ++ line.text)
        BY <1>1, <2>1, <2>2, <3>4
      <4>3. got[k] ++ b \in Texts /\ (got[k] ++ b) ++ u = got[k] ++ (b ++ u)
        BY <3>2, Joined, Assoc
      <4>4. PICK g \in Texts, r \in Seq(Texts) \ {<<>>}, kept \in Texts :
              g = got[k] ++ b /\ r = s.raw[k] /\ kept = s.pending[k]
        BY <1>1, <4>3
      <4>5. SplitStreamingSuffix(Restored(kept ++ line.text), KeepBytes)
              = [prefix |-> u, suffix |-> v]
        BY <2>1, <3>4, <4>4
      <4>6. Kept(Append(Front(r), Last(r) ++ line.text), g ++ u, v)
        BY <2>2, <3>2, <4>4, <4>5, KeptMore
      <4> QED
        BY <3>3, <4>1, <4>2, <4>3, <4>4, <4>6
    <3>5. CASE k # line.key
      <4>1. Taken(Delta(line.key, u), k) = <<>>
        BY <3>5 DEF Taken, Delta
      <4>2. d.pending[k] = s.pending[k] /\ d.raw[k] = s.raw[k]
        BY <1>1, <2>1, <3>5
      <4>3. TextOf(d.out, k) = b
        BY <3>3, <4>1, Empty
      <4> QED
        BY <3>2, <4>2, <4>3
    <3> QED
      BY <3>4, <3>5
  <2> QED
    BY <2>1, <2>3 DEF Matches, d
<1> QED
  BY <1>2, <1>3

LEMMA LinesMatch ==
  ASSUME OriginalsApart(Mapping), NEW got \in [Keys -> Texts], NEW event \in Seq(Lines),
         NEW start \in States, Matches(got, start)
  PROVE  Matches(got, Transformed(start, event))
<1> DEFINE S == {s \in States : Matches(got, s)}
           J == [i \in 0 .. Len(event) |-> S]
<1>1. Len(event) \in Nat /\ \A i \in 1 .. Len(event) : event[i] \in Lines
  BY LenProperties, ElementOfSeq
<1>2. \A s : s \in S <=> s \in States /\ Matches(got, s)
  OBVIOUS
<1> HIDE DEF S
<1>3. \A i \in 0 .. Len(event) : J[i] = S
  OBVIOUS
<1> HIDE DEF J
<1>4. 0 \in 0 .. Len(event) /\ Len(event) \in 0 .. Len(event)
      /\ \A i \in 1 .. Len(event) : i \in 0 .. Len(event) /\ i - 1 \in 0 .. Len(event)
  BY <1>1
<1>5. \A i \in 1 .. Len(event) : \A s \in J[i - 1] : TransformData(s, event[i]) \in J[i]
  <2> SUFFICES ASSUME NEW i \in 1 .. Len(event), NEW s \in J[i - 1]
               PROVE  TransformData(s, event[i]) \in J[i]
    OBVIOUS
  <2>1. J[i - 1] = S /\ J[i] = S /\ event[i] \in Lines
    BY <1>1, <1>3, <1>4
  <2>2. s \in States /\ Matches(got, s)
    BY <1>2, <2>1
  <2>3. TransformData(s, event[i]) \in States /\ Matches(got, TransformData(s, event[i]))
    BY <2>1, <2>2, LineMatches
  <2> QED
    BY <1>2, <2>1, <2>3
<1>6. start \in J[0]
  BY <1>2, <1>3, <1>4
<1>7. Transformed(start, event) \in J[Len(event)]
  BY <1>5, <1>6, LineByLine
<1> QED
  BY <1>2, <1>3, <1>4, <1>7

LEMMA StartMatches ==
  ASSUME TypeOK, NEW got \in [Keys -> Texts], \A k \in Keys : Kept(raw[k], got[k], pending[k]),
         NEW flush \in BOOLEAN, NEW order \in Orders(flush)
  PROVE  Matches(got, Started(order, flush))
<1>1. /\ pending \in [Keys -> Texts] /\ raw \in [Keys -> Seq(Texts) \ {<<>>}]
      /\ \A k \in Keys : CutOff(raw)[k] = IF pending[k] # <<>> THEN Append(raw[k], <<>>)
                                          ELSE raw[k]
  BY CutOffFacts DEF TypeOK
<1> DEFINE s == Started(order, flush)
<1>2. /\ s.out = FlushItems(order, pending)
      /\ s.pending = IF flush THEN Emptied ELSE pending
      /\ s.raw = IF flush THEN CutOff(raw) ELSE raw
  BY DEF Started
<1> HIDE DEF s
<1>3. ASSUME NEW k \in Keys
      PROVE  Kept(s.raw[k], got[k] ++ TextOf(s.out, k), s.pending[k])
  <2>1. PICK g \in Texts, r \in Seq(Texts) \ {<<>>}, kept \in Texts :
          g = got[k] /\ r = raw[k] /\ kept = pending[k] /\ Kept(r, g, kept)
    BY <1>1
  <2>2. CASE ~flush
    <3>1. s.out = <<>>
      BY <1>2, <2>2, NoItems DEF Orders
    <3>2. TextOf(s.out, k) = <<>>
      BY <3>1, TextOfFacts
    <3> QED
      BY <1>2, <2>1, <2>2, <3>2, Empty
  <2>3. CASE flush
    <3>1. order \in FlushOrders(pending)
      BY <2>3 DEF Orders
    <3>2. TextOf(s.out, k) = Restored(kept)
      BY <1>1, <1>2, <2>1, <3>1, FlushFacts
    <3>3. s.pending[k] = <<>>
      BY <1>2, <2>3, EmptiedFacts
    <3>4. CASE kept = <<>>
      <4>1. s.raw[k] = r /\ got[k] ++ TextOf(s.out, k) = g
        BY <1>1, <1>2, <2>1, <2>3, <3>2, <3>4, RestoredNothing, Empty
      <4> QED
        BY <2>1, <3>3, <3>4, <4>1
    <3>5. CASE kept # <<>>
      <4>1. s.raw[k] = Append(r, <<>>)
        BY <1>1, <1>2, <2>1, <2>3, <3>5
      <4>2. Kept(Append(r, <<>>), g ++ Restored(kept), <<>>)
        BY <2>1, KeptFlushed
      <4> QED
        BY <2>1, <3>2, <3>3, <4>1, <4>2
    <3> QED
      BY <3>4, <3>5
  <2> QED
    BY <2>2, <2>3
<1> QED
  BY <1>3 DEF Matches, s

StreamInv ==
  ending # "error" => \A k \in Keys : Kept(raw[k], sent[k] ++ TextOf(out, k), pending[k])

LEMMA StreamInvStarts ==
  ASSUME Init
  PROVE  StreamInv
<1>1. <<>> \in Texts /\ <<>> \in Seq(Texts) /\ <<>> ++ <<>> = <<>>
  BY EmptySeq, Empty
<1>2. Append(<<>>, <<>>) = << <<>> >>
  OBVIOUS
<1>3. Front(<< <<>> >>) = <<>> /\ Last(<< <<>> >>) = <<>>
  BY <1>1, <1>2, LastFacts
<1>4. Kept(<< <<>> >>, <<>>, <<>>)
  BY <1>3, ExpectedFacts, NothingFree DEF Kept
<1>5. ASSUME NEW k \in Keys
      PROVE  raw[k] = << <<>> >> /\ sent[k] = <<>> /\ TextOf(out, k) = <<>> /\ pending[k] = <<>>
  <2>1. out = <<>>
    BY DEF Init
  <2>2. TextOf(out, k) = <<>>
    BY <2>1, TextOfFacts
  <2> QED
    BY <2>2 DEF Init
<1> QED
  BY <1>1, <1>4, <1>5 DEF StreamInv

LEMMA StreamInvKept ==
  ASSUME OriginalsApart(Mapping), TypeOK, Phases, StreamInv, Next
  PROVE  StreamInv'
<1>1. /\ out \in Seq(Items) /\ sent \in [Keys -> Texts] /\ pending \in [Keys -> Texts]
      /\ raw \in [Keys -> Seq(Texts) \ {<<>>}]
  BY DEF TypeOK
<1>2. ASSUME UNCHANGED <<out, sent, pending, raw, ending>>
      PROVE  StreamInv'
  BY <1>2 DEF StreamInv
<1>3. ASSUME pc = "reading"
      PROVE  \A k \in Keys : Kept(raw[k], sent[k], pending[k])
  <2>1. out = <<>> /\ ending = "open"
    BY <1>3, TypeOK DEF Phases, TypeOK
  <2>2. ASSUME NEW k \in Keys
        PROVE  sent[k] ++ TextOf(out, k) = sent[k]
    <3>1. TextOf(out, k) = <<>> /\ sent[k] \in Texts
      BY <1>1, <2>1, TextOfFacts
    <3> QED
      BY <3>1, Empty
  <2> QED
    BY <2>1, <2>2 DEF StreamInv
<1>4. ASSUME NEW got \in [Keys -> Texts], NEW s, Matches(got, s), sent' = got,
             out' = s.out, pending' = s.pending, raw' = s.raw
      PROVE  StreamInv'
  BY <1>4 DEF StreamInv, Matches, Kept
<1>5. CASE ReadEvent
  <2>1. PICK event \in Events : ProcessEvent(event)
    BY <1>5 DEF ReadEvent
  <2>2. PICK order \in Orders(Flushes(event)) :
          /\ out' = Transformed(Started(order, Flushes(event)), event).out
          /\ pending' = Transformed(Started(order, Flushes(event)), event).pending
          /\ raw' = Transformed(Started(order, Flushes(event)), event).raw
    BY <2>1, ProcessIs
  <2>3. Flushes(event) \in BOOLEAN /\ event \in Seq(Lines)
    BY EventFacts DEF Flushes
  <2>4. Started(order, Flushes(event)) \in States
    BY <2>3, StartTyped
  <2>5. \A k \in Keys : Kept(raw[k], sent[k], pending[k])
    BY <1>3, <1>5 DEF ReadEvent
  <2>6. Matches(sent, Started(order, Flushes(event)))
    BY <1>1, <2>3, <2>5, StartMatches
  <2>7. PICK s : s = Transformed(Started(order, Flushes(event)), event)
    OBVIOUS
  <2>8. Matches(sent, s)
    BY <1>1, <2>3, <2>4, <2>6, <2>7, LinesMatch
  <2>9. sent' = sent
    BY <1>5 DEF ReadEvent
  <2> QED
    BY <1>1, <1>4, <2>2, <2>7, <2>8, <2>9
<1>6. CASE ReadEOF
  <2>1. PICK order \in Orders(TRUE) :
          /\ out' = Started(order, TRUE).out
          /\ pending' = Started(order, TRUE).pending
          /\ raw' = Started(order, TRUE).raw
    BY <1>6, FlushAllIs DEF ReadEOF
  <2>2. \A k \in Keys : Kept(raw[k], sent[k], pending[k])
    BY <1>3, <1>6 DEF ReadEOF
  <2>3. PICK s : s = Started(order, TRUE)
    OBVIOUS
  <2>4. Matches(sent, s)
    BY <1>1, <2>2, <2>3, StartMatches
  <2>5. sent' = sent
    BY <1>6 DEF ReadEOF
  <2> QED
    BY <1>1, <1>4, <2>1, <2>3, <2>4, <2>5
<1>7. CASE ReadError
  BY <1>7 DEF ReadError, End, StreamInv
<1>8. CASE Written
  <2>1. ending = "open"
    BY <1>8 DEF Written, Phases, TypeOK
  <2>2. PICK got \in [Keys -> Texts] : \A k \in Keys : got[k] = sent[k] ++ TextOf(out, k)
    <3>1. \A k \in Keys : sent[k] ++ TextOf(out, k) \in Texts
      BY <1>1, TextOfFacts, Joined
    <3> DEFINE g == [k \in Keys |-> sent[k] ++ TextOf(out, k)]
    <3>2. g \in [Keys -> Texts] /\ \A k \in Keys : g[k] = sent[k] ++ TextOf(out, k)
      BY <3>1
    <3> QED
      BY <3>2
  <2>3. sent' = got
    <3>1. sent' = [k \in Keys |-> sent[k] ++ TextOf(out, k)]
      BY <1>8 DEF Written, ++
    <3> QED
      BY <2>2, <3>1
  <2>4. \A k \in Keys : Kept(raw[k], got[k], pending[k])
    BY <2>1, <2>2 DEF StreamInv
  <2>5. CASE after = "flush"
    <3>1. FlushAll
      BY <1>8, <2>5 DEF Written
    <3>2. PICK order \in Orders(TRUE) :
            /\ out' = Started(order, TRUE).out
            /\ pending' = Started(order, TRUE).pending
            /\ raw' = Started(order, TRUE).raw
      BY <3>1, FlushAllIs
    <3>3. PICK s : s = Started(order, TRUE)
      OBVIOUS
    <3>4. Matches(got, s)
      BY <2>4, <3>3, StartMatches
    <3> QED
      BY <1>4, <2>3, <3>2, <3>3, <3>4
  <2>6. CASE after # "flush"
    <3>1. out' = <<>> /\ pending' = pending /\ raw' = raw
      BY <1>8, <2>6 DEF Written
    <3>2. ASSUME NEW k \in Keys
          PROVE  got[k] ++ TextOf(out', k) = got[k]
      <4>1. TextOf(<<>>, k) = <<>> /\ got[k] \in Texts
        BY TextOfFacts
      <4> QED
        BY <3>1, <4>1, Empty
    <3> QED
      BY <2>3, <2>4, <3>1, <3>2 DEF StreamInv, Kept
  <2> QED
    BY <2>5, <2>6
<1>9. CASE WriteFails
  BY <1>9 DEF WriteFails, End, StreamInv
<1>10. CASE ClientLeaves
  BY <1>2, <1>10 DEF ClientLeaves
<1>11. CASE Over
  BY <1>2, <1>11 DEF Over, vars
<1> QED
  BY <1>5, <1>6, <1>7, <1>8, <1>9, <1>10, <1>11 DEF Next

LEMMA StreamInvHolds ==
  ASSUME OriginalsApart(Mapping)
  PROVE  Spec => []StreamInv
<1>1. TypeOK /\ Phases /\ StreamInv /\ [Next]_vars => StreamInv'
  <2> SUFFICES ASSUME TypeOK, Phases, StreamInv, [Next]_vars PROVE StreamInv'
    OBVIOUS
  <2>1. CASE Next
    BY <2>1, StreamInvKept
  <2>2. CASE UNCHANGED vars
    BY <2>2 DEF vars, StreamInv
  <2> QED
    BY <2>1, <2>2
<1> QED
  BY <1>1, StreamInvStarts, Typed, PhasesHold, PTL DEF Spec

LEMMA NothingMissing ==
  ASSUME TypeOK, StreamInv
  PROVE  StreamMatchesWhole
<1>1. /\ out \in Seq(Items) /\ sent \in [Keys -> Texts] /\ pending \in [Keys -> Texts]
      /\ raw \in [Keys -> Seq(Texts) \ {<<>>}]
  BY DEF TypeOK
<1>2. ASSUME ending # "error", NEW k \in Keys
      PROVE  (sent[k] ++ TextOf(out, k)) ++ pending[k] = Expected(k)
  <2>1. PICK got \in Texts, r \in Seq(Texts) \ {<<>>}, kept \in Texts :
          got = sent[k] ++ TextOf(out, k) /\ r = raw[k] /\ kept = pending[k]
    BY <1>1, TextOfFacts, Joined
  <2>2. Kept(r, got, kept)
    BY <1>2, <2>1 DEF StreamInv
  <2>3. got ++ kept = ExpectedOf(r)
    BY <2>2, KeptInAll
  <2> QED
    BY <2>1, <2>3, ExpectedFacts
<1> QED
  BY <1>2 DEF StreamMatchesWhole, ++

(* Where the upstream cuts the text into deltas makes no difference to     *)
(* what the client reads, for originals that do not read like parts of     *)
(* placeholders.                                                           *)
THEOREM CutsMakeNoDifference ==
  ASSUME OriginalsApart(Mapping)
  PROVE  Spec => []StreamMatchesWhole
BY Typed, StreamInvHolds, NothingMissing, PTL

LEMMA CleanEnd ==
  ASSUME TypeOK, Phases, StreamMatchesWhole
  PROVE  CleanEndComplete
<1>1. pc = "ended" => ending # "open"
  BY DEF Phases
<1>2. ASSUME ending = "closed", NEW k \in Keys
      PROVE  pending[k] = <<>> /\ sent[k] = Expected(k)
  <2>1. pending[k] = <<>> /\ out = <<>>
    BY <1>2, EmptiedFacts DEF Phases
  <2>2. sent[k] \in Texts /\ TextOf(out, k) = <<>>
    BY <2>1, TextOfFacts DEF TypeOK
  <2>3. (sent[k] ++ TextOf(out, k)) ++ pending[k] = sent[k]
    BY <2>1, <2>2, Empty
  <2>4. (sent[k] ++ TextOf(out, k)) ++ pending[k] = Expected(k)
    BY <1>2 DEF StreamMatchesWhole, ++
  <2> QED
    BY <2>1, <2>3, <2>4
<1> QED
  BY <1>1, <1>2 DEF CleanEndComplete

(* A pipe that is closed without an error has carried everything, and it   *)
(* does not stay open when the goroutine has ended.                        *)
THEOREM NothingLostAtTheEnd ==
  ASSUME OriginalsApart(Mapping)
  PROVE  Spec => []CleanEndComplete
BY Typed, PhasesHold, CutsMakeNoDifference, CleanEnd, PTL

=============================================================================
