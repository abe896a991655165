--------------------------- MODULE JSONBody_proof ---------------------------
(* Proofs about JSONBody, for bodies of any length and any fields: the     *)
(* scanner protects whole values only, and misses none; replacing hits     *)
(* within strings keeps the body JSON; and a reply is restored to what the *)
(* client wrote.                                                           *)
EXTENDS JSONBody, FiniteSetTheorems, SequenceTheorems,
        WellFoundedInduction, TLAPS

-----------------------------------------------------------------------------
(* Sets of numbers: least elements, and the order of a finite set.         *)
LEMMA Least ==
  ASSUME NEW S \in SUBSET Nat, S # {}
  PROVE  \E n \in S : \A m \in S : n <= m
<1> DEFINE R == OpToRel(<, Nat)
<1>1. IsWellFoundedOn(R, Nat)
  BY NatLessThanWellFounded
<1>2. \A x, y \in Nat : x < y => <<x, y>> \in R
  BY DEF OpToRel
<1> HIDE DEF R
<1>3. PICK n \in S : \A m \in S : ~(<<m, n>> \in R)
  BY <1>1, WFMin
<1>4. \A m \in S : ~(m < n)
  BY <1>2, <1>3
<1> QED
  BY <1>4

LEMMA MinFacts ==
  ASSUME NEW S \in SUBSET Nat, S # {}
  PROVE  Min(S) \in S /\ \A m \in S : Min(S) <= m
BY Least DEF Min

LEMMA Finite ==
  ASSUME NEW S, NEW n \in Nat, S \in SUBSET (0 .. n)
  PROVE  IsFiniteSet(S) /\ Cardinality(S) \in Nat
<1>1. IsFiniteSet(0 .. n)
  BY FS_Interval
<1>2. IsFiniteSet(S)
  BY <1>1, FS_Subset
<1> QED
  BY <1>2, FS_CardinalityType

(* How many elements of S lie below x.                                     *)
Rank(S, x) == Cardinality({y \in S : y < x})

LEMMA RankFacts ==
  ASSUME NEW S, NEW n \in Nat, S \in SUBSET (0 .. n), NEW x \in Nat, NEW y \in Nat
  PROVE  /\ Rank(S, x) \in Nat
         /\ x \in S => Rank(S, x) < Cardinality(S)
         /\ x < y /\ x \in S => Rank(S, x) < Rank(S, y)
         /\ x \in S /\ y \in S /\ Rank(S, x) = Rank(S, y) => x = y
         /\ x \in S /\ x < y /\ (\A z \in S : ~(x < z /\ z < y))
            => Rank(S, y) = Rank(S, x) + 1
         /\ x <= y /\ (\A z \in S : ~(x <= z /\ z < y)) => Rank(S, y) = Rank(S, x)
<1> DEFINE Below(z) == {w \in S : w < z}
<1>1. \A z, w : w \in Below(z) <=> w \in S /\ w < z
  OBVIOUS
<1>2. \A z : Rank(S, z) = Cardinality(Below(z))
  BY DEF Rank
<1>3. IsFiniteSet(S) /\ Cardinality(S) \in Nat
  BY Finite
<1>4. \A w \in S : w \in Nat
  <2>1. \A w \in S : w \in 0 .. n
    OBVIOUS
  <2> QED
    BY <2>1
<1> HIDE DEF Below
<1>5. \A z : Below(z) \in SUBSET S
  BY <1>1
<1>6. \A z : IsFiniteSet(Below(z)) /\ Rank(S, z) \in Nat
  BY <1>2, <1>3, <1>5, FS_Subset, FS_CardinalityType
<1>7. x \in S => Rank(S, x) < Cardinality(S)
  <2> SUFFICES ASSUME x \in S PROVE Rank(S, x) < Cardinality(S)
    OBVIOUS
  <2>1. Below(x) # S
    BY <1>1
  <2>2. Cardinality(Below(x)) <= Cardinality(S) /\ Cardinality(S) # Cardinality(Below(x))
    BY <1>3, <1>5, <2>1, FS_Subset
  <2> QED
    BY <1>2, <1>3, <1>6, <2>2
<1>8. ASSUME NEW u \in Nat, NEW v \in Nat, u < v, u \in S
      PROVE  Rank(S, u) < Rank(S, v)
  <2>1. Below(u) \in SUBSET Below(v)
    <3>1. \A w \in S : w < u => w < v
      BY <1>4, <1>8
    <3> QED
      BY <1>1, <3>1
  <2>2. Below(u) # Below(v)
    BY <1>1, <1>8
  <2>3. /\ Cardinality(Below(u)) <= Cardinality(Below(v))
        /\ Cardinality(Below(v)) # Cardinality(Below(u))
    BY <1>6, <2>1, <2>2, FS_Subset
  <2> QED
    BY <1>2, <1>6, <2>3
<1>9. ASSUME x \in S, y \in S, Rank(S, x) = Rank(S, y)
      PROVE  x = y
  <2>1. CASE x < y
    BY <1>6, <1>8, <1>9, <2>1
  <2>2. CASE y < x
    BY <1>6, <1>8, <1>9, <2>2
  <2> QED
    BY <2>1, <2>2
<1>10. ASSUME x \in S, x < y, \A z \in S : ~(x < z /\ z < y)
      PROVE  Rank(S, y) = Rank(S, x) + 1
  <2>1. \A w : w \in Below(y) <=> w \in Below(x) \cup {x}
    <3>1. \A w \in S : w < y <=> w < x \/ w = x
      BY <1>4, <1>10
    <3>2. \A w : w \in Below(x) \cup {x} <=> w \in S /\ (w < x \/ w = x)
      BY <1>1, <1>10
    <3> QED
      BY <1>1, <3>1, <3>2
  <2>2. Below(y) = Below(x) \cup {x}
    BY <2>1
  <2>3. x \notin Below(x)
    BY <1>1
  <2> QED
    BY <1>2, <1>6, <2>2, <2>3, FS_AddElement
<1>11. ASSUME x <= y, \A z \in S : ~(x <= z /\ z < y)
       PROVE  Rank(S, y) = Rank(S, x)
  <2>1. \A w : w \in Below(y) <=> w \in Below(x)
    <3>1. \A w \in S : w < y <=> w < x
      BY <1>4, <1>11
    <3> QED
      BY <1>1, <3>1
  <2>2. Below(y) = Below(x)
    BY <2>1
  <2> QED
    BY <1>2, <2>2
<1> QED
  BY <1>6, <1>7, <1>8, <1>9, <1>10, <1>11

(* Ascending lists a finite set in order.                                  *)
LEMMA AscendingFacts ==
  ASSUME NEW S, NEW n \in Nat, S \in SUBSET (0 .. n)
  PROVE  /\ DOMAIN Ascending(S) = 1 .. Cardinality(S)
         /\ Len(Ascending(S)) = Cardinality(S)
         /\ \A k \in 1 .. Cardinality(S) :
              Ascending(S)[k] \in S /\ Rank(S, Ascending(S)[k]) = k - 1
         /\ \A x \in S : /\ Rank(S, x) + 1 \in 1 .. Cardinality(S)
                         /\ Ascending(S)[Rank(S, x) + 1] = x
<1> DEFINE c == Cardinality(S)
           f == [x \in S |-> Rank(S, x) + 1]
<1>1. IsFiniteSet(S) /\ c \in Nat /\ \A x \in S : x \in Nat
  <2>1. IsFiniteSet(S) /\ c \in Nat
    BY Finite
  <2>2. \A x \in S : x \in 0 .. n
    OBVIOUS
  <2> QED
    BY <2>1, <2>2
<1>2. \A x \in S : Rank(S, x) \in Nat /\ Rank(S, x) < c
  BY <1>1, RankFacts
<1>3. \A x, y \in S : Rank(S, x) = Rank(S, y) => x = y
  BY <1>1, RankFacts
<1>4. f \in Injection(S, 1 .. c)
  BY <1>1, <1>2, <1>3 DEF Injection, IsInjective
<1>5. IsFiniteSet(1 .. c) /\ Cardinality(1 .. c) = c
  BY <1>1, FS_Interval
<1>6. f \in Surjection(S, 1 .. c)
  BY <1>4, <1>5, FS_Injection
<1>7. ASSUME NEW k \in 1 .. c
      PROVE  \E x \in S : Rank(S, x) = k - 1
  <2>1. PICK x \in S : f[x] = k
    BY <1>6 DEF Surjection
  <2> QED
    BY <1>1, <1>2, <2>1
<1>8. \A k \in 1 .. c : Ascending(S)[k] = CHOOSE x \in S : Rank(S, x) = k - 1
  BY DEF Ascending, Rank
<1>9. /\ DOMAIN Ascending(S) = 1 .. c /\ Len(Ascending(S)) = c
  BY <1>1 DEF Ascending
<1>10. \A k \in 1 .. c : Ascending(S)[k] \in S /\ Rank(S, Ascending(S)[k]) = k - 1
  BY <1>7, <1>8
<1>11. ASSUME NEW x \in S
       PROVE  Rank(S, x) + 1 \in 1 .. c /\ Ascending(S)[Rank(S, x) + 1] = x
  <2>1. Rank(S, x) + 1 \in 1 .. c /\ (Rank(S, x) + 1) - 1 = Rank(S, x)
    BY <1>1, <1>2
  <2> QED
    BY <1>3, <1>10, <2>1
<1> QED
  BY <1>9, <1>10, <1>11

-----------------------------------------------------------------------------
(* What Escapes computes: a position is escaped when a backslash stands    *)
(* before it that is not itself escaped.                                   *)
Rule(s, E) == \A i \in 1 .. Len(s) : i \in E <=> i > 1 /\ s[i - 1] = B /\ i - 1 \notin E

LEMMA SomeRule ==
  ASSUME NEW T, NEW s \in Seq(T)
  PROVE  \E E \in SUBSET (1 .. Len(s)) : Rule(s, E)
<1> DEFINE Upto(n, E) == \A i \in 1 .. n : i \in E <=> i > 1 /\ s[i - 1] = B /\ i - 1 \notin E
           Some(n) == \E E \in SUBSET (1 .. n) : Upto(n, E)
           Bad == {n \in Nat : ~Some(n)}
<1>1. Some(Len(s)) => \E E \in SUBSET (1 .. Len(s)) : Rule(s, E)
  BY DEF Rule
<1>2. Some(0)
  <2>1. Upto(0, {})
    OBVIOUS
  <2> QED
    BY <2>1
<1>3. ASSUME NEW n \in Nat, n # 0, Some(n - 1)
      PROVE  Some(n)
  <2>1. PICK E \in SUBSET (1 .. n - 1) : Upto(n - 1, E)
    BY <1>3
  <2> DEFINE F == IF n > 1 /\ s[n - 1] = B /\ n - 1 \notin E THEN E \cup {n} ELSE E
  <2>2. F \in SUBSET (1 .. n) /\ \A i \in 1 .. n - 1 : i \in F <=> i \in E
    BY <1>3
  <2>3. n \in F <=> n > 1 /\ s[n - 1] = B /\ n - 1 \notin E
    BY <1>3
  <2> HIDE DEF F
  <2>4. ASSUME NEW i \in 1 .. n
        PROVE  i \in F <=> i > 1 /\ s[i - 1] = B /\ i - 1 \notin F
    <3>1. i - 1 \in 1 .. n - 1 \/ i = 1
      BY <1>3
    <3>2. CASE i = n
      BY <1>3, <2>2, <2>3, <3>1, <3>2
    <3>3. CASE i # n
      <4>1. i \in 1 .. n - 1
        BY <1>3, <3>3
      <4>2. i \in E <=> i > 1 /\ s[i - 1] = B /\ i - 1 \notin E
        BY <2>1, <4>1
      <4>3. i = 1 \/ i - 1 \in 1 .. n - 1
        BY <3>1
      <4> QED
        BY <2>2, <4>1, <4>2, <4>3
    <3> QED
      BY <3>2, <3>3
  <2>5. Upto(n, F)
    BY <2>4
  <2> QED
    BY <2>2, <2>5
<1>4. \A n : n \in Bad <=> n \in Nat /\ ~Some(n)
  OBVIOUS
<1> HIDE DEF Bad, Some
<1>5. ASSUME Bad # {} PROVE FALSE
  <2>1. Bad \in SUBSET Nat
    BY <1>4
  <2>2. PICK n \in Bad : \A m \in Bad : n <= m
    BY <1>5, <2>1, Least
  <2>3. n \in Nat /\ n # 0 /\ n - 1 \in Nat
    BY <1>2, <1>4
  <2>4. n - 1 \notin Bad
    BY <2>2, <2>3
  <2> QED
    BY <1>3, <1>4, <2>3, <2>4
<1> QED
  BY <1>1, <1>4, <1>5

Chain(s) ==
  CHOOSE f : f = [i \in 0 .. Len(s) |-> i > 1 /\ s[i - 1] = B /\ ~f[i - 1]]

LEMMA EscapesRule ==
  ASSUME NEW T, NEW s \in Seq(T)
  PROVE  Escapes(s) \in SUBSET (1 .. Len(s)) /\ Rule(s, Escapes(s))
<1>1. PICK E \in SUBSET (1 .. Len(s)) : Rule(s, E)
  BY SomeRule
<1> DEFINE f == [i \in 0 .. Len(s) |-> i \in E]
<1>2. f = [i \in 0 .. Len(s) |-> i > 1 /\ s[i - 1] = B /\ ~f[i - 1]]
  <2>1. ASSUME NEW i \in 0 .. Len(s)
        PROVE  i \in E <=> i > 1 /\ s[i - 1] = B /\ ~f[i - 1]
    <3>1. CASE i > 1
      <4>1. i - 1 \in 0 .. Len(s) /\ i \in 1 .. Len(s)
        BY <3>1
      <4>2. f[i - 1] = (i - 1 \in E)
        BY <4>1
      <4> HIDE DEF f
      <4>3. i \in E <=> i > 1 /\ s[i - 1] = B /\ ~(i - 1 \in E)
        BY <1>1, <4>1 DEF Rule
      <4> QED
        BY <4>2, <4>3
    <3>2. CASE ~(i > 1)
      BY <1>1, <3>2 DEF Rule
    <3> QED
      BY <3>1, <3>2
  <2> QED
    BY <2>1
<1> HIDE DEF f
<1>3. Chain(s) = [i \in 0 .. Len(s) |-> i > 1 /\ s[i - 1] = B /\ ~Chain(s)[i - 1]]
  BY <1>2 DEF Chain
<1>4. Escapes(s) = {i \in DOMAIN s : Chain(s)[i]}
  BY DEF Escapes, Chain
<1>5. DOMAIN s = 1 .. Len(s) /\ Len(s) \in Nat
  OBVIOUS
<1>6. ASSUME NEW i \in 0 .. Len(s)
      PROVE  Chain(s)[i] = (i > 1 /\ s[i - 1] = B /\ ~Chain(s)[i - 1])
  BY <1>3
<1>7. ASSUME NEW i \in 1 .. Len(s)
      PROVE  i \in Escapes(s) <=> i > 1 /\ s[i - 1] = B /\ i - 1 \notin Escapes(s)
  <2>1. CASE i > 1
    <3>1. i - 1 \in 1 .. Len(s) /\ i \in 0 .. Len(s)
      BY <1>5, <2>1
    <3> QED
      BY <1>4, <1>5, <1>6, <3>1
  <2>2. CASE ~(i > 1)
    <3>1. i \in 0 .. Len(s)
      BY <1>5
    <3>2. ~Chain(s)[i]
      BY <1>6, <2>2, <3>1
    <3> QED
      BY <1>4, <2>2, <3>2
  <2> QED
    BY <2>1, <2>2
<1> QED
  BY <1>4, <1>5, <1>7 DEF Rule

(* Reading from behind a symbol that is no backslash changes nothing: what *)
(* scanJSONStringEnd sees is what a reader of the whole body sees.         *)
LEMMA EscapesRestart ==
  ASSUME NEW T, NEW s \in Seq(T), NEW v \in 1 .. Len(s), s[v] # B,
         NEW q \in 1 .. Len(s) - v
  PROVE  q \in Escapes(SubSeq(s, v + 1, Len(s))) <=> v + q \in Escapes(s)
<1> DEFINE rest == SubSeq(s, v + 1, Len(s))
           Same(i) == i \in Escapes(rest) <=> v + i \in Escapes(s)
           Bad == {i \in 1 .. Len(s) - v : ~Same(i)}
<1>1. /\ Len(s) \in Nat /\ rest \in Seq(T) /\ Len(rest) = Len(s) - v
      /\ \A i \in 1 .. Len(s) - v : rest[i] = s[v + i]
  OBVIOUS
<1>2. \A i : i \in Bad <=> i \in 1 .. Len(s) - v /\ ~Same(i)
  OBVIOUS
<1> HIDE DEF rest, Bad
<1>3. Rule(rest, Escapes(rest)) /\ Rule(s, Escapes(s))
  BY <1>1, EscapesRule
<1>4. ASSUME Bad # {} PROVE FALSE
  <2>1. Bad \in SUBSET Nat
    <3>1. \A i \in 1 .. Len(s) - v : i \in Nat
      OBVIOUS
    <3> QED
      BY <1>2, <3>1
  <2>2. PICK i \in Bad : \A j \in Bad : i <= j
    BY <1>4, <2>1, Least
  <2>3. i \in 1 .. Len(s) - v
    BY <1>2
  <2>4. i \in Escapes(rest) <=> i > 1 /\ rest[i - 1] = B /\ i - 1 \notin Escapes(rest)
    BY <1>1, <1>3, <2>3 DEF Rule
  <2>5. v + i \in Escapes(s) <=> v + i > 1 /\ s[v + i - 1] = B /\ v + i - 1 \notin Escapes(s)
    BY <1>1, <1>3, <2>3 DEF Rule
  <2>6. CASE i = 1
    BY <1>2, <2>4, <2>5, <2>6
  <2>7. CASE i # 1
    <3>1. i - 1 \in 1 .. Len(s) - v /\ v + (i - 1) = v + i - 1 /\ v + i > 1 /\ i > 1
      BY <1>1, <2>3, <2>7
    <3>2. i - 1 \notin Bad
      BY <2>2, <2>3
    <3>3. Same(i - 1)
      BY <1>2, <3>1, <3>2
    <3> QED
      BY <1>1, <1>2, <2>4, <2>5, <3>1, <3>3
  <2> QED
    BY <2>6, <2>7
<1>5. Same(q)
  BY <1>2, <1>4
<1> QED
  BY <1>5 DEF rest

LEMMA QuotesAre ==
  ASSUME NEW T, NEW s \in Seq(T)
  PROVE  /\ Quotes(s) \in SUBSET (0 .. Len(s))
         /\ \A i : i \in Quotes(s) <=> i \in 1 .. Len(s) /\ s[i] = Q /\ i \notin Escapes(s)
<1>1. \A i : i \in Quotes(s) <=> i \in 1 .. Len(s) /\ s[i] = Q /\ i \notin Escapes(s)
  BY DEF Quotes
<1>2. \A i \in 1 .. Len(s) : i \in 0 .. Len(s)
  OBVIOUS
<1> QED
  BY <1>1, <1>2

LEMMA QuotesRestart ==
  ASSUME NEW T, NEW s \in Seq(T), NEW v \in 1 .. Len(s), s[v] # B, NEW i
  PROVE  (\E q \in Quotes(SubSeq(s, v + 1, Len(s))) : i = v + q) <=> i \in Quotes(s) /\ i > v
<1> DEFINE rest == SubSeq(s, v + 1, Len(s))
<1>1. /\ Len(s) \in Nat /\ rest \in Seq(T) /\ Len(rest) = Len(s) - v
      /\ \A j \in 1 .. Len(s) - v : rest[j] = s[v + j]
  OBVIOUS
<1>2. \A q \in 1 .. Len(s) - v : q \in Escapes(rest) <=> v + q \in Escapes(s)
  BY EscapesRestart
<1> HIDE DEF rest
<1>3. \A q : q \in Quotes(rest) <=> q \in 1 .. Len(s) - v /\ s[v + q] = Q /\ v + q \notin Escapes(s)
  BY <1>1, <1>2, QuotesAre
<1>4. ASSUME NEW q \in Quotes(rest), i = v + q
      PROVE  i \in Quotes(s) /\ i > v
  <2>1. q \in 1 .. Len(s) - v /\ s[i] = Q /\ i \notin Escapes(s)
    BY <1>3, <1>4
  <2>2. i \in 1 .. Len(s) /\ i > v
    BY <1>1, <1>4, <2>1
  <2> QED
    BY <2>1, <2>2, QuotesAre
<1>5. ASSUME i \in Quotes(s), i > v
      PROVE  \E q \in Quotes(rest) : i = v + q
  <2>1. i \in 1 .. Len(s) /\ s[i] = Q /\ i \notin Escapes(s)
    BY <1>5, QuotesAre
  <2>2. i - v \in 1 .. Len(s) - v /\ i = v + (i - v)
    BY <1>1, <1>5, <2>1
  <2>3. i - v \in Quotes(rest)
    BY <1>3, <2>1, <2>2
  <2> QED
    BY <2>2, <2>3
<1> QED
  BY <1>4, <1>5 DEF rest

-----------------------------------------------------------------------------
(* A string stands between an opening quote and the next one: the quotes   *)
(* with an even number of quotes before them open, the others close.       *)
Opens(s, a)  == a \in Quotes(s) /\ Rank(Quotes(s), a) % 2 = 0
Closes(s, b) == b \in Quotes(s) /\ Rank(Quotes(s), b) % 2 = 1

StringAt(s, a, b) ==
  Opens(s, a) /\ b \in Quotes(s) /\ Rank(Quotes(s), b) = Rank(Quotes(s), a) + 1

LEMMA StringAtFacts ==
  ASSUME NEW T, NEW s \in Seq(T), NEW a, NEW b, StringAt(s, a, b)
  PROVE  /\ a \in 1 .. Len(s) /\ b \in 1 .. Len(s) /\ a < b
         /\ s[a] = Q /\ s[b] = Q /\ Closes(s, b)
         /\ \A q \in Quotes(s) : ~(a < q /\ q < b)
<1> DEFINE S == Quotes(s)
<1>1. /\ S \in SUBSET (0 .. Len(s)) /\ Len(s) \in Nat
      /\ \A i \in S : i \in Nat /\ i \in 1 .. Len(s) /\ s[i] = Q
  BY QuotesAre
<1>2. a \in S /\ b \in S /\ Rank(S, a) % 2 = 0 /\ Rank(S, b) = Rank(S, a) + 1
  BY DEF StringAt, Opens
<1> HIDE DEF S
<1>3. \A x \in S : Rank(S, x) \in Nat
  BY <1>1, RankFacts
<1>4. \A x, y \in S : x < y => Rank(S, x) < Rank(S, y)
  BY <1>1, RankFacts
<1>5. a < b
  <2>1. CASE b < a
    BY <1>2, <1>3, <1>4, <2>1
  <2>2. CASE b = a
    BY <1>2, <1>3, <2>2
  <2> QED
    BY <1>1, <1>2, <2>1, <2>2
<1>6. Rank(S, b) % 2 = 1
  BY <1>2, <1>3
<1>7. ASSUME NEW q \in S, a < q, q < b
      PROVE  FALSE
  <2>1. Rank(S, a) < Rank(S, q) /\ Rank(S, q) < Rank(S, b)
    BY <1>2, <1>4, <1>7
  <2> QED
    BY <1>2, <1>3, <2>1
<1> QED
  BY <1>1, <1>2, <1>5, <1>6, <1>7 DEF Closes, S

LEMMA OpenedIsClosed ==
  ASSUME NEW T, NEW s \in Seq(T), Closed(s), NEW a, Opens(s, a)
  PROVE  \E b : StringAt(s, a, b)
<1> DEFINE S == Quotes(s)
           n == Cardinality(S)
<1>1. S \in SUBSET (0 .. Len(s)) /\ Len(s) \in Nat
  BY QuotesAre
<1>2. a \in S /\ Rank(S, a) % 2 = 0 /\ n % 2 = 0
  BY DEF Opens, Closed
<1> HIDE DEF S
<1>3. n \in Nat
  BY <1>1, Finite
<1>4. a \in Nat
  <2>1. a \in 0 .. Len(s)
    BY <1>1, <1>2
  <2> QED
    BY <1>1, <2>1
<1>5. Rank(S, a) \in Nat /\ Rank(S, a) < n
  BY <1>1, <1>2, <1>4, RankFacts
<1>6. Rank(S, a) + 2 \in 1 .. n
  BY <1>2, <1>3, <1>5
<1>7. \A k \in 1 .. n : Ascending(S)[k] \in S /\ Rank(S, Ascending(S)[k]) = k - 1
  BY <1>1, AscendingFacts
<1>8. PICK b : b \in S /\ Rank(S, b) = (Rank(S, a) + 2) - 1
  BY <1>6, <1>7
<1>9. Rank(S, b) = Rank(S, a) + 1
  BY <1>5, <1>8
<1> QED
  BY <1>8, <1>9 DEF StringAt, S

LEMMA ClosedIsOpened ==
  ASSUME NEW T, NEW s \in Seq(T), NEW b, Closes(s, b)
  PROVE  \E a : StringAt(s, a, b)
<1> DEFINE S == Quotes(s)
           n == Cardinality(S)
<1>1. S \in SUBSET (0 .. Len(s)) /\ Len(s) \in Nat
  BY QuotesAre
<1>2. b \in S /\ Rank(S, b) % 2 = 1
  BY DEF Closes
<1> HIDE DEF S
<1>3. n \in Nat
  BY <1>1, Finite
<1>4. b \in Nat
  <2>1. b \in 0 .. Len(s)
    BY <1>1, <1>2
  <2> QED
    BY <1>1, <2>1
<1>5. Rank(S, b) \in Nat /\ Rank(S, b) < n
  BY <1>1, <1>2, <1>4, RankFacts
<1>6. Rank(S, b) \in 1 .. n
  BY <1>2, <1>3, <1>5
<1>7. \A k \in 1 .. n : Ascending(S)[k] \in S /\ Rank(S, Ascending(S)[k]) = k - 1
  BY <1>1, AscendingFacts
<1>8. PICK a : a \in S /\ Rank(S, a) = Rank(S, b) - 1
  BY <1>6, <1>7
<1>9. Rank(S, b) = Rank(S, a) + 1 /\ Rank(S, a) % 2 = 0
  BY <1>2, <1>5, <1>8
<1> QED
  BY <1>2, <1>8, <1>9 DEF StringAt, Opens, S

(* Where the k-th string stands, by the list q of the quotes.              *)
KthAt(s, k, q) ==
  /\ 2 * k - 1 \in DOMAIN q /\ 2 * k \in DOMAIN q
  /\ Strings(s)[k] = [start |-> q[2 * k - 1] - 1, end |-> q[2 * k]]
  /\ StringAt(s, q[2 * k - 1], q[2 * k])

LEMMA KthString ==
  ASSUME NEW T, NEW s \in Seq(T), NEW q, q = Ascending(Quotes(s))
  PROVE  /\ DOMAIN Strings(s) = 1 .. Cardinality(Quotes(s)) \div 2
         /\ \A k \in DOMAIN Strings(s) : KthAt(s, k, q)
<1> DEFINE S == Quotes(s)
           n == Cardinality(S)
<1>1. S \in SUBSET (0 .. Len(s)) /\ Len(s) \in Nat
  BY QuotesAre
<1>2. Strings(s) = [k \in 1 .. Len(q) \div 2 |-> [start |-> q[2 * k - 1] - 1, end |-> q[2 * k]]]
  BY DEF Strings
<1> HIDE DEF S
<1>3. n \in Nat
  BY <1>1, Finite
<1>4. Len(q) = n /\ DOMAIN q = 1 .. n
  BY <1>1, AscendingFacts DEF S
<1>5. \A k \in 1 .. n : q[k] \in S /\ Rank(S, q[k]) = k - 1
  BY <1>1, AscendingFacts DEF S
<1> HIDE DEF n
<1>6. DOMAIN Strings(s) = 1 .. n \div 2
  BY <1>2, <1>4
<1>7. ASSUME NEW k \in 1 .. n \div 2
      PROVE  KthAt(s, k, q)
  <2>1. 2 * k - 1 \in 1 .. n /\ 2 * k \in 1 .. n
    BY <1>3
  <2>2. /\ q[2 * k - 1] \in S /\ Rank(S, q[2 * k - 1]) = (2 * k - 1) - 1
        /\ q[2 * k] \in S /\ Rank(S, q[2 * k]) = 2 * k - 1
    BY <1>5, <2>1
  <2>3. /\ Rank(S, q[2 * k - 1]) % 2 = 0
        /\ Rank(S, q[2 * k]) = Rank(S, q[2 * k - 1]) + 1
    <3>1. ((2 * k - 1) - 1) % 2 = 0 /\ 2 * k - 1 = ((2 * k - 1) - 1) + 1
      BY <1>3
    <3> QED
      BY <2>2, <3>1
  <2>4. StringAt(s, q[2 * k - 1], q[2 * k])
    BY <2>2, <2>3 DEF StringAt, Opens, S
  <2>5. Strings(s)[k] = [start |-> q[2 * k - 1] - 1, end |-> q[2 * k]]
    BY <1>2, <1>4
  <2> QED
    BY <1>4, <2>1, <2>4, <2>5 DEF KthAt
<1> QED
  BY <1>6, <1>7 DEF n, S

LEMMA StringsAre ==
  ASSUME NEW T, NEW s \in Seq(T), NEW r
  PROVE  r \in ToSet(Strings(s)) <=>
           \E a, b : StringAt(s, a, b) /\ r = [start |-> a - 1, end |-> b]
<1> DEFINE S == Quotes(s)
           n == Cardinality(S)
           q == Ascending(S)
<1>1. S \in SUBSET (0 .. Len(s)) /\ Len(s) \in Nat
  BY QuotesAre
<1>2. Strings(s) = [k \in 1 .. Len(q) \div 2 |-> [start |-> q[2 * k - 1] - 1, end |-> q[2 * k]]]
  BY DEF Strings
<1>3. r \in ToSet(Strings(s)) <=> \E k \in DOMAIN Strings(s) : r = Strings(s)[k]
  BY DEF ToSet
<1> HIDE DEF S, q
<1>5. n \in Nat
  BY <1>1, Finite
<1>6. Len(q) = n
  BY <1>1, AscendingFacts DEF q
<1>7. \A k \in 1 .. n : q[k] \in S /\ Rank(S, q[k]) = k - 1
  BY <1>1, AscendingFacts DEF q
<1>8. \A x \in S : Rank(S, x) + 1 \in 1 .. n /\ q[Rank(S, x) + 1] = x
  BY <1>1, AscendingFacts DEF q
<1>9. r \in ToSet(Strings(s)) <=>
        \E k \in 1 .. n \div 2 : r = [start |-> q[2 * k - 1] - 1, end |-> q[2 * k]]
  BY <1>2, <1>3, <1>6
<1> HIDE DEF n
<1>10. ASSUME NEW k \in 1 .. n \div 2
       PROVE  StringAt(s, q[2 * k - 1], q[2 * k])
  BY KthString DEF KthAt, n, q, S
<1>11. ASSUME NEW a, NEW b, StringAt(s, a, b)
       PROVE  \E k \in 1 .. n \div 2 : a = q[2 * k - 1] /\ b = q[2 * k]
  <2>1. a \in S /\ b \in S /\ Rank(S, a) % 2 = 0 /\ Rank(S, b) = Rank(S, a) + 1
    BY <1>11 DEF StringAt, Opens, S
  <2>2. a \in Nat
    <3>1. a \in 0 .. Len(s)
      BY <1>1, <2>1
    <3> QED
      BY <1>1, <3>1
  <2>3. Rank(S, a) \in Nat
    BY <1>1, <2>2, RankFacts
  <2>4. /\ Rank(S, a) + 1 \in 1 .. n /\ q[Rank(S, a) + 1] = a
        /\ Rank(S, b) + 1 \in 1 .. n /\ q[Rank(S, b) + 1] = b
    BY <1>8, <2>1
  <2> DEFINE h == Rank(S, a) \div 2 + 1
  <2>5. /\ h \in 1 .. n \div 2
        /\ 2 * h - 1 = Rank(S, a) + 1 /\ 2 * h = Rank(S, b) + 1
    BY <1>5, <2>1, <2>3, <2>4
  <2> HIDE DEF h
  <2>6. a = q[2 * h - 1] /\ b = q[2 * h]
    BY <2>4, <2>5
  <2> QED
    BY <2>5, <2>6
<1>12. ASSUME NEW k \in 1 .. n \div 2, r = [start |-> q[2 * k - 1] - 1, end |-> q[2 * k]]
       PROVE  \E a, b : StringAt(s, a, b) /\ r = [start |-> a - 1, end |-> b]
  BY <1>10, <1>12
<1>13. ASSUME NEW a, NEW b, StringAt(s, a, b), r = [start |-> a - 1, end |-> b]
       PROVE  \E k \in 1 .. n \div 2 : r = [start |-> q[2 * k - 1] - 1, end |-> q[2 * k]]
  <2>1. PICK k \in 1 .. n \div 2 : a = q[2 * k - 1] /\ b = q[2 * k]
    BY <1>11, <1>13
  <2> QED
    BY <1>13, <2>1
<1> QED
  BY <1>9, <1>12, <1>13

-----------------------------------------------------------------------------
(* Between the strings of a valid body there is nothing but the symbols of *)
(* an object, and a colon stands at every fourth place.                    *)
Symbols == {"{", Q, ":", "0", "}", ","}

Outside(s) == {i \in DOMAIN s : Rank(Quotes(s), i) % 2 = 0 /\ s[i] # Space}

LEMMA Fourths ==
  ASSUME NEW n \in Nat, n % 4 = 1
  PROVE  (n - 1) \div 4 \in Nat /\ n = 4 * ((n - 1) \div 4) + 1
<1> DEFINE m == n \div 4
<1>1. m \in Nat /\ n = 4 * m + (n % 4)
  OBVIOUS
<1> HIDE DEF m
<1>2. n - 1 = 4 * m
  BY <1>1
<1>3. (4 * m) \div 4 = m
  BY <1>1
<1> QED
  BY <1>1, <1>2, <1>3

LEMMA ObjectSymbols ==
  ASSUME NEW o, Len(o) \in Nat, IsObject(o), NEW k \in 1 .. Len(o)
  PROVE  o[k] \in Symbols /\ (o[k] = ":" => k % 4 = 3)
<1> DEFINE j == (k + 2) \div 4
<1>1. /\ Len(o) % 4 = 1 /\ Len(o) > 1 /\ o[1] = "{"
      /\ \A i \in 1 .. (Len(o) - 1) \div 4 :
           /\ o[4 * i - 2] = Q /\ o[4 * i - 1] = ":" /\ o[4 * i] \in {Q, "0"}
           /\ o[4 * i + 1] = IF 4 * i + 1 = Len(o) THEN "}" ELSE ","
  BY DEF IsObject
<1>2. Q # ":"
  BY DEF Q
<1>3. CASE k = 1
  BY <1>1, <1>3 DEF Symbols
<1>4. CASE k # 1
  <2>1. /\ j \in 1 .. (Len(o) - 1) \div 4
        /\ k = 4 * j - 2 \/ k = 4 * j - 1 \/ k = 4 * j \/ k = 4 * j + 1
    <3> DEFINE m == (Len(o) - 1) \div 4
    <3>1. k \in Nat /\ 2 <= k /\ k <= Len(o)
      BY <1>4
    <3>2. m \in Nat /\ Len(o) = 4 * m + 1
      BY <1>1, Fourths
    <3>3. j \in Nat /\ 4 * j <= k + 2 /\ k + 2 < 4 * j + 4
      BY <3>1
    <3> HIDE DEF m, j
    <3>4. 1 <= j /\ j <= m
      BY <3>1, <3>2, <3>3
    <3>5. k = 4 * j - 2 \/ k = 4 * j - 1 \/ k = 4 * j \/ k = 4 * j + 1
      BY <3>1, <3>3
    <3> QED
      BY <3>2, <3>3, <3>4, <3>5 DEF m
  <2> HIDE DEF j
  <2>2. /\ o[4 * j - 2] = Q /\ o[4 * j - 1] = ":" /\ o[4 * j] \in {Q, "0"}
        /\ o[4 * j + 1] \in {"}", ","}
    BY <1>1, <2>1
  <2>3. (4 * j - 1) % 4 = 3
    BY <2>1
  <2> QED
    BY <1>2, <2>1, <2>2, <2>3 DEF Symbols
<1> QED
  BY <1>3, <1>4

LEMMA OutsideSymbols ==
  ASSUME NEW T, NEW s \in Seq(T), Valid(s), NEW i \in Outside(s)
  PROVE  /\ Rank(Outside(s), i) \in Nat
         /\ s[i] \in Symbols
         /\ s[i] = ":" => (Rank(Outside(s), i) + 1) % 4 = 3
<1> DEFINE S == Outside(s)
           n == Cardinality(S)
           at == Ascending(S)
<1>1. S \in SUBSET (0 .. Len(s)) /\ Len(s) \in Nat /\ i \in Nat
  BY DEF Outside
<1>2. Outline(s) = [k \in DOMAIN at |-> s[at[k]]]
  BY DEF Outline, Outside, Rank
<1>3. IsObject(Outline(s))
  BY DEF Valid
<1> HIDE DEF S, at
<1>4. n \in Nat
  BY <1>1, Finite
<1>5. DOMAIN at = 1 .. n
  BY <1>1, AscendingFacts DEF at
<1>6. Rank(S, i) + 1 \in 1 .. n /\ at[Rank(S, i) + 1] = i
  BY <1>1, AscendingFacts DEF at, S
<1>7. Rank(S, i) \in Nat
  BY <1>1, RankFacts
<1> DEFINE o == Outline(s)
           k == Rank(S, i) + 1
<1> HIDE DEF n
<1>8. Len(o) = n /\ o[k] = s[i] /\ k \in 1 .. n
  BY <1>2, <1>4, <1>5, <1>6
<1> HIDE DEF o, k
<1>9. o[k] \in Symbols /\ (o[k] = ":" => k % 4 = 3)
  BY <1>3, <1>4, <1>8, ObjectSymbols DEF o
<1> QED
  BY <1>7, <1>8, <1>9 DEF k, S

(* Where a field's name stands before a quote, the quote closes a string.  *)
LEMMA NameIsInString ==
  ASSUME NEW T, NEW s \in Seq(T), Valid(s),
         NEW f \in ToSet(Fields), NEW p \in 2 .. Len(s), s[p - 1] = f, s[p] = Q
  PROVE  Closes(s, p)
<1> DEFINE S == Quotes(s)
<1>1. /\ S \in SUBSET (0 .. Len(s)) /\ Len(s) \in Nat
      /\ \A i : i \in S <=> i \in 1 .. Len(s) /\ s[i] = Q /\ i \notin Escapes(s)
  BY QuotesAre
<1>2. f \notin Symbols /\ f # Q /\ f # B /\ f # Space
  BY JSONBodyAssumption DEF Symbols
<1> HIDE DEF S
<1>3. p \in 1 .. Len(s) /\ p - 1 \in 1 .. Len(s) /\ p \in Nat /\ p - 1 \in Nat
  BY <1>1
<1>4. p \notin Escapes(s)
  BY <1>2, <1>3, EscapesRule DEF Rule
<1>5. p \in S /\ p - 1 \notin S
  BY <1>1, <1>2, <1>3, <1>4
<1>6. Rank(S, p) \in Nat /\ Rank(S, p) = Rank(S, p - 1)
  <2>1. \A z \in S : ~(p - 1 <= z /\ z < p)
    <3> SUFFICES ASSUME NEW z \in S, p - 1 <= z, z < p PROVE FALSE
      OBVIOUS
    <3>1. z \in 1 .. Len(s)
      BY <1>1
    <3>2. z = p - 1
      BY <1>3, <3>1
    <3> QED
      BY <1>5, <3>2
  <2>2. p - 1 <= p
    BY <1>3
  <2> QED
    BY <1>1, <1>3, <2>1, <2>2, RankFacts
<1>7. ASSUME Rank(S, p) % 2 = 0 PROVE FALSE
  <2>1. p - 1 \in Outside(s)
    BY <1>2, <1>3, <1>6, <1>7 DEF Outside, S
  <2> QED
    BY <1>2, <2>1, OutsideSymbols
<1>8. Rank(S, p) % 2 = 1
  BY <1>6, <1>7
<1> QED
  BY <1>5, <1>8 DEF Closes, S

(* A colon and spaces join what stands at p and at v.                      *)
JoinedBy(s, p, c, v) ==
  c \in p + 1 .. v - 1 /\ s[c] = ":" /\ \A i \in (p + 1 .. v - 1) \ {c} : s[i] = Space

LEMMA JoinedFacts ==
  ASSUME NEW T, NEW s \in Seq(T), NEW p, NEW c, NEW v \in 1 .. Len(s),
         Closes(s, p), JoinedBy(s, p, c, v)
  PROVE  /\ p \in 1 .. Len(s) /\ c \in 1 .. Len(s) /\ p < c /\ c < v
         /\ c \in Outside(s)
         /\ \A i \in Outside(s) : ~(p < i /\ i < v /\ i # c)
         /\ \A q \in Quotes(s) : ~(p < q /\ q < v)
         /\ s[v] = Q => Opens(s, v) /\ v \in Outside(s)
<1> DEFINE S == Quotes(s)
<1>1. /\ S \in SUBSET (0 .. Len(s)) /\ Len(s) \in Nat
      /\ \A i : i \in S <=> i \in 1 .. Len(s) /\ s[i] = Q /\ i \notin Escapes(s)
  BY QuotesAre
<1>2. p \in S /\ Rank(S, p) % 2 = 1
  BY DEF Closes
<1>3. Q # Space /\ Q # ":" /\ B # Space /\ B # ":" /\ Space # ":"
  BY DEF Q, B, Space
<1> HIDE DEF S
<1>4. p \in 1 .. Len(s) /\ p \in Nat /\ v \in Nat
  BY <1>1, <1>2
<1>5. /\ c \in 1 .. Len(s) /\ c \in Nat /\ p < c /\ c < v /\ s[c] = ":"
      /\ \A i \in 1 .. Len(s) : p < i /\ i < v /\ i # c => s[i] = Space
  BY <1>1, <1>4 DEF JoinedBy
<1>6. \A q \in S : ~(p < q /\ q < v)
  BY <1>1, <1>3, <1>5
<1>7. \A i \in Outside(s) : ~(p < i /\ i < v /\ i # c)
  BY <1>5 DEF Outside
<1>8. Rank(S, p) \in Nat
  BY <1>1, <1>4, RankFacts
<1>9. Rank(S, c) = Rank(S, p) + 1 /\ Rank(S, v) = Rank(S, p) + 1
  <2>1. (\A z \in S : ~(p < z /\ z < c)) /\ p < v
    <3>1. \A z \in S : z \in Nat
      BY <1>1
    <3> QED
      BY <1>4, <1>5, <1>6, <3>1
  <2> QED
    BY <1>1, <1>2, <1>4, <1>5, <1>6, <2>1, RankFacts
<1>10. (Rank(S, p) + 1) % 2 = 0
  BY <1>2, <1>8
<1>11. c \in Outside(s)
  BY <1>3, <1>5, <1>9, <1>10 DEF Outside, S
<1>12. ASSUME s[v] = Q
       PROVE  Opens(s, v) /\ v \in Outside(s)
  <2>1. v - 1 \in 1 .. Len(s) /\ s[v - 1] # B
    <3>1. v - 1 \in 1 .. Len(s)
      BY <1>1, <1>4, <1>5
    <3>2. CASE v - 1 = c
      BY <1>3, <1>5, <3>1, <3>2
    <3>3. CASE v - 1 # c
      <4>1. p < v - 1 /\ v - 1 < v
        BY <1>4, <1>5
      <4> QED
        BY <1>3, <1>5, <3>1, <3>3, <4>1
    <3> QED
      BY <3>1, <3>2, <3>3
  <2>2. v \notin Escapes(s)
    BY <2>1, EscapesRule DEF Rule
  <2>3. v \in S
    BY <1>1, <1>12, <2>2
  <2> QED
    BY <1>3, <1>9, <1>10, <1>12, <2>3 DEF Opens, Outside, S
<1> QED
  BY <1>4, <1>5, <1>6, <1>7, <1>11, <1>12 DEF S

(* No value of a valid body is the key of a member as well.                *)
LEMMA NoKeyAsValue ==
  ASSUME NEW T, NEW s \in Seq(T), Valid(s),
         NEW p, NEW c, NEW v \in 1 .. Len(s), NEW e, NEW d, NEW w \in 1 .. Len(s),
         Closes(s, p), JoinedBy(s, p, c, v), StringAt(s, v, e), JoinedBy(s, e, d, w)
  PROVE  FALSE
<1> DEFINE S == Quotes(s)
           O == Outside(s)
<1>1. /\ Len(s) \in Nat /\ S \in SUBSET (0 .. Len(s)) /\ O \in SUBSET (0 .. Len(s))
      /\ \A i \in O : i \in 1 .. Len(s) /\ Rank(S, i) % 2 = 0
  <2>1. O \in SUBSET (0 .. Len(s))
    BY DEF Outside
  <2> QED
    BY <2>1, QuotesAre DEF Outside
<1>2. /\ v < e /\ e \in 1 .. Len(s) /\ s[v] = Q /\ Closes(s, e)
      /\ \A q \in S : ~(v < q /\ q < e)
      /\ v \in S /\ Rank(S, v) % 2 = 0
  BY StringAtFacts DEF StringAt, Opens
<1>3. /\ c \in O /\ v \in O /\ c < v
      /\ \A i \in O : ~(p < i /\ i < v /\ i # c)
      /\ p < c /\ p \in 1 .. Len(s)
  BY <1>2, JoinedFacts
<1>4. /\ d \in O /\ e < d
      /\ \A i \in O : ~(e < i /\ i < w /\ i # d)
      /\ d < w
  BY <1>2, JoinedFacts
<1> HIDE DEF S, O
<1>5. \A i \in O : i \in Nat
  BY <1>1
<1>6. \A i \in O : ~(c < i /\ i < v)
  BY <1>1, <1>3, <1>5
<1>7. \A i \in O : ~(v < i /\ i < d)
  <2> SUFFICES ASSUME NEW i \in O, v < i, i < d PROVE FALSE
    OBVIOUS
  <2>1. i \in Nat /\ v \in Nat /\ e \in Nat
    BY <1>2, <1>5
  <2>2. CASE i <= e
    <3>1. \A z \in S : ~(v < z /\ z < i)
      <4>1. \A z \in S : z \in Nat
        BY <1>1
      <4> QED
        BY <1>2, <2>1, <2>2, <4>1
    <3>2. Rank(S, i) = Rank(S, v) + 1 /\ Rank(S, v) \in Nat
      BY <1>1, <1>2, <2>1, <3>1, RankFacts
    <3>3. Rank(S, i) % 2 = 0
      BY <1>1
    <3> QED
      BY <1>2, <3>2, <3>3
  <2>3. CASE e < i
    <3>1. d \in Nat /\ w \in Nat /\ i < w /\ i # d
      BY <1>4, <1>5, <2>1
    <3> QED
      BY <1>4, <2>3, <3>1
  <2> QED
    BY <2>1, <2>2, <2>3
<1>8. Rank(O, v) = Rank(O, c) + 1 /\ Rank(O, c) \in Nat
  BY <1>1, <1>3, <1>5, <1>6, RankFacts
<1>9. Rank(O, d) = Rank(O, v) + 1
  <2>1. v < d
    BY <1>2, <1>4, <1>5
  <2> QED
    BY <1>1, <1>3, <1>4, <1>5, <1>7, <2>1, RankFacts
<1>10. s[c] = ":" /\ s[d] = ":"
  BY DEF JoinedBy
<1>11. (Rank(O, c) + 1) % 4 = 3 /\ (Rank(O, d) + 1) % 4 = 3
  BY <1>3, <1>4, <1>10, OutsideSymbols DEF O
<1> QED
  BY <1>8, <1>9, <1>11

-----------------------------------------------------------------------------
(* What the scanner computes from one occurrence of a field's name.        *)
LEMMA SkipFacts ==
  ASSUME NEW T, body \in Seq(T), NEW i \in 0 .. Len(body)
  PROVE  /\ SkipSpace(i) \in i .. Len(body)
         /\ SkipSpace(i) = Len(body) \/ body[SkipSpace(i) + 1] # Space
         /\ \A x \in i + 1 .. SkipSpace(i) : body[x] = Space
<1> DEFINE S == {j \in i .. Len(body) : j = Len(body) \/ body[j + 1] # Space}
           j == SkipSpace(i)
<1>1. Len(body) \in Nat /\ i \in Nat /\ i <= Len(body)
  OBVIOUS
<1>2. \A x : x \in S <=> x \in i .. Len(body) /\ (x = Len(body) \/ body[x + 1] # Space)
  OBVIOUS
<1>3. SkipSpace(i) = Min(S)
  BY DEF SkipSpace
<1> HIDE DEF S
<1>4. S \in SUBSET Nat /\ Len(body) \in S
  <2>1. \A x \in i .. Len(body) : x \in Nat
    BY <1>1
  <2> QED
    BY <1>1, <1>2, <2>1
<1>5. j \in S /\ \A x \in S : j <= x
  BY <1>3, <1>4, MinFacts
<1> HIDE DEF j
<1>6. ASSUME NEW x \in i + 1 .. j
      PROVE  body[x] = Space
  <2>1. x - 1 \in i .. Len(body) /\ x - 1 < j /\ (x - 1) + 1 = x
    BY <1>1, <1>2, <1>5
  <2>2. x - 1 \notin S
    BY <1>1, <1>4, <1>5, <2>1
  <2> QED
    BY <1>2, <2>1, <2>2
<1> QED
  BY <1>2, <1>5, <1>6 DEF j

LEMMA KeysAre ==
  ASSUME NEW T, body \in Seq(T), NEW f, NEW at \in Nat, NEW k
  PROVE  k \in KeysFrom(f, at) <=>
           /\ k \in at .. Len(body) - 3
           /\ body[k + 1] = Q /\ body[k + 2] = f /\ body[k + 3] = Q
<1> SUFFICES ASSUME k \in at .. Len(body) - 3
             PROVE  SubSeq(body, k + 1, k + 3) = <<Q, f, Q>> <=>
                      body[k + 1] = Q /\ body[k + 2] = f /\ body[k + 3] = Q
  BY DEF KeysFrom
<1> DEFINE w == SubSeq(body, k + 1, k + 3)
<1>1. /\ Len(body) \in Nat /\ k \in Nat /\ w \in Seq(T) /\ Len(w) = 3
      /\ w[1] = body[k + 1] /\ w[2] = body[k + 2] /\ w[3] = body[k + 3]
  OBVIOUS
<1> HIDE DEF w
<1>2. w = <<w[1], w[2], w[3]>>
  BY <1>1
<1>3. w = <<Q, f, Q>> <=> w[1] = Q /\ w[2] = f /\ w[3] = Q
  BY <1>2
<1> QED
  BY <1>1, <1>3 DEF w

(* The scanner at work: on a valid body, with a field that occurs.         *)
AtKey == Scanning /\ Valid(body) /\ KeysFrom(Fields[field], from) # {}

Typed == TypeOK /\ ranges \in Seq([start : Nat, end : Nat])

LEMMA TypedFacts ==
  ASSUME Typed
  PROVE  /\ body \in Seq(ToSet(body)) /\ Len(body) \in Nat /\ from \in Nat
         /\ Fields \in Seq(ToSet(Fields)) /\ Len(Fields) \in Nat
         /\ \A j \in 1 .. Len(Fields) : Fields[j] \in ToSet(Fields)
         /\ \A f \in ToSet(Fields) : /\ \E j \in 1 .. Len(Fields) : f = Fields[j]
                                    /\ f # Q /\ f # B
<1>1. body \in Seq(ToSet(body)) /\ Fields \in Seq(ToSet(Fields))
  BY JSONBodyAssumption DEF Typed, TypeOK
<1>2. Len(body) \in Nat /\ Len(Fields) \in Nat /\ DOMAIN Fields = 1 .. Len(Fields)
  BY <1>1
<1>3. from \in Nat
  BY <1>2 DEF Typed, TypeOK
<1>4. \A f : f \in ToSet(Fields) <=> \E j \in 1 .. Len(Fields) : f = Fields[j]
  BY <1>2 DEF ToSet
<1>5. \A f \in ToSet(Fields) : f # Q /\ f # B
  BY JSONBodyAssumption
<1> QED
  BY <1>1, <1>2, <1>3, <1>4, <1>5

LEMMA KeyFound ==
  ASSUME Typed, AtKey
  PROVE  /\ KeyEnd - 3 \in KeysFrom(Fields[field], from)
         /\ \A k \in KeysFrom(Fields[field], from) : KeyEnd - 3 <= k
         /\ KeyEnd \in from + 3 .. Len(body) /\ KeyEnd \in Nat
         /\ body[KeyEnd - 2] = Q /\ body[KeyEnd - 1] = Fields[field] /\ body[KeyEnd] = Q
         /\ Closes(body, KeyEnd)
<1> DEFINE S == KeysFrom(Fields[field], from)
           k == Min(S)
<1>1. /\ body \in Seq(ToSet(body)) /\ Len(body) \in Nat /\ from \in Nat
      /\ Fields[field] \in ToSet(Fields) /\ Valid(body) /\ S # {}
  BY TypedFacts DEF AtKey, Scanning, Typed, TypeOK
<1>2. \A x : x \in S <=>
        /\ x \in from .. Len(body) - 3
        /\ body[x + 1] = Q /\ body[x + 2] = Fields[field] /\ body[x + 3] = Q
  BY <1>1, KeysAre
<1>3. KeyEnd = k + 3
  BY DEF KeyEnd
<1> HIDE DEF S
<1>4. S \in SUBSET Nat
  <2>1. \A x \in from .. Len(body) - 3 : x \in Nat
    BY <1>1
  <2> QED
    BY <1>2, <2>1
<1>5. k \in S /\ \A x \in S : k <= x
  BY <1>1, <1>4, MinFacts
<1> HIDE DEF k
<1>6. /\ k \in from .. Len(body) - 3 /\ k \in Nat
      /\ body[k + 1] = Q /\ body[k + 2] = Fields[field] /\ body[k + 3] = Q
  BY <1>2, <1>4, <1>5
<1>7. /\ KeyEnd - 3 = k /\ KeyEnd - 2 = k + 1 /\ KeyEnd - 1 = k + 2 /\ KeyEnd = k + 3
      /\ KeyEnd \in from + 3 .. Len(body) /\ KeyEnd \in 2 .. Len(body) /\ KeyEnd \in Nat
  BY <1>1, <1>3, <1>6
<1>8. body[KeyEnd - 2] = Q /\ body[KeyEnd - 1] = Fields[field] /\ body[KeyEnd] = Q
  BY <1>6, <1>7
<1>9. Closes(body, KeyEnd)
  BY <1>1, <1>7, <1>8, NameIsInString
<1> QED
  BY <1>5, <1>7, <1>8, <1>9 DEF S

(* A value that starts at v, read as scanJSONStringEnd does.               *)
LEMMA ValueEnd ==
  ASSUME NEW T, body \in Seq(T), NEW v \in 1 .. Len(body), NEW e, StringAt(body, v, e)
  PROVE  e \in StringEnds(v - 1) /\ Min(StringEnds(v - 1)) = e
<1> DEFINE S == StringEnds(v - 1)
<1>1. /\ Len(body) \in Nat /\ v \in Nat /\ v < e /\ body[v] = Q /\ body[v] # B
      /\ e \in Quotes(body) /\ \A q \in Quotes(body) : q \in Nat /\ ~(v < q /\ q < e)
  <2>1. Q # B
    BY DEF Q, B
  <2>2. \A q \in Quotes(body) : q \in Nat
    <3>1. \A q \in Quotes(body) : q \in 1 .. Len(body)
      BY QuotesAre
    <3> QED
      BY <3>1
  <2>3. /\ v < e /\ body[v] = Q
        /\ \A q \in Quotes(body) : ~(v < q /\ q < e)
    BY StringAtFacts
  <2>4. e \in Quotes(body)
    BY DEF StringAt
  <2> QED
    BY <2>1, <2>2, <2>3, <2>4
<1>2. S = {v + q : q \in Quotes(SubSeq(body, v + 1, Len(body)))}
  <2>1. (v - 1) + 2 = v + 1 /\ (v - 1) + 1 = v
    BY <1>1
  <2> QED
    BY <2>1 DEF StringEnds
<1>3. \A i : i \in S <=> i \in Quotes(body) /\ i > v
  BY <1>1, <1>2, QuotesRestart
<1> HIDE DEF S
<1>4. e \in S /\ S \in SUBSET Nat
  BY <1>1, <1>3
<1>5. Min(S) \in S /\ Min(S) <= e
  BY <1>4, MinFacts
<1>6. Min(S) = e
  <2>1. Min(S) \in Quotes(body) /\ Min(S) > v
    BY <1>3, <1>5
  <2>2. Min(S) \in Nat /\ ~(v < Min(S) /\ Min(S) < e) /\ e \in Nat
    BY <1>1, <2>1
  <2> QED
    BY <1>1, <1>5, <2>1, <2>2
<1> QED
  BY <1>4, <1>6 DEF S

(* What Found has found: a value that a colon joins to the name.           *)
LEMMA FoundValue ==
  ASSUME Typed, AtKey, Found
  PROVE  /\ ValueAt + 1 \in 1 .. Len(body) /\ body[ValueAt + 1] = Q /\ ValueAt \in Nat
         /\ JoinedBy(body, KeyEnd, AfterKey + 1, ValueAt + 1)
         /\ StringAt(body, ValueAt + 1, Min(StringEnds(ValueAt)))
<1> DEFINE p == KeyEnd
           c == AfterKey + 1
           v == ValueAt + 1
<1>1. body \in Seq(ToSet(body)) /\ Len(body) \in Nat /\ Valid(body)
  BY TypedFacts DEF AtKey
<1>2. p \in Nat /\ p \in 0 .. Len(body) /\ Closes(body, p)
  <2>1. KeyEnd \in Nat /\ KeyEnd \in from + 3 .. Len(body) /\ Closes(body, KeyEnd) /\ from \in Nat
    BY KeyFound, TypedFacts
  <2> QED
    BY <1>1, <2>1
<1>3. /\ AfterKey < Len(body) /\ body[AfterKey + 1] = ":"
      /\ ValueAt < Len(body) /\ body[ValueAt + 1] = Q
  BY DEF Found, At
<1>4. /\ AfterKey \in p .. Len(body)
      /\ \A x \in p + 1 .. AfterKey : body[x] = Space
  BY <1>1, <1>2, SkipFacts DEF AfterKey
<1>5. AfterKey \in Nat /\ AfterKey + 1 \in 0 .. Len(body)
  BY <1>1, <1>2, <1>3, <1>4
<1>6. /\ ValueAt \in AfterKey + 1 .. Len(body)
      /\ \A x \in (AfterKey + 1) + 1 .. ValueAt : body[x] = Space
  BY <1>1, <1>5, SkipFacts DEF ValueAt
<1>7. ValueAt \in Nat /\ v \in 1 .. Len(body)
  BY <1>1, <1>3, <1>5, <1>6
<1>8. JoinedBy(body, p, c, v)
  <2>1. c \in p + 1 .. v - 1
    BY <1>1, <1>2, <1>4, <1>5, <1>6, <1>7
  <2>2. ASSUME NEW i \in (p + 1 .. v - 1) \ {c}
        PROVE  body[i] = Space
    <3>1. i \in p + 1 .. AfterKey \/ i \in (AfterKey + 1) + 1 .. ValueAt
      BY <1>1, <1>2, <1>4, <1>5, <1>6, <1>7
    <3> QED
      BY <1>4, <1>6, <3>1
  <2> QED
    BY <1>3, <2>1, <2>2 DEF JoinedBy
<1> HIDE DEF p, c, v
<1>9. Opens(body, v)
  BY <1>1, <1>2, <1>3, <1>7, <1>8, JoinedFacts DEF v
<1>10. PICK e : StringAt(body, v, e)
  BY <1>1, <1>9, OpenedIsClosed DEF Valid
<1>11. v - 1 = ValueAt
  BY <1>7 DEF v
<1>12. Min(StringEnds(ValueAt)) = e
  BY <1>1, <1>7, <1>10, <1>11, ValueEnd
<1> QED
  BY <1>3, <1>7, <1>8, <1>10, <1>12 DEF p, c, v

-----------------------------------------------------------------------------
(* Members: two strings joined by a colon.                                 *)
LEMMA JoinedIsMember ==
  ASSUME NEW s, NEW a, NEW p, NEW v, NEW e
  PROVE  IsMember(s, [start |-> a - 1, end |-> p], [start |-> v - 1, end |-> e])
           <=> \E c : JoinedBy(s, p, c, v)
BY DEF IsMember, JoinedBy

MemberAt(s, m, a, p, c, v, e) ==
  /\ StringAt(s, a, p) /\ JoinedBy(s, p, c, v) /\ StringAt(s, v, e)
  /\ m.key = [start |-> a - 1, end |-> p] /\ m.value = [start |-> v - 1, end |-> e]

LEMMA MemberOf ==
  ASSUME NEW T, NEW s \in Seq(T), NEW m \in Members(s)
  PROVE  \E a, p, c, v, e : MemberAt(s, m, a, p, c, v, e)
<1>1. m.key \in ToSet(Strings(s)) /\ m.value \in ToSet(Strings(s)) /\ IsMember(s, m.key, m.value)
  BY DEF Members
<1>2. PICK a, p : StringAt(s, a, p) /\ m.key = [start |-> a - 1, end |-> p]
  BY <1>1, StringsAre
<1>3. PICK v, e : StringAt(s, v, e) /\ m.value = [start |-> v - 1, end |-> e]
  BY <1>1, StringsAre
<1>4. \E c : JoinedBy(s, p, c, v)
  BY <1>1, <1>2, <1>3, JoinedIsMember
<1> QED
  BY <1>2, <1>3, <1>4 DEF MemberAt

LEMMA MemberFrom ==
  ASSUME NEW T, NEW s \in Seq(T), NEW a, NEW p, NEW c, NEW v, NEW e,
         StringAt(s, a, p), JoinedBy(s, p, c, v), StringAt(s, v, e)
  PROVE  [key |-> [start |-> a - 1, end |-> p], value |-> [start |-> v - 1, end |-> e]]
           \in Members(s)
<1> DEFINE k == [start |-> a - 1, end |-> p]
           r == [start |-> v - 1, end |-> e]
<1>1. k \in ToSet(Strings(s))
  BY StringsAre
<1>2. r \in ToSet(Strings(s))
  BY StringsAre
<1>3. IsMember(s, k, r)
  BY JoinedIsMember
<1> HIDE DEF k, r
<1>4. [key |-> k, value |-> r] \in Members(s)
  BY <1>1, <1>2, <1>3 DEF Members
<1> QED
  BY <1>4 DEF k, r

LEMMA KeyOf ==
  ASSUME NEW T, NEW s \in Seq(T), NEW m \in Members(s)
  PROVE  \E a, p : /\ StringAt(s, a, p) /\ m.key = [start |-> a - 1, end |-> p]
                   /\ m.key.start = a - 1 /\ a - 1 \in Nat
<1>1. PICK a, p, c, v, e : MemberAt(s, m, a, p, c, v, e)
  BY MemberOf
<1>2. StringAt(s, a, p) /\ m.key = [start |-> a - 1, end |-> p]
  BY <1>1 DEF MemberAt
<1>3. a \in 1 .. Len(s)
  BY <1>2, StringAtFacts
<1>4. m.key.start = a - 1 /\ a - 1 \in Nat
  BY <1>2, <1>3
<1> QED
  BY <1>2, <1>4

(* The name that stands before the closing quote of a key.                 *)
LEMMA KeyContent ==
  ASSUME NEW T, NEW s \in Seq(T), NEW a, NEW p, StringAt(s, a, p), NEW f, f # Q
  PROVE  /\ Content(s, [start |-> a - 1, end |-> p]) = <<f>> <=> p = a + 2 /\ s[a + 1] = f
         /\ p > 2 /\ s[p - 2] = Q /\ s[p - 1] = f =>
              EndsIn(Content(s, [start |-> a - 1, end |-> p]), f)
<1> DEFINE w == SubSeq(s, a + 1, p - 1)
<1>1. /\ Len(s) \in Nat /\ a \in 1 .. Len(s) /\ p \in 1 .. Len(s) /\ a < p /\ s[a] = Q
  BY StringAtFacts
<1>2. /\ w \in Seq(T) /\ Len(w) = p - 1 - a
      /\ \A i \in 1 .. p - 1 - a : w[i] = s[a + i]
  <2>1. a + 1 \in 1 .. Len(s) + 1 /\ p - 1 \in a .. Len(s) /\ p - 1 \in Nat
    BY <1>1
  <2>2. w \in Seq(T) /\ Len(w) = p - 1 - a
    BY <1>1, <2>1
  <2>3. \A i \in 1 .. p - 1 - a : w[i] = s[a + i]
    BY <1>1, <2>1
  <2> QED
    BY <2>2, <2>3
<1>3. Content(s, [start |-> a - 1, end |-> p]) = w
  <2>1. (a - 1) + 2 = a + 1
    BY <1>1
  <2> QED
    BY <2>1 DEF Content
<1> HIDE DEF w
<1>4. ASSUME p = a + 2
      PROVE  w = <<s[a + 1]>>
  BY <1>1, <1>2, <1>4
<1>5. w = <<f>> <=> p = a + 2 /\ s[a + 1] = f
  <2>1. ASSUME w = <<f>>
        PROVE  p = a + 2 /\ s[a + 1] = f
    <3>1. Len(w) = 1 /\ w[1] = f
      BY <2>1
    <3>2. p - 1 - a = 1 /\ p = a + 2
      <4>1. a \in Nat /\ p \in Nat
        BY <1>1
      <4>2. p - 1 - a = 1
        BY <1>2, <3>1
      <4> QED
        BY <4>1, <4>2
    <3>3. w[1] = s[a + 1]
      BY <1>2, <3>2
    <3> QED
      BY <3>1, <3>2, <3>3
  <2> QED
    BY <1>4, <2>1
<1>6. ASSUME p > 2, s[p - 2] = Q, s[p - 1] = f
      PROVE  EndsIn(w, f)
  <2>1. a # p - 1
    BY <1>1, <1>6
  <2>2. CASE a = p - 2
    BY <1>1, <1>4, <1>6, <2>2 DEF EndsIn
  <2>3. CASE a # p - 2
    <3>1. Len(w) >= 2 /\ Len(w) \in Nat /\ Len(w) = p - 1 - a
      BY <1>1, <1>2, <2>1, <2>3
    <3>2. w[Len(w) - 1] = Q /\ w[Len(w)] = f
      <4>1. a + (p - 1 - a - 1) = p - 2 /\ a + (p - 1 - a) = p - 1
        BY <1>1
      <4> QED
        BY <1>2, <1>6, <3>1, <4>1
    <3>3. SubSeq(w, Len(w) - 1, Len(w)) = <<w[Len(w) - 1], w[Len(w)]>>
      <4> DEFINE n == Len(w)
                 u == SubSeq(w, n - 1, n)
      <4>1. n \in Nat /\ n >= 2
        BY <3>1
      <4>2. u \in Seq(T) /\ Len(u) = 2 /\ u[1] = w[n - 1] /\ u[2] = w[n]
        <5> HIDE DEF n
        <5>1. w \in Seq(T) /\ n = Len(w)
          BY <1>2 DEF n
        <5> QED
          BY <4>1, <5>1
      <4> HIDE DEF u
      <4>3. u = <<u[1], u[2]>>
        BY <4>2
      <4> QED
        BY <4>2, <4>3 DEF u
    <3> QED
      BY <3>1, <3>2, <3>3 DEF EndsIn
  <2> QED
    BY <2>2, <2>3
<1> QED
  BY <1>3, <1>5, <1>6

LEMMA SkipTo ==
  ASSUME NEW T, body \in Seq(T), NEW i \in 0 .. Len(body), NEW t \in i + 1 .. Len(body),
         body[t] # Space, \A x \in i + 1 .. t - 1 : body[x] = Space
  PROVE  SkipSpace(i) = t - 1
<1> DEFINE j == SkipSpace(i)
<1>1. Len(body) \in Nat /\ i \in Nat /\ t \in Nat /\ i < t /\ t <= Len(body)
  OBVIOUS
<1>2. /\ j \in i .. Len(body)
      /\ j = Len(body) \/ body[j + 1] # Space
      /\ \A x \in i + 1 .. j : body[x] = Space
  BY SkipFacts
<1> HIDE DEF j
<1>3. j \in Nat /\ i <= j
  BY <1>1, <1>2
<1>4. ~(t <= j)
  BY <1>1, <1>2, <1>3
<1>5. ~(j < t - 1)
  <2> SUFFICES ASSUME j < t - 1 PROVE FALSE
    OBVIOUS
  <2>1. j + 1 \in i + 1 .. t - 1 /\ j # Len(body)
    BY <1>1, <1>3
  <2> QED
    BY <1>2, <2>1
<1>6. j = t - 1
  BY <1>1, <1>3, <1>4, <1>5
<1> QED
  BY <1>6 DEF j

(* The member whose name the scanner has found.                            *)
LEMMA MemberScanned ==
  ASSUME Typed, AtKey, NEW c, NEW v, NEW e,
         JoinedBy(body, KeyEnd, c, v), StringAt(body, v, e)
  PROVE  /\ ValueAt = v - 1 /\ Min(StringEnds(ValueAt)) = e
         /\ ShouldProtect(Fields[field], Content(body, [start |-> v - 1, end |-> e])) => Found
<1>1. body \in Seq(ToSet(body)) /\ Len(body) \in Nat
  BY TypedFacts
<1>2. Closes(body, KeyEnd)
  BY KeyFound
<1>3. v \in 1 .. Len(body) /\ body[v] = Q
  BY <1>1, StringAtFacts
<1>4. KeyEnd \in 1 .. Len(body) /\ c \in 1 .. Len(body) /\ KeyEnd < c /\ c < v
  BY <1>1, <1>2, <1>3, JoinedFacts
<1>5. body[c] = ":" /\ \A i \in (KeyEnd + 1 .. v - 1) \ {c} : body[i] = Space
  BY DEF JoinedBy
<1>6. Q # Space /\ Space # ":"
  BY DEF Q, Space
<1>7. AfterKey = c - 1
  <2>1. KeyEnd \in 0 .. Len(body) /\ c \in KeyEnd + 1 .. Len(body) /\ body[c] # Space
    BY <1>1, <1>4, <1>5, <1>6
  <2>2. \A x \in KeyEnd + 1 .. c - 1 : x \in (KeyEnd + 1 .. v - 1) \ {c}
    BY <1>1, <1>3, <1>4
  <2>3. \A x \in KeyEnd + 1 .. c - 1 : body[x] = Space
    BY <1>5, <2>2
  <2> QED
    BY <1>1, <2>1, <2>3, SkipTo DEF AfterKey
<1>8. AfterKey + 1 = c
  BY <1>4, <1>7
<1>9. ValueAt = v - 1
  <2>1. c \in 0 .. Len(body) /\ v \in c + 1 .. Len(body) /\ body[v] # Space
    BY <1>1, <1>3, <1>4, <1>6
  <2>2. \A x \in c + 1 .. v - 1 : x \in (KeyEnd + 1 .. v - 1) \ {c}
    BY <1>1, <1>3, <1>4
  <2>3. \A x \in c + 1 .. v - 1 : body[x] = Space
    BY <1>5, <2>2
  <2> QED
    BY <1>1, <1>8, <2>1, <2>3, SkipTo DEF ValueAt
<1>10. e \in StringEnds(ValueAt) /\ Min(StringEnds(ValueAt)) = e
  BY <1>1, <1>3, <1>9, ValueEnd
<1>11. At(AfterKey, ":") /\ At(ValueAt, Q)
  <2>1. AfterKey < Len(body) /\ ValueAt < Len(body) /\ ValueAt + 1 = v
    BY <1>1, <1>3, <1>4, <1>7, <1>9
  <2> QED
    BY <1>3, <1>5, <1>8, <2>1 DEF At
<1> QED
  BY <1>9, <1>10, <1>11 DEF Found

(* Where the name of a member stands, and no other string of the body      *)
(* starts within what the scanner reads as one occurrence.                 *)
LEMMA NameOccurs ==
  ASSUME NEW T, body \in Seq(T), NEW a, NEW p, StringAt(body, a, p), NEW f, f # Q,
         Content(body, [start |-> a - 1, end |-> p]) = <<f>>, NEW at \in Nat, at <= a - 1
  PROVE  a - 1 \in KeysFrom(f, at)
<1>1. /\ Len(body) \in Nat /\ a \in 1 .. Len(body) /\ p \in 1 .. Len(body)
      /\ body[a] = Q /\ body[p] = Q
  BY StringAtFacts
<1>2. p = a + 2 /\ body[a + 1] = f
  BY KeyContent
<1>3. /\ a - 1 \in at .. Len(body) - 3
      /\ (a - 1) + 1 = a /\ (a - 1) + 2 = a + 1 /\ (a - 1) + 3 = p
  BY <1>1, <1>2
<1> QED
  BY <1>1, <1>2, <1>3, KeysAre

LEMMA NothingOpens ==
  ASSUME Typed, AtKey, NEW a, Opens(body, a), KeyEnd - 3 < a - 1
  PROVE  KeyEnd < a
<1>1. a \in 1 .. Len(body) /\ body[a] = Q /\ body \in Seq(ToSet(body)) /\ Len(body) \in Nat
  BY TypedFacts, QuotesAre DEF Opens
<1>2. /\ KeyEnd \in Nat /\ body[KeyEnd - 1] = Fields[field] /\ Closes(body, KeyEnd)
  BY KeyFound
<1>3. Fields[field] # Q
  BY TypedFacts DEF Typed, TypeOK, AtKey, Scanning
<1>4. a # KeyEnd - 1
  BY <1>1, <1>2, <1>3
<1>5. a # KeyEnd
  BY <1>2 DEF Opens, Closes
<1>6. a \in Nat
  BY <1>1
<1> QED
  BY <1>2, <1>4, <1>5, <1>6

-----------------------------------------------------------------------------
(* The inductive invariant: besides RangesAreValues, the scanner has passed*)
(* no member that is due, and what redactBody replaces touches no range.   *)
Due(m, j) ==
  /\ Content(body, m.key) = <<Fields[j]>>
  /\ ShouldProtect(Fields[j], Content(body, m.value))

Passed(m, j) == stage # "scan" \/ j < field \/ (j = field /\ m.key.start < from)

Scanned ==
  Valid(body) => \A m \in Members(body), j \in 1 .. Len(Fields) :
                   Due(m, j) /\ Passed(m, j) => \E k \in DOMAIN ranges : ranges[k] = m.value

NothingTaken ==
  stage = "sent" =>
    \A k \in DOMAIN hits, i \in DOMAIN ranges : ~Overlaps(hits[k], ranges[i])

IInv == Typed /\ RangesAreValues /\ Scanned /\ NothingTaken

(* What a step that protects a value adds is the value of a member.        *)
LEMMA FoundMember ==
  ASSUME Typed, AtKey, Found,
         NEW r, r = [start |-> ValueAt, end |-> Min(StringEnds(ValueAt))]
  PROVE  /\ r \in [start : Nat, end : Nat] /\ r.start < r.end /\ r.end <= Len(body)
         /\ \E m \in Members(body), f \in ToSet(Fields) :
              /\ m.value = r
              /\ EndsIn(Content(body, m.key), f)
              /\ ShouldProtect(f, Content(body, m.value))
<1> DEFINE p == KeyEnd
           c == AfterKey + 1
           v == ValueAt + 1
           e == Min(StringEnds(ValueAt))
           f == Fields[field]
<1>1. /\ body \in Seq(ToSet(body)) /\ Len(body) \in Nat
      /\ f \in ToSet(Fields) /\ f # Q /\ from \in Nat
  BY TypedFacts DEF Typed, TypeOK, AtKey, Scanning
<1>2. /\ p \in Nat /\ p \in from + 3 .. Len(body) /\ Closes(body, p)
      /\ body[p - 2] = Q /\ body[p - 1] = f
  BY KeyFound
<1>3. v \in 1 .. Len(body) /\ ValueAt \in Nat /\ JoinedBy(body, p, c, v) /\ StringAt(body, v, e)
  BY FoundValue
<1>4. ShouldProtect(f, Content(body, r))
  BY DEF Found
<1> HIDE DEF p, c, v, e, f
<1>5. PICK a : StringAt(body, a, p)
  BY <1>1, <1>2, ClosedIsOpened
<1>6. /\ v - 1 = ValueAt /\ r = [start |-> v - 1, end |-> e]
      /\ r.start = ValueAt /\ r.end = e
  BY <1>3 DEF v, e
<1>7. e \in 1 .. Len(body) /\ v < e
  BY <1>1, <1>3, StringAtFacts
<1>8. r \in [start : Nat, end : Nat] /\ r.start < r.end /\ r.end <= Len(body)
  BY <1>1, <1>3, <1>6, <1>7
<1> DEFINE k == [start |-> a - 1, end |-> p]
           m == [key |-> k, value |-> r]
<1>9. m \in Members(body)
  BY <1>1, <1>3, <1>5, <1>6, MemberFrom
<1>10. EndsIn(Content(body, k), f)
  <2>1. p > 2
    BY <1>1, <1>2
  <2> QED
    BY <1>1, <1>2, <1>5, <2>1, KeyContent
<1>11. m.key = k /\ m.value = r
  OBVIOUS
<1> HIDE DEF m, k
<1> QED
  BY <1>1, <1>4, <1>8, <1>9, <1>10, <1>11

(* A member that is due is found when the scanner comes by it, and none is *)
(* skipped on the way.                                                     *)
LEMMA DueFound ==
  ASSUME Typed, AtKey, NEW m \in Members(body), Due(m, field), from <= m.key.start
  PROVE  /\ KeyEnd - 3 <= m.key.start
         /\ m.key.start = KeyEnd - 3 =>
              Found /\ m.value = [start |-> ValueAt, end |-> Min(StringEnds(ValueAt))]
         /\ m.key.start # KeyEnd - 3 => KeyEnd <= m.key.start
         /\ m.key.start # KeyEnd - 3 /\ Found => Min(StringEnds(ValueAt)) <= m.key.start
<1> DEFINE f == Fields[field]
<1>1. /\ body \in Seq(ToSet(body)) /\ Len(body) \in Nat /\ from \in Nat
      /\ f \in ToSet(Fields) /\ f # Q /\ Valid(body)
  BY TypedFacts DEF Typed, TypeOK, AtKey, Scanning
<1>2. PICK a, p, c, v, e : MemberAt(body, m, a, p, c, v, e)
  BY <1>1, MemberOf
<1>3. /\ StringAt(body, a, p) /\ JoinedBy(body, p, c, v) /\ StringAt(body, v, e)
      /\ m.key = [start |-> a - 1, end |-> p] /\ m.value = [start |-> v - 1, end |-> e]
  BY <1>2 DEF MemberAt
<1>4. /\ a \in 1 .. Len(body) /\ p \in 1 .. Len(body) /\ a < p /\ v \in 1 .. Len(body)
      /\ m.key.start = a - 1 /\ Opens(body, a) /\ a \in Quotes(body)
  <2>1. a \in 1 .. Len(body) /\ p \in 1 .. Len(body) /\ a < p
    BY <1>1, <1>3, StringAtFacts
  <2>2. v \in 1 .. Len(body)
    BY <1>1, <1>3, StringAtFacts
  <2>3. Opens(body, a) /\ a \in Quotes(body)
    BY <1>3 DEF StringAt, Opens
  <2> QED
    BY <1>3, <2>1, <2>2, <2>3
<1>5. /\ Content(body, [start |-> a - 1, end |-> p]) = <<f>>
      /\ ShouldProtect(f, Content(body, [start |-> v - 1, end |-> e]))
  BY <1>3 DEF Due
<1>6. p = a + 2
  BY <1>1, <1>3, <1>5, KeyContent
<1>7. a - 1 \in KeysFrom(f, from)
  BY <1>1, <1>3, <1>4, <1>5, NameOccurs
<1>8. /\ KeyEnd - 3 <= a - 1 /\ KeyEnd \in Nat /\ Closes(body, KeyEnd)
  BY <1>7, KeyFound
<1>9. ASSUME a - 1 = KeyEnd - 3
      PROVE  Found /\ m.value = [start |-> ValueAt, end |-> Min(StringEnds(ValueAt))]
  <2>1. p = KeyEnd
    BY <1>4, <1>6, <1>8, <1>9
  <2> QED
    BY <1>3, <1>5, <2>1, MemberScanned
<1>10. ASSUME a - 1 # KeyEnd - 3
      PROVE  KeyEnd < a
  <2>1. KeyEnd - 3 < a - 1
    BY <1>4, <1>8, <1>10
  <2> QED
    BY <1>4, <2>1, NothingOpens
<1>11. ASSUME KeyEnd < a, Found
       PROVE  Min(StringEnds(ValueAt)) < a
  <2> DEFINE w == ValueAt + 1
             d == AfterKey + 1
             z == Min(StringEnds(ValueAt))
  <2>1. w \in 1 .. Len(body) /\ JoinedBy(body, KeyEnd, d, w) /\ StringAt(body, w, z)
    BY <1>11, FoundValue
  <2> HIDE DEF w, d, z
  <2>2. ~(KeyEnd < a /\ a < w)
    BY <1>1, <1>4, <1>8, <2>1, JoinedFacts
  <2>3. a # w
    BY <1>1, <1>3, <1>4, <1>8, <2>1, NoKeyAsValue
  <2>4. z \in 1 .. Len(body) /\ w < z /\ Closes(body, z) /\ ~(w < a /\ a < z)
    BY <1>1, <1>4, <2>1, StringAtFacts
  <2>5. a # z
    BY <1>4, <2>4 DEF Opens, Closes
  <2>6. z < a
    BY <1>1, <1>4, <1>8, <1>11, <2>1, <2>2, <2>3, <2>4, <2>5
  <2> QED
    BY <2>6 DEF z
<1>12. ASSUME Found
       PROVE  Min(StringEnds(ValueAt)) \in Nat
  <2>1. Min(StringEnds(ValueAt)) \in 1 .. Len(body)
    BY <1>1, <1>12, FoundValue, StringAtFacts
  <2> QED
    BY <1>1, <2>1
<1> QED
  BY <1>4, <1>8, <1>9, <1>10, <1>11, <1>12

LEMMA KeptFacts ==
  ASSUME NEW T, NEW hs \in Seq(T)
  PROVE  \A k \in DOMAIN Kept(hs), i \in DOMAIN ranges : ~Overlaps(Kept(hs)[k], ranges[i])
<1> DEFINE S == {x \in DOMAIN hs : \A i \in DOMAIN ranges : ~Overlaps(hs[x], ranges[i])}
           at == Ascending(S)
<1>1. S \in SUBSET (0 .. Len(hs)) /\ Len(hs) \in Nat
  OBVIOUS
<1>2. Kept(hs) = [k \in DOMAIN at |-> hs[at[k]]]
  BY DEF Kept
<1>3. \A x \in S, i \in DOMAIN ranges : ~Overlaps(hs[x], ranges[i])
  OBVIOUS
<1> HIDE DEF S
<1>4. \A k \in DOMAIN at : at[k] \in S
  BY <1>1, AscendingFacts
<1> HIDE DEF at
<1>5. DOMAIN Kept(hs) = DOMAIN at /\ \A k \in DOMAIN at : Kept(hs)[k] = hs[at[k]]
  BY <1>2
<1> QED
  BY <1>3, <1>4, <1>5

-----------------------------------------------------------------------------
(* The invariant holds at first, and every step keeps it.                  *)
LEMMA InitHolds == Init => IInv
<1> SUFFICES ASSUME Init PROVE IInv
  OBVIOUS
<1>1. Fields \in Seq(ToSet(Fields)) /\ Fields # <<>> /\ body \in Seq(ToSet(body))
  BY JSONBodyAssumption DEF Init
<1>2. 1 \in 1 .. Len(Fields) + 1 /\ 0 \in 0 .. Len(body) /\ Len(Fields) \in Nat
  BY <1>1
<1>3. ranges \in Seq([start : Nat, end : Nat]) /\ DOMAIN ranges = {}
  BY DEF Init
<1>4. Typed
  BY <1>2, <1>3 DEF Typed, TypeOK, Init
<1>5. RangesAreValues
  BY <1>3 DEF RangesAreValues
<1>6. Scanned
  <2>1. ASSUME NEW m \in Members(body), NEW j \in 1 .. Len(Fields), Passed(m, j)
        PROVE  FALSE
    <3>1. m.key.start \in Nat
      BY <1>1, KeyOf
    <3> QED
      BY <1>2, <2>1, <3>1 DEF Passed, Init
  <2> QED
    BY <2>1 DEF Scanned
<1>7. NothingTaken
  BY DEF NothingTaken, Init
<1> QED
  BY <1>4, <1>5, <1>6, <1>7 DEF IInv

(* Steps that neither scan nor redact.                                     *)
LEMMA OtherSteps ==
  ASSUME IInv, body' = body, field' = field, from' = from, ranges' = ranges,
         stage' \in {"scan", "detect", "sent", "replied", "restored"},
         stage' # "sent" \/ (stage' = stage /\ hits' = hits),
         stage # "scan" \/ ~Valid(body) \/ stage' = stage
  PROVE  IInv'
<1>1. Typed'
  BY DEF IInv, Typed, TypeOK
<1>2. RangesAreValues'
  BY DEF IInv, RangesAreValues
<1>3. Scanned'
  BY DEF IInv, Scanned, Due, Passed
<1>4. NothingTaken'
  BY DEF IInv, NothingTaken
<1> QED
  BY <1>1, <1>2, <1>3, <1>4 DEF IInv

LEMMA NextFieldHolds == IInv /\ NextField => IInv'
<1> SUFFICES ASSUME IInv, NextField PROVE IInv'
  OBVIOUS
<1>1. /\ body \in Seq(ToSet(body)) /\ Len(body) \in Nat /\ from \in Nat /\ Len(Fields) \in Nat
      /\ \A j \in 1 .. Len(Fields) : Fields[j] \in ToSet(Fields) /\ Fields[j] # Q
  BY TypedFacts DEF IInv
<1>2. /\ stage = "scan" /\ field \in 1 .. Len(Fields) /\ Valid(body)
      /\ KeysFrom(Fields[field], from) = {}
      /\ field' = field + 1 /\ from' = 0 /\ body' = body /\ ranges' = ranges
      /\ stage' = (IF field = Len(Fields) THEN "detect" ELSE stage)
  BY DEF NextField, Scanning, IInv, Typed, TypeOK
<1>3. Typed'
  BY <1>1, <1>2 DEF IInv, Typed, TypeOK
<1>4. RangesAreValues'
  BY <1>2 DEF IInv, RangesAreValues
<1>5. Scanned'
  <2>1. ASSUME NEW m \in Members(body), NEW j \in 1 .. Len(Fields), Due(m, j), Passed(m, j)'
        PROVE  \E k \in DOMAIN ranges : ranges[k] = m.value
    <3>1. PICK a, p : /\ StringAt(body, a, p) /\ m.key = [start |-> a - 1, end |-> p]
                      /\ m.key.start = a - 1 /\ a - 1 \in Nat
      BY <1>1, KeyOf
    <3>2. m.key.start = a - 1 /\ a - 1 \in Nat
      BY <3>1
    <3>3. j < field \/ j = field
      BY <1>1, <1>2, <2>1, <3>2 DEF Passed
    <3>4. CASE j = field
      <4>1. Content(body, [start |-> a - 1, end |-> p]) = <<Fields[field]>>
        BY <2>1, <3>1, <3>4 DEF Due
      <4>2. ~(from <= a - 1)
        BY <1>1, <1>2, <3>1, <4>1, NameOccurs
      <4>3. Passed(m, j)
        BY <1>1, <3>2, <3>4, <4>2 DEF Passed
      <4> QED
        BY <1>2, <2>1, <4>3 DEF IInv, Scanned
    <3>5. CASE j < field
      BY <1>2, <2>1, <3>5 DEF IInv, Scanned, Passed
    <3> QED
      BY <3>3, <3>4, <3>5
  <2> QED
    BY <1>2, <2>1 DEF Scanned, Due
<1>6. NothingTaken'
  BY <1>2 DEF NothingTaken
<1> QED
  BY <1>3, <1>4, <1>5, <1>6 DEF IInv

LEMMA ProtectHolds == IInv /\ Protect => IInv'
<1> SUFFICES ASSUME IInv, Protect PROVE IInv'
  OBVIOUS
<1> DEFINE z == Min(StringEnds(ValueAt))
           r == [start |-> ValueAt, end |-> z]
<1>1. Typed /\ AtKey /\ Found
  BY DEF IInv, Protect, AtKey
<1>2. /\ stage = "scan" /\ stage' = stage /\ field' = field /\ body' = body /\ hits' = hits
      /\ ranges' = Append(ranges, r) /\ from' = z
  BY DEF Protect, Scanning
<1>3. /\ body \in Seq(ToSet(body)) /\ Len(body) \in Nat /\ from \in Nat
      /\ ranges \in Seq([start : Nat, end : Nat]) /\ field \in 1 .. Len(Fields)
  BY <1>1, TypedFacts DEF Typed, TypeOK, AtKey, Scanning
<1> HIDE DEF z, r
<1>4. /\ r \in [start : Nat, end : Nat] /\ r.start < r.end /\ r.end <= Len(body)
      /\ \E m \in Members(body), f \in ToSet(Fields) :
           /\ m.value = r
           /\ EndsIn(Content(body, m.key), f)
           /\ ShouldProtect(f, Content(body, m.value))
  BY <1>1, FoundMember DEF r, z
<1>5. z \in 0 .. Len(body)
  <2>1. r.end = z
    BY DEF r
  <2>2. r.end \in Nat
    BY <1>4
  <2> QED
    BY <1>3, <1>4, <2>1, <2>2
<1>6. /\ ranges' \in Seq([start : Nat, end : Nat])
      /\ DOMAIN ranges' = DOMAIN ranges \cup {Len(ranges) + 1}
      /\ \A k \in DOMAIN ranges : ranges'[k] = ranges[k]
      /\ ranges'[Len(ranges) + 1] = r
      /\ \A k \in DOMAIN ranges' : k \in DOMAIN ranges \/ ranges'[k] = r
  <2> DEFINE n == Len(ranges)
  <2>1. /\ n \in Nat /\ DOMAIN ranges = 1 .. n
        /\ ranges' \in Seq([start : Nat, end : Nat]) /\ Len(ranges') = n + 1
    BY <1>2, <1>3, <1>4
  <2>2. (\A k \in 1 .. n : ranges'[k] = ranges[k]) /\ ranges'[n + 1] = r
    BY <1>2, <1>3, <1>4
  <2>3. DOMAIN ranges' = 1 .. n + 1
    BY <2>1
  <2> HIDE DEF n
  <2>4. 1 .. n + 1 = (1 .. n) \cup {n + 1}
    BY <2>1
  <2> QED
    BY <2>1, <2>2, <2>3, <2>4 DEF n
<1>7. Typed'
  <2>1. \A k \in DOMAIN ranges' : ranges'[k].start < ranges'[k].end /\ ranges'[k].end <= Len(body)
    BY <1>1, <1>4, <1>6 DEF Typed, TypeOK
  <2> QED
    BY <1>1, <1>2, <1>5, <1>6, <2>1 DEF Typed, TypeOK
<1>8. RangesAreValues'
  <2>1. ASSUME NEW k \in DOMAIN ranges'
        PROVE  \E m \in Members(body), f \in ToSet(Fields) :
                 /\ m.value = ranges'[k]
                 /\ EndsIn(Content(body, m.key), f)
                 /\ ShouldProtect(f, Content(body, m.value))
    <3>1. CASE ranges'[k] = r
      BY <1>4, <3>1
    <3>2. CASE k \in DOMAIN ranges
      BY <1>6, <3>2 DEF IInv, RangesAreValues
    <3> QED
      BY <1>6, <3>1, <3>2
  <2> QED
    BY <1>2, <2>1 DEF RangesAreValues
<1>9. Scanned'
  <2>1. ASSUME NEW m \in Members(body), NEW j \in 1 .. Len(Fields), Due(m, j), Passed(m, j)'
        PROVE  Passed(m, j) \/ r = m.value
    <3>1. m.key.start \in Nat
      BY <1>3, KeyOf
    <3>2. j < field \/ (j = field /\ m.key.start < z)
      BY <1>2, <2>1 DEF Passed
    <3>3. CASE j < field \/ m.key.start < from
      BY <3>2, <3>3 DEF Passed
    <3>4. CASE j = field /\ from <= m.key.start /\ m.key.start < z
      <4>1. Due(m, field)
        BY <2>1, <3>4
      <4>2. ~(z <= m.key.start)
        BY <1>3, <1>5, <3>1, <3>4
      <4>3. m.key.start = KeyEnd - 3
        BY <1>1, <3>4, <4>1, <4>2, DueFound DEF z
      <4> QED
        BY <1>1, <3>4, <4>1, <4>3, DueFound DEF z, r
    <3> QED
      BY <1>3, <3>1, <3>2, <3>3, <3>4
  <2>2. ASSUME NEW m \in Members(body), NEW j \in 1 .. Len(Fields), Valid(body), Due(m, j), Passed(m, j)'
        PROVE  \E k \in DOMAIN ranges' : ranges'[k] = m.value
    <3>1. CASE Passed(m, j)
      <4>1. PICK k \in DOMAIN ranges : ranges[k] = m.value
        BY <2>2, <3>1 DEF IInv, Scanned
      <4> QED
        BY <1>6, <4>1
    <3>2. CASE r = m.value
      BY <1>6, <3>2
    <3> QED
      BY <2>1, <2>2, <3>1, <3>2
  <2> QED
    BY <1>2, <2>2 DEF Scanned, Due
<1>10. NothingTaken'
  BY <1>2 DEF NothingTaken
<1> QED
  BY <1>7, <1>8, <1>9, <1>10 DEF IInv

LEMMA PassOverHolds == IInv /\ PassOver => IInv'
<1> SUFFICES ASSUME IInv, PassOver PROVE IInv'
  OBVIOUS
<1>1. Typed /\ AtKey /\ ~Found
  BY DEF IInv, PassOver, AtKey
<1>2. /\ stage = "scan" /\ stage' = stage /\ field' = field /\ body' = body
      /\ ranges' = ranges /\ from' = KeyEnd
  BY DEF PassOver, Scanning
<1>3. body \in Seq(ToSet(body)) /\ Len(body) \in Nat /\ from \in Nat /\ field \in 1 .. Len(Fields)
  BY <1>1, TypedFacts DEF Typed, TypeOK, AtKey, Scanning
<1>4. KeyEnd \in Nat /\ KeyEnd \in 0 .. Len(body)
  <2>1. KeyEnd \in from + 3 .. Len(body)
    BY <1>1, KeyFound
  <2> QED
    BY <1>3, <2>1
<1>5. Typed'
  BY <1>1, <1>2, <1>4 DEF Typed, TypeOK
<1>6. RangesAreValues'
  BY <1>2 DEF IInv, RangesAreValues
<1>7. Scanned'
  <2>1. ASSUME NEW m \in Members(body), NEW j \in 1 .. Len(Fields), Due(m, j), Passed(m, j)'
        PROVE  Passed(m, j)
    <3>1. m.key.start \in Nat
      BY <1>3, KeyOf
    <3>2. j < field \/ (j = field /\ m.key.start < KeyEnd)
      BY <1>2, <2>1 DEF Passed
    <3>3. CASE j < field \/ m.key.start < from
      BY <3>2, <3>3 DEF Passed
    <3>4. CASE j = field /\ from <= m.key.start /\ m.key.start < KeyEnd
      <4>1. Due(m, field)
        BY <2>1, <3>4
      <4>2. ~(KeyEnd <= m.key.start)
        BY <1>4, <3>1, <3>4
      <4> QED
        BY <1>1, <3>4, <4>1, <4>2, DueFound
    <3> QED
      BY <1>3, <3>1, <3>2, <3>3, <3>4
  <2> QED
    BY <1>2, <2>1 DEF IInv, Scanned, Due
<1>8. NothingTaken'
  BY <1>2 DEF NothingTaken
<1> QED
  BY <1>5, <1>6, <1>7, <1>8 DEF IInv

LEMMA RedactHolds == IInv /\ Redact => IInv'
<1> SUFFICES ASSUME IInv, Redact PROVE IInv'
  OBVIOUS
<1>1. PICK hs \in Reports(body) : hits' = Kept(hs)
  BY DEF Redact
<1>2. /\ stage = "detect" /\ stage' = "sent" /\ body' = body /\ field' = field
      /\ from' = from /\ ranges' = ranges
  BY DEF Redact
<1>3. hs \in Seq([start : Nat, end : Nat, placeholder : Placeholders])
  BY JSONBodyAssumption DEF IInv, Typed, TypeOK, IsReport
<1>4. Typed'
  BY <1>2 DEF IInv, Typed, TypeOK
<1>5. RangesAreValues'
  BY <1>2 DEF IInv, RangesAreValues
<1>6. Scanned'
  BY <1>2 DEF IInv, Scanned, Due, Passed
<1>7. NothingTaken'
  BY <1>1, <1>2, <1>3, KeptFacts DEF NothingTaken
<1> QED
  BY <1>4, <1>5, <1>6, <1>7 DEF IInv

(* The invariant is inductive.                                             *)
THEOREM Inductive == Spec => []IInv
<1>1. IInv /\ [Next]_vars => IInv'
  <2> SUFFICES ASSUME IInv, [Next]_vars PROVE IInv'
    OBVIOUS
  <2>1. CASE SkipInvalid
    BY <2>1, OtherSteps DEF SkipInvalid
  <2>2. CASE NextField
    BY <2>2, NextFieldHolds
  <2>3. CASE Protect
    BY <2>3, ProtectHolds
  <2>4. CASE PassOver
    BY <2>4, PassOverHolds
  <2>5. CASE Redact
    BY <2>5, RedactHolds
  <2>6. CASE Answer
    BY <2>6, OtherSteps DEF Answer
  <2>7. CASE Restore
    BY <2>7, OtherSteps DEF Restore
  <2>8. CASE UNCHANGED vars
    BY <2>8, OtherSteps DEF vars, IInv, Typed, TypeOK
  <2> QED
    BY <2>1, <2>2, <2>3, <2>4, <2>5, <2>6, <2>7, <2>8 DEF Next
<1> QED
  BY InitHolds, <1>1, PTL DEF Spec

(* Every variable has its type, and the scanner stays within the body      *)
(* (protectedJSONValueRangesForField), whatever the body and the fields.   *)
THEOREM TypeCorrect == Spec => []TypeOK
<1>1. IInv => TypeOK
  BY DEF IInv, Typed
<1> QED
  BY Inductive, <1>1, PTL

(* What the scanner protects is always the whole value of a member with    *)
(* one of the fields' names (protectedJSONValueRangesForField).            *)
THEOREM OnlyValuesProtected == Spec => []RangesAreValues
<1>1. IInv => RangesAreValues
  BY DEF IInv
<1> QED
  BY Inductive, <1>1, PTL

(* No member is missed, and none of the values that are to be protected is *)
(* touched by a hit that redactBody replaces.                              *)
THEOREM ProtectedNeverTouched == Spec => []ProtectedUntouched
<1>1. IInv => ProtectedUntouched
  <2> SUFFICES ASSUME IInv, stage = "sent", Valid(body),
                      NEW m \in Members(body), NEW f \in ToSet(Fields),
                      Content(body, m.key) = <<f>>, ShouldProtect(f, Content(body, m.value)),
                      NEW k \in DOMAIN hits
               PROVE  ~Overlaps(hits[k], m.value)
    BY DEF ProtectedUntouched
  <2>1. PICK j \in 1 .. Len(Fields) : f = Fields[j]
    BY TypedFacts DEF IInv
  <2>2. PICK i \in DOMAIN ranges : ranges[i] = m.value
    BY <2>1 DEF IInv, Scanned, Due, Passed
  <2> QED
    BY <2>2 DEF IInv, NothingTaken
<1> QED
  BY Inductive, <1>1, PTL

-----------------------------------------------------------------------------
(* Another body made of the same symbols: what stands outside the strings  *)
(* is in order at other places, and some parts of strings are replaced.    *)
Increasing(f, S) == \A x, y \in S : x < y => f[x] < f[y]

(* A set that is moved to other places, in order.                          *)
LEMMA MovedFacts ==
  ASSUME NEW S, NEW n \in Nat, S \in SUBSET (0 .. n),
         NEW R, NEW m \in Nat, R \in SUBSET (0 .. m),
         NEW f \in [S -> R], Increasing(f, S), \A y \in R : \E x \in S : y = f[x]
  PROVE  Cardinality(R) = Cardinality(S)
<1>1. /\ \A x \in S : x \in Nat /\ f[x] \in Nat
      /\ \A y \in R : y \in Nat
  <2>1. \A x \in S : x \in 0 .. n
    OBVIOUS
  <2>2. \A y \in R : y \in 0 .. m
    OBVIOUS
  <2>3. \A x \in S : f[x] \in R
    OBVIOUS
  <2>4. \A x \in S : x \in Nat
    BY <2>1
  <2>5. \A y \in R : y \in Nat
    BY <2>2
  <2> QED
    BY <2>3, <2>4, <2>5
<1>2. ASSUME NEW x \in S, NEW y \in S, f[x] = f[y]
      PROVE  x = y
  <2>1. ~(f[x] < f[y]) /\ ~(f[y] < f[x])
    BY <1>1, <1>2
  <2>2. ~(x < y) /\ ~(y < x)
    BY <2>1 DEF Increasing
  <2> QED
    BY <1>1, <2>2
<1>3. f \in Surjection(S, R)
  BY DEF Surjection
<1>4. f \in Injection(S, R)
  BY <1>2 DEF Injection, IsInjective
<1>5. IsFiniteSet(S)
  BY Finite
<1> QED
  BY <1>3, <1>4, <1>5, FS_Surjection

(* f moves the elements of S to those of R, in order.                      *)
Moves(f, S, R) ==
  f \in [S -> R] /\ Increasing(f, S) /\ \A y \in R : \E x \in S : y = f[x]

(* A set is enumerated in one way only.                                    *)
LEMMA AscendingIs ==
  ASSUME NEW S, NEW m \in Nat, S \in SUBSET (0 .. m),
         NEW n \in Nat, NEW g, Moves(g, 1 .. n, S)
  PROVE  Ascending(S) = g /\ Cardinality(S) = n
<1>0. /\ g \in [1 .. n -> S] /\ Increasing(g, 1 .. n)
      /\ \A y \in S : \E k \in 1 .. n : y = g[k]
  BY DEF Moves
<1>1. \A k \in 0 .. n : 1 .. k \in SUBSET (0 .. n) /\ Cardinality(1 .. k) = k
  <2> SUFFICES ASSUME NEW k \in 0 .. n PROVE 1 .. k \in SUBSET (0 .. n) /\ Cardinality(1 .. k) = k
    OBVIOUS
  <2>1. 1 \in Int /\ k \in Int
    OBVIOUS
  <2>2. Cardinality(1 .. k) = IF 1 > k THEN 0 ELSE k - 1 + 1
    BY <2>1, FS_Interval
  <2> QED
    BY <2>2
<1>2. \A k \in 1 .. n : k \in Nat /\ g[k] \in S /\ g[k] \in Nat
  <2>1. \A y \in S : y \in 0 .. m
    OBVIOUS
  <2>2. \A y \in S : y \in Nat
    BY <2>1
  <2>3. \A k \in 1 .. n : k \in Nat /\ g[k] \in S
    BY <1>0
  <2> QED
    BY <2>2, <2>3
<1>3. Cardinality(S) = n
  <2>1. n \in 0 .. n
    OBVIOUS
  <2>2. Cardinality(S) = Cardinality(1 .. n)
    BY <1>0, <1>1, <2>1, MovedFacts
  <2> QED
    BY <1>1, <2>1, <2>2
<1>4. ASSUME NEW k \in 1 .. n
      PROVE  Rank(S, g[k]) = k - 1
  <2> DEFINE R == {y \in S : y < g[k]}
             A == 1 .. k - 1
             h == [i \in A |-> g[i]]
  <2>1. k - 1 \in 0 .. n /\ \A i \in A : i \in 1 .. n /\ i < k
    OBVIOUS
  <2>2. \A i \in A : h[i] = g[i] /\ h[i] \in R
    BY <1>0, <1>2, <2>1 DEF Increasing
  <2>3. h \in [A -> R]
    BY <2>2
  <2>4. \A y \in R : \E i \in A : y = h[i]
    <3> SUFFICES ASSUME NEW y \in R PROVE \E i \in A : y = h[i]
      OBVIOUS
    <3>1. PICK i \in 1 .. n : y = g[i]
      BY <1>0
    <3>2. ~(k < i) /\ i # k
      BY <1>0, <1>2, <3>1 DEF Increasing
    <3>3. i \in A
      BY <3>2
    <3> QED
      BY <2>2, <3>1, <3>3
  <2>5. R \in SUBSET (0 .. m) /\ A \in SUBSET (0 .. n) /\ Cardinality(A) = k - 1
    BY <1>1, <2>1
  <2>6. Rank(S, g[k]) = Cardinality(R)
    BY DEF Rank
  <2>7. \A i \in A : i \in 1 .. n
    BY <2>1
  <2> HIDE DEF h, R, A
  <2>8. Increasing(h, A)
    BY <1>0, <2>2, <2>7 DEF Increasing
  <2>9. Cardinality(R) = Cardinality(A)
    BY <2>3, <2>4, <2>5, <2>8, MovedFacts
  <2> QED
    BY <2>5, <2>6, <2>9
<1>5. DOMAIN Ascending(S) = 1 .. n /\ \A x \in S : Ascending(S)[Rank(S, x) + 1] = x
  BY <1>3, AscendingFacts
<1>6. \A k \in 1 .. n : Ascending(S)[k] = g[k]
  <2> SUFFICES ASSUME NEW k \in 1 .. n PROVE Ascending(S)[k] = g[k]
    OBVIOUS
  <2>1. Rank(S, g[k]) + 1 = k
    BY <1>4
  <2> QED
    BY <1>2, <1>5, <2>1
<1>7. Ascending(S) = [k \in 1 .. Cardinality(S) |-> Ascending(S)[k]]
  <2> DEFINE e(k) == CHOOSE i \in S : Cardinality({j \in S : j < i}) = k - 1
  <2>1. Ascending(S) = [k \in 1 .. Cardinality(S) |-> e(k)]
    BY DEF Ascending
  <2> HIDE DEF e
  <2> QED
    BY <2>1
<1>8. g = [k \in 1 .. n |-> g[k]]
  BY <1>0
<1> HIDE DEF Ascending
<1>9. [k \in 1 .. n |-> Ascending(S)[k]] = [k \in 1 .. n |-> g[k]]
  BY <1>6
<1> QED
  BY <1>3, <1>7, <1>8, <1>9

LEMMA AscendingInOrder ==
  ASSUME NEW S, NEW m \in Nat, S \in SUBSET (0 .. m)
  PROVE  Increasing(Ascending(S), 1 .. Cardinality(S))
<1> SUFFICES ASSUME NEW i \in 1 .. Cardinality(S), NEW j \in 1 .. Cardinality(S), i < j
             PROVE  Ascending(S)[i] < Ascending(S)[j]
  BY DEF Increasing
<1>1. PICK x, y : x = Ascending(S)[i] /\ y = Ascending(S)[j]
  OBVIOUS
<1>2. x \in S /\ y \in S /\ Rank(S, x) = i - 1 /\ Rank(S, y) = j - 1
  BY <1>1, AscendingFacts
<1>3. i \in Nat /\ j \in Nat /\ x \in Nat /\ y \in Nat
  <2>1. Cardinality(S) \in Nat
    BY Finite
  <2>2. x \in 0 .. m /\ y \in 0 .. m
    BY <1>2
  <2> QED
    BY <2>1, <2>2
<1>4. y < x => Rank(S, y) < Rank(S, x)
  BY <1>2, <1>3, RankFacts
<1>5. x # y
  BY <1>2, <1>3
<1>6. x < y
  BY <1>2, <1>3, <1>4, <1>5
<1> QED
  BY <1>1, <1>6

OneByOne(f, S, R) ==
  /\ DOMAIN Ascending(R) = DOMAIN Ascending(S)
  /\ \A k \in DOMAIN Ascending(S) :
       Ascending(S)[k] \in S /\ Ascending(R)[k] = f[Ascending(S)[k]]

LEMMA MovedAscending ==
  ASSUME NEW S, NEW n \in Nat, S \in SUBSET (0 .. n),
         NEW R, NEW m \in Nat, R \in SUBSET (0 .. m), NEW f, Moves(f, S, R)
  PROVE  OneByOne(f, S, R)
<1> DEFINE c == Cardinality(S)
           at == Ascending(S)
           g == [k \in 1 .. c |-> f[at[k]]]
<1>0. f \in [S -> R] /\ Increasing(f, S) /\ \A y \in R : \E x \in S : y = f[x]
  BY DEF Moves
<1>1. c \in Nat /\ DOMAIN at = 1 .. c
  BY Finite, AscendingFacts
<1>2. \A k \in 1 .. c : at[k] \in S
  BY AscendingFacts
<1>3. \A x \in S : \E k \in 1 .. c : at[k] = x
  BY AscendingFacts
<1>4. Increasing(at, 1 .. c)
  BY AscendingInOrder
<1> HIDE DEF c, at
<1>5. g \in [1 .. c -> R] /\ \A k \in 1 .. c : g[k] = f[at[k]]
  BY <1>0, <1>2
<1> HIDE DEF g
<1>6. Increasing(g, 1 .. c)
  BY <1>0, <1>2, <1>4, <1>5 DEF Increasing
<1>7. \A y \in R : \E k \in 1 .. c : y = g[k]
  BY <1>0, <1>3, <1>5
<1>8. Ascending(R) = g
  <2>1. Moves(g, 1 .. c, R)
    BY <1>5, <1>6, <1>7 DEF Moves
  <2> QED
    BY <1>1, <2>1, AscendingIs
<1>9. DOMAIN g = 1 .. c
  BY <1>5
<1> QED
  BY <1>1, <1>2, <1>5, <1>8, <1>9 DEF at, OneByOne

(* f says where the symbols of s are in t; at H begin the parts that a     *)
(* single symbol replaces, and none of them holds a quote.                 *)
Aligned(s, t, K, H, f) ==
  /\ K \in SUBSET (1 .. Len(s)) /\ H \in SUBSET K
  /\ Len(s) > 0 => 1 \in K
  /\ f \in [K -> 1 .. Len(t)] /\ Increasing(f, K)
  /\ \A j \in 1 .. Len(t) : \E i \in K : j = f[i]
  /\ \A i \in K : IF i \in H THEN t[f[i]] \notin {Q, B} ELSE t[f[i]] = s[i]
  /\ \A x, i \in K : f[i] = f[x] + 1 => IF x \in H THEN i \notin Escapes(s) ELSE i = x + 1
  /\ \A i \in 1 .. Len(s) : i \in H \/ i \notin K => i \notin Quotes(s)

(* All that is replaced is in strings, and splits no escape.               *)
Reworded(s, t, K, H, f) ==
  /\ Aligned(s, t, K, H, f)
  /\ \A i \in H : i \notin Escapes(s)
  /\ \A i \in 1 .. Len(s) : i \in H \/ i \notin K => Rank(Quotes(s), i) % 2 = 1

LEMMA SameEscapes ==
  ASSUME NEW T, NEW s \in Seq(T), NEW t \in Seq(T), NEW K, NEW H, NEW f,
         Aligned(s, t, K, H, f)
  PROVE  \A i \in K : i \in Escapes(s) <=> f[i] \in Escapes(t)
<1> DEFINE Same(i) == i \in Escapes(s) <=> f[i] \in Escapes(t)
           Bad == {i \in K : ~Same(i)}
<1>1. /\ Len(s) \in Nat /\ Len(t) \in Nat
      /\ \A i \in K : i \in 1 .. Len(s) /\ i \in Nat /\ f[i] \in 1 .. Len(t) /\ f[i] \in Nat
  <2>1. \A i \in K : i \in 1 .. Len(s) /\ f[i] \in 1 .. Len(t)
    BY DEF Aligned
  <2>2. Len(s) \in Nat /\ Len(t) \in Nat
    OBVIOUS
  <2> QED
    BY <2>1, <2>2
<1>2. Rule(s, Escapes(s)) /\ Rule(t, Escapes(t))
  BY EscapesRule
<1>3. \A i : i \in Bad <=> i \in K /\ ~Same(i)
  OBVIOUS
<1> HIDE DEF Bad
<1>4. ASSUME Bad # {}
      PROVE  FALSE
  <2>1. Bad \in SUBSET Nat
    BY <1>1, <1>3
  <2>2. PICK i \in Bad : \A j \in Bad : i <= j
    BY <1>4, <2>1, Least
  <2>3. i \in K /\ ~Same(i)
    BY <1>3
  <2>4. i \in Escapes(s) <=> i > 1 /\ s[i - 1] = B /\ i - 1 \notin Escapes(s)
    BY <1>1, <1>2, <2>3 DEF Rule
  <2>5. f[i] \in Escapes(t) <=> f[i] > 1 /\ t[f[i] - 1] = B /\ f[i] - 1 \notin Escapes(t)
    BY <1>1, <1>2, <2>3 DEF Rule
  <2>6. CASE f[i] = 1
    <3>1. 1 \in K
      BY <1>1, <2>3 DEF Aligned
    <3>2. ~(1 < i)
      <4>1. 1 < i => f[1] < f[i]
        BY <2>3, <3>1 DEF Aligned, Increasing
      <4> QED
        BY <1>1, <2>6, <3>1, <4>1
    <3>3. i = 1
      BY <1>1, <2>3, <3>2
    <3> QED
      BY <2>3, <2>4, <2>5, <2>6, <3>3
  <2>7. CASE f[i] # 1
    <3>1. f[i] - 1 \in 1 .. Len(t) /\ f[i] > 1
      BY <1>1, <2>3, <2>7
    <3>2. PICK x \in K : f[i] - 1 = f[x]
      BY <3>1 DEF Aligned
    <3>3. f[i] = f[x] + 1
      BY <1>1, <2>3, <3>2
    <3>4. IF x \in H THEN i \notin Escapes(s) ELSE i = x + 1
      BY <2>3, <3>2, <3>3 DEF Aligned
    <3>5. IF x \in H THEN t[f[x]] \notin {Q, B} ELSE t[f[x]] = s[x]
      BY <3>2 DEF Aligned
    <3>6. CASE x \in H
      BY <2>3, <2>5, <3>2, <3>4, <3>5, <3>6
    <3>7. CASE x \notin H
      <4>1. i = x + 1 /\ i - 1 = x /\ i > 1 /\ ~(i <= x)
        BY <1>1, <3>2, <3>4, <3>7
      <4>2. Same(x)
        BY <1>3, <2>2, <3>2, <4>1
      <4> QED
        BY <2>3, <2>4, <2>5, <3>1, <3>2, <3>5, <3>7, <4>1, <4>2
    <3> QED
      BY <3>6, <3>7
  <2> QED
    BY <2>6, <2>7
<1> QED
  BY <1>3, <1>4

LEMMA SameQuotes ==
  ASSUME NEW T, NEW s \in Seq(T), NEW t \in Seq(T), NEW K, NEW H, NEW f,
         Aligned(s, t, K, H, f)
  PROVE  /\ Quotes(s) \in SUBSET K
         /\ \A i \in K : i \in Quotes(s) <=> f[i] \in Quotes(t)
         /\ Cardinality(Quotes(t)) = Cardinality(Quotes(s))
         /\ \A i \in K : Rank(Quotes(t), f[i]) = Rank(Quotes(s), i)
<1>1. /\ Len(s) \in Nat /\ Len(t) \in Nat
      /\ Quotes(s) \in SUBSET (0 .. Len(s)) /\ Quotes(t) \in SUBSET (0 .. Len(t))
      /\ \A i : i \in Quotes(s) <=> i \in 1 .. Len(s) /\ s[i] = Q /\ i \notin Escapes(s)
      /\ \A i : i \in Quotes(t) <=> i \in 1 .. Len(t) /\ t[i] = Q /\ i \notin Escapes(t)
  BY QuotesAre
<1>2. Quotes(s) \in SUBSET K
  BY <1>1 DEF Aligned
<1>3. \A i \in K : /\ i \in 1 .. Len(s) /\ f[i] \in 1 .. Len(t)
                   /\ i \in Nat /\ f[i] \in Nat
  <2>1. \A i \in K : i \in 1 .. Len(s) /\ f[i] \in 1 .. Len(t)
    BY DEF Aligned
  <2> QED
    BY <1>1, <2>1
<1>4. \A i \in K : IF i \in H THEN t[f[i]] # Q /\ i \notin Quotes(s) ELSE t[f[i]] = s[i]
  BY <1>3 DEF Aligned
<1>5. \A i \in K : i \in Quotes(s) <=> f[i] \in Quotes(t)
  <2> SUFFICES ASSUME NEW i \in K PROVE i \in Quotes(s) <=> f[i] \in Quotes(t)
    OBVIOUS
  <2>1. i \in Escapes(s) <=> f[i] \in Escapes(t)
    BY SameEscapes
  <2> QED
    BY <1>1, <1>3, <1>4, <2>1
<1>6. ASSUME NEW A, NEW C, A \in SUBSET Quotes(s), C \in SUBSET Quotes(t),
             \A q \in K : q \in Quotes(s) => (q \in A <=> f[q] \in C)
      PROVE  Cardinality(C) = Cardinality(A)
  <2> DEFINE g == [q \in A |-> f[q]]
  <2>1. \A q \in A : g[q] = f[q] /\ q \in K /\ g[q] \in C
    BY <1>2, <1>6
  <2>2. g \in [A -> C]
    BY <2>1
  <2> HIDE DEF g
  <2>3. Increasing(g, A)
    BY <2>1 DEF Increasing, Aligned
  <2>4. \A y \in C : \E q \in A : y = g[q]
    <3> SUFFICES ASSUME NEW y \in C PROVE \E q \in A : y = g[q]
      OBVIOUS
    <3>1. y \in 1 .. Len(t) /\ y \in Quotes(t)
      BY <1>1, <1>6
    <3>2. PICK q \in K : y = f[q]
      BY <3>1 DEF Aligned
    <3>3. q \in A
      BY <1>5, <1>6, <3>1, <3>2
    <3> QED
      BY <2>1, <3>2, <3>3
  <2>5. A \in SUBSET (0 .. Len(s)) /\ C \in SUBSET (0 .. Len(t))
    BY <1>1, <1>6
  <2>6. Len(s) \in Nat /\ Len(t) \in Nat
    OBVIOUS
  <2> QED
    BY <2>2, <2>3, <2>4, <2>5, <2>6, MovedFacts
<1>7. Cardinality(Quotes(t)) = Cardinality(Quotes(s))
  BY <1>5, <1>6
<1>8. \A x, y \in K : f[x] < f[y] <=> x < y
  <2> SUFFICES ASSUME NEW x \in K, NEW y \in K, f[x] < f[y] PROVE x < y
    BY DEF Aligned, Increasing
  <2>1. y < x => f[y] < f[x]
    BY DEF Aligned, Increasing
  <2>2. x # y
    BY <1>3
  <2> QED
    BY <1>3, <2>1, <2>2
<1>9. ASSUME NEW i \in K
      PROVE  Rank(Quotes(t), f[i]) = Rank(Quotes(s), i)
  <2> DEFINE A == {q \in Quotes(s) : q < i}
             C == {q \in Quotes(t) : q < f[i]}
  <2>1. \A q \in K : q \in Quotes(s) => (q \in A <=> f[q] \in C)
    BY <1>5, <1>8
  <2>2. Rank(Quotes(s), i) = Cardinality(A) /\ Rank(Quotes(t), f[i]) = Cardinality(C)
    BY DEF Rank
  <2>3. A \in SUBSET Quotes(s) /\ C \in SUBSET Quotes(t)
    OBVIOUS
  <2> HIDE DEF A, C
  <2> QED
    BY <1>6, <2>1, <2>2, <2>3
<1> QED
  BY <1>2, <1>5, <1>7, <1>9

LEMMA SameOutline ==
  ASSUME NEW T, NEW s \in Seq(T), NEW t \in Seq(T), NEW K, NEW H, NEW f,
         Reworded(s, t, K, H, f)
  PROVE  Outline(t) = Outline(s)
<1> DEFINE S == Outside(s)
           R == Outside(t)
           at == Ascending(S)
           to == Ascending(R)
           g == [i \in S |-> f[i]]
<1>1. Len(s) \in Nat /\ Len(t) \in Nat /\ DOMAIN s = 1 .. Len(s) /\ DOMAIN t = 1 .. Len(t)
  OBVIOUS
<1>2. /\ \A i : i \in S <=> i \in 1 .. Len(s) /\ Rank(Quotes(s), i) % 2 = 0 /\ s[i] # Space
      /\ \A i : i \in R <=> i \in 1 .. Len(t) /\ Rank(Quotes(t), i) % 2 = 0 /\ t[i] # Space
  BY <1>1 DEF Outside
<1>3. Outline(s) = [k \in DOMAIN at |-> s[at[k]]] /\ Outline(t) = [k \in DOMAIN to |-> t[to[k]]]
  BY DEF Outline, Outside, Rank
<1> HIDE DEF S, R
<1>4. \A i \in S : i \in K /\ i \notin H
  <2> SUFFICES ASSUME NEW i \in S, i \in H \/ i \notin K PROVE FALSE
    OBVIOUS
  <2>1. Rank(Quotes(s), i) % 2 = 1
    BY <1>2 DEF Reworded, Aligned
  <2> QED
    BY <1>2, <2>1
<1>5. \A i \in K : i \in 1 .. Len(s) /\ f[i] \in 1 .. Len(t)
  BY DEF Reworded, Aligned
<1>6. ASSUME NEW i \in K
      PROVE  /\ i \notin H => t[f[i]] = s[i]
             /\ i \in S <=> f[i] \in R
  <2>1. Rank(Quotes(t), f[i]) = Rank(Quotes(s), i)
    BY SameQuotes DEF Reworded
  <2>2. i \notin H => t[f[i]] = s[i]
    BY DEF Reworded, Aligned
  <2>3. i \in H => Rank(Quotes(s), i) % 2 = 1
    BY <1>5 DEF Reworded, Aligned
  <2>4. CASE i \in H
    BY <1>2, <1>4, <2>1, <2>3, <2>4
  <2>5. CASE i \notin H
    BY <1>2, <1>5, <2>1, <2>2, <2>5
  <2> QED
    BY <2>2, <2>4, <2>5
<1>7. \A i \in S : g[i] = f[i] /\ g[i] \in R
  BY <1>4, <1>6
<1>8. g \in [S -> R]
  BY <1>7
<1> HIDE DEF g
<1>9. Increasing(g, S)
  BY <1>4, <1>7 DEF Increasing, Reworded, Aligned
<1>10. \A y \in R : \E i \in S : y = g[i]
  <2> SUFFICES ASSUME NEW y \in R PROVE \E i \in S : y = g[i]
    OBVIOUS
  <2>1. PICK i \in K : y = f[i]
    BY <1>2 DEF Reworded, Aligned
  <2> QED
    BY <1>6, <1>7, <2>1
<1>11. S \in SUBSET (0 .. Len(s)) /\ R \in SUBSET (0 .. Len(t))
  <2>1. \A i \in 1 .. Len(s) : i \in 0 .. Len(s)
    OBVIOUS
  <2>2. \A i \in 1 .. Len(t) : i \in 0 .. Len(t)
    OBVIOUS
  <2> QED
    BY <1>2, <2>1, <2>2
<1>12. DOMAIN to = DOMAIN at /\ \A k \in DOMAIN at : to[k] = g[at[k]]
  <2>1. Len(s) \in Nat /\ Len(t) \in Nat
    BY <1>1
  <2> HIDE DEF at, to
  <2>2. Moves(g, S, R)
    BY <1>8, <1>9, <1>10 DEF Moves
  <2>3. S \in SUBSET (0 .. Len(s)) /\ R \in SUBSET (0 .. Len(t))
    BY <1>11
  <2>4. OneByOne(g, S, R)
    BY <2>1, <2>2, <2>3, MovedAscending
  <2> QED
    BY <2>4 DEF at, to, OneByOne
<1>13. \A k \in DOMAIN at : at[k] \in S
  BY <1>1, <1>11, AscendingFacts
<1> HIDE DEF at, to
<1>14. \A k \in DOMAIN at : t[to[k]] = s[at[k]]
  <2> SUFFICES ASSUME NEW k \in DOMAIN at PROVE t[to[k]] = s[at[k]]
    OBVIOUS
  <2>1. at[k] \in S /\ to[k] = f[at[k]]
    BY <1>7, <1>12, <1>13
  <2> QED
    BY <1>4, <1>6, <2>1
<1> QED
  BY <1>3, <1>12, <1>14

(* What is made of the same symbols is JSON as much as the other was.      *)
LEMMA SameForm ==
  ASSUME NEW T, NEW s \in Seq(T), NEW t \in Seq(T), NEW K, NEW H, NEW f,
         Reworded(s, t, K, H, f), Valid(s)
  PROVE  Valid(t) /\ Len(Strings(t)) = Len(Strings(s))
<1>1. Cardinality(Quotes(t)) = Cardinality(Quotes(s))
  BY SameQuotes DEF Reworded
<1>2. Closed(t)
  BY <1>1 DEF Valid, Closed
<1>3. \A j \in Escapes(t) : t[j] \in {Q, B, "/"}
  <2> SUFFICES ASSUME NEW j \in Escapes(t) PROVE t[j] \in {Q, B, "/"}
    OBVIOUS
  <2>1. j \in 1 .. Len(t)
    BY EscapesRule
  <2>2. PICK i \in K : j = f[i]
    BY <2>1 DEF Reworded, Aligned
  <2>3. i \in Escapes(s)
    BY <2>2, SameEscapes DEF Reworded
  <2>4. i \notin H /\ t[f[i]] = s[i]
    BY <2>2, <2>3 DEF Reworded, Aligned
  <2> QED
    BY <2>2, <2>3, <2>4 DEF Valid
<1>4. Valid(t)
  BY <1>2, <1>3, SameOutline DEF Valid
<1>5. Len(Ascending(Quotes(t))) = Len(Ascending(Quotes(s)))
  <2>1. /\ Quotes(s) \in SUBSET (0 .. Len(s)) /\ Quotes(t) \in SUBSET (0 .. Len(t))
        /\ Len(s) \in Nat /\ Len(t) \in Nat
    BY QuotesAre
  <2>2. Len(Ascending(Quotes(s))) = Cardinality(Quotes(s))
    BY <2>1, AscendingFacts
  <2>3. Len(Ascending(Quotes(t))) = Cardinality(Quotes(t))
    BY <2>1, AscendingFacts
  <2> QED
    BY <1>1, <2>2, <2>3
<1>6. Len(Strings(t)) = Len(Strings(s))
  <2> DEFINE n == Len(Ascending(Quotes(s)))
  <2>1. /\ DOMAIN Strings(s) = 1 .. n \div 2
        /\ DOMAIN Strings(t) = 1 .. n \div 2
    BY <1>5 DEF Strings
  <2> QED
    BY <1>5 DEF Strings
<1> QED
  BY <1>4, <1>6

-----------------------------------------------------------------------------
(* Texts put together, piece by piece.                                     *)
Joins(F, T, p, k) ==
  /\ F \in [0 .. k -> Seq(T)]
  /\ F[0] = <<>>
  /\ \A i \in 1 .. k : F[i] = F[i - 1] \o p[i]

LEMMA SomeJoins ==
  ASSUME NEW T, NEW p \in Seq(Seq(T))
  PROVE  \A k \in 0 .. Len(p) : \E F : Joins(F, T, p, k)
<1> DEFINE Bad == {k \in 0 .. Len(p) : ~\E F : Joins(F, T, p, k)}
<1>1. \A k : k \in Bad <=> k \in 0 .. Len(p) /\ ~\E F : Joins(F, T, p, k)
  OBVIOUS
<1>2. Len(p) \in Nat /\ \A i \in 1 .. Len(p) : p[i] \in Seq(T)
  BY ElementOfSeq, LenProperties
<1> HIDE DEF Bad
<1>3. ASSUME Bad # {}
      PROVE  FALSE
  <2>1. PICK k \in Bad : \A j \in Bad : k <= j
    <3>1. Bad \in SUBSET Nat
      BY <1>1, <1>2
    <3> QED
      BY <1>3, <3>1, Least
  <2>2. k \in 0 .. Len(p) /\ ~\E F : Joins(F, T, p, k) /\ k \in Nat
    BY <1>1, <1>2
  <2>3. CASE k = 0
    <3> DEFINE F == [i \in {0} |-> <<>>]
    <3>1. F \in [0 .. 0 -> Seq(T)] /\ F[0] = <<>> /\ \A i \in 1 .. 0 : FALSE
      <4>1. <<>> \in Seq(T)
        BY EmptySeq
      <4>2. 0 .. 0 = {0} /\ \A i \in 1 .. 0 : FALSE
        OBVIOUS
      <4> QED
        BY <4>1, <4>2
    <3> HIDE DEF F
    <3>2. Joins(F, T, p, 0)
      BY <3>1 DEF Joins
    <3> QED
      BY <2>2, <2>3, <3>2
  <2>4. CASE k # 0
    <3> DEFINE l == k - 1
    <3>1. l \in 0 .. Len(p) /\ l \in Nat /\ k = l + 1 /\ ~(k <= l) /\ k \in 1 .. Len(p)
      BY <1>2, <2>2, <2>4
    <3> HIDE DEF l
    <3>2. PICK F : Joins(F, T, p, l)
      BY <1>1, <2>1, <3>1
    <3>3. /\ F \in [0 .. l -> Seq(T)] /\ F[0] = <<>>
          /\ \A i \in 1 .. l : F[i] = F[i - 1] \o p[i]
      BY <3>2 DEF Joins
    <3>4. PICK last \in Seq(T) : last = F[l] \o p[k]
      <4>1. F[l] \in Seq(T) /\ p[k] \in Seq(T)
        BY <1>2, <3>1, <3>3
      <4> QED
        BY <4>1, ConcatProperties
    <3> DEFINE G == [i \in 0 .. k |-> IF i = k THEN last ELSE F[i]]
    <3>5. \A i \in 0 .. k : i # k => i \in 0 .. l
      BY <3>1
    <3>6. G \in [0 .. k -> Seq(T)]
      BY <3>3, <3>4, <3>5
    <3>7. G[k] = last /\ \A i \in 0 .. l : G[i] = F[i]
      BY <3>1
    <3> HIDE DEF G
    <3>8. ASSUME NEW i \in 1 .. k
          PROVE  G[i] = G[i - 1] \o p[i]
      <4>1. i - 1 \in 0 .. l /\ (i # k => i \in 1 .. l /\ i \in 0 .. l) /\ (i = k => i - 1 = l)
        BY <3>1
      <4>2. G[i - 1] = F[i - 1]
        BY <3>7, <4>1
      <4>3. CASE i = k
        BY <3>4, <3>7, <4>1, <4>2, <4>3
      <4>4. CASE i # k
        <5>1. G[i] = F[i] /\ F[i] = F[i - 1] \o p[i]
          BY <3>3, <3>7, <4>1, <4>4
        <5> QED
          BY <4>2, <5>1
      <4> QED
        BY <4>3, <4>4
    <3>9. G[0] = <<>>
      BY <3>1, <3>3, <3>7
    <3>10. Joins(G, T, p, k)
      BY <3>6, <3>8, <3>9 DEF Joins
    <3> QED
      BY <2>2, <3>10
  <2> QED
    BY <2>3, <2>4
<1> QED
  BY <1>1, <1>3

JoinsFrom1(g, p) ==
  g = [i \in 1 .. Len(p) |-> IF i = 1 THEN p[i] ELSE g[i - 1] \o p[i]]

LEMMA FlattenIs ==
  \A p : FlattenSeq(p) =
    IF Len(p) = 0 THEN p ELSE LET g == CHOOSE g : JoinsFrom1(g, p) IN g[Len(p)]
BY DEF FlattenSeq, JoinsFrom1

LEMMA FlattenGives ==
  ASSUME NEW T, NEW p \in Seq(Seq(T)), p # <<>>, NEW F, Joins(F, T, p, Len(p))
  PROVE  FlattenSeq(p) = F[Len(p)]
<1> DEFINE n == Len(p)
<1>1. n \in Nat /\ n # 0 /\ \A i \in 1 .. n : p[i] \in Seq(T)
  BY ElementOfSeq, LenProperties, EmptySeq
<1>2. /\ F \in [0 .. n -> Seq(T)] /\ F[0] = <<>>
      /\ \A i \in 1 .. n : F[i] = F[i - 1] \o p[i]
  BY DEF Joins
<1> HIDE DEF n
<1>3. 1 \in 1 .. n => F[1] = p[1]
  <2> SUFFICES ASSUME 1 \in 1 .. n PROVE F[1] = p[1]
    OBVIOUS
  <2>1. p[1] \in Seq(T)
    BY <1>1
  <2>2. F[1] = F[1 - 1] \o p[1]
    BY <1>2
  <2>3. 1 - 1 = 0
    OBVIOUS
  <2>4. F[1] = <<>> \o p[1]
    BY <1>2, <2>2, <2>3
  <2> QED
    BY <2>1, <2>4, ConcatEmptySeq
<1>4. \E g : JoinsFrom1(g, p)
  <2> DEFINE g == [i \in 1 .. n |-> F[i]]
  <2>1. \A i \in 1 .. n : g[i] = F[i]
    OBVIOUS
  <2>2. g = [i \in 1 .. n |-> g[i]]
    OBVIOUS
  <2> HIDE DEF g
  <2>3. ASSUME NEW i \in 1 .. n
        PROVE  g[i] = IF i = 1 THEN p[i] ELSE g[i - 1] \o p[i]
    <3>1. CASE i = 1
      BY <1>3, <2>1, <3>1
    <3>2. CASE i # 1
      <4>1. i - 1 \in 1 .. n
        BY <1>1, <3>2
      <4> QED
        BY <1>2, <2>1, <3>2, <4>1
    <3> QED
      BY <3>1, <3>2
  <2>4. JoinsFrom1(g, p)
    BY <2>2, <2>3 DEF JoinsFrom1, n
  <2> QED
    BY <2>4
<1>5. PICK g : g = CHOOSE h : JoinsFrom1(h, p)
  OBVIOUS
<1>6. \A i \in 1 .. n : g[i] = IF i = 1 THEN p[i] ELSE g[i - 1] \o p[i]
  <2>1. JoinsFrom1(g, p)
    BY <1>4, <1>5
  <2>2. g = [i \in 1 .. n |-> IF i = 1 THEN p[i] ELSE g[i - 1] \o p[i]]
    BY <2>1 DEF JoinsFrom1, n
  <2> QED
    BY <2>2
<1> DEFINE Bad == {i \in 1 .. n : g[i] # F[i]}
<1>7. \A i : i \in Bad <=> i \in 1 .. n /\ g[i] # F[i]
  OBVIOUS
<1> HIDE DEF Bad
<1>8. ASSUME Bad # {}
      PROVE  FALSE
  <2>1. PICK i \in Bad : \A j \in Bad : i <= j
    <3>1. Bad \in SUBSET Nat
      BY <1>7
    <3> QED
      BY <1>8, <3>1, Least
  <2>2. i \in 1 .. n /\ g[i] # F[i] /\ i \in Nat
    BY <1>7
  <2>3. CASE i = 1
    BY <1>3, <1>6, <2>2, <2>3
  <2>4. CASE i # 1
    <3>1. i - 1 \in 1 .. n /\ ~(i <= i - 1)
      BY <1>1, <2>2, <2>4
    <3>2. g[i - 1] = F[i - 1]
      BY <1>7, <2>1, <3>1
    <3> QED
      BY <1>2, <1>6, <2>2, <2>4, <3>2
  <2> QED
    BY <2>3, <2>4
<1>9. n \in 1 .. n
  BY <1>1
<1>10. g[n] = F[n]
  BY <1>7, <1>8, <1>9
<1> QED
  BY <1>1, <1>5, <1>10, FlattenIs DEF n

(* g[k] symbols of w come from the first k of the texts p.                 *)
Fills(p, w, g) ==
  /\ g \in [0 .. Len(p) -> Nat]
  /\ g[0] = 0 /\ g[Len(p)] = Len(w)
  /\ \A k \in 1 .. Len(p) : g[k] = g[k - 1] + Len(p[k])
  /\ \A k \in 1 .. Len(p) : \A i \in 1 .. Len(p[k]) : w[g[k - 1] + i] = p[k][i]

LEMMA FillsInOrder ==
  ASSUME NEW T, NEW p \in Seq(Seq(T)), NEW w, NEW g, Fills(p, w, g),
         NEW k \in 0 .. Len(p), NEW l \in 0 .. Len(p), k <= l
  PROVE  g[k] \in Nat /\ g[l] \in Nat /\ g[k] <= g[l]
<1> DEFINE n == Len(p)
           Bad == {j \in 0 .. n : k <= j /\ ~(g[k] <= g[j])}
<1>1. n \in Nat /\ k \in Nat
  BY LenProperties
<1>2. \A j : j \in Bad <=> j \in 0 .. n /\ k <= j /\ ~(g[k] <= g[j])
  OBVIOUS
<1> HIDE DEF Bad
<1>3. \A j \in 0 .. n : g[j] \in Nat
  BY DEF Fills
<1>4. ASSUME Bad # {}
      PROVE  FALSE
  <2>1. PICK j \in Bad : \A i \in Bad : j <= i
    <3>1. Bad \in SUBSET Nat
      BY <1>1, <1>2
    <3> QED
      BY <1>4, <3>1, Least
  <2>2. j \in 0 .. n /\ k <= j /\ ~(g[k] <= g[j]) /\ j \in Nat
    BY <1>1, <1>2
  <2>3. j # k
    BY <1>3, <2>2
  <2>4. PICK i \in 0 .. n : i = j - 1 /\ k <= i /\ ~(j <= i) /\ j \in 1 .. n
    <3>1. j - 1 \in 0 .. n /\ k <= j - 1 /\ ~(j <= j - 1) /\ j \in 1 .. n
      BY <1>1, <2>2, <2>3
    <3> QED
      BY <3>1
  <2>5. g[k] <= g[i]
    BY <1>2, <2>1, <2>4
  <2>6. g[j] = g[i] + Len(p[j]) /\ Len(p[j]) \in Nat
    <3>1. p[j] \in Seq(T)
      BY <2>4, ElementOfSeq
    <3> QED
      BY <2>4, <3>1, LenProperties DEF Fills
  <2>7. PICK x \in Nat, y \in Nat, z \in Nat : x = g[k] /\ y = g[i] /\ z = g[j]
    BY <1>3, <2>4, <2>2
  <2>8. x <= z
    BY <2>5, <2>6, <2>7
  <2> QED
    BY <2>2, <2>7, <2>8
<1> QED
  BY <1>2, <1>3, <1>4

LEMMA FillsEvery ==
  ASSUME NEW T, NEW p \in Seq(Seq(T)), NEW w, NEW g, Fills(p, w, g),
         Len(w) \in Nat, NEW j \in 1 .. Len(w)
  PROVE  \E k \in 1 .. Len(p) : g[k - 1] < j /\ j <= g[k]
<1> DEFINE n == Len(p)
           S == {k \in 0 .. n : j <= g[k]}
<1>1. n \in Nat /\ j \in Nat /\ j > 0
  BY LenProperties
<1>2. \A k : k \in S <=> k \in 0 .. n /\ j <= g[k]
  OBVIOUS
<1> HIDE DEF S
<1>3. n \in S
  <2>1. g[n] = Len(w) /\ n \in 0 .. n
    BY <1>1 DEF Fills
  <2>2. j <= g[n]
    BY <2>1
  <2> QED
    BY <1>2, <2>1, <2>2
<1>4. PICK k \in S : \A l \in S : k <= l
  <2>1. S \in SUBSET Nat
    BY <1>1, <1>2
  <2> QED
    BY <1>3, <2>1, Least
<1>5. k \in 0 .. n /\ j <= g[k] /\ k \in Nat
  BY <1>1, <1>2, <1>4
<1>6. k # 0
  BY <1>1, <1>5 DEF Fills
<1>7. k \in 1 .. n /\ k - 1 \in 0 .. n /\ ~(k <= k - 1)
  BY <1>1, <1>5, <1>6
<1>8. ~(j <= g[k - 1]) /\ g[k - 1] \in Nat
  BY <1>2, <1>4, <1>7 DEF Fills
<1>9. g[k - 1] < j
  BY <1>1, <1>8
<1> QED
  BY <1>5, <1>7, <1>9

LEMMA SomeFills ==
  ASSUME NEW T, NEW p \in Seq(Seq(T))
  PROVE  FlattenSeq(p) \in Seq(T) /\ \E g : Fills(p, FlattenSeq(p), g)
<1> DEFINE n == Len(p)
<1>1. n \in Nat /\ \A k \in 1 .. n : p[k] \in Seq(T)
  BY ElementOfSeq, LenProperties
<1>2. CASE n = 0
  <2>1. p = <<>> /\ FlattenSeq(p) = p
    BY <1>2, FlattenIs, EmptySeq
  <2> DEFINE g == [k \in 0 .. 0 |-> 0]
  <2>2. g \in [0 .. Len(p) -> Nat] /\ g[0] = 0
    BY <1>2
  <2> HIDE DEF g
  <2>3. Fills(p, p, g)
    BY <1>2, <2>2 DEF Fills
  <2>4. p \in Seq(T)
    BY <2>1, EmptySeq
  <2> QED
    BY <2>1, <2>3, <2>4
<1>3. CASE n # 0
  <2>1. p # <<>> /\ n \in 0 .. n
    <3>1. Len(<<>>) = 0
      BY EmptySeq
    <3> QED
      BY <1>1, <1>3, <3>1
  <2>2. PICK F : Joins(F, T, p, n)
    BY <2>1, SomeJoins
  <2>3. /\ F \in [0 .. n -> Seq(T)] /\ F[0] = <<>>
        /\ \A k \in 1 .. n : F[k] = F[k - 1] \o p[k]
    BY <2>2 DEF Joins
  <2> DEFINE t == F[n]
             g == [k \in 0 .. n |-> Len(F[k])]
  <2>4. FlattenSeq(p) = t
    BY <2>1, <2>2, FlattenGives
  <2>5. \A k \in 0 .. n : g[k] = Len(F[k]) /\ g[k] \in Nat /\ F[k] \in Seq(T)
    BY <2>3, LenProperties
  <2>6. g \in [0 .. n -> Nat]
    BY <2>5
  <2>7. g[0] = 0 /\ g[n] = Len(t) /\ t \in Seq(T)
    <3>1. 0 \in 0 .. n /\ n \in 0 .. n
      BY <1>1
    <3>2. g[0] = Len(F[0]) /\ Len(<<>>) = 0
      BY <2>5, <3>1, EmptySeq
    <3> QED
      BY <2>3, <2>5, <3>1, <3>2
  <2> HIDE DEF t, g, n
  <2>8. ASSUME NEW k \in 1 .. n
        PROVE  /\ k - 1 \in 0 .. n /\ k \in 0 .. n /\ Len(p[k]) \in Nat
               /\ g[k] = g[k - 1] + Len(p[k])
               /\ \A i \in 1 .. g[k - 1] : F[k][i] = F[k - 1][i]
               /\ \A i \in 1 .. Len(p[k]) : F[k][g[k - 1] + i] = p[k][i]
    <3>1. k - 1 \in 0 .. n /\ k \in 0 .. n
      BY <1>1
    <3> DEFINE u == F[k - 1]
               v == p[k]
    <3>2. u \in Seq(T) /\ v \in Seq(T) /\ F[k] = u \o v
      BY <1>1, <2>3, <2>5, <3>1
    <3>3. Len(u) = g[k - 1] /\ g[k - 1] \in Nat /\ g[k] = Len(F[k])
      BY <2>5, <3>1
    <3> HIDE DEF u, v
    <3>4. /\ Len(u \o v) = Len(u) + Len(v) /\ Len(v) \in Nat
          /\ \A i \in 1 .. Len(u) + Len(v) : (u \o v)[i] = IF i <= Len(u) THEN u[i] ELSE v[i - Len(u)]
      BY <3>2, ConcatProperties, LenProperties
    <3>5. g[k] = g[k - 1] + Len(v)
      BY <3>2, <3>3, <3>4
    <3>6. ASSUME NEW i \in 1 .. g[k - 1]
          PROVE  F[k][i] = u[i]
      <4>1. i \in 1 .. Len(u) + Len(v) /\ i <= Len(u)
        BY <3>3, <3>4
      <4> QED
        BY <3>2, <3>4, <4>1
    <3>7. ASSUME NEW i \in 1 .. Len(v)
          PROVE  F[k][g[k - 1] + i] = v[i]
      <4>1. /\ g[k - 1] + i \in 1 .. Len(u) + Len(v) /\ ~(g[k - 1] + i <= Len(u))
            /\ (g[k - 1] + i) - Len(u) = i
        BY <3>3, <3>4
      <4> QED
        BY <3>2, <3>4, <4>1
    <3> QED
      BY <3>1, <3>4, <3>5, <3>6, <3>7 DEF u, v
  <2>9. ASSUME NEW k \in 0 .. n
        PROVE  g[k] <= Len(t) /\ \A i \in 1 .. g[k] : t[i] = F[k][i]
    <3> DEFINE Good(j) == g[j] <= Len(t) /\ \A i \in 1 .. g[j] : t[i] = F[j][i]
               Bad == {d \in 0 .. n : ~Good(n - d)}
    <3>1. \A d : d \in Bad <=> d \in 0 .. n /\ ~Good(n - d)
      OBVIOUS
    <3> HIDE DEF Bad
    <3>2. ASSUME Bad # {}
          PROVE  FALSE
      <4>1. PICK d \in Bad : \A c \in Bad : d <= c
        <5>1. Bad \in SUBSET Nat
          BY <1>1, <3>1
        <5> QED
          BY <3>2, <5>1, Least
      <4>2. d \in 0 .. n /\ ~Good(n - d)
        BY <3>1
      <4>3. CASE d = 0
        <5>1. n - d = n
          BY <1>1, <4>3 DEF n
        <5>2. g[n] = Len(t) /\ Len(t) \in Nat
          BY <2>7, LenProperties
        <5>3. Good(n)
          BY <5>2 DEF t
        <5> QED
          BY <4>2, <5>1, <5>3
      <4>4. CASE d # 0
        <5>1. PICK j \in 1 .. n : j = (n - d) + 1
          <6>1. (n - d) + 1 \in 1 .. n
            BY <1>1, <4>2, <4>4 DEF n
          <6> QED
            BY <6>1
        <5>2. d - 1 \in 0 .. n /\ n - (d - 1) = j /\ ~(d <= d - 1) /\ n - d = j - 1
          BY <1>1, <4>2, <4>4, <5>1 DEF n
        <5>3. Good(j)
          BY <3>1, <4>1, <5>2
        <5>4. /\ g[j - 1] \in Nat /\ g[j] \in Nat /\ Len(p[j]) \in Nat
              /\ g[j] = g[j - 1] + Len(p[j])
          BY <2>5, <2>8
        <5>5. Len(t) \in Nat
          BY <2>7, LenProperties
        <5>6. \A i \in 1 .. g[j - 1] : i \in 1 .. g[j] /\ F[j][i] = F[j - 1][i]
          BY <2>8, <5>4
        <5>7. Good(j - 1)
          BY <5>3, <5>4, <5>5, <5>6, SMTT(30)
        <5> QED
          BY <4>2, <5>2, <5>7
      <4> QED
        BY <4>3, <4>4
    <3>3. PICK d \in 0 .. n : d = n - k /\ n - d = k
      <4>1. n - k \in 0 .. n /\ n - (n - k) = k
        <5>1. n \in Nat
          BY <1>1 DEF n
        <5> QED
          BY <5>1
      <4> QED
        BY <4>1
    <3> QED
      BY <3>1, <3>2, <3>3
  <2>10. ASSUME NEW k \in 1 .. n, NEW i \in 1 .. Len(p[k])
         PROVE  t[g[k - 1] + i] = p[k][i]
    <3>1. k - 1 \in 0 .. n /\ k \in 0 .. n /\ Len(p[k]) \in Nat /\ g[k] = g[k - 1] + Len(p[k])
      BY <2>8
    <3>2. g[k - 1] \in Nat
      BY <2>5, <3>1
    <3>3. g[k - 1] + i \in 1 .. g[k]
      BY <3>1, <3>2
    <3> QED
      BY <2>8, <2>9, <3>1, <3>3, ZenonT(40)
  <2>11. Fills(p, t, g)
    BY <2>6, <2>7, <2>8, <2>10 DEF Fills, n
  <2> QED
    BY <2>4, <2>7, <2>11
<1> QED
  BY <1>2, <1>3

(* What is filled in one way is what FlattenSeq gives.                     *)
LEMMA FlattenAs ==
  ASSUME NEW T, NEW p \in Seq(Seq(T)), NEW w \in Seq(T), NEW g, Fills(p, w, g)
  PROVE  FlattenSeq(p) = w
<1> DEFINE n == Len(p)
           t == FlattenSeq(p)
<1>1. n \in Nat /\ \A k \in 1 .. n : p[k] \in Seq(T) /\ Len(p[k]) \in Nat
  BY ElementOfSeq, LenProperties
<1>2. PICK f : Fills(p, t, f)
  BY SomeFills
<1>3. t \in Seq(T) /\ Len(t) \in Nat /\ Len(w) \in Nat
  BY SomeFills, LenProperties
<1> HIDE DEF t
<1> DEFINE Bad == {k \in 0 .. n : f[k] # g[k]}
<1>4. \A k : k \in Bad <=> k \in 0 .. n /\ f[k] # g[k]
  OBVIOUS
<1> HIDE DEF Bad
<1>5. ASSUME Bad # {}
      PROVE  FALSE
  <2>1. PICK k \in Bad : \A j \in Bad : k <= j
    <3>1. Bad \in SUBSET Nat
      BY <1>1, <1>4
    <3> QED
      BY <1>5, <3>1, Least
  <2>2. k \in 0 .. n /\ f[k] # g[k]
    BY <1>4
  <2>3. k # 0
    BY <1>2, <2>2 DEF Fills
  <2>4. k \in 1 .. n /\ k - 1 \in 0 .. n /\ ~(k <= k - 1)
    BY <1>1, <2>2, <2>3
  <2>5. f[k - 1] = g[k - 1]
    BY <1>4, <2>1, <2>4
  <2> QED
    BY <1>2, <2>2, <2>4, <2>5 DEF Fills
<1>6. \A k \in 0 .. n : f[k] = g[k]
  BY <1>4, <1>5
<1>7. Len(t) = Len(w)
  BY <1>1, <1>2, <1>6 DEF Fills
<1>8. ASSUME NEW j \in 1 .. Len(w)
      PROVE  t[j] = w[j]
  <2>1. PICK k \in 1 .. n : g[k - 1] < j /\ j <= g[k]
    BY <1>3, FillsEvery
  <2>2. k - 1 \in 0 .. n /\ k \in 0 .. n
    BY <1>1
  <2>3. g[k - 1] \in Nat /\ g[k] = g[k - 1] + Len(p[k]) /\ Len(p[k]) \in Nat
    BY <1>1, <2>2 DEF Fills
  <2>4. PICK i \in 1 .. Len(p[k]) : g[k - 1] + i = j
    <3>1. j - g[k - 1] \in 1 .. Len(p[k]) /\ g[k - 1] + (j - g[k - 1]) = j
      BY <1>3, <2>1, <2>3, SMTT(30)
    <3> QED
      BY <3>1
  <2>5. w[g[k - 1] + i] = p[k][i]
    BY DEF Fills
  <2>6. t[f[k - 1] + i] = p[k][i]
    BY <1>2 DEF Fills
  <2> QED
    BY <1>6, <2>2, <2>4, <2>5, <2>6
<1>9. t = w
  BY <1>3, <1>7, <1>8, SeqEqual
<1> QED
  BY <1>9 DEF t

-----------------------------------------------------------------------------
(* Where the pieces of a body stand in what is sent.  The k-th piece, from *)
(* 0 on, is what stands behind the k-th hit, and the placeholder of the    *)
(* next one; Size is its length.                                           *)
Behind(hs, k) == IF k = 0 THEN 0 ELSE hs[k].end

Piece(hs, k) ==
  IF k > Len(hs) THEN SubSeq(body, Behind(hs, Len(hs)) + 1, Len(body))
  ELSE SubSeq(body, Behind(hs, k - 1) + 1, hs[k].start) \o <<hs[k].placeholder>>

Pieces(hs) == [k \in 1 .. Len(hs) + 1 |-> Piece(hs, k)]

Size(hs, k) ==
  IF k < Len(hs) THEN hs[k + 1].start - Behind(hs, k) + 1 ELSE Len(body) - Behind(hs, k)

Both == ToSet(body) \cup Placeholders

LEMMA ReplacedIs ==
  \A hs : Replaced(hs) = FlattenSeq(Pieces(hs))
BY DEF Replaced, Pieces, Piece, Behind

LEMMA HitFacts ==
  ASSUME NEW hs, IsReport(hs, body), NEW k \in 1 .. Len(hs)
  PROVE  /\ k \in DOMAIN hs /\ Len(hs) \in Nat
         /\ hs[k].start \in Nat /\ hs[k].end \in Nat
         /\ hs[k].start + 1 <= hs[k].end /\ hs[k].end <= Len(body)
         /\ hs[k].placeholder \in Placeholders /\ hs[k].placeholder \notin {Q, B}
<1> DEFINE R == [start : Nat, end : Nat, placeholder : Placeholders]
<1>1. hs \in Seq(R) /\ DOMAIN hs = 1 .. Len(hs) /\ Len(hs) \in Nat
  BY LenProperties DEF IsReport
<1>2. hs[k] \in R
  BY <1>1, ElementOfSeq
<1>3. hs[k].start \in Nat /\ hs[k].end \in Nat /\ hs[k].placeholder \in Placeholders
  BY <1>2
<1>4. hs[k].start < hs[k].end /\ hs[k].end <= Len(body)
  BY <1>1 DEF IsReport
<1>5. hs[k].placeholder \notin {Q, B}
  BY <1>3, JSONBodyAssumption
<1> HIDE DEF R
<1> QED
  BY <1>1, <1>3, <1>4, <1>5

LEMMA BehindFacts ==
  ASSUME NEW hs, IsReport(hs, body), body \in Seq(ToSet(body)), NEW k \in 0 .. Len(hs)
  PROVE  /\ Len(hs) \in Nat /\ k \in Nat
         /\ Behind(hs, k) \in 0 .. Len(body)
         /\ Size(hs, k) \in Nat /\ Behind(hs, k) + Size(hs, k) <= Len(body)
         /\ k < Len(hs) =>
              /\ hs[k + 1].start \in Nat
              /\ Size(hs, k) > 0
              /\ Behind(hs, k) + Size(hs, k) = hs[k + 1].start + 1
              /\ hs[k + 1].start + 1 <= hs[k + 1].end /\ hs[k + 1].end = Behind(hs, k + 1)
         /\ k = Len(hs) => Behind(hs, k) + Size(hs, k) = Len(body)
<1>1. DOMAIN hs = 1 .. Len(hs) /\ Len(hs) \in Nat /\ Len(body) \in Nat
  BY LenProperties DEF IsReport
<1>2. \A i \in 1 .. Len(hs) : /\ hs[i].start \in Nat /\ hs[i].end \in Nat
                              /\ hs[i].start < hs[i].end /\ hs[i].end <= Len(body)
  <2> SUFFICES ASSUME NEW i \in 1 .. Len(hs)
               PROVE  /\ hs[i].start \in Nat /\ hs[i].end \in Nat
                      /\ hs[i].start < hs[i].end /\ hs[i].end <= Len(body)
    OBVIOUS
  <2>1. hs[i].start < hs[i].end /\ hs[i].end <= Len(body)
    BY <1>1 DEF IsReport
  <2> QED
    BY <2>1, HitFacts
<1>3. Behind(hs, k) \in Nat /\ Behind(hs, k) <= Len(body) /\ k \in Nat
  BY <1>1, <1>2 DEF Behind
<1>4. ASSUME k < Len(hs)
      PROVE  /\ Size(hs, k) \in Nat /\ Behind(hs, k) + Size(hs, k) <= Len(body)
             /\ hs[k + 1].start \in Nat
             /\ Size(hs, k) > 0
             /\ Behind(hs, k) + Size(hs, k) = hs[k + 1].start + 1
             /\ hs[k + 1].start + 1 <= hs[k + 1].end /\ hs[k + 1].end = Behind(hs, k + 1)
             /\ k # Len(hs)
  <2>1. k + 1 \in 1 .. Len(hs) /\ k + 1 # 0
    BY <1>1, <1>4
  <2>2. Behind(hs, k) <= hs[k + 1].start
    <3>1. CASE k = 0
      BY <1>2, <2>1, <3>1 DEF Behind
    <3>2. CASE k # 0
      <4>1. k \in DOMAIN hs /\ k + 1 \in DOMAIN hs /\ k < k + 1
        BY <1>1, <1>3, <2>1, <3>2
      <4> QED
        BY <3>2, <4>1 DEF Behind, IsReport
    <3> QED
      BY <3>1, <3>2
  <2>3. Size(hs, k) = hs[k + 1].start - Behind(hs, k) + 1
    BY <1>4 DEF Size
  <2>4. Behind(hs, k + 1) = hs[k + 1].end
    BY <2>1 DEF Behind
  <2>5. PICK a \in Nat, e \in Nat : a = hs[k + 1].start /\ e = hs[k + 1].end
    BY <1>2, <2>1
  <2>6. a < e /\ e <= Len(body) /\ Behind(hs, k) <= a
    BY <1>2, <2>1, <2>2, <2>5
  <2>7. PICK b \in Nat : b = Behind(hs, k)
    BY <1>3
  <2>8. PICK n : n = Size(hs, k)
    OBVIOUS
  <2>9. n = (a - b) + 1
    BY <2>3, <2>5, <2>7, <2>8
  <2>10. n \in Nat /\ n > 0 /\ b + n = a + 1 /\ a + 1 <= e /\ b + n <= Len(body)
    BY <1>1, <2>6, <2>7, <2>9
  <2>11. k # Len(hs)
    <3>1. Len(hs) \in Nat
      BY <1>1
    <3> QED
      BY <1>4, <3>1
  <2> QED
    BY <2>4, <2>5, <2>7, <2>8, <2>10, <2>11
<1>5. ASSUME k = Len(hs)
      PROVE  /\ Size(hs, k) \in Nat /\ Behind(hs, k) + Size(hs, k) = Len(body)
             /\ ~(k < Len(hs)) /\ Len(body) <= Len(body)
  <2>1. Size(hs, k) = Len(body) - Behind(hs, k)
    BY <1>1, <1>5 DEF Size
  <2>2. Size(hs, k) \in Nat /\ Behind(hs, k) + Size(hs, k) = Len(body)
    BY <1>1, <1>3, <2>1
  <2>3. ~(k < Len(hs)) /\ Len(body) <= Len(body)
    BY <1>1, <1>5
  <2> QED
    BY <2>2, <2>3
<1>6. k < Len(hs) \/ k = Len(hs)
  <2>1. Len(hs) \in Nat
    BY <1>1
  <2> QED
    BY <2>1
<1>7. Behind(hs, k) \in 0 .. Len(body)
  BY <1>1, <1>3
<1> QED
  BY <1>1, <1>3, <1>4, <1>5, <1>6, <1>7

LEMMA PieceFacts ==
  ASSUME NEW hs, IsReport(hs, body), body \in Seq(ToSet(body)), NEW k \in 0 .. Len(hs)
  PROVE  /\ Piece(hs, k + 1) \in Seq(Both)
         /\ Len(Piece(hs, k + 1)) = Size(hs, k)
         /\ \A i \in 1 .. Size(hs, k) :
              Piece(hs, k + 1)[i] = IF k < Len(hs) /\ i = Size(hs, k) THEN hs[k + 1].placeholder
                                    ELSE body[Behind(hs, k) + i]
<1>1. /\ Len(hs) \in Nat /\ k \in Nat /\ Len(body) \in Nat
      /\ Behind(hs, k) \in 0 .. Len(body) /\ Size(hs, k) \in Nat
      /\ Behind(hs, k) + Size(hs, k) <= Len(body)
  BY BehindFacts
<1>2. body \in Seq(Both) /\ \A i \in 1 .. Len(body) : body[i] \in Both
  <2>1. \A i \in 1 .. Len(body) : body[i] \in ToSet(body)
    BY ElementOfSeq
  <2>2. \A i \in 1 .. Len(body) : body[i] \in Both
    BY <2>1 DEF Both
  <2>3. body \in [1 .. Len(body) -> Both]
    BY <2>2
  <2> QED
    BY <1>1, <2>2, <2>3, IsASeq
<1>3. CASE k < Len(hs)
  <2> DEFINE b == Behind(hs, k)
             u == SubSeq(body, b + 1, hs[k + 1].start)
             v == <<hs[k + 1].placeholder>>
  <2>1. /\ hs[k + 1].start \in Nat /\ b + Size(hs, k) = hs[k + 1].start + 1
        /\ Size(hs, k) > 0 /\ hs[k + 1].start <= Len(body)
    BY <1>1, <1>3, BehindFacts
  <2>2. hs[k + 1].placeholder \in Both
    <3>1. k + 1 \in 1 .. Len(hs)
      BY <1>1, <1>3
    <3> QED
      BY <3>1, HitFacts DEF Both
  <2>3. Piece(hs, k + 1) = u \o v
    <3>1. (k + 1) - 1 = k /\ ~(k + 1 > Len(hs))
      BY <1>1, <1>3
    <3> QED
      BY <3>1 DEF Piece
  <2>4. /\ u \in Seq(Both) /\ Len(u) = Size(hs, k) - 1
        /\ \A i \in 1 .. Size(hs, k) - 1 : u[i] = body[b + i]
    <3>1. PICK a \in Nat : a = hs[k + 1].start
      BY <2>1
    <3>2. b + 1 \in Int /\ a \in Int /\ b \in Nat /\ b + Size(hs, k) = a + 1
      BY <1>1, <2>1, <3>1
    <3> HIDE DEF b
    <3>3. \A i \in b + 1 .. a : body[i] \in Both
      <4>1. a <= Len(body) /\ Len(body) \in Nat
        BY <1>1, <2>1, <3>1
      <4>2. \A i \in b + 1 .. a : i \in 1 .. Len(body)
        BY <3>2, <4>1
      <4> QED
        BY <1>2, <4>2
    <3> DEFINE w == SubSeq(body, b + 1, a)
    <3>0. u = w
      BY <3>1
    <3> HIDE DEF u
    <3>4. /\ w \in Seq(Both) /\ Len(w) = IF b + 1 <= a THEN a - (b + 1) + 1 ELSE 0
          /\ \A i \in 1 .. a - (b + 1) + 1 : w[i] = body[(b + 1) + i - 1]
      BY <3>2, <3>3, SubSeqProperties
    <3> HIDE DEF w
    <3>5. a - (b + 1) + 1 = Size(hs, k) - 1
      BY <1>1, <3>2
    <3>6. Len(u) = Size(hs, k) - 1
      <4>1. b + 1 <= a \/ (b = a /\ Size(hs, k) = 1)
        BY <1>1, <2>1, <3>2
      <4> QED
        BY <3>0, <3>2, <3>4, <3>5, <4>1
    <3>7. \A i \in 1 .. Size(hs, k) - 1 : (b + 1) + i - 1 = b + i
      BY <3>2
    <3> QED
      BY <3>4, <3>5, <3>6, <3>7, <3>0
  <2>5. v \in Seq(Both) /\ Len(v) = 1 /\ v[1] = hs[k + 1].placeholder
    BY <2>2
  <2> HIDE DEF b, u, v
  <2>6. /\ u \o v \in Seq(Both) /\ Len(u \o v) = Len(u) + Len(v)
        /\ \A i \in 1 .. Len(u) + Len(v) : (u \o v)[i] = IF i <= Len(u) THEN u[i] ELSE v[i - Len(u)]
    BY <2>4, <2>5, ConcatProperties
  <2>7. Len(u \o v) = Size(hs, k)
    BY <1>1, <2>4, <2>5, <2>6
  <2>8. ASSUME NEW i \in 1 .. Size(hs, k)
        PROVE  (u \o v)[i] = IF i = Size(hs, k) THEN hs[k + 1].placeholder ELSE body[b + i]
    <3>1. CASE i = Size(hs, k)
      <4>1. PICK z \in Nat : z = Size(hs, k) /\ z > 0
        BY <1>1, <2>1
      <4>2. ~(i <= z - 1) /\ i - (z - 1) = 1 /\ i \in 1 .. (z - 1) + 1
        BY <3>1, <4>1
      <4>3. ~(i <= Len(u)) /\ i - Len(u) = 1 /\ i \in 1 .. Len(u) + Len(v)
        BY <2>4, <2>5, <4>1, <4>2
      <4> QED
        BY <2>5, <2>6, <3>1, <4>3
    <3>2. CASE i # Size(hs, k)
      <4>1. i <= Len(u) /\ i \in 1 .. Size(hs, k) - 1 /\ i \in 1 .. Len(u) + Len(v)
        BY <1>1, <2>1, <2>4, <2>5, <3>2
      <4> QED
        BY <2>4, <2>6, <3>2, <4>1
    <3> QED
      BY <3>1, <3>2
  <2> QED
    BY <1>3, <2>3, <2>6, <2>7, <2>8 DEF b
<1>4. CASE k = Len(hs)
  <2> DEFINE b == Behind(hs, k)
  <2>1. b + Size(hs, k) = Len(body) /\ b \in Nat
    BY <1>1, <1>4, BehindFacts
  <2>2. Piece(hs, k + 1) = SubSeq(body, b + 1, Len(body))
    <3>1. k + 1 > Len(hs)
      BY <1>1, <1>4
    <3> QED
      BY <1>4, <3>1 DEF Piece
  <2> HIDE DEF b
  <2>3. /\ SubSeq(body, b + 1, Len(body)) \in Seq(Both)
        /\ Len(SubSeq(body, b + 1, Len(body))) = Size(hs, k)
        /\ \A i \in 1 .. Size(hs, k) : SubSeq(body, b + 1, Len(body))[i] = body[b + i]
    BY <1>1, <1>2, <2>1, SubSeqProperties
  <2>4. ~(k < Len(hs))
    BY <1>1, <1>4
  <2> QED
    BY <2>2, <2>3, <2>4 DEF b
<1> QED
  BY <1>1, <1>3, <1>4

(* m[k] is where the k-th piece begins in t.                               *)
Offsets(m, hs, t) ==
  /\ m \in [0 .. Len(hs) + 1 -> Nat]
  /\ m[0] = 0 /\ m[Len(hs) + 1] = Len(t)
  /\ \A k \in 0 .. Len(hs) : m[k + 1] = m[k] + Size(hs, k)
  /\ \A k \in 0 .. Len(hs) : \A i \in 1 .. Size(hs, k) : t[m[k] + i] = Piece(hs, k + 1)[i]

LEMMA OffsetsAre ==
  ASSUME NEW hs, IsReport(hs, body), body \in Seq(ToSet(body)), NEW m, NEW t
  PROVE  /\ Pieces(hs) \in Seq(Seq(Both)) /\ Len(Pieces(hs)) = Len(hs) + 1
         /\ Offsets(m, hs, t) <=> Fills(Pieces(hs), t, m)
<1> DEFINE n == Len(hs)
           p == Pieces(hs)
<1>1. n \in Nat
  BY LenProperties DEF IsReport
<1>2. \A k \in 0 .. n : k + 1 \in 1 .. n + 1 /\ (k + 1) - 1 = k
  BY <1>1
<1>3. \A k \in 1 .. n + 1 : k - 1 \in 0 .. n /\ (k - 1) + 1 = k
  BY <1>1
<1>4. p \in Seq(Seq(Both)) /\ Len(p) = n + 1 /\ \A k \in 0 .. n : p[k + 1] = Piece(hs, k + 1)
  <2>1. \A k \in 1 .. n + 1 : Piece(hs, k) \in Seq(Both)
    <3> SUFFICES ASSUME NEW k \in 1 .. n + 1 PROVE Piece(hs, k) \in Seq(Both)
      OBVIOUS
    <3>1. Piece(hs, (k - 1) + 1) \in Seq(Both)
      BY <1>3, PieceFacts
    <3> QED
      BY <1>3, <3>1
  <2>2. p = [k \in 1 .. n + 1 |-> Piece(hs, k)] /\ n + 1 \in Nat
    BY <1>1 DEF Pieces
  <2>3. p \in [1 .. n + 1 -> Seq(Both)] /\ \A k \in 1 .. n + 1 : p[k] = Piece(hs, k)
    BY <2>1, <2>2
  <2> HIDE DEF p, n
  <2>4. p \in Seq(Seq(Both)) /\ Len(p) = n + 1
    BY <2>2, <2>3
  <2> QED
    BY <1>2, <2>3, <2>4
<1>5. \A k \in 0 .. n : Len(p[k + 1]) = Size(hs, k)
  <2> SUFFICES ASSUME NEW k \in 0 .. n PROVE Len(p[k + 1]) = Size(hs, k)
    OBVIOUS
  <2>1. Len(Piece(hs, k + 1)) = Size(hs, k)
    BY PieceFacts
  <2> QED
    BY <1>4, <2>1
<1> HIDE DEF n, p
<1>6. ASSUME Offsets(m, hs, t)
      PROVE  Fills(p, t, m)
  <2>1. m \in [0 .. n + 1 -> Nat] /\ m[0] = 0 /\ m[n + 1] = Len(t)
    BY <1>6 DEF Offsets, n
  <2>2. ASSUME NEW k \in 1 .. n + 1
        PROVE  /\ m[k] = m[k - 1] + Len(p[k])
               /\ \A i \in 1 .. Len(p[k]) : t[m[k - 1] + i] = p[k][i]
    <3>1. PICK j \in 0 .. n : j = k - 1 /\ j + 1 = k
      BY <1>3
    <3>2. /\ m[j + 1] = m[j] + Size(hs, j)
          /\ \A i \in 1 .. Size(hs, j) : t[m[j] + i] = Piece(hs, j + 1)[i]
      BY <1>6 DEF Offsets, n
    <3> QED
      BY <1>4, <1>5, <3>1, <3>2
  <2> QED
    BY <1>4, <2>1, <2>2 DEF Fills
<1>7. ASSUME Fills(p, t, m)
      PROVE  Offsets(m, hs, t)
  <2>1. m \in [0 .. n + 1 -> Nat] /\ m[0] = 0 /\ m[n + 1] = Len(t)
    BY <1>4, <1>7 DEF Fills
  <2>2. ASSUME NEW k \in 0 .. n
        PROVE  /\ m[k + 1] = m[k] + Size(hs, k)
               /\ \A i \in 1 .. Size(hs, k) : t[m[k] + i] = Piece(hs, k + 1)[i]
    <3>1. PICK j \in 1 .. n + 1 : j = k + 1 /\ j - 1 = k
      BY <1>2
    <3>2. m[j] = m[j - 1] + Len(p[j]) /\ \A i \in 1 .. Len(p[j]) : t[m[j - 1] + i] = p[j][i]
      BY <1>4, <1>7 DEF Fills
    <3> QED
      BY <1>4, <1>5, <3>1, <3>2
  <2> QED
    BY <2>1, <2>2 DEF Offsets, n
<1> QED
  BY <1>4, <1>6, <1>7 DEF n, p

LEMMA SomeOffsets ==
  ASSUME NEW hs, IsReport(hs, body), body \in Seq(ToSet(body))
  PROVE  Replaced(hs) \in Seq(Both) /\ \E m : Offsets(m, hs, Replaced(hs))
<1>1. Replaced(hs) = FlattenSeq(Pieces(hs))
  BY ReplacedIs
<1>2. Pieces(hs) \in Seq(Seq(Both))
  BY OffsetsAre
<1>3. Replaced(hs) \in Seq(Both) /\ \E m : Fills(Pieces(hs), Replaced(hs), m)
  BY <1>1, <1>2, SomeFills
<1> QED
  BY <1>3, OffsetsAre

(* The pieces are in order, and every place is in one of them or in the    *)
(* part that a placeholder replaces.                                       *)
InPiece(hs, k, i) == Behind(hs, k) < i /\ i <= Behind(hs, k) + Size(hs, k)

LEMMA PiecesInOrder ==
  ASSUME NEW hs, IsReport(hs, body), body \in Seq(ToSet(body)),
         NEW k \in 0 .. Len(hs), NEW l \in 0 .. Len(hs), k < l
  PROVE  Behind(hs, k) + Size(hs, k) <= Behind(hs, l)
<1>1. /\ Len(hs) \in Nat /\ k \in Nat /\ l \in Nat /\ DOMAIN hs = 1 .. Len(hs)
      /\ Behind(hs, k) \in Nat /\ Behind(hs, l) \in Nat /\ Size(hs, k) \in Nat
  <2>1. Len(hs) \in Nat /\ DOMAIN hs = 1 .. Len(hs)
    BY LenProperties DEF IsReport
  <2>2. Behind(hs, k) \in 0 .. Len(body) /\ Behind(hs, l) \in 0 .. Len(body) /\ Size(hs, k) \in Nat
    BY BehindFacts
  <2> QED
    BY <2>1, <2>2
<1>2. k < Len(hs) /\ k + 1 \in 0 .. Len(hs) /\ k + 1 # 0
  BY <1>1
<1>3. /\ hs[k + 1].start \in Nat
      /\ Behind(hs, k) + Size(hs, k) = hs[k + 1].start + 1
      /\ hs[k + 1].start + 1 <= hs[k + 1].end /\ hs[k + 1].end = Behind(hs, k + 1)
  BY <1>2, BehindFacts
<1>4. Behind(hs, k + 1) \in Nat
  <2>1. Behind(hs, k + 1) \in 0 .. Len(body)
    BY <1>2, BehindFacts
  <2> QED
    BY <2>1
<1>5. CASE l = k + 1
  BY <1>1, <1>3, <1>4, <1>5
<1>6. CASE l # k + 1
  <2>1. k + 1 \in 1 .. Len(hs) /\ l \in 1 .. Len(hs) /\ k + 1 < l /\ l # 0 /\ l - 1 \in 0 .. Len(hs)
        /\ l - 1 < Len(hs) /\ (l - 1) + 1 = l
    BY <1>1, <1>6
  <2>2. hs[k + 1].end <= hs[l].start
    BY <1>1, <2>1 DEF IsReport
  <2>3. hs[l].start \in Nat /\ hs[l].start + 1 <= hs[l].end /\ hs[l].end = Behind(hs, l)
    <3>1. LET j == l - 1 IN hs[j + 1].start \in Nat /\ hs[j + 1].start + 1 <= hs[j + 1].end
                            /\ hs[j + 1].end = Behind(hs, j + 1)
      BY <2>1, BehindFacts
    <3> QED
      BY <2>1, <3>1
  <2> QED
    BY <1>1, <1>3, <1>4, <2>2, <2>3
<1> QED
  BY <1>5, <1>6

LEMMA OnePiece ==
  ASSUME NEW hs, IsReport(hs, body), body \in Seq(ToSet(body)),
         NEW k \in 0 .. Len(hs), NEW l \in 0 .. Len(hs), NEW i \in Nat,
         InPiece(hs, k, i), InPiece(hs, l, i)
  PROVE  k = l
<1>1. /\ k \in Nat /\ l \in Nat
      /\ Behind(hs, k) \in 0 .. Len(body) /\ Behind(hs, l) \in 0 .. Len(body)
      /\ Size(hs, k) \in Nat /\ Size(hs, l) \in Nat
  BY BehindFacts
<1>2. ~(k < l)
  <2>1. k < l => Behind(hs, k) + Size(hs, k) <= Behind(hs, l)
    BY PiecesInOrder
  <2> QED
    BY <1>1, <2>1 DEF InPiece
<1>3. ~(l < k)
  <2>1. l < k => Behind(hs, l) + Size(hs, l) <= Behind(hs, k)
    BY PiecesInOrder
  <2> QED
    BY <1>1, <2>1 DEF InPiece
<1> QED
  BY <1>1, <1>2, <1>3

LEMMA EveryPlace ==
  ASSUME NEW hs, IsReport(hs, body), body \in Seq(ToSet(body)), NEW i \in 1 .. Len(body)
  PROVE  \/ \E k \in 0 .. Len(hs) : InPiece(hs, k, i)
         \/ \E k \in 1 .. Len(hs) : hs[k].start < i /\ i <= hs[k].end
<1> DEFINE n == Len(hs)
           S == {k \in 0 .. n : i <= Behind(hs, k)}
<1>1. n \in Nat /\ Len(body) \in Nat /\ i \in Nat /\ i > 0 /\ i <= Len(body)
  <2>1. n \in Nat
    BY LenProperties DEF IsReport
  <2>2. Len(body) \in Nat
    BY LenProperties
  <2> QED
    BY <2>1, <2>2
<1>2. \A k : k \in S <=> k \in 0 .. n /\ i <= Behind(hs, k)
  OBVIOUS
<1> HIDE DEF S
<1>3. CASE S = {}
  <2>1. n \in 0 .. n
    BY <1>1
  <2>2. Behind(hs, n) + Size(hs, n) = Len(body) /\ Behind(hs, n) \in 0 .. Len(body)
    BY <2>1, BehindFacts
  <2>3. ~(i <= Behind(hs, n))
    BY <1>2, <1>3, <2>1
  <2>4. InPiece(hs, n, i)
    BY <1>1, <2>2, <2>3 DEF InPiece
  <2> QED
    BY <2>1, <2>4
<1>4. CASE S # {}
  <2>1. PICK k \in S : \A j \in S : k <= j
    <3>1. S \in SUBSET Nat
      BY <1>1, <1>2
    <3> QED
      BY <1>4, <3>1, Least
  <2>2. k \in 0 .. n /\ i <= Behind(hs, k) /\ k \in Nat
    BY <1>1, <1>2
  <2>3. k # 0
    BY <1>1, <2>2 DEF Behind
  <2>4. PICK j \in 0 .. n : j = k - 1 /\ j + 1 = k /\ j < n /\ ~(k <= j) /\ k \in 1 .. n
    BY <1>1, <2>2, <2>3
  <2>5. ~(i <= Behind(hs, j))
    BY <1>2, <2>1, <2>4
  <2>6. /\ Behind(hs, j) \in 0 .. Len(body) /\ Size(hs, j) \in Nat
        /\ hs[j + 1].start \in Nat
        /\ Behind(hs, j) + Size(hs, j) = hs[j + 1].start + 1
        /\ hs[j + 1].end = Behind(hs, j + 1)
    BY <2>4, BehindFacts
  <2>7. CASE i <= hs[k].start + 1
    <3>1. InPiece(hs, j, i)
      BY <1>1, <2>4, <2>5, <2>6, <2>7 DEF InPiece
    <3> QED
      BY <3>1
  <2>8. CASE ~(i <= hs[k].start + 1)
    <3>1. hs[k].start < i /\ i <= hs[k].end
      BY <1>1, <2>2, <2>4, <2>6, <2>8
    <3> QED
      BY <2>4, <3>1
  <2> QED
    BY <2>7, <2>8
<1> QED
  BY <1>3, <1>4

LEMMA OffsetsInOrder ==
  ASSUME NEW hs, IsReport(hs, body), body \in Seq(ToSet(body)),
         NEW m, NEW t, Offsets(m, hs, t),
         NEW k \in 0 .. Len(hs) + 1, NEW l \in 0 .. Len(hs) + 1, k <= l
  PROVE  m[k] <= m[l]
<1>1. Pieces(hs) \in Seq(Seq(Both)) /\ Len(Pieces(hs)) = Len(hs) + 1 /\ Fills(Pieces(hs), t, m)
  BY OffsetsAre
<1> QED
  BY <1>1, FillsInOrder

LEMMA EveryOffset ==
  ASSUME NEW hs, IsReport(hs, body), body \in Seq(ToSet(body)),
         NEW m, NEW t, Offsets(m, hs, t), Len(t) \in Nat, NEW j \in 1 .. Len(t)
  PROVE  \E k \in 0 .. Len(hs) : m[k] < j /\ j <= m[k + 1]
<1>1. Pieces(hs) \in Seq(Seq(Both)) /\ Len(Pieces(hs)) = Len(hs) + 1 /\ Fills(Pieces(hs), t, m)
  BY OffsetsAre
<1>2. PICK k \in 1 .. Len(hs) + 1 : m[k - 1] < j /\ j <= m[k]
  BY <1>1, FillsEvery
<1>3. k - 1 \in 0 .. Len(hs) /\ (k - 1) + 1 = k
  <2>1. Len(hs) \in Nat
    BY LenProperties DEF IsReport
  <2> QED
    BY <2>1
<1> QED
  BY <1>2, <1>3

(* A hit within a string begins behind the quote that opens it, and ends   *)
(* before the one that closes it.                                          *)
LEMMA HitInString ==
  ASSUME body \in Seq(ToSet(body)), NEW h, h.start \in Nat, h.end \in Nat, WithinString(h),
         NEW i \in Nat, h.start < i, i <= h.end
  PROVE  i \notin Quotes(body) /\ Rank(Quotes(body), i) % 2 = 1
<1>1. PICK r \in ToSet(Strings(body)) : r.start < h.start /\ h.end < r.end
  BY DEF WithinString, ToSet
<1>2. PICK a, b : StringAt(body, a, b) /\ r = [start |-> a - 1, end |-> b]
  BY <1>1, StringsAre
<1>3. /\ a \in 1 .. Len(body) /\ b \in 1 .. Len(body)
      /\ \A q \in Quotes(body) : ~(a < q /\ q < b)
  BY <1>2, StringAtFacts
<1>4. a \in Nat /\ b \in Nat
  <2>1. Len(body) \in Nat
    BY LenProperties
  <2> QED
    BY <1>3, <2>1
<1>5. a < i /\ i < b
  BY <1>1, <1>2, <1>4
<1>6. i \notin Quotes(body)
  BY <1>3, <1>5
<1> DEFINE S == Quotes(body)
<1>7. S \in SUBSET (0 .. Len(body)) /\ Len(body) \in Nat
  BY QuotesAre
<1>8. a \in S /\ Rank(S, a) % 2 = 0
  BY <1>2 DEF StringAt, Opens
<1>9. \A z \in S : ~(a < z /\ z < i)
  <2> SUFFICES ASSUME NEW z \in S, a < z, z < i PROVE FALSE
    OBVIOUS
  <2>1. z \in Nat
    BY <1>7
  <2> QED
    BY <1>3, <1>4, <1>5, <2>1
<1> HIDE DEF S
<1>10. Rank(S, i) = Rank(S, a) + 1 /\ Rank(S, a) \in Nat
  BY <1>4, <1>5, <1>7, <1>8, <1>9, RankFacts
<1>11. Rank(S, i) % 2 = 1
  BY <1>8, <1>10
<1> QED
  BY <1>6, <1>11 DEF S

(* Where the places of a piece come to stand.                              *)
LEMMA PlaceFacts ==
  ASSUME NEW hs, IsReport(hs, body), body \in Seq(ToSet(body)),
         NEW m, NEW t, Offsets(m, hs, t), Len(t) \in Nat,
         NEW k \in 0 .. Len(hs), NEW i \in Nat, InPiece(hs, k, i),
         NEW j, j = m[k] + (i - Behind(hs, k))
  PROVE  /\ i \in 1 .. Len(body) /\ j \in Nat /\ j \in 1 .. Len(t)
         /\ m[k] \in Nat /\ m[k + 1] \in Nat /\ m[k] < j /\ j <= m[k + 1]
         /\ t[j] = IF k < Len(hs) /\ i = Behind(hs, k) + Size(hs, k)
                   THEN hs[k + 1].placeholder ELSE body[i]
<1>1. /\ Len(hs) \in Nat /\ k \in Nat /\ Len(body) \in Nat
      /\ Behind(hs, k) \in Nat /\ Size(hs, k) \in Nat
      /\ Behind(hs, k) + Size(hs, k) <= Len(body)
  <2>1. /\ Len(hs) \in Nat /\ k \in Nat
        /\ Behind(hs, k) \in 0 .. Len(body) /\ Size(hs, k) \in Nat
        /\ Behind(hs, k) + Size(hs, k) <= Len(body)
    BY BehindFacts
  <2>2. Len(body) \in Nat
    BY LenProperties
  <2> QED
    BY <2>1, <2>2
<1>2. Behind(hs, k) < i /\ i <= Behind(hs, k) + Size(hs, k)
  BY DEF InPiece
<1>3. PICK b \in Nat, z \in Nat : b = Behind(hs, k) /\ z = Size(hs, k)
  BY <1>1
<1>4. PICK d \in 1 .. z : d = i - b /\ b + d = i
  <2>1. b < i /\ i <= b + z
    BY <1>2, <1>3
  <2>2. i - b \in 1 .. z /\ b + (i - b) = i
    BY <2>1
  <2> QED
    BY <2>2
<1>5. k \in 0 .. Len(hs) + 1 /\ k + 1 \in 0 .. Len(hs) + 1 /\ Len(hs) + 1 \in 0 .. Len(hs) + 1
      /\ k + 1 <= Len(hs) + 1
  BY <1>1
<1>6. /\ m[k] \in Nat /\ m[k + 1] \in Nat /\ m[k + 1] = m[k] + z
      /\ m[Len(hs) + 1] = Len(t)
  BY <1>3, <1>5 DEF Offsets
<1>7. m[k + 1] <= m[Len(hs) + 1]
  BY <1>5, OffsetsInOrder
<1>8. j = m[k] + d
  BY <1>3, <1>4
<1>9. j \in Nat /\ j \in 1 .. Len(t) /\ m[k] < j /\ j <= m[k + 1]
  <2>1. PICK o \in Nat, p \in Nat, w \in Nat : o = m[k] /\ p = m[k + 1] /\ w = Len(t)
    BY <1>6
  <2>2. p = o + z /\ p <= w /\ j = o + d
    BY <1>6, <1>7, <1>8, <2>1
  <2>3. j \in Nat /\ j \in 1 .. w /\ o < j /\ j <= p
    BY <1>4, <2>2
  <2> QED
    BY <2>1, <2>3
<1>10. i \in 1 .. Len(body)
  BY <1>1, <1>2
<1>11. t[j] = Piece(hs, k + 1)[d]
  BY <1>3, <1>4, <1>8 DEF Offsets
<1>12. Piece(hs, k + 1)[d] = IF k < Len(hs) /\ d = z THEN hs[k + 1].placeholder ELSE body[b + d]
  BY <1>3, <1>4, PieceFacts
<1>13. d = z <=> i = b + z
  BY <1>4
<1> QED
  BY <1>3, <1>4, <1>6, <1>9, <1>10, <1>11, <1>12, <1>13

LEMMA PlacesInOrder ==
  ASSUME NEW hs, IsReport(hs, body), body \in Seq(ToSet(body)),
         NEW m, NEW t, Offsets(m, hs, t), Len(t) \in Nat,
         NEW k \in 0 .. Len(hs), NEW i \in Nat, InPiece(hs, k, i),
         NEW l \in 0 .. Len(hs), NEW x \in Nat, InPiece(hs, l, x), i < x
  PROVE  m[k] + (i - Behind(hs, k)) < m[l] + (x - Behind(hs, l))
<1>1. /\ Len(hs) \in Nat /\ k \in Nat /\ l \in Nat
      /\ Behind(hs, k) \in 0 .. Len(body) /\ Behind(hs, l) \in 0 .. Len(body)
      /\ Size(hs, k) \in Nat /\ Size(hs, l) \in Nat
  BY BehindFacts
<1>2. PICK j : j = m[k] + (i - Behind(hs, k))
  OBVIOUS
<1>3. PICK y : y = m[l] + (x - Behind(hs, l))
  OBVIOUS
<1>4. j \in Nat /\ m[k] \in Nat /\ m[k + 1] \in Nat /\ m[k] < j /\ j <= m[k + 1]
  BY <1>2, PlaceFacts
<1>5. y \in Nat /\ m[l] \in Nat /\ m[l] < y
  BY <1>3, PlaceFacts
<1>6. ~(l < k)
  <2>1. l < k => Behind(hs, l) + Size(hs, l) <= Behind(hs, k)
    BY PiecesInOrder
  <2> QED
    BY <1>1, <2>1 DEF InPiece
<1>7. CASE k = l
  <2>1. PICK b \in Nat, o \in Nat : b = Behind(hs, k) /\ o = m[k]
    BY <1>1, <1>4
  <2>2. o + (i - b) < o + (x - b)
    BY <2>1
  <2> QED
    BY <1>7, <2>1, <2>2
<1>8. CASE k # l
  <2>1. k + 1 <= l /\ k + 1 \in 0 .. Len(hs) + 1 /\ l \in 0 .. Len(hs) + 1
    BY <1>1, <1>6, <1>8
  <2>2. m[k + 1] <= m[l]
    BY <2>1, OffsetsInOrder
  <2>3. j < y
    BY <1>4, <1>5, <2>2
  <2> QED
    BY <1>2, <1>3, <2>3
<1> QED
  BY <1>7, <1>8

(* K are the places of the body that are kept, with the first of each hit, *)
(* where its placeholder goes; f says where they come to stand in t.       *)
Begins(hs) == {hs[k].start + 1 : k \in 1 .. Len(hs)}

Placed(hs, t, K, f) ==
  /\ K \in SUBSET (1 .. Len(body)) /\ Begins(hs) \in SUBSET K
  /\ Len(body) > 0 => 1 \in K
  /\ f \in [K -> 1 .. Len(t)] /\ Increasing(f, K)
  /\ \A j \in 1 .. Len(t) : \E i \in K : j = f[i]
  /\ \A k \in 1 .. Len(hs) : t[f[hs[k].start + 1]] = hs[k].placeholder
  /\ \A i \in K : i \in Begins(hs) \/ t[f[i]] = body[i]
  /\ \A i \in 1 .. Len(body) :
       i \notin K <=> \E k \in 1 .. Len(hs) : hs[k].start + 1 < i /\ i <= hs[k].end
  /\ \A x, i \in K : f[i] = f[x] + 1 =>
       IF x \in Begins(hs) THEN \E k \in 1 .. Len(hs) : x = hs[k].start + 1 /\ i = hs[k].end + 1
       ELSE i = x + 1

LEMMA SomePlaced ==
  ASSUME NEW hs, IsReport(hs, body), body \in Seq(ToSet(body)),
         NEW m, NEW t \in Seq(Both), Offsets(m, hs, t)
  PROVE  \E K, f : Placed(hs, t, K, f)
<1> DEFINE n == Len(hs)
           Ends(k) == Behind(hs, k) + Size(hs, k)
           K == {i \in 1 .. Len(body) : \E k \in 0 .. n : InPiece(hs, k, i)}
           H == Begins(hs)
           c == [i \in K |-> CHOOSE k \in 0 .. n : InPiece(hs, k, i)]
           f == [i \in K |-> m[c[i]] + (i - Behind(hs, c[i]))]
<1>1. /\ n \in Nat /\ Len(body) \in Nat /\ Len(t) \in Nat /\ DOMAIN hs = 1 .. n
  BY LenProperties DEF IsReport
<1>2. ASSUME NEW k \in 0 .. n
      PROVE  /\ k \in Nat /\ Behind(hs, k) \in Nat /\ Size(hs, k) \in Nat
             /\ Ends(k) \in Nat /\ Ends(k) <= Len(body)
             /\ k \in 0 .. n + 1 /\ k + 1 \in 0 .. n + 1
             /\ m[k] \in Nat /\ m[k + 1] \in Nat /\ m[k + 1] = m[k] + Size(hs, k)
  <2>1. /\ k \in Nat /\ Behind(hs, k) \in 0 .. Len(body) /\ Size(hs, k) \in Nat
        /\ Behind(hs, k) + Size(hs, k) <= Len(body)
    BY BehindFacts
  <2>2. k \in 0 .. n + 1 /\ k + 1 \in 0 .. n + 1
    BY <1>1, <2>1
  <2>3. m[k] \in Nat /\ m[k + 1] \in Nat /\ m[k + 1] = m[k] + Size(hs, k)
    BY <2>2 DEF Offsets
  <2> QED
    BY <1>1, <2>1, <2>2, <2>3
<1>3. ASSUME NEW k \in 0 .. n, k < n
      PROVE  /\ k + 1 \in 1 .. n /\ k + 1 \in 0 .. n /\ k # n
             /\ hs[k + 1].start \in Nat /\ hs[k + 1].end \in Nat
             /\ hs[k + 1].start + 1 <= hs[k + 1].end
             /\ Ends(k) = hs[k + 1].start + 1 /\ hs[k + 1].end = Behind(hs, k + 1)
             /\ Size(hs, k) > 0
  <2>1. /\ hs[k + 1].start \in Nat /\ hs[k + 1].start + 1 <= hs[k + 1].end
        /\ Ends(k) = hs[k + 1].start + 1 /\ hs[k + 1].end = Behind(hs, k + 1)
        /\ Size(hs, k) > 0
    BY <1>3, BehindFacts
  <2>2. k + 1 \in 1 .. n /\ k + 1 \in 0 .. n /\ k # n
    <3>1. n \in Nat
      BY <1>1
    <3> QED
      BY <1>3, <3>1
  <2>3. Behind(hs, k + 1) \in Nat
    BY <1>2, <2>2
  <2> QED
    BY <2>1, <2>2, <2>3
<1>4. ASSUME NEW i \in K
      PROVE  /\ c[i] \in 0 .. n /\ InPiece(hs, c[i], i) /\ i \in 1 .. Len(body) /\ i \in Nat
             /\ f[i] = m[c[i]] + (i - Behind(hs, c[i]))
  <2>1. c[i] = CHOOSE k \in 0 .. n : InPiece(hs, k, i)
    OBVIOUS
  <2>2. \E k \in 0 .. n : InPiece(hs, k, i)
    OBVIOUS
  <2>3. f[i] = m[c[i]] + (i - Behind(hs, c[i])) /\ i \in 1 .. Len(body)
    OBVIOUS
  <2> HIDE DEF f, K, c
  <2> QED
    BY <1>1, <2>1, <2>2, <2>3
<1>5. ASSUME NEW k \in 0 .. n, NEW i \in Nat, InPiece(hs, k, i)
      PROVE  i \in K
  <2>1. 0 < i /\ i <= Len(body)
    BY <1>1, <1>2, <1>5, SMTT(30) DEF InPiece
  <2> QED
    BY <1>1, <1>5, <2>1
<1>6. \A i : i \in H <=> \E k \in 0 .. n : k < n /\ i = Ends(k)
  <2>1. \A i : i \in H <=> \E k \in 1 .. n : i = hs[k].start + 1
    BY DEF Begins
  <2>2. ASSUME NEW i, i \in H
        PROVE  \E k \in 0 .. n : k < n /\ i = Ends(k)
    <3>1. PICK k \in 1 .. n : i = hs[k].start + 1
      BY <2>1, <2>2
    <3>2. PICK l \in 0 .. n : l < n /\ k = l + 1
      <4>1. k - 1 \in 0 .. n /\ k - 1 < n /\ k = (k - 1) + 1
        BY <1>1
      <4> QED
        BY <4>1
    <3> QED
      BY <1>3, <3>1, <3>2
  <2>3. ASSUME NEW i, NEW k \in 0 .. n, k < n, i = Ends(k)
        PROVE  i \in H
    BY <1>3, <2>1, <2>3
  <2> QED
    BY <2>2, <2>3
<1>7. f = [i \in K |-> f[i]] /\ K \in SUBSET (1 .. Len(body))
  OBVIOUS
<1> HIDE DEF f, c, H, K
<1>8. ASSUME NEW k \in 0 .. n, NEW i \in K, InPiece(hs, k, i)
      PROVE  c[i] = k
  BY <1>4, <1>8, OnePiece
<1>9. ASSUME NEW i \in K
      PROVE  /\ f[i] \in 1 .. Len(t) /\ f[i] \in Nat
             /\ t[f[i]] = IF c[i] < n /\ i = Ends(c[i]) THEN hs[c[i] + 1].placeholder ELSE body[i]
  <2>1. /\ c[i] \in 0 .. n /\ InPiece(hs, c[i], i) /\ i \in Nat
        /\ f[i] = m[c[i]] + (i - Behind(hs, c[i]))
    BY <1>4
  <2>2. PICK k \in 0 .. n : k = c[i]
    BY <2>1
  <2>3. PICK j : j = m[k] + (i - Behind(hs, k)) /\ f[i] = j
    BY <2>1, <2>2
  <2>4. /\ j \in Nat /\ j \in 1 .. Len(t)
        /\ t[j] = IF k < n /\ i = Ends(k) THEN hs[k + 1].placeholder ELSE body[i]
    BY <1>1, <2>1, <2>2, <2>3, PlaceFacts, SMTT(30)
  <2> QED
    BY <2>2, <2>3, <2>4
<1>10. ASSUME NEW i \in K
       PROVE  i \in H <=> c[i] < n /\ i = Ends(c[i])
  <2>1. c[i] \in 0 .. n
    BY <1>4
  <2>2. ASSUME NEW k \in 0 .. n, k < n, i = Ends(k)
        PROVE  c[i] = k
    <3>1. InPiece(hs, k, i)
      BY <1>2, <1>3, <2>2 DEF InPiece
    <3> QED
      BY <1>8, <3>1
  <2> QED
    BY <1>6, <2>1, <2>2
<1>11. Increasing(f, K)
  <2> SUFFICES ASSUME NEW x \in K, NEW y \in K, x < y PROVE f[x] < f[y]
    BY DEF Increasing
  <2>1. /\ c[x] \in 0 .. n /\ InPiece(hs, c[x], x) /\ x \in Nat
        /\ c[y] \in 0 .. n /\ InPiece(hs, c[y], y) /\ y \in Nat
        /\ f[x] = m[c[x]] + (x - Behind(hs, c[x])) /\ f[y] = m[c[y]] + (y - Behind(hs, c[y]))
    BY <1>4
  <2> QED
    BY <1>1, <2>1, PlacesInOrder
<1>12. ASSUME NEW k \in 0 .. n, NEW d \in 1 .. Size(hs, k)
       PROVE  /\ Behind(hs, k) + d \in K
              /\ c[Behind(hs, k) + d] = k /\ f[Behind(hs, k) + d] = m[k] + d
  <2>1. PICK i \in Nat : i = Behind(hs, k) + d
    BY <1>2
  <2>2. InPiece(hs, k, i) /\ i - Behind(hs, k) = d
    BY <1>2, <2>1 DEF InPiece
  <2>3. i \in K
    BY <1>5, <2>2
  <2>4. c[i] = k
    BY <1>8, <2>2, <2>3
  <2>5. f[i] = m[k] + d
    BY <1>4, <2>2, <2>3, <2>4
  <2> QED
    BY <2>1, <2>3, <2>4, <2>5
<1>13. \A j \in 1 .. Len(t) : \E i \in K : j = f[i]
  <2> SUFFICES ASSUME NEW j \in 1 .. Len(t) PROVE \E i \in K : j = f[i]
    OBVIOUS
  <2>1. PICK k \in 0 .. n : m[k] < j /\ j <= m[k + 1]
    BY <1>1, EveryOffset
  <2>2. PICK d \in 1 .. Size(hs, k) : j = m[k] + d
    <3>1. m[k] \in Nat /\ m[k + 1] = m[k] + Size(hs, k) /\ Size(hs, k) \in Nat /\ j \in Nat
      BY <1>1, <1>2
    <3>2. j - m[k] \in 1 .. Size(hs, k) /\ j = m[k] + (j - m[k])
      BY <2>1, <3>1
    <3> QED
      BY <3>2
  <2>3. Behind(hs, k) + d \in K /\ f[Behind(hs, k) + d] = m[k] + d
    BY <1>12
  <2> QED
    BY <2>2, <2>3
<1>14. \A i \in K : i \in H \/ t[f[i]] = body[i]
  BY <1>9, <1>10
<1>15. ASSUME Len(body) > 0
       PROVE  1 \in K
  <2>1. 0 \in 0 .. n /\ Behind(hs, 0) = 0
    BY <1>1 DEF Behind
  <2>2. Size(hs, 0) > 0
    <3>1. CASE 0 < n
      BY <1>3, <2>1, <3>1
    <3>2. CASE n = 0
      <4>1. Behind(hs, 0) + Size(hs, 0) = Len(body)
        BY <2>1, <3>2, BehindFacts
      <4> QED
        BY <1>1, <1>2, <1>15, <2>1, <4>1
    <3> QED
      BY <1>1, <3>1, <3>2
  <2>3. 1 \in 1 .. Size(hs, 0)
    BY <1>2, <2>1, <2>2
  <2>4. Behind(hs, 0) + 1 \in K
    BY <1>12, <2>1, <2>3
  <2> QED
    BY <2>1, <2>4
<1>16. ASSUME NEW k \in 1 .. n
       PROVE  /\ hs[k].start + 1 \in K /\ t[f[hs[k].start + 1]] = hs[k].placeholder
              /\ \A i \in Nat : hs[k].start + 1 < i /\ i <= hs[k].end => i \notin K
  <2>1. PICK l \in 0 .. n : l < n /\ k = l + 1 /\ k \in 0 .. n
    <3>1. k - 1 \in 0 .. n /\ k - 1 < n /\ k = (k - 1) + 1 /\ k \in 0 .. n
      BY <1>1
    <3> QED
      BY <3>1
  <2>2. PICK i \in Nat : i = Ends(l) /\ i = hs[k].start + 1
    BY <1>2, <1>3, <2>1
  <2>3. InPiece(hs, l, i)
    <3>1. Behind(hs, l) \in Nat /\ Size(hs, l) \in Nat
      BY <1>2
    <3>2. Size(hs, l) > 0
      BY <1>3, <2>1
    <3> QED
      BY <2>2, <3>1, <3>2 DEF InPiece
  <2>4. i \in K
    BY <1>5, <2>3
  <2>5. c[i] = l
    BY <1>8, <2>3, <2>4
  <2>6. t[f[i]] = hs[k].placeholder
    BY <1>9, <2>1, <2>2, <2>4, <2>5
  <2>7. ASSUME NEW x \in Nat, i < x, x <= hs[k].end, x \in K
        PROVE  FALSE
    <3>1. PICK j \in 0 .. n : InPiece(hs, j, x)
      BY <1>4, <2>7
    <3>2. Behind(hs, k) = hs[k].end
      BY <1>3, <2>1
    <3>3. Behind(hs, j) < x /\ x <= Ends(j)
      BY <3>1 DEF InPiece
    <3>4. /\ Behind(hs, j) \in Nat /\ Ends(j) \in Nat /\ Behind(hs, k) \in Nat
          /\ Behind(hs, l) \in Nat /\ Size(hs, k) \in Nat /\ Size(hs, l) \in Nat /\ j \in Nat /\ l \in Nat
      BY <1>2, <2>1
    <3>5. ~(j < l)
      <4>1. j < l => Ends(j) <= Behind(hs, l)
        BY <1>1, PiecesInOrder
      <4> QED
        BY <2>2, <2>7, <3>3, <3>4, <4>1, SMTT(30)
    <3>6. j # l
      BY <2>2, <2>7, <3>3, <3>4
    <3>7. ~(k < j)
      <4>1. k < j => Behind(hs, k) + Size(hs, k) <= Behind(hs, j)
        BY <1>1, <2>1, PiecesInOrder
      <4> QED
        BY <2>7, <3>2, <3>3, <3>4, <4>1
    <3>8. j # k
      BY <2>7, <3>2, <3>3, <3>4
    <3> QED
      BY <2>1, <3>4, <3>5, <3>6, <3>7, <3>8
  <2> QED
    BY <2>2, <2>4, <2>6, <2>7
<1>17. H \in SUBSET K
  BY <1>16 DEF Begins, H
<1>18. ASSUME NEW i \in 1 .. Len(body)
       PROVE  i \notin K <=> \E k \in 1 .. n : hs[k].start + 1 < i /\ i <= hs[k].end
  <2>1. i \in Nat
    BY <1>1
  <2>2. ASSUME i \notin K
        PROVE  \E k \in 1 .. n : hs[k].start + 1 < i /\ i <= hs[k].end
    <3>1. PICK k \in 1 .. n : hs[k].start < i /\ i <= hs[k].end
      BY <1>5, <2>1, <2>2, EveryPlace
    <3>2. i # hs[k].start + 1
      BY <1>16, <2>2
    <3>3. hs[k].start \in Nat
      BY <1>1, HitFacts
    <3> QED
      BY <2>1, <3>1, <3>2, <3>3
  <2> QED
    BY <1>16, <2>1, <2>2
<1>19. ASSUME NEW x \in K, NEW y \in K, f[x] = f[y]
       PROVE  x = y
  <2>1. x \in Nat /\ y \in Nat /\ f[x] \in Nat /\ f[y] \in Nat
    BY <1>4, <1>9
  <2>2. ~(x < y) /\ ~(y < x)
    BY <1>11, <1>19, <2>1 DEF Increasing
  <2> QED
    BY <2>1, <2>2
<1>20. ASSUME NEW x \in K, NEW i \in K, f[i] = f[x] + 1
       PROVE  IF x \in H THEN \E k \in 1 .. n : x = hs[k].start + 1 /\ i = hs[k].end + 1
              ELSE i = x + 1
  <2>1. PICK k \in 0 .. n : k = c[x]
    BY <1>4
  <2>2. /\ InPiece(hs, k, x) /\ x \in Nat
        /\ f[x] = m[k] + (x - Behind(hs, k))
        /\ x \in H <=> k < n /\ x = Ends(k)
    BY <1>4, <1>10, <2>1
  <2>3. /\ Behind(hs, k) \in Nat /\ Size(hs, k) \in Nat /\ m[k] \in Nat /\ m[k + 1] \in Nat
        /\ m[k + 1] = m[k] + Size(hs, k)
    BY <1>2
  <2>4. f[i] <= Len(t) /\ f[i] \in Nat /\ f[x] \in Nat
    BY <1>1, <1>9
  <2>5. x = Ends(k) => f[x] = m[k + 1]
    BY <2>2, <2>3
  <2>6. ASSUME k = n
        PROVE  x # Ends(k)
    <3>1. m[k + 1] = Len(t)
      BY <2>6 DEF Offsets
    <3> QED
      BY <1>1, <1>20, <2>4, <2>5, <3>1
  <2>7. CASE x # Ends(k)
    <3>1. PICK d \in 1 .. Size(hs, k) : Behind(hs, k) + d = x + 1 /\ m[k] + d = f[x] + 1
      <4>1. PICK b \in Nat, z \in Nat, o \in Nat :
                   b = Behind(hs, k) /\ z = Size(hs, k) /\ o = m[k]
        BY <2>3
      <4>2. b < x /\ x <= b + z /\ x # b + z /\ x \in Nat /\ f[x] = o + (x - b)
        BY <2>2, <2>7, <4>1 DEF InPiece
      <4>3. PICK d \in 1 .. z : d = (x + 1) - b
        BY <4>2
      <4>4. b + d = x + 1 /\ o + d = f[x] + 1
        BY <4>2, <4>3
      <4> QED
        BY <4>1, <4>4
    <3>2. x + 1 \in K /\ f[x + 1] = f[x] + 1
      BY <1>12, <3>1
    <3> QED
      BY <1>19, <1>20, <2>2, <2>7, <3>2
  <2>8. CASE x = Ends(k)
    <3>1. k < n /\ k \in Nat
      <4>1. n \in Nat /\ k # n
        BY <1>1, <2>6, <2>8
      <4> QED
        BY <4>1
    <3>2. PICK l \in 0 .. n : l = k + 1 /\ l \in 1 .. n
      BY <1>3, <3>1
    <3>3. /\ Size(hs, l) \in Nat /\ m[l] \in Nat /\ m[l + 1] = m[l] + Size(hs, l)
          /\ Behind(hs, l) = hs[l].end
      BY <1>2, <1>3, <3>1, <3>2
    <3>4. f[i] = m[l] + 1
      BY <1>20, <2>5, <2>8, <3>2
    <3>5. Size(hs, l) > 0
      <4>1. CASE l < n
        BY <1>3, <4>1
      <4>2. CASE l = n
        <5>1. m[l + 1] = Len(t)
          BY <4>2 DEF Offsets
        <5> QED
          BY <1>1, <2>4, <3>3, <3>4, <5>1
      <4>3. l < n \/ l = n
        <5>1. n \in Nat
          BY <1>1
        <5> QED
          BY <3>2, <5>1
      <4> QED
        BY <4>1, <4>2, <4>3
    <3>6. 1 \in 1 .. Size(hs, l)
      BY <3>3, <3>5
    <3>7. Behind(hs, l) + 1 \in K /\ f[Behind(hs, l) + 1] = m[l] + 1
      BY <1>12, <3>6
    <3>8. i = hs[l].end + 1
      BY <1>19, <3>3, <3>4, <3>7
    <3>9. x = hs[l].start + 1
      BY <1>3, <2>8, <3>1, <3>2
    <3> QED
      BY <2>2, <2>8, <3>1, <3>2, <3>8, <3>9
  <2> QED
    BY <2>7, <2>8
<1>21. f \in [K -> 1 .. Len(t)]
  BY <1>7, <1>9
<1>22. Placed(hs, t, K, f)
  BY <1>7, <1>11, <1>13, <1>14, <1>15, <1>16, <1>17, <1>18, <1>20, <1>21 DEF Placed, H
<1> QED
  BY <1>22

(* A report of hits within strings makes another body of the same symbols. *)
LEMMA WithinReworded ==
  ASSUME NEW hs, IsReport(hs, body), body \in Seq(ToSet(body)),
         NEW t, NEW K, NEW f, Placed(hs, t, K, f),
         \A k \in DOMAIN hs : WithinString(hs[k])
  PROVE  Reworded(body, t, K, Begins(hs), f)
<1> DEFINE n == Len(hs)
<1>1. ASSUME NEW k \in 1 .. n
      PROVE  /\ hs[k].start \in Nat /\ hs[k].end \in Nat /\ WithinString(hs[k])
             /\ hs[k].start + 1 <= hs[k].end
  BY HitFacts
<1>2. ASSUME NEW k \in 1 .. n, NEW i \in Nat, hs[k].start < i, i <= hs[k].end
      PROVE  i \notin Quotes(body) /\ Rank(Quotes(body), i) % 2 = 1
  BY <1>1, <1>2, HitInString
<1>3. ASSUME NEW i \in Begins(hs)
      PROVE  /\ i \notin Escapes(body)
             /\ i \notin Quotes(body) /\ Rank(Quotes(body), i) % 2 = 1
  <2>1. PICK k \in 1 .. n : i = hs[k].start + 1
    BY DEF Begins
  <2>2. i \notin Escapes(body)
    BY <1>1, <2>1 DEF WithinString
  <2>3. i \in Nat /\ hs[k].start < i /\ i <= hs[k].end
    BY <1>1, <2>1
  <2> QED
    BY <1>2, <2>2, <2>3
<1>4. ASSUME NEW i \in 1 .. Len(body), i \notin K
      PROVE  i \notin Quotes(body) /\ Rank(Quotes(body), i) % 2 = 1
  <2>1. PICK k \in 1 .. n : hs[k].start + 1 < i /\ i <= hs[k].end
    BY <1>4 DEF Placed
  <2>2. i \in Nat /\ hs[k].start < i
    BY <1>1, <2>1, LenProperties
  <2> QED
    BY <1>2, <2>1, <2>2
<1>5. ASSUME NEW x \in K, NEW i \in K, f[i] = f[x] + 1
      PROVE  IF x \in Begins(hs) THEN i \notin Escapes(body) ELSE i = x + 1
  <2>1. CASE x \in Begins(hs)
    <3>1. PICK k \in 1 .. n : i = hs[k].end + 1
      <4>1. \E k \in 1 .. n : x = hs[k].start + 1 /\ i = hs[k].end + 1
        BY <1>5, <2>1, Zenon DEF Placed
      <4> QED
        BY <4>1
    <3>2. WithinString(hs[k])
      BY <1>1
    <3> QED
      BY <2>1, <3>1, <3>2 DEF WithinString
  <2>2. CASE x \notin Begins(hs)
    BY <1>5, <2>2 DEF Placed
  <2> QED
    BY <2>1, <2>2
<1>6. ASSUME NEW i \in K
      PROVE  IF i \in Begins(hs) THEN t[f[i]] \notin {Q, B} ELSE t[f[i]] = body[i]
  <2>1. CASE i \in Begins(hs)
    <3>1. PICK k \in 1 .. n : i = hs[k].start + 1
      BY <2>1 DEF Begins
    <3>2. t[f[i]] = hs[k].placeholder
      BY <3>1 DEF Placed
    <3> QED
      BY <2>1, <3>2, HitFacts
  <2>2. CASE i \notin Begins(hs)
    BY <2>2 DEF Placed
  <2> QED
    BY <2>1, <2>2
<1>7. Aligned(body, t, K, Begins(hs), f)
  BY <1>3, <1>4, <1>5, <1>6 DEF Placed, Aligned
<1> QED
  BY <1>3, <1>4, <1>7 DEF Reworded

-----------------------------------------------------------------------------
(* The hits that are not taken back are a report as well.                  *)
LEMMA KeptIsReport ==
  ASSUME NEW hs, IsReport(hs, body)
  PROVE  IsReport(Kept(hs), body)
<1> DEFINE R == [start : Nat, end : Nat, placeholder : Placeholders]
           S == {x \in DOMAIN hs : \A i \in DOMAIN ranges : ~Overlaps(hs[x], ranges[i])}
           c == Cardinality(S)
           at == Ascending(S)
<1>1. hs \in Seq(R) /\ Len(hs) \in Nat /\ DOMAIN hs = 1 .. Len(hs)
  BY LenProperties DEF IsReport
<1>2. Kept(hs) = [k \in DOMAIN at |-> hs[at[k]]]
  BY DEF Kept
<1>3. S \in SUBSET (1 .. Len(hs)) /\ S \in SUBSET (0 .. Len(hs))
  <2>1. \A i \in 1 .. Len(hs) : i \in 0 .. Len(hs)
    OBVIOUS
  <2> QED
    BY <1>1, <2>1
<1> HIDE DEF S
<1>4. c \in Nat /\ c <= Len(hs)
  <2>1. IsFiniteSet(1 .. Len(hs)) /\ Cardinality(1 .. Len(hs)) = Len(hs)
    <3>1. 1 \in Int /\ Len(hs) \in Int
      BY <1>1
    <3>2. IsFiniteSet(1 .. Len(hs))
          /\ Cardinality(1 .. Len(hs)) = IF 1 > Len(hs) THEN 0 ELSE Len(hs) - 1 + 1
      BY <3>1, FS_Interval
    <3> QED
      BY <1>1, <3>2
  <2>2. c <= Cardinality(1 .. Len(hs))
    BY <1>3, <2>1, FS_Subset
  <2>3. c \in Nat
    BY <1>1, <1>3, Finite
  <2> QED
    BY <2>1, <2>2, <2>3
<1>5. DOMAIN at = 1 .. c
  BY <1>1, <1>3, AscendingFacts
<1>6. \A k \in 1 .. c : at[k] \in S /\ Rank(S, at[k]) = k - 1
  BY <1>1, <1>3, AscendingFacts
<1> HIDE DEF at, c
<1>7. ASSUME NEW k \in 1 .. c
      PROVE  at[k] \in Nat /\ at[k] \in 1 .. Len(hs) /\ Kept(hs)[k] = hs[at[k]] /\ hs[at[k]] \in R
  <2>1. at[k] \in 1 .. Len(hs)
    BY <1>3, <1>6
  <2>2. Kept(hs)[k] = hs[at[k]]
    BY <1>2, <1>5
  <2>3. hs[at[k]] \in R
    BY <1>1, <2>1, ElementOfSeq
  <2>4. at[k] \in Nat
    BY <1>1, <2>1
  <2> QED
    BY <2>1, <2>2, <2>3, <2>4
<1>8. Kept(hs) \in Seq(R) /\ Len(Kept(hs)) = c /\ DOMAIN Kept(hs) = 1 .. c
  <2> DEFINE g == Kept(hs)
  <2>1. g \in [1 .. c -> R]
    BY <1>2, <1>5, <1>7
  <2> HIDE DEF g, R
  <2>2. g \in Seq(R)
    BY <1>4, <2>1
  <2>3. Len(g) = c /\ DOMAIN g = 1 .. c
    BY <1>4, <2>1, <2>2
  <2> QED
    BY <2>2, <2>3 DEF g
<1>9. ASSUME NEW i \in 1 .. c, NEW j \in 1 .. c, i < j
      PROVE  at[i] < at[j]
  BY <1>1, <1>3, <1>9, AscendingInOrder DEF at, c, Increasing
<1>10. ASSUME NEW i \in 1 .. c
       PROVE  Kept(hs)[i].start < Kept(hs)[i].end /\ Kept(hs)[i].end <= Len(body)
  BY <1>1, <1>7 DEF IsReport
<1>11. ASSUME NEW i \in 1 .. c, NEW j \in 1 .. c, i < j
       PROVE  Kept(hs)[i].end <= Kept(hs)[j].start
  <2>1. at[i] < at[j]
    BY <1>9, <1>11
  <2> QED
    BY <1>1, <1>7, <2>1 DEF IsReport
<1>12. ASSUME NEW i \in 1 .. c, NEW j \in 1 .. c,
              Kept(hs)[i].placeholder = Kept(hs)[j].placeholder
       PROVE  Slice(body, Kept(hs)[i]) = Slice(body, Kept(hs)[j])
  BY <1>1, <1>7, <1>12, SMTT(30) DEF IsReport
<1> QED
  BY <1>8, <1>10, <1>11, <1>12 DEF IsReport

(* What is sent is the body with the hits replaced.                        *)
SentAsReplaced ==
  stage \in {"sent", "replied", "restored"} => IsReport(hits, body) /\ sent = Replaced(hits)

LEMMA AlwaysReplaced == Spec => []SentAsReplaced
<1>1. Init => SentAsReplaced
  BY DEF Init, SentAsReplaced
<1>2. IInv /\ SentAsReplaced /\ [Next]_vars => SentAsReplaced'
  <2> SUFFICES ASSUME IInv, SentAsReplaced, [Next]_vars PROVE SentAsReplaced'
    OBVIOUS
  <2>1. CASE Redact
    <3>1. PICK hs \in Reports(body) : hits' = Kept(hs) /\ sent' = Replaced(Kept(hs))
      BY <2>1 DEF Redact
    <3>2. body' = body
      BY <2>1 DEF Redact
    <3>3. body \in Bodies
      BY DEF IInv, Typed, TypeOK
    <3>4. IsReport(hs, body)
      BY <3>3, JSONBodyAssumption
    <3>5. IsReport(hits', body')
      BY <3>1, <3>2, <3>4, KeptIsReport
    <3>6. Replaced(hits)' = Replaced(Kept(hs))
      BY <3>1, <3>2 DEF Replaced
    <3> QED
      BY <3>1, <3>5, <3>6 DEF SentAsReplaced
  <2>2. CASE UNCHANGED vars
    BY <2>2 DEF vars, SentAsReplaced, IsReport, Replaced
  <2>3. CASE Answer \/ Restore
    <3>1. stage \in {"sent", "replied"}
      BY <2>3 DEF Answer, Restore
    <3>2. UNCHANGED <<body, hits, sent>>
      BY <2>3 DEF Answer, Restore
    <3> QED
      BY <3>1, <3>2 DEF SentAsReplaced, IsReport, Replaced
  <2>4. CASE SkipInvalid \/ NextField \/ Protect \/ PassOver
    <3>1. stage' \in {"scan", "detect"}
      BY <2>4 DEF SkipInvalid, NextField, Protect, PassOver, Scanning
    <3> QED
      BY <3>1 DEF SentAsReplaced
  <2> QED
    BY <2>1, <2>2, <2>3, <2>4 DEF Next
<1> QED
  BY <1>1, <1>2, Inductive, PTL DEF Spec

(* A body that is JSON stays JSON when its hits are replaced, with the same*)
(* number of strings, as long as each hit lies within a string and splits  *)
(* no escape (redactBody replaces in the bytes, without decoding).         *)
THEOREM ReplacingKeepsJSON == Spec => []StillJSON
<1>1. IInv /\ SentAsReplaced => StillJSON
  <2> SUFFICES ASSUME IInv, SentAsReplaced, stage = "sent", Valid(body),
                      \A k \in DOMAIN hits : WithinString(hits[k])
               PROVE  Valid(sent) /\ Len(Strings(sent)) = Len(Strings(body))
    BY DEF StillJSON
  <2>1. body \in Seq(ToSet(body))
    BY JSONBodyAssumption DEF IInv, Typed, TypeOK
  <2>2. IsReport(hits, body) /\ sent = Replaced(hits)
    BY DEF SentAsReplaced
  <2>3. sent \in Seq(Both)
    BY <2>1, <2>2, SomeOffsets
  <2>4. PICK m : Offsets(m, hits, sent)
    BY <2>1, <2>2, SomeOffsets
  <2>5. PICK K, f : Reworded(body, sent, K, Begins(hits), f)
    <3>1. PICK K, f : Placed(hits, sent, K, f)
      BY <2>1, <2>2, <2>3, <2>4, SomePlaced
    <3> QED
      BY <2>1, <2>2, <3>1, WithinReworded
  <2>6. body \in Seq(Both)
    <3>1. \A i \in 1 .. Len(body) : body[i] \in Both
      BY <2>1 DEF Both
    <3>2. Len(body) \in Nat /\ body = [i \in 1 .. Len(body) |-> body[i]]
      BY <2>1
    <3> QED
      BY <3>1, <3>2
  <2> QED
    BY <2>3, <2>5, <2>6, SameForm
<1> QED
  BY <1>1, Inductive, AlwaysReplaced, PTL


-----------------------------------------------------------------------------
(* Quoting is known by its rule, and what stands behind a place or outside *)
(* a string has no say in it.                                              *)
LEMMA EscapesAre ==
  ASSUME NEW T, NEW s \in Seq(T), NEW E \in SUBSET (1 .. Len(s)), Rule(s, E)
  PROVE  Escapes(s) = E
<1> DEFINE Same(i) == i \in Escapes(s) <=> i \in E
           Bad == {i \in 1 .. Len(s) : ~Same(i)}
<1>1. Len(s) \in Nat /\ Escapes(s) \in SUBSET (1 .. Len(s)) /\ Rule(s, Escapes(s))
  BY EscapesRule
<1>2. \A i : i \in Bad <=> i \in 1 .. Len(s) /\ ~Same(i)
  OBVIOUS
<1> HIDE DEF Bad
<1>3. ASSUME Bad # {}
      PROVE  FALSE
  <2>1. PICK i \in Bad : \A j \in Bad : i <= j
    <3>1. Bad \in SUBSET Nat
      BY <1>1, <1>2
    <3> QED
      BY <1>3, <3>1, Least
  <2>2. i \in 1 .. Len(s) /\ ~Same(i)
    BY <1>2
  <2>3. CASE i = 1
    BY <1>1, <2>2, <2>3 DEF Rule
  <2>4. CASE i # 1
    <3>1. i - 1 \in 1 .. Len(s) /\ ~(i <= i - 1)
      BY <1>1, <2>2, <2>4
    <3>2. Same(i - 1)
      BY <1>2, <2>1, <3>1
    <3> QED
      BY <1>1, <2>2, <3>2 DEF Rule
  <2> QED
    BY <2>3, <2>4
<1> QED
  BY <1>1, <1>2, <1>3

Beginning(t, s, n, T) ==
  /\ t \in Seq(T) /\ Len(t) = n /\ n \in Nat
  /\ \A i \in 1 .. n : t[i] = s[i]
  /\ \A i : i \in Escapes(t) <=> i \in 1 .. n /\ i \in Escapes(s)
  /\ \A i : i \in Quotes(t) <=> i \in 1 .. n /\ i \in Quotes(s)

LEMMA PrefixFacts ==
  ASSUME NEW T, NEW s \in Seq(T), NEW n \in 0 .. Len(s), NEW t, t = SubSeq(s, 1, n)
  PROVE  Beginning(t, s, n, T)
<1>1. /\ Len(s) \in Nat /\ n \in Nat /\ t \in Seq(T) /\ Len(t) = n
      /\ \A i \in 1 .. n : t[i] = s[i]
  OBVIOUS
<1>2. \A i \in 1 .. n : i \in 1 .. Len(s) /\ (i > 1 => i - 1 \in 1 .. n)
  BY <1>1
<1>3. Escapes(s) \in SUBSET (1 .. Len(s)) /\ Rule(s, Escapes(s))
  BY EscapesRule
<1> DEFINE E == Escapes(s) \cap (1 .. n)
<1>4. Rule(t, E)
  BY <1>1, <1>2, <1>3 DEF Rule
<1>5. Escapes(t) = E
  <2>1. E \in SUBSET (1 .. Len(t))
    BY <1>1
  <2> HIDE DEF E
  <2> QED
    BY <1>1, <1>4, <2>1, EscapesAre
<1>6. \A i : i \in Escapes(t) <=> i \in 1 .. n /\ i \in Escapes(s)
  BY <1>5
<1>7. \A i : i \in Quotes(s) <=> i \in 1 .. Len(s) /\ s[i] = Q /\ i \notin Escapes(s)
  BY QuotesAre
<1>8. \A i : i \in Quotes(t) <=> i \in 1 .. n /\ t[i] = Q /\ i \notin Escapes(t)
  BY <1>1, QuotesAre
<1>9. \A i : i \in Quotes(t) <=> i \in 1 .. n /\ i \in Quotes(s)
  BY <1>1, <1>2, <1>6, <1>7, <1>8
<1> QED
  BY <1>1, <1>6, <1>9, Zenon DEF Beginning

(* The places in a string that are symbols of its value: all but the       *)
(* backslashes that escape.                                                *)
Shown(s, a, b) == {i \in a + 1 .. b - 1 : s[i] = B => i \in Escapes(s)}

LEMMA DecodedIs ==
  ASSUME NEW T, NEW s \in Seq(T), NEW a, NEW b, StringAt(s, a, b),
         NEW at, at = Ascending(Shown(s, a, b))
  PROVE  Decoded(SubSeq(s, a + 1, b - 1)) = [k \in DOMAIN at |-> s[at[k]]]
<1> DEFINE c == SubSeq(s, a + 1, b - 1)
           n == b - a - 1
           E == {i \in 1 .. n : a + i \in Escapes(s)}
           R == {i \in DOMAIN c : c[i] = B => i \in Escapes(c)}
           S == Shown(s, a, b)
           f == [i \in R |-> a + i]
<1>1. /\ Len(s) \in Nat /\ a \in 1 .. Len(s) /\ b \in 1 .. Len(s) /\ a < b
      /\ s[a] = Q /\ a \in Nat /\ b \in Nat
  BY StringAtFacts
<1>2. n \in Nat /\ \A i \in 1 .. n : i \in Nat /\ a + i \in 1 .. Len(s) /\ a + i \in a + 1 .. b - 1
  BY <1>1
<1>3. c \in Seq(T) /\ Len(c) = n /\ DOMAIN c = 1 .. n /\ \A i \in 1 .. n : c[i] = s[a + i]
  BY <1>1
<1> HIDE DEF c, n
<1>4. Escapes(s) \in SUBSET (1 .. Len(s)) /\ Rule(s, Escapes(s))
  BY EscapesRule
<1>5. Rule(c, E)
  <2> SUFFICES ASSUME NEW i \in 1 .. n
               PROVE  i \in E <=> i > 1 /\ c[i - 1] = B /\ i - 1 \notin E
    BY <1>3 DEF Rule
  <2>1. PICK p \in 1 .. Len(s) : p = a + i
    BY <1>2
  <2>2. p \in Escapes(s) <=> p > 1 /\ s[p - 1] = B /\ p - 1 \notin Escapes(s)
    BY <1>4 DEF Rule
  <2>3. CASE i = 1
    <3>1. p - 1 = a
      BY <1>1, <2>1, <2>3
    <3>2. s[a] # B
      BY <1>1 DEF Q, B
    <3> QED
      BY <2>1, <2>2, <2>3, <3>1, <3>2
  <2>4. CASE i # 1
    <3>1. i - 1 \in 1 .. n /\ a + (i - 1) = p - 1 /\ i > 1 /\ p > 1
      BY <1>1, <1>2, <2>1, <2>4
    <3> QED
      BY <1>3, <2>1, <2>2, <3>1
  <2> QED
    BY <2>3, <2>4
<1>6. Escapes(c) = E
  <2>1. E \in SUBSET (1 .. Len(c))
    BY <1>3
  <2> HIDE DEF E
  <2> QED
    BY <1>3, <1>5, <2>1, EscapesAre
<1>7. \A i : i \in R <=> i \in 1 .. n /\ (s[a + i] = B => a + i \in Escapes(s))
  BY <1>3, <1>6
<1>8. \A i : i \in S <=> i \in a + 1 .. b - 1 /\ (s[i] = B => i \in Escapes(s))
  BY DEF Shown
<1>9. Decoded(c) = [k \in DOMAIN Ascending(R) |-> c[Ascending(R)[k]]]
  BY DEF Decoded
<1> HIDE DEF R, S, E
<1>10. \A i \in R : f[i] = a + i /\ i \in Nat
  BY <1>2, <1>7
<1>11. \A i \in R : f[i] \in S
  BY <1>2, <1>7, <1>8, <1>10
<1>12. f \in [R -> S]
  BY <1>11
<1> HIDE DEF f
<1>13. Increasing(f, R)
  BY <1>1, <1>10 DEF Increasing
<1>14. \A y \in S : \E i \in R : y = f[i]
  <2> SUFFICES ASSUME NEW y \in S PROVE \E i \in R : y = f[i]
    OBVIOUS
  <2>1. PICK i \in 1 .. n : y = a + i
    <3>1. y \in a + 1 .. b - 1
      BY <1>8
    <3>2. y - a \in 1 .. n /\ y = a + (y - a)
      BY <1>1, <3>1 DEF n
    <3> QED
      BY <3>2
  <2>2. i \in R
    BY <1>7, <1>8, <2>1
  <2> QED
    BY <1>10, <2>1, <2>2
<1>15. OneByOne(f, R, S)
  <2>1. Moves(f, R, S)
    BY <1>12, <1>13, <1>14 DEF Moves
  <2>2. R \in SUBSET (0 .. n) /\ S \in SUBSET (0 .. Len(s))
    <3>1. \A i \in 1 .. n : i \in 0 .. n
      OBVIOUS
    <3>2. \A i \in a + 1 .. b - 1 : i \in 0 .. Len(s)
      BY <1>1
    <3> QED
      BY <1>7, <1>8, <3>1, <3>2
  <2> QED
    BY <1>1, <1>2, <2>1, <2>2, MovedAscending
<1>16. /\ DOMAIN at = DOMAIN Ascending(R)
       /\ \A k \in DOMAIN at : Ascending(R)[k] \in R /\ at[k] = f[Ascending(R)[k]]
  BY <1>15 DEF OneByOne, S
<1>17. \A k \in DOMAIN at : c[Ascending(R)[k]] = s[at[k]]
  <2> SUFFICES ASSUME NEW k \in DOMAIN at PROVE c[Ascending(R)[k]] = s[at[k]]
    OBVIOUS
  <2>1. PICK i \in R : i = Ascending(R)[k] /\ at[k] = f[i]
    BY <1>16
  <2> QED
    BY <1>3, <1>7, <1>10, <2>1
<1> QED
  BY <1>9, <1>16, <1>17 DEF c


-----------------------------------------------------------------------------
(* What may stand between two quotes: nothing in it ends the string, and   *)
(* no escape reaches beyond it.                                            *)
Clean(c) ==
  /\ Quotes(c) = {}
  /\ \A i \in Escapes(c) : c[i] \in {Q, B, "/"}
  /\ Len(c) > 0 /\ c[Len(c)] = B => Len(c) \in Escapes(c)

(* Decoding undoes encoding.                                               *)
LEMMA EncodedFacts ==
  ASSUME NEW T, NEW v \in Seq(T), B \in T
  PROVE  Encoded(v) \in Seq(T) /\ Clean(Encoded(v)) /\ Decoded(Encoded(v)) = v
<1> DEFINE n == Len(v)
           Slashed(k) == v[k] \in {Q, B}
           p == [k \in DOMAIN v |-> IF v[k] \in {Q, B} THEN <<B, v[k]>> ELSE <<v[k]>>]
           e == Encoded(v)
<1>1. n \in Nat /\ DOMAIN v = 1 .. n /\ \A k \in 1 .. n : v[k] \in T
  OBVIOUS
<1>2. ASSUME NEW k \in 1 .. n
      PROVE  /\ p[k] \in Seq(T)
             /\ Slashed(k) => Len(p[k]) = 2 /\ p[k][1] = B /\ p[k][2] = v[k]
             /\ ~Slashed(k) => Len(p[k]) = 1 /\ p[k][1] = v[k]
  <2>1. p[k] = IF v[k] \in {Q, B} THEN <<B, v[k]>> ELSE <<v[k]>>
    BY <1>1
  <2>2. v[k] \in T
    BY <1>1
  <2> HIDE DEF p
  <2>3. CASE Slashed(k)
    BY <2>1, <2>2, <2>3
  <2>4. CASE ~Slashed(k)
    BY <2>1, <2>2, <2>4
  <2> QED
    BY <2>3, <2>4
<1>3. p \in Seq(Seq(T)) /\ Len(p) = n
  <2>1. DOMAIN p = 1 .. n /\ \A k \in 1 .. n : p[k] \in Seq(T)
    BY <1>1, <1>2
  <2>2. p = [k \in 1 .. n |-> p[k]]
    BY <1>1
  <2> HIDE DEF p, n
  <2>3. p \in [1 .. n -> Seq(T)]
    BY <2>1, <2>2
  <2> QED
    BY <1>1, <2>3 DEF n
<1>4. e = FlattenSeq(p)
  BY DEF Encoded
<1> HIDE DEF p, e, n
<1>5. e \in Seq(T) /\ Len(e) \in Nat /\ DOMAIN e = 1 .. Len(e)
  BY <1>3, <1>4, SomeFills, LenProperties
<1>6. PICK g : Fills(p, e, g)
  BY <1>3, <1>4, SomeFills
<1>7. ASSUME NEW k \in 1 .. n
      PROVE  /\ k - 1 \in 0 .. n /\ g[k - 1] \in Nat /\ g[k] \in Nat /\ g[k] \in 1 .. Len(e)
             /\ e[g[k]] = v[k]
             /\ Slashed(k) => g[k] = g[k - 1] + 2 /\ e[g[k - 1] + 1] = B
             /\ ~Slashed(k) => g[k] = g[k - 1] + 1
  <2>1. k - 1 \in 0 .. n /\ k \in 0 .. n /\ n \in 0 .. n /\ k <= n
    BY <1>1
  <2>2. g[k - 1] \in Nat /\ g[k] \in Nat /\ g[k] = g[k - 1] + Len(p[k]) /\ g[n] = Len(e)
    BY <1>3, <1>6, <2>1 DEF Fills
  <2>3. g[k] <= g[n]
    BY <1>3, <1>6, <2>1, FillsInOrder
  <2>4. \A i \in 1 .. Len(p[k]) : e[g[k - 1] + i] = p[k][i]
    BY <1>3, <1>6 DEF Fills
  <2>5. CASE Slashed(k)
    <3>1. Len(p[k]) = 2 /\ p[k][1] = B /\ p[k][2] = v[k]
      BY <1>2, <2>5
    <3>2. e[g[k - 1] + 1] = B /\ e[g[k - 1] + 2] = v[k]
      BY <2>4, <3>1
    <3>3. g[k] = g[k - 1] + 2 /\ g[k] \in 1 .. Len(e)
      BY <1>5, <2>2, <2>3, <3>1
    <3> QED
      BY <2>1, <2>2, <2>5, <3>2, <3>3
  <2>6. CASE ~Slashed(k)
    <3>1. Len(p[k]) = 1 /\ p[k][1] = v[k]
      BY <1>2, <2>6
    <3>2. e[g[k - 1] + 1] = v[k]
      BY <2>4, <3>1
    <3>3. g[k] = g[k - 1] + 1 /\ g[k] \in 1 .. Len(e)
      BY <1>5, <2>2, <2>3, <3>1
    <3> QED
      BY <2>1, <2>2, <2>6, <3>2, <3>3
  <2> QED
    BY <2>5, <2>6
<1>8. \A k, l \in 1 .. n : k < l => g[k] <= g[l - 1] /\ g[k] < g[l]
  <2> SUFFICES ASSUME NEW k \in 1 .. n, NEW l \in 1 .. n, k < l
               PROVE  g[k] <= g[l - 1] /\ g[k] < g[l]
    OBVIOUS
  <2>1. k \in 0 .. n /\ l - 1 \in 0 .. n /\ k <= l - 1
    BY <1>1
  <2>2. g[k] <= g[l - 1]
    BY <1>3, <1>6, <2>1, FillsInOrder
  <2>3. g[k] \in Nat /\ g[l - 1] \in Nat /\ (g[l] = g[l - 1] + 1 \/ g[l] = g[l - 1] + 2)
    BY <1>7
  <2> QED
    BY <2>2, <2>3
<1>9. ASSUME NEW i \in 1 .. Len(e)
      PROVE  \E k \in 1 .. n : i = g[k] \/ (Slashed(k) /\ i + 1 = g[k] /\ i = g[k - 1] + 1)
  <2>1. PICK k \in 1 .. n : g[k - 1] < i /\ i <= g[k]
    BY <1>3, <1>5, <1>6, FillsEvery
  <2>2. g[k - 1] \in Nat /\ i \in Nat
    BY <1>5, <1>7
  <2>3. Slashed(k) => g[k] = g[k - 1] + 2
    BY <1>7
  <2>4. ~Slashed(k) => g[k] = g[k - 1] + 1
    BY <1>7
  <2> QED
    BY <2>1, <2>2, <2>3, <2>4
<1> DEFINE E == {i \in 1 .. Len(e) : \E k \in 1 .. n : Slashed(k) /\ i = g[k]}
<1>10. \A i : i \in E <=> i \in 1 .. Len(e) /\ \E k \in 1 .. n : Slashed(k) /\ i = g[k]
  OBVIOUS
<1>11. E \in SUBSET (1 .. Len(e))
  OBVIOUS
<1> HIDE DEF E
<1>12. ASSUME NEW k \in 1 .. n, Slashed(k)
       PROVE  g[k - 1] + 1 \notin E
  <2> SUFFICES ASSUME g[k - 1] + 1 \in E PROVE FALSE
    OBVIOUS
  <2>1. PICK l \in 1 .. n : g[k - 1] + 1 = g[l]
    BY <1>10
  <2>2. g[k - 1] \in Nat /\ g[k] = g[k - 1] + 2 /\ g[l] \in Nat
    BY <1>7, <1>12
  <2>3. ~(l < k)
    <3>1. l < k => g[l] <= g[k - 1]
      BY <1>8
    <3> QED
      BY <2>1, <2>2, <3>1
  <2>4. ~(k < l)
    <3>1. k < l => g[k] < g[l]
      BY <1>8
    <3> QED
      BY <2>1, <2>2, <3>1
  <2>5. k # l
    BY <2>1, <2>2
  <2> QED
    BY <1>1, <2>3, <2>4, <2>5
<1>13. Rule(e, E)
  <2> SUFFICES ASSUME NEW i \in 1 .. Len(e)
               PROVE  i \in E <=> i > 1 /\ e[i - 1] = B /\ i - 1 \notin E
    BY DEF Rule
  <2>1. ASSUME i \in E
        PROVE  i > 1 /\ e[i - 1] = B /\ i - 1 \notin E
    <3>1. PICK k \in 1 .. n : Slashed(k) /\ i = g[k]
      BY <1>10, <2>1
    <3>2. g[k - 1] \in Nat /\ g[k] = g[k - 1] + 2 /\ e[g[k - 1] + 1] = B
      BY <1>7, <3>1
    <3>3. i - 1 = g[k - 1] + 1 /\ i > 1
      BY <3>1, <3>2
    <3> QED
      BY <1>12, <3>1, <3>2, <3>3
  <2>2. ASSUME i > 1, e[i - 1] = B, i - 1 \notin E
        PROVE  i \in E
    <3>1. i - 1 \in 1 .. Len(e) /\ i \in Nat
      BY <1>5, <2>2
    <3>2. PICK k \in 1 .. n :
            i - 1 = g[k] \/ (Slashed(k) /\ (i - 1) + 1 = g[k] /\ i - 1 = g[k - 1] + 1)
      BY <1>9, <3>1
    <3>3. i - 1 # g[k]
      <4>1. i - 1 = g[k] => Slashed(k)
        BY <1>7, <2>2
      <4> QED
        BY <1>10, <2>2, <3>1, <4>1
    <3>4. Slashed(k) /\ i = g[k]
      <4>1. (i - 1) + 1 = i
        BY <3>1
      <4> QED
        BY <3>2, <3>3, <4>1
    <3> QED
      BY <1>10, <3>4
  <2> QED
    BY <2>1, <2>2
<1>14. Escapes(e) = E
  BY <1>5, <1>11, <1>13, EscapesAre
<1>15. Quotes(e) = {}
  <2> SUFFICES ASSUME NEW i \in Quotes(e) PROVE FALSE
    OBVIOUS
  <2>1. i \in 1 .. Len(e) /\ e[i] = Q /\ i \notin E
    BY <1>5, <1>14, QuotesAre
  <2>2. PICK k \in 1 .. n : i = g[k] \/ (Slashed(k) /\ i = g[k - 1] + 1)
    BY <1>9, <2>1
  <2>3. CASE i = g[k]
    <3>1. Slashed(k)
      BY <1>7, <2>1, <2>3
    <3> QED
      BY <1>10, <2>1, <2>3, <3>1
  <2>4. CASE Slashed(k) /\ i = g[k - 1] + 1
    <3>1. e[i] = B
      BY <1>7, <2>4
    <3> QED
      BY <2>1, <3>1 DEF Q, B
  <2> QED
    BY <2>2, <2>3, <2>4
<1>16. ASSUME NEW i \in Escapes(e)
       PROVE  e[i] \in {Q, B, "/"}
  <2>1. PICK k \in 1 .. n : Slashed(k) /\ i = g[k]
    BY <1>10, <1>14
  <2>2. e[i] = v[k]
    BY <1>7, <2>1
  <2> QED
    BY <2>1, <2>2
<1>17. ASSUME Len(e) > 0, e[Len(e)] = B
       PROVE  Len(e) \in Escapes(e)
  <2>1. g[n] = Len(e) /\ g[0] = 0
    BY <1>3, <1>6 DEF Fills
  <2>2. n \in 1 .. n
    <3>1. n # 0
      BY <1>17, <2>1
    <3> QED
      BY <1>1, <3>1
  <2>3. Slashed(n)
    BY <1>7, <1>17, <2>1, <2>2
  <2>4. Len(e) \in 1 .. Len(e)
    BY <1>5, <1>17
  <2> QED
    BY <1>10, <1>14, <2>1, <2>2, <2>3, <2>4
<1>18. Clean(e)
  BY <1>15, <1>16, <1>17 DEF Clean
<1> DEFINE R == {i \in DOMAIN e : e[i] = B => i \in Escapes(e)}
           h == [k \in 1 .. n |-> g[k]]
<1>19. \A i : i \in R <=> i \in 1 .. Len(e) /\ (e[i] = B => i \in E)
  BY <1>5, <1>14
<1>20. Decoded(e) = [k \in DOMAIN Ascending(R) |-> e[Ascending(R)[k]]]
  BY DEF Decoded
<1> HIDE DEF R
<1>21. \A k \in 1 .. n : h[k] = g[k] /\ g[k] \in R
  <2> SUFFICES ASSUME NEW k \in 1 .. n PROVE g[k] \in R
    OBVIOUS
  <2>1. g[k] \in 1 .. Len(e) /\ e[g[k]] = v[k]
    BY <1>7
  <2> QED
    BY <1>10, <1>19, <2>1
<1>22. h \in [1 .. n -> R]
  BY <1>21
<1> HIDE DEF h
<1>23. Increasing(h, 1 .. n)
  BY <1>8, <1>21 DEF Increasing
<1>24. \A y \in R : \E k \in 1 .. n : y = h[k]
  <2> SUFFICES ASSUME NEW y \in R PROVE \E k \in 1 .. n : y = h[k]
    OBVIOUS
  <2>1. y \in 1 .. Len(e) /\ (e[y] = B => y \in E)
    BY <1>19
  <2>2. PICK k \in 1 .. n : y = g[k] \/ (Slashed(k) /\ y = g[k - 1] + 1)
    BY <1>9, <2>1
  <2>3. ~(Slashed(k) /\ y = g[k - 1] + 1)
    BY <1>7, <1>12, <2>1
  <2> QED
    BY <1>21, <2>2, <2>3
<1>25. Ascending(R) = h
  <2>1. Moves(h, 1 .. n, R)
    BY <1>22, <1>23, <1>24 DEF Moves
  <2>2. R \in SUBSET (0 .. Len(e))
    BY <1>5, <1>19
  <2> QED
    BY <1>1, <1>5, <2>1, <2>2, AscendingIs
<1>26. Decoded(e) = [k \in 1 .. n |-> v[k]]
  <2>1. DOMAIN h = 1 .. n /\ \A k \in 1 .. n : e[h[k]] = v[k]
    BY <1>7, <1>21, <1>22
  <2> QED
    BY <1>20, <1>25, <2>1
<1>27. v = [k \in 1 .. n |-> v[k]]
  BY <1>1
<1> QED
  BY <1>5, <1>18, <1>26, <1>27 DEF e

-----------------------------------------------------------------------------
(* A run of d elements of a set from a on, and none behind it up to b.     *)
Run(S, a, d, b) ==
  /\ \A i \in Nat : a <= i /\ i < a + d => i \in S
  /\ a + d <= b
  /\ \A z \in S : ~(a + d <= z /\ z < b)

Counted(S, a, d, b) ==
  /\ Rank(S, a) \in Nat
  /\ \A e \in 0 .. d : Rank(S, a + e) = Rank(S, a) + e
  /\ Rank(S, b) = Rank(S, a) + d

LEMMA RunFacts ==
  ASSUME NEW S, NEW m \in Nat, S \in SUBSET (0 .. m), NEW a \in Nat, NEW d \in Nat,
         NEW b \in Nat, Run(S, a, d, b)
  PROVE  Counted(S, a, d, b)
<1> DEFINE Bad == {e \in 0 .. d : Rank(S, a + e) # Rank(S, a) + e}
<1>1. \A e : e \in Bad <=> e \in 0 .. d /\ Rank(S, a + e) # Rank(S, a) + e
  OBVIOUS
<1> HIDE DEF Bad
<1>2. \A x \in Nat : Rank(S, x) \in Nat
  BY RankFacts
<1>3. ASSUME Bad # {}
      PROVE  FALSE
  <2>1. PICK e \in Bad : \A i \in Bad : e <= i
    <3>1. Bad \in SUBSET Nat
      BY <1>1
    <3> QED
      BY <1>3, <3>1, Least
  <2>2. e \in 0 .. d /\ Rank(S, a + e) # Rank(S, a) + e
    BY <1>1
  <2>3. e # 0
    BY <1>2, <2>2
  <2>4. PICK i \in 0 .. d : i = e - 1 /\ ~(e <= i) /\ e = i + 1
    BY <2>2, <2>3
  <2>5. Rank(S, a + i) = Rank(S, a) + i
    BY <1>1, <2>1, <2>4
  <2>6. PICK x \in Nat, y \in Nat : x = a + i /\ y = a + e
    BY <2>2, <2>4
  <2>7. x \in S
    BY <2>2, <2>4, <2>6 DEF Run
  <2>8. x < y /\ \A z \in S : ~(x < z /\ z < y)
    <3>1. \A z \in S : z \in 0 .. m
      OBVIOUS
    <3> QED
      BY <2>4, <2>6, <3>1
  <2>9. Rank(S, y) = Rank(S, x) + 1
    BY <2>7, <2>8, RankFacts
  <2> QED
    BY <1>2, <2>2, <2>4, <2>5, <2>6, <2>9
<1>4. \A e \in 0 .. d : Rank(S, a + e) = Rank(S, a) + e
  BY <1>1, <1>3
<1>5. PICK y \in Nat : y = a + d
  OBVIOUS
<1>6. Rank(S, b) = Rank(S, y)
  BY <1>5, RankFacts DEF Run
<1>7. d \in 0 .. d
  OBVIOUS
<1> QED
  BY <1>2, <1>4, <1>5, <1>6, <1>7 DEF Counted

(* The next one behind each element of a set, up to b.                     *)
Follow(S, b, e) ==
  /\ e \in [1 .. Cardinality(S) + 1 -> Nat]
  /\ e[Cardinality(S) + 1] = b
  /\ \A k \in 1 .. Cardinality(S) : /\ e[k] = Ascending(S)[k] /\ e[k] \in S
                                    /\ e[k] < e[k + 1]
                                    /\ \A y \in S : e[k] < y => e[k + 1] <= y
  /\ \A y \in S : e[1] <= y

LEMMA SomeFollow ==
  ASSUME NEW S, NEW m \in Nat, S \in SUBSET (0 .. m)
  PROVE  \E e : Follow(S, m + 1, e)
<1> DEFINE n == Cardinality(S)
           c == Ascending(S)
           e == [k \in 1 .. n + 1 |-> IF k = n + 1 THEN m + 1 ELSE c[k]]
<1>1. n \in Nat /\ \A y \in S : y \in Nat /\ y < m + 1
  <2>1. n \in Nat
    BY Finite
  <2>2. \A y \in S : y \in 0 .. m
    OBVIOUS
  <2> QED
    BY <2>1, <2>2
<1>2. \A k \in 1 .. n : c[k] \in S
  BY AscendingFacts
<1>3. \A x \in S : \E k \in 1 .. n : c[k] = x
  BY AscendingFacts
<1>4. \A i, k \in 1 .. n : i < k => c[i] < c[k]
  BY AscendingInOrder DEF Increasing
<1> HIDE DEF n, c
<1>5. e[n + 1] = m + 1 /\ \A k \in 1 .. n : e[k] = c[k]
  BY <1>1
<1>6. e \in [1 .. n + 1 -> Nat]
  <2>1. m + 1 \in Nat /\ \A k \in 1 .. n : c[k] \in Nat
    <3>1. m + 1 \in Nat
      OBVIOUS
    <3>2. \A y \in S : y \in Nat
      BY <1>1
    <3>3. \A k \in 1 .. n : c[k] \in Nat
      BY <1>2, <3>2, Zenon
    <3> QED
      BY <3>1, <3>3
  <2>2. \A k \in 1 .. n + 1 : k = n + 1 \/ k \in 1 .. n
    BY <1>1
  <2> QED
    BY <2>1, <2>2
<1> HIDE DEF e
<1>7. ASSUME NEW k \in 1 .. n
      PROVE  /\ e[k] = c[k] /\ e[k] \in S /\ e[k] < e[k + 1]
             /\ \A y \in S : e[k] < y => e[k + 1] <= y
  <2>1. e[k] = c[k] /\ e[k] \in S /\ e[k] \in Nat
    BY <1>1, <1>2, <1>5
  <2>2. CASE k = n
    <3>1. e[k + 1] = m + 1
      BY <1>5, <2>2
    <3>2. ASSUME NEW y \in S, e[k] < y
          PROVE  FALSE
      <4>1. PICK i \in 1 .. n : c[i] = y
        BY <1>3
      <4>2. ~(i < k)
        <5>1. i < k => y < e[k]
          BY <1>4, <2>1, <4>1
        <5> QED
          BY <1>1, <2>1, <3>2, <5>1
      <4>3. i = k
        BY <1>1, <2>2, <4>2
      <4> QED
        BY <2>1, <3>2, <4>1, <4>3
    <3> QED
      BY <1>1, <2>1, <3>1, <3>2
  <2>3. CASE k # n
    <3>1. k + 1 \in 1 .. n /\ k < k + 1
      BY <1>1, <2>3
    <3>2. e[k + 1] = c[k + 1] /\ e[k] < e[k + 1] /\ e[k + 1] \in Nat
      BY <1>1, <1>2, <1>4, <1>5, <2>1, <3>1
    <3>3. ASSUME NEW y \in S, e[k] < y
          PROVE  e[k + 1] <= y
      <4>1. PICK i \in 1 .. n : c[i] = y
        BY <1>3
      <4>2. ~(i < k) /\ i # k
        <5>1. i < k => y < e[k]
          BY <1>4, <2>1, <4>1
        <5>2. i = k => y = e[k]
          BY <2>1, <4>1
        <5> QED
          BY <1>1, <2>1, <3>3, <5>1, <5>2
      <4>3. i = k + 1 \/ k + 1 < i
        BY <1>1, <4>2
      <4>4. i = k + 1 => y = e[k + 1]
        BY <3>2, <4>1
      <4>5. k + 1 < i => e[k + 1] < y
        BY <1>4, <3>1, <3>2, <4>1
      <4> QED
        BY <1>1, <3>2, <4>3, <4>4, <4>5
    <3> QED
      BY <2>1, <3>2, <3>3
  <2> QED
    BY <2>2, <2>3
<1>8. ASSUME NEW y \in S
      PROVE  e[1] <= y
  <2>1. PICK i \in 1 .. n : c[i] = y
    BY <1>3
  <2>2. 1 \in 1 .. n /\ (i = 1 \/ 1 < i)
    BY <1>1
  <2>3. i = 1 => e[1] = y
    BY <1>5, <2>1, <2>2
  <2>4. 1 < i => e[1] < y
    BY <1>4, <1>5, <2>1, <2>2
  <2>5. e[1] \in Nat
    BY <1>1, <1>6
  <2> QED
    BY <1>1, <2>2, <2>3, <2>4, <2>5
<1> QED
  BY <1>5, <1>6, <1>7, <1>8 DEF Follow, n, c

(* The symbols of s at the places S, in order.                             *)
Spelled(s, S) == [k \in DOMAIN Ascending(S) |-> s[Ascending(S)[k]]]

(* w is what stands in s behind the place a, up to b.                      *)
Sliced(w, s, a, b, T) ==
  w \in Seq(T) /\ Len(w) = b - a /\ \A j \in 1 .. b - a : w[j] = s[a + j]

LEMMA SliceFacts ==
  ASSUME NEW T, NEW s \in Seq(T), NEW a \in Nat, NEW b \in Nat, a + 1 <= b, b <= Len(s)
  PROVE  Sliced(SubSeq(s, a + 1, b), s, a, b, T)
BY DEF Sliced

LEMMA OneSymbol ==
  ASSUME NEW T, NEW x \in T
  PROVE  <<x>> \in Seq(T) /\ Len(<<x>>) = 1 /\ <<x>>[1] = x
OBVIOUS

(* What RestoreText makes of a symbol.                                     *)
Unveil(u) ==
  IF \E k \in DOMAIN hits : u = hits[k].placeholder
  THEN Slice(body, hits[CHOOSE k \in DOMAIN hits : u = hits[k].placeholder])
  ELSE <<u>>

(* A hit is among the places P as a whole, or not at all.                  *)
WholeHits(P) ==
  \A k \in 1 .. Len(hits) : \A i \in Nat :
    hits[k].start < i /\ i <= hits[k].end => (i \in P <=> hits[k].start + 1 \in P)

(* The text q is what stands in the body at d places of P from x on, and   *)
(* the next place that is kept comes behind them.                          *)
Unveils(q, x, d, P, K) ==
  /\ q \in Seq(ToSet(body)) /\ Len(q) = d
  /\ x + d <= Len(body) + 1
  /\ \A j \in 1 .. d : q[j] = body[x + j - 1]
  /\ \A i \in Nat : x <= i /\ i < x + d => i \in P
  /\ \A y \in K : x < y => x + d <= y
  /\ \A z \in P : x + d <= z => \E y \in P \cap K : x < y /\ y <= z

(* What the symbol at a place is restored to.                              *)
LEMMA Unveiled ==
  ASSUME IsReport(hits, body), body \in Seq(ToSet(body)),
         ToSet(body) \cap Placeholders = {},
         NEW t, NEW K, NEW f, Placed(hits, t, K, f),
         NEW P \in SUBSET (1 .. Len(body)),
         WholeHits(P), NEW x \in P \cap K
  PROVE  \E d \in Nat : Unveils(Unveil(t[f[x]]), x, d, P, K)
<1> DEFINE n == Len(hits)
           u == t[f[x]]
           q == Unveil(u)
<1>1. /\ n \in Nat /\ DOMAIN hits = 1 .. n /\ Len(body) \in Nat
      /\ \A k \in 1 .. n : /\ hits[k].start \in Nat /\ hits[k].end \in Nat
                           /\ hits[k].start + 1 <= hits[k].end /\ hits[k].end <= Len(body)
  <2>1. n \in Nat /\ DOMAIN hits = 1 .. n /\ Len(body) \in Nat
    BY LenProperties DEF IsReport
  <2> QED
    BY <2>1, HitFacts
<1>2. /\ K \in SUBSET (1 .. Len(body)) /\ Begins(hits) \in SUBSET K
      /\ \A k \in 1 .. n : t[f[hits[k].start + 1]] = hits[k].placeholder
      /\ \A i \in K : i \in Begins(hits) \/ t[f[i]] = body[i]
      /\ \A i \in 1 .. Len(body) :
           i \notin K <=> \E k \in 1 .. n : hits[k].start + 1 < i /\ i <= hits[k].end
  BY DEF Placed
<1> HIDE DEF n, u, q
<1>3. x \in Nat /\ x \in 1 .. Len(body) /\ x \in P /\ x \in K
  <2>1. x \in P /\ x \in K
    OBVIOUS
  <2>2. x \in 1 .. Len(body)
    BY <2>1
  <2>3. x \in Nat
    BY <1>1, <2>2
  <2> QED
    BY <2>1, <2>2, <2>3
<1>4. \A i \in 1 .. Len(body) : body[i] \in ToSet(body) /\ body[i] \notin Placeholders
  <2>1. DOMAIN body = 1 .. Len(body)
    OBVIOUS
  <2> QED
    BY <2>1 DEF ToSet
<1>5. ASSUME NEW d \in Nat, \A i \in Nat : x < i /\ i < x + d => i \notin K, 0 < d,
             \A k \in 1 .. n : x = hits[k].start + 1 => hits[k].end < x + d,
             NEW z \in P, x + d <= z
      PROVE  \E y \in P \cap K : x < y /\ y <= z
  <2>1. z \in 1 .. Len(body) /\ z \in Nat
    BY <1>1
  <2>2. CASE z \in K
    BY <1>3, <1>5, <2>1, <2>2
  <2>3. CASE z \notin K
    <3>1. PICK k \in 1 .. n : hits[k].start + 1 < z /\ z <= hits[k].end
      BY <1>2, <2>1, <2>3
    <3>2. PICK y \in Nat : y = hits[k].start + 1 /\ hits[k].end \in Nat /\ hits[k].start \in Nat
      BY <1>1
    <3>3. y \in K /\ y \in P
      <4>1. y \in Begins(hits)
        BY <3>2 DEF Begins, n
      <4>2. z \in P <=> y \in P
        BY <2>1, <3>1, <3>2 DEF n, WholeHits
      <4> QED
        BY <1>2, <4>1, <4>2
    <3>4. ~(y < x)
      <4>1. y < x => x < z
        BY <1>3, <1>5, <2>1
      <4>2. y < x => x \notin K
        BY <1>2, <1>3, <2>1, <3>1, <3>2, <4>1
      <4> QED
        BY <1>3, <4>2
    <3>5. y # x
      <4>1. y = x => hits[k].end < x + d
        BY <1>5, <3>2
      <4> QED
        BY <1>5, <2>1, <3>1, <3>2, <4>1, SMTT(30)
    <3> QED
      BY <1>3, <3>1, <3>2, <3>3, <3>4, <3>5
  <2> QED
    BY <2>2, <2>3
<1>6. ASSUME NEW k \in 1 .. n, NEW l \in 1 .. n, hits[l].start = hits[k].start
      PROVE  l = k
  <2>1. l < k => hits[l].end <= hits[k].start
    BY <1>1 DEF IsReport
  <2>2. k < l => hits[k].end <= hits[l].start
    BY <1>1 DEF IsReport
  <2>3. ~(l < k) /\ ~(k < l)
    BY <1>1, <1>6, <2>1, <2>2
  <2> QED
    BY <1>1, <2>3
<1>7. CASE x \in Begins(hits)
  <2>1. PICK k \in 1 .. n : x = hits[k].start + 1
    BY <1>7 DEF Begins, n
  <2>2. u = hits[k].placeholder
    BY <1>2, <2>1 DEF u
  <2>3. PICK h \in 1 .. n : /\ h = CHOOSE l \in DOMAIN hits : u = hits[l].placeholder
                           /\ u = hits[h].placeholder
    BY <1>1, <2>2
  <2>4. q = Slice(body, hits[k])
    <3>1. Slice(body, hits[h]) = Slice(body, hits[k])
      BY <1>1, <2>2, <2>3 DEF IsReport
    <3>2. q = Slice(body, hits[h])
      BY <1>1, <2>2, <2>3 DEF q, Unveil
    <3> QED
      BY <3>1, <3>2
  <2>5. PICK a \in Nat, b \in Nat : a = hits[k].start /\ b = hits[k].end
    BY <1>1
  <2>6. q = SubSeq(body, a + 1, b) /\ a + 1 <= b /\ b <= Len(body) /\ x = a + 1
    BY <1>1, <2>1, <2>4, <2>5 DEF Slice
  <2>7. PICK d \in Nat : d = b - a /\ 0 < d /\ x + d = b + 1
    <3>1. b - a \in Nat /\ 0 < b - a /\ x + (b - a) = b + 1
      BY <2>6
    <3> QED
      BY <3>1
  <2>8. /\ q \in Seq(ToSet(body)) /\ Len(q) = d
        /\ \A j \in 1 .. d : q[j] = body[x + j - 1]
    <3>1. \A j \in 1 .. d : x + j - 1 = a + j /\ (a + 1) + j - 1 = a + j /\ a + j \in 1 .. Len(body)
      BY <1>1, <2>6, <2>7
    <3>2. q \in Seq(ToSet(body)) /\ Len(q) = b - a /\ \A j \in 1 .. b - a : q[j] = body[a + j]
      <4>1. body \in Seq(ToSet(body)) /\ a + 1 <= b /\ b <= Len(body)
        BY <2>6
      <4>2. Sliced(SubSeq(body, a + 1, b), body, a, b, ToSet(body))
        BY <4>1, SliceFacts
      <4> QED
        BY <2>6, <4>2 DEF Sliced
    <3>3. Len(q) = d /\ \A j \in 1 .. d : q[j] = body[a + j]
      BY <2>7, <3>2
    <3> QED
      BY <3>1, <3>2, <3>3
  <2>9. \A i \in Nat : x <= i /\ i < x + d => i \in P
    <3> SUFFICES ASSUME NEW i \in Nat, x <= i, i < x + d PROVE i \in P
      OBVIOUS
    <3>1. a < i /\ i <= b
      BY <2>6, <2>7
    <3>2. i \in P <=> x \in P
      BY <2>1, <2>5, <3>1 DEF n, WholeHits
    <3> QED
      BY <1>3, <3>2
  <2>10. \A i \in Nat : x < i /\ i < x + d => i \notin K
    <3> SUFFICES ASSUME NEW i \in Nat, x < i, i < x + d PROVE i \notin K
      OBVIOUS
    <3>1. a + 1 < i /\ i <= b /\ i \in 1 .. Len(body)
      BY <1>1, <2>6, <2>7
    <3> QED
      BY <1>2, <2>5, <3>1
  <2>11. \A l \in 1 .. n : x = hits[l].start + 1 => hits[l].end < x + d
    <3> SUFFICES ASSUME NEW l \in 1 .. n, x = hits[l].start + 1 PROVE hits[l].end < x + d
      OBVIOUS
    <3>1. hits[l].start = hits[k].start
      BY <1>1, <2>1
    <3>2. l = k
      BY <1>6, <3>1
    <3> QED
      BY <2>5, <2>7, <3>2
  <2>12. \A y \in K : x < y => x + d <= y
    <3> SUFFICES ASSUME NEW y \in K, x < y, ~(x + d <= y) PROVE FALSE
      OBVIOUS
    <3>1. y \in 1 .. Len(body)
      BY <1>2
    <3>2. y \in Nat
      BY <1>1, <3>1
    <3>3. y < x + d
      BY <1>3, <3>2
    <3> QED
      BY <2>10, <3>2, <3>3
  <2>13. \A z \in P : x + d <= z => \E y \in P \cap K : x < y /\ y <= z
    BY <1>5, <2>7, <2>10, <2>11
  <2>14. x + d <= Len(body) + 1
    BY <1>1, <2>6, <2>7
  <2> QED
    <3>1. Unveils(q, x, d, P, K)
      BY <2>8, <2>9, <2>12, <2>13, <2>14 DEF Unveils
    <3> QED
      BY <3>1 DEF q, u
<1>8. CASE x \notin Begins(hits)
  <2>1. u = body[x]
    BY <1>2, <1>3, <1>8 DEF u
  <2>2. ~\E k \in DOMAIN hits : u = hits[k].placeholder
    <3> SUFFICES ASSUME NEW k \in 1 .. n, u = hits[k].placeholder PROVE FALSE
      BY <1>1
    <3>1. hits[k].placeholder \in Placeholders
      BY HitFacts DEF n
    <3> QED
      BY <1>3, <1>4, <2>1, <3>1
  <2>3. q = <<body[x]>> /\ body[x] \in ToSet(body)
    BY <1>3, <1>4, <2>1, <2>2 DEF q, Unveil
  <2>4. /\ q \in Seq(ToSet(body)) /\ Len(q) = 1
        /\ \A j \in 1 .. 1 : q[j] = body[x + j - 1]
    <3>1. q \in Seq(ToSet(body)) /\ Len(q) = 1 /\ q[1] = body[x]
      <4>1. PICK v \in ToSet(body) : q = <<v>> /\ v = body[x]
        BY <2>3
      <4> QED
        BY <4>1, OneSymbol
    <3>2. \A j \in 1 .. 1 : j = 1 /\ x + j - 1 = x
      BY <1>3
    <3> QED
      BY <3>1, <3>2
  <2>5. \A i \in Nat : x <= i /\ i < x + 1 => i = x
    BY <1>3
  <2>6. \A y \in K : x < y => x + 1 <= y
    <3>1. \A y \in K : y \in 1 .. Len(body)
      BY <1>2
    <3> QED
      BY <1>1, <1>3, <3>1
  <2>7. \A k \in 1 .. n : x # hits[k].start + 1
    BY <1>8 DEF Begins, n
  <2>8. \A z \in P : x + 1 <= z => \E y \in P \cap K : x < y /\ y <= z
    <3> SUFFICES ASSUME NEW z \in P, x + 1 <= z PROVE \E y \in P \cap K : x < y /\ y <= z
      OBVIOUS
    <3>1. \A i \in Nat : x < i /\ i < x + 1 => i \notin K
      BY <1>3
    <3>2. 1 \in Nat /\ 0 < 1
      OBVIOUS
    <3> QED
      BY <1>5, <2>7, <3>1, <3>2
  <2>9. x + 1 <= Len(body) + 1
    BY <1>1, <1>3
  <2> QED
    <3>1. Unveils(q, x, 1, P, K)
      BY <1>3, <2>4, <2>5, <2>6, <2>8, <2>9 DEF Unveils
    <3> QED
      BY <3>1 DEF q, u
<1> QED
  BY <1>7, <1>8

(* Restoring what f made of some places gives what stood there before.     *)
LEMMA RestoredSpelling ==
  ASSUME IsReport(hits, body), body \in Seq(ToSet(body)),
         ToSet(body) \cap Placeholders = {},
         NEW t, Len(t) \in Nat, NEW K, NEW f, Placed(hits, t, K, f),
         NEW P \in SUBSET (1 .. Len(body)), WholeHits(P),
         NEW R, R = {f[i] : i \in P \cap K}
  PROVE  RestoreText(Spelled(t, R)) = Spelled(body, P)
<1> DEFINE C == P \cap K
           n == Cardinality(C)
           c == Ascending(C)
           m == Len(body)
           h == [i \in C |-> f[i]]
           u == Spelled(t, R)
           w == Spelled(body, P)
           p == [i \in DOMAIN u |-> Unveil(u[i])]
<1>1. /\ m \in Nat /\ C \in SUBSET (0 .. m) /\ P \in SUBSET (0 .. m)
      /\ \A y \in P : y \in Nat /\ y \in 1 .. m
      /\ \A y \in C : y \in P /\ y \in K
  <2>1. m \in Nat
    BY LenProperties
  <2>2. \A i \in 1 .. m : i \in 0 .. m /\ i \in Nat
    BY <2>1
  <2> QED
    BY <2>1, <2>2
<1>2. \A y : y \in C <=> y \in P /\ y \in K
  OBVIOUS
<1>3. n \in Nat
  BY <1>1, Finite
<1>4. OneByOne(h, C, R)
  <2>1. \A i \in C : i \in K /\ h[i] = f[i] /\ h[i] \in R
    OBVIOUS
  <2>2. h \in [C -> R]
    BY <2>1
  <2>3. \A y \in R : \E i \in C : y = h[i]
    BY <2>1
  <2> HIDE DEF h, C
  <2>4. Increasing(h, C)
    BY <2>1 DEF Placed, Increasing
  <2>5. R \in SUBSET (0 .. Len(t))
    <3>1. \A i \in K : f[i] \in 1 .. Len(t)
      BY DEF Placed
    <3>2. \A i \in 1 .. Len(t) : i \in 0 .. Len(t)
      OBVIOUS
    <3> QED
      BY <2>1, <2>3, <3>1, <3>2
  <2>6. Moves(h, C, R)
    BY <2>2, <2>3, <2>4 DEF Moves
  <2> QED
    BY <1>1, <2>5, <2>6, MovedAscending
<1>5. DOMAIN c = 1 .. n /\ \A i \in 1 .. n : c[i] \in C
  BY <1>1, AscendingFacts
<1>6. DOMAIN u = 1 .. n /\ \A i \in 1 .. n : u[i] = t[f[c[i]]]
  <2>1. u = [k \in DOMAIN Ascending(R) |-> t[Ascending(R)[k]]]
    BY DEF Spelled
  <2>2. \A i \in C : h[i] = f[i]
    OBVIOUS
  <2> HIDE DEF u, h, C
  <2> QED
    BY <1>4, <1>5, <2>1, <2>2 DEF OneByOne, c
<1>7. PICK e : Follow(C, m + 1, e)
  BY <1>1, SomeFollow
<1>8. RestoreText(u) = FlattenSeq(p)
  BY DEF RestoreText, Unveil
<1>9. \A i \in 1 .. n : p[i] = Unveil(u[i])
  BY <1>6
<1>10. DOMAIN p = 1 .. n /\ p = [i \in 1 .. n |-> p[i]]
  BY <1>6
<1> HIDE DEF p, u, h, n, c
<1>11. ASSUME NEW i \in 1 .. n
       PROVE  \E d \in Nat : Unveils(p[i], c[i], d, P, K)
  <2>1. PICK x \in C : x = c[i] /\ p[i] = Unveil(t[f[x]])
    BY <1>5, <1>6, <1>9
  <2>2. \E d \in Nat : Unveils(Unveil(t[f[x]]), x, d, P, K)
    BY Unveiled
  <2> QED
    BY <2>1, <2>2
<1> HIDE DEF C
<1>12. p \in Seq(Seq(ToSet(body))) /\ Len(p) = n
  <2>1. \A i \in 1 .. n : p[i] \in Seq(ToSet(body))
    BY <1>11 DEF Unveils
  <2> HIDE DEF n
  <2> QED
    BY <1>3, <1>10, <2>1, SMTT(30)
<1>13. /\ w \in Seq(ToSet(body)) /\ Len(w) = Cardinality(P)
       /\ \A y \in P : Rank(P, y) \in Nat /\ w[Rank(P, y) + 1] = body[y]
  <2>1. /\ DOMAIN Ascending(P) = 1 .. Cardinality(P)
        /\ \A k \in 1 .. Cardinality(P) : Ascending(P)[k] \in P
        /\ \A y \in P : Rank(P, y) + 1 \in 1 .. Cardinality(P) /\ Ascending(P)[Rank(P, y) + 1] = y
    BY <1>1, AscendingFacts
  <2>2. Cardinality(P) \in Nat
    BY <1>1, Finite
  <2>3. w = [k \in 1 .. Cardinality(P) |-> body[Ascending(P)[k]]]
    BY <2>1 DEF Spelled
  <2>4. \A k \in 1 .. Cardinality(P) : body[Ascending(P)[k]] \in ToSet(body)
    <3>1. \A y \in 1 .. m : body[y] \in ToSet(body)
      OBVIOUS
    <3> QED
      BY <1>1, <2>1, <3>1
  <2>5. w \in Seq(ToSet(body)) /\ Len(w) = Cardinality(P)
    BY <2>2, <2>3, <2>4
  <2>6. \A y \in P : Rank(P, y) \in Nat
    BY <1>1, RankFacts
  <2> QED
    BY <2>1, <2>3, <2>5, <2>6
<1> HIDE DEF w
<1> DEFINE g == [i \in 0 .. n |-> Rank(P, e[i + 1])]
<1>14. \A i \in 0 .. n : g[i] = Rank(P, e[i + 1]) /\ i + 1 \in 1 .. n + 1 /\ e[i + 1] \in Nat /\ g[i] \in Nat
  <2>1. \A i \in 1 .. n + 1 : e[i] \in Nat
    BY <1>7 DEF Follow, n
  <2>2. \A i \in 0 .. n : i + 1 \in 1 .. n + 1
    BY <1>3
  <2>3. \A x \in Nat : Rank(P, x) \in Nat
    BY <1>1, RankFacts
  <2> QED
    BY <2>1, <2>2, <2>3
<1>15. g \in [0 .. n -> Nat]
  BY <1>14
<1> HIDE DEF g, n
<1>16. ASSUME NEW i \in 1 .. n
       PROVE  /\ g[i] = g[i - 1] + Len(p[i])
              /\ \A j \in 1 .. Len(p[i]) : w[g[i - 1] + j] = p[i][j]
  <2>1. PICK d \in Nat : Unveils(p[i], c[i], d, P, K)
    BY <1>11
  <2>2. PICK l \in 0 .. n : l = i - 1 /\ l + 1 = i
    BY <1>3
  <2>3. i \in 0 .. n /\ i \in Nat
    BY <1>3
  <2>4. PICK x \in Nat, b \in Nat : x = c[i] /\ x = e[i] /\ b = e[i + 1] /\ x \in C /\ x < b
    <3>1. e[i] = c[i] /\ c[i] \in C /\ e[i] < e[i + 1]
      BY <1>7 DEF Follow, n, c
    <3>2. c[i] \in Nat /\ e[i + 1] \in Nat
      BY <1>1, <1>14, <2>3, <3>1
    <3> QED
      BY <3>1, <3>2
  <2>5. /\ Len(p[i]) = d /\ x + d <= m + 1
        /\ \A j \in 1 .. d : p[i][j] = body[x + j - 1]
        /\ \A y \in Nat : x <= y /\ y < x + d => y \in P
        /\ \A y \in K : x < y => x + d <= y
        /\ \A z \in P : x + d <= z => \E y \in C : x < y /\ y <= z
    BY <2>1, <2>4 DEF Unveils, C
  <2>6. x + d <= b
    <3>1. b \in C \/ b = m + 1
      <4>1. CASE i = n
        BY <1>7, <2>4, <4>1 DEF Follow, n
      <4>2. CASE i # n
        <5>1. i + 1 \in 1 .. n
          BY <1>3, <4>2
        <5> QED
          BY <1>7, <2>4, <5>1 DEF Follow, n
      <4> QED
        BY <4>1, <4>2
    <3>2. b \in C => b \in K
      BY <1>2 DEF C
    <3> QED
      BY <2>4, <2>5, <3>1, <3>2
  <2>7. ASSUME NEW z \in P, x + d <= z, z < b
        PROVE  FALSE
    <3>1. PICK y \in C : x < y /\ y <= z
      BY <2>5, <2>7
    <3>2. b <= y
      BY <1>7, <2>4, <3>1 DEF Follow, n
    <3>3. y \in Nat /\ z \in Nat
      BY <1>1
    <3> QED
      BY <2>7, <3>1, <3>2, <3>3
  <2>8. /\ Rank(P, x) \in Nat
        /\ \A j \in 0 .. d : Rank(P, x + j) = Rank(P, x) + j
        /\ Rank(P, b) = Rank(P, x) + d
    <3>1. Run(P, x, d, b)
      BY <2>5, <2>6, <2>7 DEF Run
    <3>2. Counted(P, x, d, b)
      BY <1>1, <3>1, RunFacts
    <3> QED
      BY <3>2 DEF Counted
  <2>9. g[i] = Rank(P, b) /\ g[i - 1] = Rank(P, x)
    BY <1>14, <2>2, <2>3, <2>4
  <2>10. ASSUME NEW j \in 1 .. d
         PROVE  w[g[i - 1] + j] = p[i][j]
    <3>1. PICK k \in 0 .. d : k = j - 1 /\ k + 1 = j /\ k < d
      <4>1. j - 1 \in 0 .. d /\ (j - 1) + 1 = j /\ j - 1 < d
        OBVIOUS
      <4> QED
        BY <4>1
    <3>2. PICK y \in Nat : y = x + k /\ y = x + j - 1 /\ x <= y /\ y < x + d
      BY <3>1
    <3>3. y \in P /\ Rank(P, y) = Rank(P, x) + k
      BY <2>5, <2>8, <3>2
    <3>4. w[Rank(P, y) + 1] = body[y] /\ p[i][j] = body[y]
      BY <1>13, <2>5, <3>2, <3>3
    <3>5. Rank(P, y) + 1 = g[i - 1] + j
      BY <2>8, <2>9, <3>1, <3>3
    <3> QED
      BY <3>4, <3>5
  <2> QED
    BY <2>5, <2>8, <2>9, <2>10
<1>17. g[0] = 0
  <2>1. 0 \in 0 .. n /\ e[0 + 1] \in Nat /\ e[0 + 1] = e[1] /\ g[0] = Rank(P, e[0 + 1])
    BY <1>3, <1>14
  <2>2. ASSUME NEW z \in P, z < e[1]
        PROVE  FALSE
    <3>1. PICK y \in C : y <= z
      <4>1. z \in 1 .. m /\ z \in Nat
        BY <1>1
      <4>2. CASE z \in K
        BY <1>2, <4>1, <4>2 DEF C
      <4>3. CASE z \notin K
        <5>1. PICK k \in 1 .. Len(hits) : hits[k].start + 1 < z /\ z <= hits[k].end
          BY <4>1, <4>3 DEF Placed
        <5>2. hits[k].start \in Nat
          BY HitFacts
        <5>3. hits[k].start + 1 \in P
          BY <4>1, <5>1, <5>2 DEF WholeHits
        <5>4. hits[k].start + 1 \in Begins(hits)
          BY DEF Begins
        <5>5. hits[k].start + 1 \in C
          BY <5>3, <5>4 DEF C, Placed
        <5> QED
          BY <4>1, <5>1, <5>2, <5>5
      <4> QED
        BY <4>2, <4>3
    <3>2. e[1] <= y
      BY <1>7 DEF Follow
    <3>3. y \in Nat /\ z \in Nat
      BY <1>1
    <3> QED
      BY <2>1, <2>2, <3>1, <3>2, <3>3
  <2>3. {z \in P : z < e[1]} = {}
    BY <2>2
  <2>4. Rank(P, e[1]) = 0
    BY <2>3, FS_EmptySet DEF Rank
  <2> QED
    BY <2>1, <2>4
<1>18. g[n] = Len(w)
  <2>1. n \in 0 .. n
    BY <1>3
  <2>2. e[n + 1] = m + 1
    BY <1>7 DEF Follow, n
  <2>3. {z \in P : z < m + 1} = P
    <3>1. \A z \in P : z < m + 1
      BY <1>1
    <3> QED
      BY <3>1
  <2>4. Rank(P, m + 1) = Cardinality(P)
    BY <2>3 DEF Rank
  <2> QED
    BY <1>13, <1>14, <2>1, <2>2, <2>4
<1>19. Fills(p, w, g)
  BY <1>12, <1>15, <1>16, <1>17, <1>18 DEF Fills
<1>20. FlattenSeq(p) = w
  BY <1>12, <1>13, <1>19, FlattenAs
<1> QED
  BY <1>8, <1>20 DEF u, w

-----------------------------------------------------------------------------
(* Hits without quotes and backslashes leave all that is around them as it *)
(* was, wherever they are.                                                 *)
LEMMA PlainFacts ==
  ASSUME NEW hs, IsReport(hs, body), body \in Seq(ToSet(body)),
         NEW k \in 1 .. Len(hs), Plain(hs[k]),
         NEW i \in Nat, hs[k].start < i, i <= hs[k].end
  PROVE  i \in 1 .. Len(body) /\ body[i] # Q /\ body[i] # B
<1>1. PICK a \in Nat, b \in Nat : a = hs[k].start /\ b = hs[k].end /\ a + 1 <= b /\ b <= Len(body)
  BY HitFacts
<1>2. i \in 1 .. Len(body)
  <2>1. Len(body) \in Nat
    BY LenProperties
  <2> QED
    BY <1>1, <2>1
<1>3. PICK w : w = Slice(body, hs[k]) /\ w = SubSeq(body, a + 1, b)
  BY <1>1 DEF Slice
<1>4. a + 1 <= b /\ b <= Len(body)
  BY <1>1
<1>5. Sliced(SubSeq(body, a + 1, b), body, a, b, ToSet(body))
  BY <1>4, SliceFacts
<1>6. w \in Seq(ToSet(body)) /\ Len(w) = b - a /\ \A j \in 1 .. b - a : w[j] = body[a + j]
  BY <1>3, <1>5 DEF Sliced
<1>7. PICK j \in 1 .. b - a : a + j = i
  <2>1. i - a \in 1 .. b - a /\ a + (i - a) = i
    BY <1>1
  <2> QED
    BY <2>1
<1>8. w[j] = body[i] /\ w[j] \in ToSet(w)
  <2>1. DOMAIN w = 1 .. b - a
    BY <1>6
  <2> QED
    BY <1>6, <1>7, <2>1 DEF ToSet
<1>9. \A c \in ToSet(w) : c \notin {Q, B}
  BY <1>3 DEF Plain
<1> QED
  BY <1>2, <1>8, <1>9

LEMMA PlainAligned ==
  ASSUME NEW hs, IsReport(hs, body), body \in Seq(ToSet(body)),
         NEW t, NEW K, NEW f, Placed(hs, t, K, f),
         \A k \in 1 .. Len(hs) : Plain(hs[k])
  PROVE  /\ Aligned(body, t, K, Begins(hs), f)
         /\ \A i \in Begins(hs) : body[i] # B
<1> DEFINE n == Len(hs)
<1>1. ASSUME NEW k \in 1 .. n
      PROVE  /\ hs[k].start \in Nat /\ hs[k].end \in Nat /\ hs[k].start + 1 <= hs[k].end
             /\ \A i \in Nat : hs[k].start < i /\ i <= hs[k].end =>
                  i \in 1 .. Len(body) /\ body[i] # Q /\ body[i] # B
  BY HitFacts, PlainFacts
<1>2. \A i : i \in Quotes(body) <=> i \in 1 .. Len(body) /\ body[i] = Q /\ i \notin Escapes(body)
  BY QuotesAre
<1>3. ASSUME NEW i \in Begins(hs)
      PROVE  body[i] # B /\ i \notin Quotes(body)
  <2>1. PICK k \in 1 .. n : i = hs[k].start + 1
    BY DEF Begins
  <2>2. i \in Nat /\ hs[k].start < i /\ i <= hs[k].end
    BY <1>1, <2>1
  <2> QED
    BY <1>1, <1>2, <2>2
<1>4. ASSUME NEW i \in 1 .. Len(body), i \notin K
      PROVE  i \notin Quotes(body)
  <2>1. PICK k \in 1 .. n : hs[k].start + 1 < i /\ i <= hs[k].end
    BY <1>4 DEF Placed
  <2>2. i \in Nat /\ hs[k].start < i
    BY <1>1, <2>1, LenProperties
  <2> QED
    BY <1>1, <1>2, <2>1, <2>2, SMTT(30)
<1>5. ASSUME NEW x \in K, NEW i \in K, f[i] = f[x] + 1
      PROVE  IF x \in Begins(hs) THEN i \notin Escapes(body) ELSE i = x + 1
  <2>1. CASE x \in Begins(hs)
    <3>1. PICK k \in 1 .. n : i = hs[k].end + 1
      <4>1. \E k \in 1 .. n : x = hs[k].start + 1 /\ i = hs[k].end + 1
        BY <1>5, <2>1, Zenon DEF Placed
      <4> QED
        BY <4>1
    <3>2. PICK b \in Nat : b = hs[k].end /\ i = b + 1 /\ hs[k].start < b
      <4>1. hs[k].start \in Nat /\ hs[k].end \in Nat /\ hs[k].start + 1 <= hs[k].end
        BY <1>1
      <4> QED
        BY <3>1, <4>1
    <3>3. body[b] # B
      BY <1>1, <3>2
    <3>4. i \in 1 .. Len(body) /\ i - 1 = b
      <4>1. K \in SUBSET (1 .. Len(body))
        BY DEF Placed
      <4>2. b + 1 - 1 = b
        OBVIOUS
      <4> QED
        BY <3>2, <4>1, <4>2
    <3>5. Rule(body, Escapes(body))
      BY EscapesRule
    <3> QED
      BY <2>1, <3>3, <3>4, <3>5 DEF Rule
  <2>2. CASE x \notin Begins(hs)
    BY <1>5, <2>2 DEF Placed
  <2> QED
    BY <2>1, <2>2
<1>6. ASSUME NEW i \in K
      PROVE  IF i \in Begins(hs) THEN t[f[i]] \notin {Q, B} ELSE t[f[i]] = body[i]
  <2>1. CASE i \in Begins(hs)
    <3>1. PICK k \in 1 .. n : i = hs[k].start + 1
      BY <2>1 DEF Begins
    <3>2. t[f[i]] = hs[k].placeholder
      BY <3>1 DEF Placed
    <3> QED
      BY <2>1, <3>2, HitFacts
  <2>2. CASE i \notin Begins(hs)
    BY <2>2 DEF Placed
  <2> QED
    BY <2>1, <2>2
<1> QED
  BY <1>3, <1>4, <1>5, <1>6 DEF Placed, Aligned

(* Hits without quotes are in a string as a whole, or not at all.          *)
LEMMA PlainWhole ==
  ASSUME IsReport(hits, body), body \in Seq(ToSet(body)),
         \A k \in 1 .. Len(hits) : Plain(hits[k]), NEW a, NEW b, StringAt(body, a, b)
  PROVE  WholeHits(Shown(body, a, b))
<1>1. /\ a \in 1 .. Len(body) /\ b \in 1 .. Len(body) /\ body[a] = Q /\ body[b] = Q
  BY StringAtFacts
<1>2. a \in Nat /\ b \in Nat
  <2>1. Len(body) \in Nat
    BY LenProperties
  <2> QED
    BY <1>1, <2>1
<1> SUFFICES ASSUME NEW k \in 1 .. Len(hits), NEW i \in Nat, hits[k].start < i, i <= hits[k].end
             PROVE  i \in Shown(body, a, b) <=> hits[k].start + 1 \in Shown(body, a, b)
  BY DEF WholeHits
<1>3. PICK y \in Nat, e \in Nat : y = hits[k].start + 1 /\ e = hits[k].end /\ y <= e /\ y <= i /\ i <= e
  <2>1. hits[k].start \in Nat /\ hits[k].end \in Nat /\ hits[k].start + 1 <= hits[k].end
    BY HitFacts
  <2> QED
    BY <2>1
<1>4. \A x \in Nat : y <= x /\ x <= e => body[x] # Q /\ body[x] # B
  <2> SUFFICES ASSUME NEW x \in Nat, y <= x, x <= e PROVE body[x] # Q /\ body[x] # B
    OBVIOUS
  <2>1. hits[k].start \in Nat
    BY HitFacts
  <2>2. hits[k].start < x /\ x <= hits[k].end
    BY <1>3, <2>1
  <2> QED
    BY <2>2, PlainFacts
<1>5. ~(y <= a /\ a <= e) /\ ~(y <= b /\ b <= e)
  BY <1>1, <1>2, <1>4
<1>6. body[i] # B /\ body[y] # B
  BY <1>3, <1>4
<1>7. i \in a + 1 .. b - 1 <=> y \in a + 1 .. b - 1
  BY <1>2, <1>3, <1>5, SMTT(30)
<1> QED
  BY <1>3, <1>6, <1>7 DEF Shown

(* The k-th string comes to stand where its quotes do.                     *)
StringMoved(s, t, K, f, k, a, b) ==
  /\ a \in K /\ b \in K
  /\ Strings(s)[k] = [start |-> a - 1, end |-> b] /\ StringAt(s, a, b)
  /\ Strings(t)[k] = [start |-> f[a] - 1, end |-> f[b]] /\ StringAt(t, f[a], f[b])

LEMMA StringsMoved ==
  ASSUME NEW T, NEW s \in Seq(T), NEW t \in Seq(T), NEW K, NEW H, NEW f,
         Aligned(s, t, K, H, f), NEW k \in DOMAIN Strings(t)
  PROVE  k \in DOMAIN Strings(s) /\ \E a, b : StringMoved(s, t, K, f, k, a, b)
<1> DEFINE S == Quotes(s)
           R == Quotes(t)
           h == [i \in S |-> f[i]]
           q == Ascending(S)
           p == Ascending(R)
<1>1. /\ S \in SUBSET (0 .. Len(s)) /\ R \in SUBSET (0 .. Len(t))
      /\ Len(s) \in Nat /\ Len(t) \in Nat
      /\ \A i \in R : i \in 1 .. Len(t)
  BY QuotesAre
<1>2. /\ S \in SUBSET K /\ Cardinality(R) = Cardinality(S)
      /\ \A i \in K : i \in S <=> f[i] \in R
  BY SameQuotes
<1>3. /\ DOMAIN Strings(s) = 1 .. Cardinality(S) \div 2
      /\ \A j \in DOMAIN Strings(s) : KthAt(s, j, q)
  BY KthString
<1>4. /\ DOMAIN Strings(t) = 1 .. Cardinality(R) \div 2
      /\ \A j \in DOMAIN Strings(t) : KthAt(t, j, p)
  BY KthString
<1> HIDE DEF S, R
<1>5. Moves(h, S, R)
  <2>1. \A i \in S : i \in K /\ h[i] = f[i] /\ h[i] \in R
    BY <1>2
  <2>2. h \in [S -> R]
    BY <2>1
  <2>3. \A y \in R : \E i \in S : y = h[i]
    <3> SUFFICES ASSUME NEW y \in R PROVE \E i \in S : y = h[i]
      OBVIOUS
    <3>1. PICK i \in K : y = f[i]
      BY <1>1 DEF Aligned
    <3> QED
      BY <1>2, <2>1, <3>1
  <2> HIDE DEF h
  <2>4. Increasing(h, S)
    BY <2>1 DEF Aligned, Increasing
  <2> QED
    BY <2>2, <2>3, <2>4 DEF Moves
<1>6. OneByOne(h, S, R)
  BY <1>1, <1>5, MovedAscending
<1>7. \A j \in DOMAIN q : q[j] \in K /\ p[j] = f[q[j]]
  <2>1. \A i \in S : h[i] = f[i] /\ i \in K
    BY <1>2
  <2> HIDE DEF h
  <2> QED
    BY <1>6, <2>1 DEF OneByOne
<1> HIDE DEF q, p
<1>8. k \in DOMAIN Strings(s) /\ KthAt(s, k, q) /\ KthAt(t, k, p)
  BY <1>2, <1>3, <1>4
<1>9. PICK a, b : a = q[2 * k - 1] /\ b = q[2 * k]
  OBVIOUS
<1>10. a \in K /\ b \in K /\ p[2 * k - 1] = f[a] /\ p[2 * k] = f[b]
  BY <1>7, <1>8, <1>9 DEF KthAt
<1>11. StringMoved(s, t, K, f, k, a, b)
  BY <1>8, <1>9, <1>10 DEF KthAt, StringMoved
<1> QED
  BY <1>8, <1>11

ValueMoved(s, t, K, f, a, b) ==
  Shown(t, f[a], f[b]) = {f[i] : i \in Shown(s, a, b) \cap K}

LEMMA ShownMoved ==
  ASSUME NEW T, NEW s \in Seq(T), NEW t \in Seq(T), NEW K, NEW H, NEW f,
         Aligned(s, t, K, H, f), \A i \in H : s[i] # B,
         NEW a \in K, NEW b \in K
  PROVE  ValueMoved(s, t, K, f, a, b)
<1>1. \A i \in K : i \in 1 .. Len(s) /\ f[i] \in 1 .. Len(t) /\ i \in Nat /\ f[i] \in Nat
  <2>1. \A i \in K : i \in 1 .. Len(s) /\ f[i] \in 1 .. Len(t)
    BY DEF Aligned
  <2>2. Len(s) \in Nat /\ Len(t) \in Nat
    OBVIOUS
  <2> QED
    BY <2>1, <2>2
<1>2. \A x, y \in K : f[x] < f[y] <=> x < y
  <2> SUFFICES ASSUME NEW x \in K, NEW y \in K, f[x] < f[y] PROVE x < y
    BY DEF Aligned, Increasing
  <2>1. y < x => f[y] < f[x]
    BY DEF Aligned, Increasing
  <2>2. x # y
    BY <1>1
  <2> QED
    BY <1>1, <2>1, <2>2
<1>3. ASSUME NEW i \in K
      PROVE  i \in Shown(s, a, b) <=> f[i] \in Shown(t, f[a], f[b])
  <2>1. i \in a + 1 .. b - 1 <=> a < i /\ i < b
    BY <1>1
  <2>2. f[i] \in f[a] + 1 .. f[b] - 1 <=> f[a] < f[i] /\ f[i] < f[b]
    BY <1>1
  <2>3. i \in Escapes(s) <=> f[i] \in Escapes(t)
    BY SameEscapes
  <2>4. (s[i] = B => i \in Escapes(s)) <=> (t[f[i]] = B => f[i] \in Escapes(t))
    <3>1. IF i \in H THEN t[f[i]] \notin {Q, B} ELSE t[f[i]] = s[i]
      BY DEF Aligned
    <3> QED
      BY <2>3, <3>1
  <2> QED
    BY <1>2, <2>1, <2>2, <2>4 DEF Shown
<1>4. ASSUME NEW y \in Shown(t, f[a], f[b])
      PROVE  \E i \in K : y = f[i]
  <2>1. y \in f[a] + 1 .. f[b] - 1
    BY DEF Shown
  <2>2. y \in 1 .. Len(t)
    BY <1>1, <2>1
  <2> QED
    BY <2>2 DEF Aligned
<1> QED
  BY <1>3, <1>4 DEF ValueMoved

-----------------------------------------------------------------------------
(* What is said with the body that is sent is restored to what is said     *)
(* with the body of the client.                                            *)
LEMMA SpelledFacts ==
  ASSUME NEW T, NEW s \in Seq(T), NEW S \in SUBSET (1 .. Len(s))
  PROVE  Spelled(s, S) \in Seq(T)
<1>1. Len(s) \in Nat /\ S \in SUBSET (0 .. Len(s)) /\ \A i \in S : s[i] \in T
  <2>1. Len(s) \in Nat /\ \A i \in 1 .. Len(s) : i \in 0 .. Len(s) /\ s[i] \in T
    OBVIOUS
  <2> QED
    BY <2>1
<1> DEFINE n == Cardinality(S)
           c == Ascending(S)
<1>2. n \in Nat /\ DOMAIN c = 1 .. n /\ \A k \in 1 .. n : c[k] \in S
  BY <1>1, Finite, AscendingFacts
<1>3. Spelled(s, S) = [k \in 1 .. n |-> s[c[k]]]
  BY <1>2 DEF Spelled
<1> HIDE DEF n, c
<1>4. \A k \in 1 .. n : s[c[k]] \in T
  BY <1>1, <1>2
<1> QED
  BY <1>2, <1>3, <1>4

LEMMA SpelledAll ==
  ASSUME NEW T, NEW s \in Seq(T)
  PROVE  Spelled(s, 1 .. Len(s)) = s
<1> DEFINE n == Len(s)
           S == 1 .. n
           g == [k \in 1 .. n |-> k]
<1>1. n \in Nat /\ DOMAIN s = 1 .. n
  OBVIOUS
<1>2. S \in SUBSET (0 .. n)
  BY <1>1
<1>3. Moves(g, 1 .. n, S)
  <2>1. g \in [1 .. n -> S] /\ \A k \in 1 .. n : g[k] = k
    OBVIOUS
  <2> HIDE DEF g, n
  <2>2. Increasing(g, 1 .. n)
    BY <2>1 DEF Increasing
  <2> QED
    BY <2>1, <2>2 DEF Moves, S
<1> HIDE DEF n, S
<1>4. Ascending(S) = g
  BY <1>1, <1>2, <1>3, AscendingIs
<1>5. Spelled(s, S) = [k \in 1 .. n |-> s[k]]
  BY <1>4 DEF Spelled
<1> QED
  BY <1>1, <1>5 DEF S, n

LEMMA BodyInBoth ==
  ASSUME body \in Seq(ToSet(body))
  PROVE  body \in Seq(Both)
<1>1. \A i \in 1 .. Len(body) : body[i] \in Both
  BY DEF Both
<1>2. Len(body) \in Nat /\ body = [i \in 1 .. Len(body) |-> body[i]]
  OBVIOUS
<1> QED
  BY <1>1, <1>2

(* The k-th string of the body that is sent, in both bodies.               *)
Meant(t, k) ==
  Valid(body) => k \in DOMAIN Strings(t) /\ \A j \in 1 .. Len(hits) : Plain(hits[j])

LEMMA SaidRestored ==
  ASSUME IsReport(hits, body), body \in Seq(ToSet(body)),
         ToSet(body) \cap Placeholders = {},
         NEW t, t = Replaced(hits), NEW k, Meant(t, k)
  PROVE  RestoreText(Said(t, k)) = Said(body, k)
<1>1. t \in Seq(Both) /\ body \in Seq(Both)
  BY SomeOffsets, BodyInBoth
<1>2. PICK K, f : Placed(hits, t, K, f)
  <2>1. PICK m : Offsets(m, hits, t)
    BY SomeOffsets
  <2> QED
    BY <1>1, <2>1, SomePlaced
<1>3. Len(t) \in Nat /\ Len(body) \in Nat
  BY <1>1, LenProperties
<1>4. CASE ~Valid(body)
  <2> DEFINE P == 1 .. Len(body)
             R == {f[i] : i \in P \cap K}
  <2>1. R = 1 .. Len(t)
    <3>1. \A i \in K : i \in P /\ f[i] \in 1 .. Len(t)
      BY <1>2 DEF Placed
    <3>2. \A j \in 1 .. Len(t) : \E i \in K : j = f[i]
      BY <1>2 DEF Placed
    <3> HIDE DEF P
    <3> QED
      BY <3>1, <3>2
  <2>2. WholeHits(P)
    <3> SUFFICES ASSUME NEW j \in 1 .. Len(hits), NEW i \in Nat, hits[j].start < i, i <= hits[j].end
                 PROVE  i \in P /\ hits[j].start + 1 \in P
      BY DEF WholeHits
    <3>1. PICK a \in Nat, b \in Nat :
            a = hits[j].start /\ b = hits[j].end /\ a + 1 <= b /\ b <= Len(body)
      BY HitFacts
    <3> QED
      BY <1>3, <3>1
  <2>3. P \in SUBSET (1 .. Len(body))
    OBVIOUS
  <2> HIDE DEF P, R
  <2>4. RestoreText(Spelled(t, R)) = Spelled(body, P)
    BY <1>2, <1>3, <2>2, <2>3, RestoredSpelling DEF R
  <2>5. Spelled(t, R) = t /\ Spelled(body, P) = body
    BY <1>1, <2>1, SpelledAll DEF P
  <2> QED
    BY <1>4, <2>4, <2>5 DEF Said
<1>5. CASE Valid(body)
  <2>1. k \in DOMAIN Strings(t) /\ \A j \in 1 .. Len(hits) : Plain(hits[j])
    BY <1>5 DEF Meant
  <2>2. Aligned(body, t, K, Begins(hits), f) /\ \A i \in Begins(hits) : body[i] # B
    BY <1>2, <2>1, PlainAligned
  <2>3. PICK a, b : StringMoved(body, t, K, f, k, a, b)
    BY <1>1, <2>1, <2>2, StringsMoved
  <2>4. /\ a \in K /\ b \in K /\ StringAt(body, a, b) /\ StringAt(t, f[a], f[b])
        /\ Strings(body)[k] = [start |-> a - 1, end |-> b]
        /\ Strings(t)[k] = [start |-> f[a] - 1, end |-> f[b]]
    BY <2>3 DEF StringMoved
  <2> DEFINE P == Shown(body, a, b)
             R == Shown(t, f[a], f[b])
  <2>5. R = {f[i] : i \in P \cap K}
    <3>1. ValueMoved(body, t, K, f, a, b)
      BY <1>1, <2>2, <2>4, ShownMoved
    <3> QED
      BY <3>1 DEF ValueMoved
  <2>6. WholeHits(P)
    BY <2>1, <2>4, PlainWhole
  <2>7. P \in SUBSET (1 .. Len(body))
    <3>1. a \in 1 .. Len(body) /\ b \in 1 .. Len(body)
      BY <2>4, StringAtFacts
    <3>2. \A i \in a + 1 .. b - 1 : i \in 1 .. Len(body)
      BY <1>3, <3>1
    <3> QED
      BY <3>2 DEF Shown
  <2> HIDE DEF P, R
  <2>8. RestoreText(Spelled(t, R)) = Spelled(body, P)
    BY <1>2, <1>3, <2>5, <2>6, <2>7, RestoredSpelling
  <2>9. Said(t, k) = Spelled(t, R)
    <3>1. f[a] \in Nat /\ f[b] \in Nat /\ (f[a] - 1) + 2 = f[a] + 1
      <4>1. f[a] \in 1 .. Len(t) /\ f[b] \in 1 .. Len(t)
        BY <1>2, <2>4 DEF Placed
      <4> QED
        BY <1>3, <4>1
    <3>2. Said(t, k) = Decoded(SubSeq(t, f[a] + 1, f[b] - 1))
      BY <1>5, <2>4, <3>1 DEF Said, ValueOf, Content
    <3> QED
      BY <1>1, <2>4, <3>2, DecodedIs DEF R, Spelled
  <2>10. Said(body, k) = Spelled(body, P)
    <3>1. a \in Nat /\ b \in Nat /\ (a - 1) + 2 = a + 1
      <4>1. a \in 1 .. Len(body) /\ b \in 1 .. Len(body)
        BY <2>4, StringAtFacts
      <4> QED
        BY <1>3, <4>1
    <3>2. Said(body, k) = Decoded(SubSeq(body, a + 1, b - 1))
      BY <1>5, <2>4, <3>1 DEF Said, ValueOf, Content
    <3> QED
      BY <2>4, <3>2, DecodedIs DEF P, Spelled
  <2> QED
    BY <2>8, <2>9, <2>10
<1> QED
  BY <1>4, <1>5

(* A body without hits is sent as it is.                                   *)
LEMMA ReplacedNothing ==
  ASSUME body \in Seq(ToSet(body))
  PROVE  Replaced(<<>>) = body
<1> DEFINE p == Pieces(<<>>)
           g == [i \in 0 .. 1 |-> IF i = 0 THEN 0 ELSE Len(body)]
<1>1. p = [k \in 1 .. 1 |-> body]
  <2>1. Len(<<>>) = 0 /\ SubSeq(body, 0 + 1, Len(body)) = body
    OBVIOUS
  <2>2. Behind(<<>>, 0) = 0
    BY DEF Behind
  <2>3. \A k \in 1 .. 1 : Piece(<<>>, k) = body
    BY <2>1, <2>2 DEF Piece
  <2>4. Len(<<>>) + 1 = 1
    BY <2>1
  <2> QED
    BY <2>3, <2>4 DEF Pieces
<1> HIDE DEF p
<1>2. p \in Seq(Seq(ToSet(body))) /\ Len(p) = 1 /\ p[1] = body
  BY <1>1
<1>3. Fills(p, body, g)
  <2>1. Len(body) \in Nat
    OBVIOUS
  <2>2. g \in [0 .. 1 -> Nat] /\ g[0] = 0 /\ g[1] = Len(body)
    BY <2>1
  <2> HIDE DEF g
  <2>3. \A k \in 1 .. 1 : k = 1 /\ k - 1 = 0
    OBVIOUS
  <2>4. \A k \in 1 .. 1 : g[k] = g[k - 1] + Len(p[k])
    BY <1>2, <2>1, <2>2, <2>3
  <2>5. \A k \in 1 .. 1 : \A i \in 1 .. Len(p[k]) : body[g[k - 1] + i] = p[k][i]
    BY <1>2, <2>1, <2>2, <2>3
  <2> QED
    BY <1>2, <2>2, <2>4, <2>5 DEF Fills
<1>4. FlattenSeq(p) = body
  BY <1>2, <1>3, FlattenAs
<1> QED
  BY <1>4, ReplacedIs DEF p

-----------------------------------------------------------------------------
(* The objects that the upstream and RestoreJSON write: a key and a value, *)
(* with nothing in them that ends a string.                                *)
Marks == {"{", Q, ":", "}"}

Laid(s, k, p, v, r) ==
  /\ p = Len(k) /\ r = Len(v) /\ Len(s) = p + r + 7
  /\ s[1] = "{" /\ s[2] = Q /\ s[p + 3] = Q /\ s[p + 4] = ":" /\ s[p + 5] = Q
  /\ s[p + r + 6] = Q /\ s[p + r + 7] = "}"
  /\ \A i \in 1 .. p : s[i + 2] = k[i]
  /\ \A i \in 1 .. r : s[i + p + 5] = v[i]

Concatenated(w, x, n, y, m, T) ==
  /\ w \in Seq(T) /\ Len(w) = n + m
  /\ \A i \in 1 .. n : w[i] = x[i]
  /\ \A i \in 1 .. m : w[i + n] = y[i]

LEMMA ConcatFacts ==
  ASSUME NEW T, NEW x \in Seq(T), NEW y \in Seq(T), NEW n, NEW m,
         n = Len(x), m = Len(y)
  PROVE  Concatenated(x \o y, x, n, y, m, T)
BY DEF Concatenated

LEMMA FewSymbols ==
  ASSUME NEW T, NEW x \in T, NEW y \in T, NEW z \in T
  PROVE  <<x, y>> \in Seq(T) /\ <<x, y, z>> \in Seq(T)
<1>1. <<x, y>> \in Seq(T)
  OBVIOUS
<1>2. <<x, y, z>> \in Seq(T)
  OBVIOUS
<1> QED
  BY <1>1, <1>2

LEMMA ObjectLaid ==
  ASSUME NEW T, Marks \in SUBSET T, NEW k \in Seq(T), NEW v \in Seq(T),
         NEW p \in Nat, NEW r \in Nat, p = Len(k), r = Len(v)
  PROVE  Object(k, v) \in Seq(T) /\ Laid(Object(k, v), k, p, v, r)
<1> DEFINE x1 == <<"{", Q>>
           x3 == <<Q, ":", Q>>
           x5 == <<Q, "}">>
           w2 == x1 \o k
           w3 == w2 \o x3
           w4 == w3 \o v
           w5 == w4 \o x5
<1>0. "{" \in T /\ Q \in T /\ ":" \in T /\ "}" \in T
  BY DEF Marks
<1>1. /\ x1 \in Seq(T) /\ Len(x1) = 2 /\ x1[1] = "{" /\ x1[2] = Q
      /\ x3 \in Seq(T) /\ Len(x3) = 3 /\ x3[1] = Q /\ x3[2] = ":" /\ x3[3] = Q
      /\ x5 \in Seq(T) /\ Len(x5) = 2 /\ x5[1] = Q /\ x5[2] = "}"
  <2>1. x1 \in Seq(T) /\ x5 \in Seq(T) /\ x3 \in Seq(T)
    BY <1>0, FewSymbols, Zenon
  <2> QED
    BY <2>1
<1>2. p \in Nat /\ r \in Nat /\ p = Len(k) /\ r = Len(v)
  OBVIOUS
<1>3. Object(k, v) = w5
  BY DEF Object
<1> HIDE DEF x1, x3, x5
<1>4. Concatenated(w2, x1, 2, k, p, T)
  BY <1>1, <1>2, ConcatFacts, Zenon
<1>5. w2 \in Seq(T) /\ Len(w2) = p + 2
  <2>1. 2 + p = p + 2
    OBVIOUS
  <2> QED
    BY <1>4, <2>1 DEF Concatenated
<1>6. Concatenated(w3, w2, p + 2, x3, 3, T)
  <2> HIDE DEF w2
  <2> QED
    BY <1>1, <1>5, ConcatFacts, Zenon
<1>7. w3 \in Seq(T) /\ Len(w3) = p + 5
  <2>1. p + 2 + 3 = p + 5
    OBVIOUS
  <2> QED
    BY <1>6, <2>1 DEF Concatenated
<1>8. Concatenated(w4, w3, p + 5, v, r, T)
  <2> HIDE DEF w3
  <2> QED
    BY <1>2, <1>7, ConcatFacts, Zenon
<1>9. w4 \in Seq(T) /\ Len(w4) = p + r + 5
  <2>1. p + 5 + r = p + r + 5
    OBVIOUS
  <2> QED
    BY <1>8, <2>1 DEF Concatenated
<1>10. Concatenated(w5, w4, p + r + 5, x5, 2, T)
  <2> HIDE DEF w4
  <2> QED
    BY <1>1, <1>9, ConcatFacts, Zenon
<1>11. w5 \in Seq(T) /\ Len(w5) = p + r + 7 /\ w5[p + r + 6] = Q /\ w5[p + r + 7] = "}"
  <2>1. p + r + 5 + 2 = p + r + 7 /\ 1 + (p + r + 5) = p + r + 6 /\ 2 + (p + r + 5) = p + r + 7
    OBVIOUS
  <2> HIDE DEF w2, w3, w4, w5
  <2>2. w5 \in Seq(T) /\ Len(w5) = p + r + 5 + 2 /\ \A i \in 1 .. 2 : w5[i + (p + r + 5)] = x5[i]
    BY <1>10 DEF Concatenated
  <2>3. 1 \in 1 .. 2 /\ 2 \in 1 .. 2
    OBVIOUS
  <2>4. w5[1 + (p + r + 5)] = Q /\ w5[2 + (p + r + 5)] = "}"
    BY <1>1, <2>2, <2>3, Zenon
  <2> QED
    BY <2>1, <2>2, <2>4
<1> HIDE DEF w2, w3, w4, w5
<1>12. \A i \in 1 .. p + 5 : w5[i] = w3[i]
  <2>1. \A i \in 1 .. p + 5 : i \in 1 .. p + r + 5
    OBVIOUS
  <2> QED
    BY <1>8, <1>10, <2>1 DEF Concatenated
<1>13. w5[1] = "{" /\ w5[2] = Q /\ \A i \in 1 .. p : w5[i + 2] = k[i]
  <2>1. /\ 1 \in 1 .. 2 /\ 2 \in 1 .. 2
        /\ \A i \in 1 .. 2 : i \in 1 .. p + 2 /\ i \in 1 .. p + 5
        /\ \A i \in 1 .. p : i + 2 \in 1 .. p + 2 /\ i + 2 \in 1 .. p + 5
    OBVIOUS
  <2>2. \A i \in 1 .. 2 : w5[i] = x1[i]
    BY <1>4, <1>6, <1>12, <2>1, Zenon DEF Concatenated
  <2>3. \A i \in 1 .. p : w5[i + 2] = k[i]
    BY <1>4, <1>6, <1>12, <2>1, ZenonT(40) DEF Concatenated
  <2> QED
    BY <1>1, <2>1, <2>2, <2>3, Zenon
<1>14. w5[p + 3] = Q /\ w5[p + 4] = ":" /\ w5[p + 5] = Q
  <2>1. /\ 1 \in 1 .. 3 /\ 2 \in 1 .. 3 /\ 3 \in 1 .. 3
        /\ 1 + (p + 2) = p + 3 /\ 2 + (p + 2) = p + 4 /\ 3 + (p + 2) = p + 5
        /\ \A i \in 1 .. 3 : i + (p + 2) \in 1 .. p + 5
    OBVIOUS
  <2>2. \A i \in 1 .. 3 : w5[i + (p + 2)] = x3[i]
    BY <1>6, <1>12, <2>1, Zenon DEF Concatenated
  <2>3. w5[1 + (p + 2)] = Q /\ w5[2 + (p + 2)] = ":" /\ w5[3 + (p + 2)] = Q
    BY <1>1, <2>1, <2>2, Zenon
  <2> QED
    BY <2>1, <2>3
<1>15. \A i \in 1 .. r : w5[i + p + 5] = v[i]
  <2>1. \A i \in 1 .. r : i + (p + 5) \in 1 .. p + r + 5 /\ i + (p + 5) = i + p + 5
    OBVIOUS
  <2>2. \A i \in 1 .. r : w5[i + (p + 5)] = v[i]
    BY <1>8, <1>10, <2>1, Zenon DEF Concatenated
  <2> QED
    BY <2>1, <2>2
<1> QED
  BY <1>2, <1>3, <1>11, <1>13, <1>14, <1>15 DEF Laid


(* Every place of an object is one of its marks, in its key or in its      *)
(* value.                                                                  *)
LEMMA ObjectPlaces ==
  ASSUME NEW p \in Nat, NEW r \in Nat, NEW i \in 1 .. p + r + 7
  PROVE  \/ i \in {1, 2, p + 3, p + 4, p + 5, p + r + 6, p + r + 7}
         \/ \E j \in 1 .. p : i = j + 2
         \/ \E j \in 1 .. r : i = j + p + 5
<1>1. CASE 3 <= i /\ i <= p + 2
  <2>1. i - 2 \in 1 .. p /\ i = (i - 2) + 2
    BY <1>1
  <2> QED
    BY <2>1
<1>2. CASE p + 6 <= i /\ i <= p + r + 5
  <2>1. i - (p + 5) \in 1 .. r /\ i = (i - (p + 5)) + p + 5
    BY <1>2
  <2> QED
    BY <2>1
<1> QED
  BY <1>1, <1>2

(* What is escaped in an object is what is escaped in its key and value.   *)
Escaping(s, k, p, v, r) ==
  /\ \A j \in 1 .. p : j + 2 \in Escapes(s) <=> j \in Escapes(k)
  /\ \A j \in 1 .. r : j + p + 5 \in Escapes(s) <=> j \in Escapes(v)
  /\ {1, 2, p + 3, p + 4, p + 5, p + r + 6, p + r + 7} \cap Escapes(s) = {}

LEMMA ObjectEscapes ==
  ASSUME NEW T, NEW s \in Seq(T), NEW k \in Seq(T), NEW v \in Seq(T),
         NEW p \in Nat, NEW r \in Nat, Laid(s, k, p, v, r), Clean(k), Clean(v)
  PROVE  Escaping(s, k, p, v, r)
<1> DEFINE E == {i \in 1 .. p + r + 7 : i - 2 \in Escapes(k) \/ i - (p + 5) \in Escapes(v)}
<1>1. /\ Escapes(k) \in SUBSET (1 .. p) /\ Rule(k, Escapes(k))
      /\ Escapes(v) \in SUBSET (1 .. r) /\ Rule(v, Escapes(v))
  BY EscapesRule DEF Laid
<1>2. \A i : i \in E <=> i \in 1 .. p + r + 7 /\ (i - 2 \in Escapes(k) \/ i - (p + 5) \in Escapes(v))
  OBVIOUS
<1> HIDE DEF E
<1>3. {1, 2, p + 3, p + 4, p + 5, p + r + 6, p + r + 7} \cap E = {}
  <2> SUFFICES ASSUME NEW i \in E PROVE i \notin {1, 2, p + 3, p + 4, p + 5, p + r + 6, p + r + 7}
    OBVIOUS
  <2>1. i \in 1 .. p + r + 7 /\ (i - 2 \in 1 .. p \/ i - (p + 5) \in 1 .. r)
    BY <1>1, <1>2
  <2> QED
    BY <2>1
<1>4. \A j \in 1 .. p : j + 2 \in E <=> j \in Escapes(k)
  <2> SUFFICES ASSUME NEW j \in 1 .. p PROVE j + 2 \in E <=> j \in Escapes(k)
    OBVIOUS
  <2>1. j + 2 \in 1 .. p + r + 7 /\ (j + 2) - 2 = j /\ (j + 2) - (p + 5) \notin 1 .. r
    OBVIOUS
  <2> QED
    BY <1>1, <1>2, <2>1
<1>5. \A j \in 1 .. r : j + p + 5 \in E <=> j \in Escapes(v)
  <2> SUFFICES ASSUME NEW j \in 1 .. r PROVE j + p + 5 \in E <=> j \in Escapes(v)
    OBVIOUS
  <2>1. j + p + 5 \in 1 .. p + r + 7 /\ (j + p + 5) - (p + 5) = j /\ (j + p + 5) - 2 \notin 1 .. p
    OBVIOUS
  <2> QED
    BY <1>1, <1>2, <2>1
<1>6. Q # B /\ "{" # B /\ ":" # B
  BY DEF Q, B
<1>7. /\ Len(s) = p + r + 7 /\ p = Len(k) /\ r = Len(v)
      /\ s[1] # B /\ s[2] # B /\ s[p + 3] # B /\ s[p + 4] # B /\ s[p + 5] # B /\ s[p + r + 6] # B
      /\ \A i \in 1 .. p : s[i + 2] = k[i]
      /\ \A i \in 1 .. r : s[i + p + 5] = v[i]
  BY <1>6 DEF Laid
<1>8. ASSUME NEW i \in 1 .. p + r + 7
      PROVE  i \in E <=> i > 1 /\ s[i - 1] = B /\ i - 1 \notin E
  <2>1. CASE \E j \in 1 .. p : i = j + 2
    <3>1. PICK j \in 1 .. p : i = j + 2
      BY <2>1
    <3>2. j \in Escapes(k) <=> j > 1 /\ k[j - 1] = B /\ j - 1 \notin Escapes(k)
      BY <1>1, <1>7 DEF Rule
    <3>3. i \in E <=> j \in Escapes(k)
      BY <1>4, <3>1
    <3>4. CASE j = 1
      BY <1>7, <3>1, <3>2, <3>3, <3>4
    <3>5. CASE j # 1
      <4>1. j - 1 \in 1 .. p /\ i - 1 = (j - 1) + 2 /\ i > 1 /\ j > 1
        BY <3>1, <3>5
      <4> QED
        BY <1>4, <1>7, <3>2, <3>3, <4>1, SMTT(30)
    <3> QED
      BY <3>4, <3>5
  <2>2. CASE \E j \in 1 .. r : i = j + p + 5
    <3>1. PICK j \in 1 .. r : i = j + p + 5
      BY <2>2
    <3>2. j \in Escapes(v) <=> j > 1 /\ v[j - 1] = B /\ j - 1 \notin Escapes(v)
      BY <1>1, <1>7 DEF Rule
    <3>3. i \in E <=> j \in Escapes(v)
      BY <1>5, <3>1
    <3>4. CASE j = 1
      <4>1. i - 1 = p + 5
        BY <3>1, <3>4
      <4> QED
        BY <1>7, <3>2, <3>3, <3>4, <4>1
    <3>5. CASE j # 1
      <4>1. j - 1 \in 1 .. r /\ i - 1 = (j - 1) + p + 5 /\ i > 1 /\ j > 1
        BY <3>1, <3>5
      <4> QED
        BY <1>5, <1>7, <3>2, <3>3, <4>1, ZenonT(40)
    <3> QED
      BY <3>4, <3>5
  <2>3. CASE i \in {1, 2, p + 4, p + 5, p + r + 7}
    <3>1. i = 1 \/ i - 1 \in {1, p + 3, p + 4, p + r + 6}
      BY <2>3
    <3>2. i = 1 \/ s[i - 1] # B
      BY <1>7, <3>1
    <3>3. i \notin E
      BY <1>3, <2>3
    <3>4. i = 1 => ~(i > 1)
      OBVIOUS
    <3> QED
      BY <3>2, <3>3, <3>4
  <2>4. CASE i = p + 3
    <3>1. i \notin E /\ i - 1 = p + 2
      BY <1>3, <2>4
    <3>2. CASE p = 0
      BY <1>7, <3>1, <3>2
    <3>3. CASE p # 0
      <4>0. p \in 1 .. p
        BY <3>3
      <4>1. p \in 1 .. p /\ s[p + 2] = k[p]
        BY <1>7, <4>0, Zenon
      <4>2. k[p] = B => p \in Escapes(k)
        BY <1>7, <3>3 DEF Clean
      <4> QED
        BY <1>4, <3>1, <4>1, <4>2
    <3> QED
      BY <3>2, <3>3
  <2>5. CASE i = p + r + 6
    <3>1. i \notin E /\ i - 1 = p + r + 5 /\ i - 1 = r + p + 5
      BY <1>3, <2>5
    <3>2. CASE r = 0
      BY <1>7, <3>1, <3>2
    <3>3. CASE r # 0
      <4>0. r \in 1 .. r
        BY <3>3
      <4>1. r \in 1 .. r /\ s[r + p + 5] = v[r]
        BY <1>7, <4>0, Zenon
      <4>2. v[r] = B => r \in Escapes(v)
        BY <1>7, <3>3 DEF Clean
      <4> QED
        BY <1>5, <3>1, <4>1, <4>2
    <3> QED
      BY <3>2, <3>3
  <2> QED
    BY <2>1, <2>2, <2>3, <2>4, <2>5, ObjectPlaces
<1>9. Escapes(s) = E
  <2>1. E \in SUBSET (1 .. Len(s))
    BY <1>2, <1>7
  <2>2. Rule(s, E)
    BY <1>7, <1>8 DEF Rule
  <2> QED
    BY <2>1, <2>2, EscapesAre
<1> QED
  BY <1>3, <1>4, <1>5, <1>9 DEF Escaping


(* Four quotes, and what is escaped is what may be.                        *)
ObjectQuotes(p, r) == <<2, p + 3, p + 5, p + r + 6>>

LEMMA ObjectQuoted ==
  ASSUME NEW T, NEW s \in Seq(T), NEW k \in Seq(T), NEW v \in Seq(T),
         NEW p \in Nat, NEW r \in Nat, Laid(s, k, p, v, r), Clean(k), Clean(v)
  PROVE  /\ Quotes(s) = {2, p + 3, p + 5, p + r + 6}
         /\ Ascending(Quotes(s)) = ObjectQuotes(p, r) /\ Cardinality(Quotes(s)) = 4
         /\ \A i \in Escapes(s) : s[i] \in {Q, B, "/"}
<1> DEFINE S == {2, p + 3, p + 5, p + r + 6}
           g == ObjectQuotes(p, r)
<1>1. Escaping(s, k, p, v, r)
  BY ObjectEscapes
<1>2. /\ Len(s) = p + r + 7 /\ p = Len(k) /\ r = Len(v)
      /\ s[1] = "{" /\ s[2] = Q /\ s[p + 3] = Q /\ s[p + 4] = ":" /\ s[p + 5] = Q
      /\ s[p + r + 6] = Q /\ s[p + r + 7] = "}"
      /\ \A i \in 1 .. p : s[i + 2] = k[i]
      /\ \A i \in 1 .. r : s[i + p + 5] = v[i]
  BY DEF Laid
<1>3. Q # "{" /\ Q # ":" /\ Q # "}"
  BY DEF Q
<1>4. \A j \in 1 .. p : ~(k[j] = Q /\ j \notin Escapes(k))
  BY <1>2, QuotesAre DEF Clean
<1>5. \A j \in 1 .. r : ~(v[j] = Q /\ j \notin Escapes(v))
  BY <1>2, QuotesAre DEF Clean
<1>6. \A i : i \in Quotes(s) <=> i \in 1 .. p + r + 7 /\ s[i] = Q /\ i \notin Escapes(s)
  <2>1. \A i : i \in Quotes(s) <=> i \in 1 .. Len(s) /\ s[i] = Q /\ i \notin Escapes(s)
    BY QuotesAre
  <2> QED
    BY <1>2, <2>1, Zenon
<1>7. ASSUME NEW i \in Quotes(s) PROVE i \in S
  <2>1. i \in 1 .. p + r + 7 /\ s[i] = Q /\ i \notin Escapes(s)
    BY <1>6
  <2>2. i # 1 /\ i # p + 4 /\ i # p + r + 7
    BY <1>2, <1>3, <2>1
  <2>3. ~\E j \in 1 .. p : i = j + 2
    <3> SUFFICES ASSUME NEW j \in 1 .. p, i = j + 2 PROVE FALSE
      OBVIOUS
    <3>1. s[i] = k[j] /\ (i \in Escapes(s) <=> j \in Escapes(k))
      BY <1>1, <1>2, Zenon DEF Escaping
    <3> QED
      BY <1>4, <2>1, <3>1, Zenon
  <2>4. ~\E j \in 1 .. r : i = j + p + 5
    <3> SUFFICES ASSUME NEW j \in 1 .. r, i = j + p + 5 PROVE FALSE
      OBVIOUS
    <3>1. s[i] = v[j] /\ (i \in Escapes(s) <=> j \in Escapes(v))
      BY <1>1, <1>2, Zenon DEF Escaping
    <3> QED
      BY <1>5, <2>1, <3>1, Zenon
  <2> QED
    BY <2>1, <2>2, <2>3, <2>4, ObjectPlaces
<1>8. ASSUME NEW i \in S PROVE i \in Quotes(s)
  <2>1. i \in 1 .. p + r + 7
    OBVIOUS
  <2>2. s[i] = Q
    BY <1>2
  <2>3. i \notin Escapes(s)
    BY <1>1 DEF Escaping
  <2> QED
    BY <1>6, <2>1, <2>2, <2>3
<1>9. Quotes(s) = S
  BY <1>7, <1>8
<1>10. Moves(g, 1 .. 4, S)
  <2>1. g[1] = 2 /\ g[2] = p + 3 /\ g[3] = p + 5 /\ g[4] = p + r + 6
    BY DEF ObjectQuotes
  <2>2. g \in [1 .. 4 -> S]
    BY DEF ObjectQuotes
  <2> HIDE DEF g
  <2>3. \A x \in 1 .. 4 : x = 1 \/ x = 2 \/ x = 3 \/ x = 4
    OBVIOUS
  <2>4. Increasing(g, 1 .. 4)
    BY <2>1, <2>3 DEF Increasing
  <2>5. \A y \in S : \E x \in 1 .. 4 : y = g[x]
    <3>1. 1 \in 1 .. 4 /\ 2 \in 1 .. 4 /\ 3 \in 1 .. 4 /\ 4 \in 1 .. 4
      OBVIOUS
    <3> QED
      BY <2>1, <3>1, Zenon
  <2> QED
    BY <2>2, <2>4, <2>5 DEF Moves
<1>11. S \in SUBSET (0 .. p + r + 7) /\ p + r + 7 \in Nat /\ 4 \in Nat
  OBVIOUS
<1> HIDE DEF S, g
<1>12. Ascending(S) = g /\ Cardinality(S) = 4
  BY <1>10, <1>11, AscendingIs
<1>13. ASSUME NEW i \in Escapes(s) PROVE s[i] \in {Q, B, "/"}
  <2>1. i \in 1 .. p + r + 7
    BY <1>2, EscapesRule
  <2>2. i \notin {1, 2, p + 3, p + 4, p + 5, p + r + 6, p + r + 7}
    BY <1>1 DEF Escaping
  <2>3. CASE \E j \in 1 .. p : i = j + 2
    <3>1. PICK j \in 1 .. p : i = j + 2
      BY <2>3
    <3>2. j \in Escapes(k)
      BY <1>1, <3>1 DEF Escaping
    <3> QED
      BY <1>2, <3>1, <3>2 DEF Clean
  <2>4. CASE \E j \in 1 .. r : i = j + p + 5
    <3>1. PICK j \in 1 .. r : i = j + p + 5
      BY <2>4
    <3>2. j \in Escapes(v)
      BY <1>1, <3>1 DEF Escaping
    <3> QED
      BY <1>2, <3>1, <3>2 DEF Clean
  <2> QED
    BY <2>1, <2>2, <2>3, <2>4, ObjectPlaces
<1> QED
  BY <1>9, <1>12, <1>13 DEF S, g

(* Two strings: the key and the value.                                     *)
LEMMA ObjectStrings ==
  ASSUME NEW T, NEW s \in Seq(T), NEW k \in Seq(T), NEW v \in Seq(T),
         NEW p \in Nat, NEW r \in Nat, Laid(s, k, p, v, r), Clean(k), Clean(v)
  PROVE  /\ DOMAIN Strings(s) = 1 .. 2
         /\ Content(s, Strings(s)[1]) = k /\ Content(s, Strings(s)[2]) = v
<1> DEFINE q == Ascending(Quotes(s))
<1>1. q = ObjectQuotes(p, r) /\ Cardinality(Quotes(s)) = 4
  BY ObjectQuoted
<1>2. q[1] = 2 /\ q[2] = p + 3 /\ q[3] = p + 5 /\ q[4] = p + r + 6
  BY <1>1 DEF ObjectQuotes
<1>3. /\ DOMAIN Strings(s) = 1 .. Cardinality(Quotes(s)) \div 2
      /\ \A i \in DOMAIN Strings(s) : KthAt(s, i, q)
  BY KthString
<1> HIDE DEF q
<1>4. DOMAIN Strings(s) = 1 .. 2
  <2>1. 4 \div 2 = 2
    OBVIOUS
  <2> QED
    BY <1>1, <1>3, <2>1
<1>5. /\ Strings(s)[1] = [start |-> q[2 * 1 - 1] - 1, end |-> q[2 * 1]]
      /\ Strings(s)[2] = [start |-> q[2 * 2 - 1] - 1, end |-> q[2 * 2]]
  <2>1. 1 \in 1 .. 2 /\ 2 \in 1 .. 2
    OBVIOUS
  <2>2. KthAt(s, 1, q) /\ KthAt(s, 2, q)
    BY <1>3, <1>4, <2>1, Zenon
  <2> QED
    BY <2>2, Zenon DEF KthAt
<1>6. /\ Strings(s)[1] = [start |-> 1, end |-> p + 3]
      /\ Strings(s)[2] = [start |-> p + 4, end |-> p + r + 6]
  <2>1. /\ 2 * 1 - 1 = 1 /\ 2 * 1 = 2 /\ 2 * 2 - 1 = 3 /\ 2 * 2 = 4
        /\ 2 - 1 = 1 /\ (p + 5) - 1 = p + 4
    OBVIOUS
  <2> QED
    BY <1>2, <1>5, <2>1
<1>7. /\ Content(s, Strings(s)[1]) = SubSeq(s, 3, p + 2)
      /\ Content(s, Strings(s)[2]) = SubSeq(s, p + 6, p + r + 5)
  <2>1. 1 + 2 = 3 /\ (p + 3) - 1 = p + 2 /\ p + 4 + 2 = p + 6 /\ (p + r + 6) - 1 = p + r + 5
    OBVIOUS
  <2> QED
    BY <1>6, <2>1 DEF Content
<1>8. /\ Len(s) = p + r + 7 /\ p = Len(k) /\ r = Len(v)
      /\ \A i \in 1 .. p : s[i + 2] = k[i]
      /\ \A i \in 1 .. r : s[i + p + 5] = v[i]
  BY DEF Laid
<1>9. SubSeq(s, 3, p + 2) = k
  <2>1. k = [i \in 1 .. p |-> k[i]]
    BY <1>8
  <2>2. SubSeq(s, 3, p + 2) = [i \in 1 .. p |-> s[i + 2]]
    BY <1>8
  <2> QED
    BY <1>8, <2>1, <2>2
<1>10. SubSeq(s, p + 6, p + r + 5) = v
  <2>1. v = [i \in 1 .. r |-> v[i]]
    BY <1>8
  <2>2. SubSeq(s, p + 6, p + r + 5) = [i \in 1 .. r |-> s[i + p + 5]]
    BY <1>8
  <2> QED
    BY <1>8, <2>1, <2>2
<1> QED
  BY <1>4, <1>7, <1>9, <1>10


(* Outside its strings an object shows its braces, the quotes that open    *)
(* the strings and the colon.                                              *)
ObjectShows(p, r) == <<1, 2, p + 4, p + 5, p + r + 7>>

LEMMA ObjectOutside ==
  ASSUME NEW T, NEW s \in Seq(T), NEW k \in Seq(T), NEW v \in Seq(T),
         NEW p \in Nat, NEW r \in Nat, Laid(s, k, p, v, r), Clean(k), Clean(v)
  PROVE  Outside(s) = {1, 2, p + 4, p + 5, p + r + 7}
<1> DEFINE S == Quotes(s)
           q == Ascending(S)
<1>1. /\ S = {2, p + 3, p + 5, p + r + 6} /\ Cardinality(S) = 4
      /\ q = ObjectQuotes(p, r)
  BY ObjectQuoted
<1>2. q[1] = 2 /\ q[2] = p + 3 /\ q[3] = p + 5 /\ q[4] = p + r + 6
  BY <1>1 DEF ObjectQuotes
<1>3. S \in SUBSET (0 .. p + r + 7) /\ p + r + 7 \in Nat
  BY <1>1
<1> HIDE DEF S
<1>4. \A j \in 1 .. 4 : q[j] \in S /\ Rank(S, q[j]) = j - 1
  BY <1>1, <1>3, AscendingFacts
<1> HIDE DEF q
<1>5. Rank(S, 2) = 0 /\ Rank(S, p + 3) = 1 /\ Rank(S, p + 5) = 2 /\ Rank(S, p + r + 6) = 3
  <2>1. /\ 1 \in 1 .. 4 /\ 2 \in 1 .. 4 /\ 3 \in 1 .. 4 /\ 4 \in 1 .. 4
        /\ 1 - 1 = 0 /\ 2 - 1 = 1 /\ 3 - 1 = 2 /\ 4 - 1 = 3
    OBVIOUS
  <2> QED
    BY <1>2, <1>4, <2>1
<1>6. ASSUME NEW x \in Nat, NEW y \in Nat, x <= y, \A z \in S : ~(x <= z /\ z < y)
      PROVE  Rank(S, x) = Rank(S, y)
  BY <1>3, <1>6, RankFacts
<1>7. \A x \in 1 .. 2 : Rank(S, x) = 0
  <2> SUFFICES ASSUME NEW x \in 1 .. 2 PROVE Rank(S, x) = 0
    OBVIOUS
  <2>1. x \in Nat /\ 2 \in Nat /\ x <= 2 /\ \A z \in S : ~(x <= z /\ z < 2)
    BY <1>1
  <2> QED
    BY <1>5, <1>6, <2>1
<1>8. \A x \in 3 .. p + 3 : Rank(S, x) = 1
  <2> SUFFICES ASSUME NEW x \in 3 .. p + 3 PROVE Rank(S, x) = 1
    OBVIOUS
  <2>1. x \in Nat /\ p + 3 \in Nat /\ x <= p + 3 /\ \A z \in S : ~(x <= z /\ z < p + 3)
    BY <1>1
  <2> QED
    BY <1>5, <1>6, <2>1
<1>9. \A x \in p + 4 .. p + 5 : Rank(S, x) = 2
  <2> SUFFICES ASSUME NEW x \in p + 4 .. p + 5 PROVE Rank(S, x) = 2
    OBVIOUS
  <2>1. x \in Nat /\ p + 5 \in Nat /\ x <= p + 5 /\ \A z \in S : ~(x <= z /\ z < p + 5)
    BY <1>1
  <2> QED
    BY <1>5, <1>6, <2>1
<1>10. \A x \in p + 6 .. p + r + 6 : Rank(S, x) = 3
  <2> SUFFICES ASSUME NEW x \in p + 6 .. p + r + 6 PROVE Rank(S, x) = 3
    OBVIOUS
  <2>1. x \in Nat /\ p + r + 6 \in Nat /\ x <= p + r + 6 /\ \A z \in S : ~(x <= z /\ z < p + r + 6)
    BY <1>1
  <2> QED
    BY <1>5, <1>6, <2>1
<1>11. Rank(S, p + r + 7) = 4
  <2>1. /\ p + r + 6 \in Nat /\ p + r + 7 \in Nat /\ p + r + 6 < p + r + 7 /\ p + r + 6 \in S
        /\ \A z \in S : ~(p + r + 6 < z /\ z < p + r + 7)
    BY <1>1
  <2>2. Rank(S, p + r + 7) = Rank(S, p + r + 6) + 1
    BY <1>3, <2>1, RankFacts
  <2> QED
    BY <1>5, <2>2
<1>12. 0 % 2 = 0 /\ 1 % 2 = 1 /\ 2 % 2 = 0 /\ 3 % 2 = 1 /\ 4 % 2 = 0
  OBVIOUS
<1>13. /\ Len(s) = p + r + 7
       /\ s[1] # Space /\ s[2] # Space /\ s[p + 4] # Space /\ s[p + 5] # Space /\ s[p + r + 7] # Space
  <2>1. "{" # Space /\ Q # Space /\ ":" # Space /\ "}" # Space
    BY DEF Q, Space
  <2> QED
    BY <2>1 DEF Laid
<1>14. \A i : i \in Outside(s) <=> i \in 1 .. p + r + 7 /\ Rank(S, i) % 2 = 0 /\ s[i] # Space
  BY <1>13 DEF Outside, S
<1>15. ASSUME NEW i \in Outside(s) PROVE i \in {1, 2, p + 4, p + 5, p + r + 7}
  <2>1. i \in 1 .. p + r + 7 /\ Rank(S, i) % 2 = 0
    BY <1>14
  <2>2. i \notin 3 .. p + 3
    BY <1>8, <1>12, <2>1
  <2>3. i \notin p + 6 .. p + r + 6
    BY <1>10, <1>12, <2>1
  <2> QED
    BY <2>1, <2>2, <2>3
<1>16. ASSUME NEW i \in {1, 2, p + 4, p + 5, p + r + 7} PROVE i \in Outside(s)
  <2>1. i \in 1 .. p + r + 7
    OBVIOUS
  <2>2. i \in 1 .. 2 \/ i \in p + 4 .. p + 5 \/ i = p + r + 7
    OBVIOUS
  <2>3. Rank(S, i) % 2 = 0
    BY <1>7, <1>9, <1>11, <1>12, <2>2
  <2>4. s[i] # Space
    BY <1>13
  <2> QED
    BY <1>14, <2>1, <2>3, <2>4
<1> QED
  BY <1>15, <1>16

LEMMA ObjectValid ==
  ASSUME NEW T, NEW s \in Seq(T), NEW k \in Seq(T), NEW v \in Seq(T),
         NEW p \in Nat, NEW r \in Nat, Laid(s, k, p, v, r), Clean(k), Clean(v)
  PROVE  Valid(s)
<1> DEFINE S == Outside(s)
           at == Ascending(S)
           g == ObjectShows(p, r)
           o == Outline(s)
<1>1. S = {1, 2, p + 4, p + 5, p + r + 7}
  BY ObjectOutside
<1>2. g[1] = 1 /\ g[2] = 2 /\ g[3] = p + 4 /\ g[4] = p + 5 /\ g[5] = p + r + 7
  BY DEF ObjectShows
<1>3. g \in [1 .. 5 -> {1, 2, p + 4, p + 5, p + r + 7}]
  BY DEF ObjectShows
<1> HIDE DEF S, g
<1>4. Moves(g, 1 .. 5, S)
  <2>1. \A x \in 1 .. 5 : x = 1 \/ x = 2 \/ x = 3 \/ x = 4 \/ x = 5
    OBVIOUS
  <2>2. Increasing(g, 1 .. 5)
    BY <1>2, <2>1, SMTT(30) DEF Increasing
  <2>3. \A y \in S : \E x \in 1 .. 5 : y = g[x]
    <3>1. 1 \in 1 .. 5 /\ 2 \in 1 .. 5 /\ 3 \in 1 .. 5 /\ 4 \in 1 .. 5 /\ 5 \in 1 .. 5
      OBVIOUS
    <3> QED
      BY <1>1, <1>2, <3>1, Zenon
  <2> QED
    BY <1>1, <1>3, <2>2, <2>3 DEF Moves
<1>5. S \in SUBSET (0 .. p + r + 7) /\ p + r + 7 \in Nat /\ 5 \in Nat
  BY <1>1
<1>6. at = g
  BY <1>4, <1>5, AscendingIs
<1>7. o = [i \in DOMAIN at |-> s[at[i]]]
  BY DEF Outline, Outside, Rank, S
<1>8. DOMAIN g = 1 .. 5
  BY <1>3
<1> HIDE DEF o, at
<1>9. /\ o = [i \in 1 .. 5 |-> s[g[i]]]
  BY <1>6, <1>7, <1>8
<1>10. Len(o) = 5 /\ o[1] = "{" /\ o[2] = Q /\ o[3] = ":" /\ o[4] = Q /\ o[5] = "}"
  <2>1. s[1] = "{" /\ s[2] = Q /\ s[p + 4] = ":" /\ s[p + 5] = Q /\ s[p + r + 7] = "}"
    BY DEF Laid
  <2>2. 1 \in 1 .. 5 /\ 2 \in 1 .. 5 /\ 3 \in 1 .. 5 /\ 4 \in 1 .. 5 /\ 5 \in 1 .. 5
    OBVIOUS
  <2>3. Len(o) = 5 /\ \A i \in 1 .. 5 : o[i] = s[g[i]]
    BY <1>9
  <2> QED
    BY <1>2, <2>1, <2>2, <2>3, Zenon
<1>11. IsObject(o)
  <2>1. /\ 5 % 4 = 1 /\ 5 > 1 /\ (5 - 1) \div 4 = 1
        /\ 4 * 1 - 2 = 2 /\ 4 * 1 - 1 = 3 /\ 4 * 1 = 4 /\ 4 * 1 + 1 = 5
    OBVIOUS
  <2>2. \A j \in 1 .. 1 : j = 1
    OBVIOUS
  <2>3. /\ o[4 * 1 - 2] = Q /\ o[4 * 1 - 1] = ":" /\ o[4 * 1] \in {Q, "0"}
        /\ o[4 * 1 + 1] = IF 4 * 1 + 1 = Len(o) THEN "}" ELSE ","
    BY <1>10, <2>1
  <2> QED
    BY <1>10, <2>1, <2>2, <2>3 DEF IsObject
<1>12. Closed(s)
  <2>1. Cardinality(Quotes(s)) = 4 /\ 4 % 2 = 0
    BY ObjectQuoted
  <2> QED
    BY <2>1 DEF Closed
<1>13. \A i \in Escapes(s) : s[i] \in {Q, B, "/"}
  BY ObjectQuoted
<1> QED
  BY <1>11, <1>12, <1>13 DEF Valid, o


(* An object ends with its brace and not before: it is the first document  *)
(* of its text.                                                            *)
LEMMA ObjectEnds ==
  ASSUME NEW o, Len(o) \in Nat, IsObject(o)
  PROVE  Len(o) \in 1 .. Len(o) /\ o[Len(o)] = "}"
<1>1. PICK c \in Nat : c = Len(o)
  OBVIOUS
<1> DEFINE m == (c - 1) \div 4
<1>2. c % 4 = 1 /\ c > 1
  BY <1>1 DEF IsObject
<1>3. \A i \in 1 .. m : o[4 * i + 1] = IF 4 * i + 1 = c THEN "}" ELSE ","
  BY <1>1 DEF IsObject
<1>4. m \in Nat /\ c = 4 * m + 1
  BY <1>2, Fourths
<1> HIDE DEF m
<1>5. m \in 1 .. m
  BY <1>2, <1>4
<1>6. o[4 * m + 1] = "}"
  BY <1>3, <1>4, <1>5, Zenon
<1>7. c \in 1 .. c
  BY <1>2
<1> QED
  BY <1>1, <1>4, <1>6, <1>7, Zenon

LEMMA ValidEnds ==
  ASSUME NEW T, NEW s \in Seq(T), Valid(s)
  PROVE  \E i \in Outside(s) : s[i] = "}"
<1> DEFINE S == Outside(s)
           n == Cardinality(S)
           at == Ascending(S)
           o == Outline(s)
<1>1. S \in SUBSET (0 .. Len(s)) /\ Len(s) \in Nat
  BY DEF Outside
<1>2. o = [k \in DOMAIN at |-> s[at[k]]] /\ IsObject(o)
  BY DEF Outline, Outside, Rank, Valid
<1> HIDE DEF S, at, o
<1>3. n \in Nat /\ DOMAIN at = 1 .. n /\ \A k \in 1 .. n : at[k] \in S
  BY <1>1, Finite, AscendingFacts DEF at
<1> HIDE DEF n
<1>4. Len(o) = n /\ \A k \in 1 .. n : o[k] = s[at[k]]
  BY <1>2, <1>3
<1>5. n \in 1 .. n /\ o[n] = "}"
  BY <1>2, <1>3, <1>4, ObjectEnds
<1>6. at[n] \in S /\ s[at[n]] = "}"
  BY <1>3, <1>4, <1>5
<1> QED
  BY <1>6 DEF S

LEMMA ObjectAlone ==
  ASSUME NEW T, NEW s \in Seq(T), NEW k \in Seq(T), NEW v \in Seq(T),
         NEW p \in Nat, NEW r \in Nat, Laid(s, k, p, v, r), Clean(k), Clean(v)
  PROVE  DocumentEnds(s) # {} /\ FirstDocument(s) = s
<1> DEFINE N == p + r + 7
<1>1. N \in Nat /\ Len(s) = N
  <2>1. Len(s) = N
    BY Zenon DEF Laid
  <2> QED
    BY <2>1
<1>2. SubSeq(s, 1, N) = s
  BY <1>1
<1>3. N \in DocumentEnds(s)
  <2>1. N \in DOMAIN s
    BY <1>1
  <2> QED
    BY <1>2, <2>1, ObjectValid DEF DocumentEnds
<1>4. Outside(s) = {1, 2, p + 4, p + 5, N}
  BY ObjectOutside
<1>5. /\ s[1] # "}" /\ s[2] # "}" /\ s[p + 4] # "}" /\ s[p + 5] # "}"
  <2>1. "{" # "}" /\ Q # "}" /\ ":" # "}"
    BY DEF Q
  <2> QED
    BY <2>1 DEF Laid
<1>6. ASSUME NEW n \in DocumentEnds(s), n # N
      PROVE  FALSE
  <2>1. n \in 1 .. N /\ Valid(SubSeq(s, 1, n))
    BY <1>1 DEF DocumentEnds
  <2>2. PICK t : t = SubSeq(s, 1, n)
    OBVIOUS
  <2>3. n \in 0 .. Len(s)
    BY <1>1, <2>1
  <2>4. Beginning(t, s, n, T)
    BY <2>2, <2>3, PrefixFacts
  <2>a. /\ t \in Seq(T) /\ Len(t) = n
        /\ \A i \in 1 .. n : t[i] = s[i]
        /\ \A i : i \in Quotes(t) <=> i \in 1 .. n /\ i \in Quotes(s)
    BY <2>4, Zenon DEF Beginning
  <2>5. PICK i \in Outside(t) : t[i] = "}"
    BY <2>1, <2>2, <2>a, ValidEnds
  <2>6. i \in 1 .. n /\ Rank(Quotes(t), i) % 2 = 0 /\ t[i] # Space
    <3>1. DOMAIN t = 1 .. n
      BY <2>a
    <3> QED
      BY <2>5, <3>1, Zenon DEF Outside
  <2>7. {y \in Quotes(t) : y < i} = {y \in Quotes(s) : y < i}
    <3>1. \A y \in Quotes(s) : y \in 1 .. N
      BY <1>1, QuotesAre
    <3>2. \A y \in 1 .. N : y < i => y \in 1 .. n
      BY <1>1, <2>1, <2>6
    <3> QED
      BY <2>a, <3>1, <3>2
  <2>8. i \in Outside(s)
    <3>1. Rank(Quotes(s), i) = Rank(Quotes(t), i)
      BY <2>7 DEF Rank
    <3>2. i \in DOMAIN s /\ s[i] = t[i]
      BY <1>1, <2>1, <2>a, <2>6
    <3> QED
      BY <2>6, <3>1, <3>2 DEF Outside
  <2>9. i # N
    BY <1>1, <1>6, <2>1, <2>6
  <2> QED
    BY <1>4, <1>5, <2>a, <2>5, <2>6, <2>8, <2>9
<1>7. DocumentEnds(s) = {N}
  BY <1>3, <1>6
<1>8. Min(DocumentEnds(s)) = N
  <2>1. {N} \in SUBSET Nat /\ {N} # {}
    BY <1>1
  <2> HIDE DEF N
  <2> QED
    BY <1>7, <2>1, MinFacts
<1> QED
  BY <1>2, <1>3, <1>8 DEF FirstDocument


(* An object is read as it was written.                                    *)
ReadsAs(o, k, v, T) ==
  /\ o \in Seq(T) /\ Valid(o) /\ DocumentEnds(o) # {} /\ FirstDocument(o) = o
  /\ ValueOf(o, Strings(o)[1]) = Decoded(k) /\ ValueOf(o, Strings(o)[2]) = Decoded(v)

LEMMA ObjectReads ==
  ASSUME NEW T, Marks \in SUBSET T, NEW k \in Seq(T), NEW v \in Seq(T), Clean(k), Clean(v)
  PROVE  ReadsAs(Object(k, v), k, v, T)
<1>1. PICK p \in Nat, r \in Nat : p = Len(k) /\ r = Len(v)
  BY LenProperties
<1>2. PICK o : o = Object(k, v)
  OBVIOUS
<1>3. o \in Seq(T) /\ Laid(o, k, p, v, r)
  BY <1>1, <1>2, ObjectLaid
<1>4. Valid(o)
  BY <1>3, ObjectValid
<1>5. DocumentEnds(o) # {} /\ FirstDocument(o) = o
  BY <1>3, ObjectAlone
<1>6. Content(o, Strings(o)[1]) = k /\ Content(o, Strings(o)[2]) = v
  BY <1>3, ObjectStrings
<1> QED
  BY <1>2, <1>3, <1>4, <1>5, <1>6 DEF ReadsAs, ValueOf

-----------------------------------------------------------------------------
(* What is said, encoded and restored is made of the symbols of the body,  *)
(* the placeholders and the marks of JSON.                                 *)
All == Both \cup Marks \cup {B, "x"}

LEMMA AllFacts ==
  /\ Marks \in SUBSET All /\ B \in All /\ ToSet(body) \in SUBSET All
  /\ \A s \in Seq(Both) : s \in Seq(All)
<1>1. Both \in SUBSET All /\ Marks \in SUBSET All /\ B \in All /\ ToSet(body) \in SUBSET All
  BY DEF All, Both
<1> HIDE DEF All, Both
<1>2. ASSUME NEW s \in Seq(Both) PROVE s \in Seq(All)
  <2>1. Len(s) \in Nat /\ s = [i \in 1 .. Len(s) |-> s[i]] /\ \A i \in 1 .. Len(s) : s[i] \in Both
    OBVIOUS
  <2>2. \A i \in 1 .. Len(s) : s[i] \in All
    BY <1>1, <2>1
  <2> QED
    BY <2>1, <2>2
<1> QED
  BY <1>1, <1>2

LEMMA NameClean == <<"x">> \in Seq(All) /\ Clean(<<"x">>)
<1>1. "x" \in All /\ "x" # Q /\ "x" # B
  BY DEF All, Q, B
<1>2. PICK s : s = <<"x">>
  OBVIOUS
<1>3. s \in Seq(All) /\ Len(s) = 1 /\ s[1] = "x"
  BY <1>1, <1>2, OneSymbol
<1>4. Escapes(s) = {}
  <2>1. Escapes(s) \in SUBSET (1 .. 1) /\ \A i \in 1 .. 1 : i \in Escapes(s) => i > 1
    BY <1>3, EscapesRule DEF Rule
  <2>2. \A i \in 1 .. 1 : ~(i > 1)
    OBVIOUS
  <2> QED
    BY <2>1, <2>2
<1>5. Quotes(s) = {}
  <2>1. \A i : i \in Quotes(s) => i \in 1 .. 1 /\ s[i] = Q
    BY <1>3, QuotesAre
  <2>2. \A i \in 1 .. 1 : i = 1
    OBVIOUS
  <2> QED
    BY <1>1, <1>3, <2>1, <2>2
<1> QED
  BY <1>1, <1>2, <1>3, <1>4, <1>5 DEF Clean

LEMMA DecodedFacts ==
  ASSUME NEW T, NEW c \in Seq(T)
  PROVE  Decoded(c) \in Seq(T)
<1> DEFINE S == {i \in DOMAIN c : c[i] = B => i \in Escapes(c)}
<1>1. S \in SUBSET (1 .. Len(c))
  OBVIOUS
<1>2. Decoded(c) = Spelled(c, S)
  BY DEF Decoded, Spelled
<1> HIDE DEF S
<1> QED
  BY <1>1, <1>2, SpelledFacts

LEMMA SaidFacts ==
  ASSUME NEW s \in Seq(Both), NEW k, Valid(body) => k \in DOMAIN Strings(s)
  PROVE  Said(s, k) \in Seq(All)
<1>1. CASE ~Valid(body)
  BY <1>1, AllFacts DEF Said
<1>2. CASE Valid(body)
  <2>1. PICK q : q = Ascending(Quotes(s))
    OBVIOUS
  <2>2. KthAt(s, k, q)
    BY <1>2, <2>1, KthString
  <2>3. PICK a, b : a = q[2 * k - 1] /\ b = q[2 * k]
    OBVIOUS
  <2>4. Strings(s)[k] = [start |-> a - 1, end |-> b] /\ StringAt(s, a, b)
    BY <2>2, <2>3 DEF KthAt
  <2>5. a \in 1 .. Len(s) /\ b \in 1 .. Len(s) /\ a < b
    BY <2>4, StringAtFacts
  <2>6. Len(s) \in Nat
    BY LenProperties
  <2>7. Content(s, Strings(s)[k]) = SubSeq(s, a + 1, b - 1)
    <3>1. (a - 1) + 2 = a + 1
      BY <2>5, <2>6
    <3>2. Strings(s)[k].start = a - 1 /\ Strings(s)[k].end = b
      BY <2>4
    <3> QED
      BY <3>1, <3>2, Zenon DEF Content
  <2>8. SubSeq(s, a + 1, b - 1) \in Seq(Both)
    BY <2>5, <2>6
  <2>9. Said(s, k) = Decoded(SubSeq(s, a + 1, b - 1))
    BY <1>2, <2>7 DEF Said, ValueOf
  <2> QED
    BY <2>8, <2>9, DecodedFacts, AllFacts
<1> QED
  BY <1>1, <1>2

LEMMA RestoreFacts ==
  ASSUME IsReport(hits, body), body \in Seq(ToSet(body)),
         NEW T, ToSet(body) \in SUBSET T, NEW v \in Seq(T)
  PROVE  RestoreText(v) \in Seq(T)
<1> DEFINE p == [i \in DOMAIN v |-> Unveil(v[i])]
<1>1. DOMAIN v = 1 .. Len(v) /\ Len(v) \in Nat /\ \A i \in 1 .. Len(v) : v[i] \in T
  OBVIOUS
<1>2. ASSUME NEW u \in T PROVE Unveil(u) \in Seq(T)
  <2>1. CASE ~\E k \in DOMAIN hits : u = hits[k].placeholder
    BY <2>1, OneSymbol DEF Unveil
  <2>2. CASE \E k \in DOMAIN hits : u = hits[k].placeholder
    <3>1. PICK k \in DOMAIN hits : k = CHOOSE j \in DOMAIN hits : u = hits[j].placeholder
      BY <2>2
    <3>2. Unveil(u) = SubSeq(body, hits[k].start + 1, hits[k].end)
      BY <2>2, <3>1 DEF Unveil, Slice
    <3>3. k \in 1 .. Len(hits)
      BY LenProperties DEF IsReport
    <3>4. PICK a \in Nat, b \in Nat : a = hits[k].start /\ b = hits[k].end /\ a + 1 <= b /\ b <= Len(body)
      BY <3>3, HitFacts
    <3>5. PICK w : w = SubSeq(body, a + 1, b)
      OBVIOUS
    <3>6. w \in Seq(ToSet(body))
      BY <3>4, <3>5, SliceFacts DEF Sliced
    <3>7. Len(w) \in Nat /\ w = [i \in 1 .. Len(w) |-> w[i]] /\ \A i \in 1 .. Len(w) : w[i] \in ToSet(body)
      BY <3>6
    <3>8. \A i \in 1 .. Len(w) : w[i] \in T
      BY <3>7
    <3>9. w \in Seq(T)
      BY <3>7, <3>8
    <3> QED
      BY <3>2, <3>4, <3>5, <3>9
  <2> QED
    BY <2>1, <2>2
<1>3. p \in Seq(Seq(T))
  BY <1>1, <1>2
<1>4. RestoreText(v) = FlattenSeq(p)
  BY DEF RestoreText, Unveil
<1> HIDE DEF p
<1> QED
  BY <1>3, <1>4, SomeFills


-----------------------------------------------------------------------------
(* The answer repeats something of what was sent, and the client gets what *)
(* Restore makes of it.                                                    *)
Given ==
  IF hits = <<>> THEN reply.text
  ELSE IF reply.form = "text" \/ DocumentEnds(reply.text) = {} THEN RestoreText(reply.text)
  ELSE RestoreJSON(FirstDocument(reply.text))

Repeated ==
  /\ stage \in {"replied", "restored"} =>
       /\ Valid(body) => reply.string \in DOMAIN Strings(sent)
       /\ reply.text = Written(reply.form, Said(sent, reply.string))
  /\ stage = "restored" => got = Given

LEMMA AlwaysRepeated == Spec => []Repeated
<1>1. Init => Repeated
  BY DEF Init, Repeated
<1>2. Repeated /\ [Next]_vars => Repeated'
  <2> SUFFICES ASSUME Repeated, [Next]_vars PROVE Repeated'
    OBVIOUS
  <2>1. CASE Answer
    <3>1. PICK k \in IF Valid(body) THEN DOMAIN Strings(sent) ELSE {0},
               form \in {"value", "text", "key", "cut", "two"} :
            reply' = [string |-> k, form |-> form, text |-> Written(form, Said(sent, k))]
      BY <2>1 DEF Answer
    <3>2. body' = body /\ sent' = sent /\ stage' = "replied"
      BY <2>1 DEF Answer
    <3>3. reply'.string = k /\ reply'.form = form /\ reply'.text = Written(form, Said(sent, k))
      BY <3>1
    <3>4. Valid(body) => k \in DOMAIN Strings(sent)
      BY <3>1
    <3>5. Written(reply.form, Said(sent, reply.string))' = Written(form, Said(sent, k))
      BY <3>2, <3>3 DEF Said
    <3> QED
      BY <3>2, <3>3, <3>4, <3>5 DEF Repeated
  <2>2. CASE Restore
    <3>1. stage = "replied" /\ got' = Given
      BY <2>2 DEF Restore, Given
    <3>2. UNCHANGED <<body, hits, sent, reply>>
      BY <2>2 DEF Restore
    <3>3. Given' = Given
      BY <3>2 DEF Given, RestoreText, RestoreJSON
    <3>4. (Said(sent, reply.string))' = Said(sent, reply.string)
      BY <3>2 DEF Said
    <3> QED
      BY <3>1, <3>2, <3>3, <3>4 DEF Repeated
  <2>3. CASE UNCHANGED vars
    BY <2>3 DEF vars, Repeated, Given, RestoreText, RestoreJSON, Said
  <2>4. CASE SkipInvalid \/ NextField \/ Protect \/ PassOver \/ Redact
    <3>1. stage' \in {"scan", "detect", "sent"}
      BY <2>4 DEF SkipInvalid, NextField, Protect, PassOver, Redact, Scanning
    <3> QED
      BY <3>1 DEF Repeated
  <2> QED
    BY <2>1, <2>2, <2>3, <2>4 DEF Next
<1> QED
  BY <1>1, <1>2, PTL DEF Spec

(* Restored by RestoreJSON, an object is an object again, and its value is *)
(* the restored value.                                                     *)
LEMMA JSONRestored ==
  ASSUME IsReport(hits, body), body \in Seq(ToSet(body)),
         NEW o, NEW k, NEW v, ReadsAs(o, k, v, All), k \in Seq(All), v \in Seq(All),
         NEW w, w = RestoreJSON(o)
  PROVE  Valid(w) /\ ValueOf(w, Strings(w)[2]) = RestoreText(Decoded(v))
<1>1. PICK x, y : x = Decoded(k) /\ y = RestoreText(Decoded(v))
  OBVIOUS
<1>2. x \in Seq(All) /\ y \in Seq(All)
  BY <1>1, DecodedFacts, RestoreFacts, AllFacts
<1>3. /\ Encoded(x) \in Seq(All) /\ Clean(Encoded(x))
      /\ Encoded(y) \in Seq(All) /\ Clean(Encoded(y)) /\ Decoded(Encoded(y)) = y
  BY <1>2, AllFacts, EncodedFacts
<1>4. w = Object(Encoded(x), Encoded(y))
  BY <1>1 DEF RestoreJSON, ReadsAs
<1>5. ReadsAs(w, Encoded(x), Encoded(y), All)
  BY <1>3, <1>4, AllFacts, ObjectReads
<1> QED
  BY <1>1, <1>3, <1>5 DEF ReadsAs

(* A JSON answer is JSON again after restoration, whatever the originals   *)
(* hold; and what the upstream repeats as a value reads as the client wrote*)
(* it, as long as no placeholder was in the body before and no original in *)
(* a JSON body holds an escape (RestoreJSON and marshalJSON).              *)
THEOREM RepliesReadAsWritten == Spec => []RepliesRestored
<1>1. IInv /\ SentAsReplaced /\ Repeated => RepliesRestored
  <2> SUFFICES ASSUME IInv, SentAsReplaced, Repeated,
                      stage = "restored", reply.form \in {"value", "key"}
               PROVE  /\ Valid(got)
                      /\ /\ reply.form = "value"
                         /\ ToSet(body) \cap Placeholders = {}
                         /\ Valid(body) => \A k \in DOMAIN hits : Plain(hits[k])
                         => ValueOf(got, Strings(got)[2]) = Said(body, reply.string)
    BY DEF RepliesRestored
  <2>1. body \in Seq(ToSet(body))
    BY JSONBodyAssumption DEF IInv, Typed, TypeOK
  <2>2. IsReport(hits, body) /\ sent = Replaced(hits)
    BY DEF SentAsReplaced
  <2>3. /\ Valid(body) => reply.string \in DOMAIN Strings(sent)
        /\ reply.text = Written(reply.form, Said(sent, reply.string)) /\ got = Given
    BY DEF Repeated
  <2>4. PICK v : v = Said(sent, reply.string)
    OBVIOUS
  <2>5. v \in Seq(All)
    <3>1. sent \in Seq(Both)
      BY <2>1, <2>2, SomeOffsets
    <3> QED
      BY <2>3, <2>4, <3>1, SaidFacts
  <2>6. Encoded(v) \in Seq(All) /\ Clean(Encoded(v)) /\ Decoded(Encoded(v)) = v
    BY <2>5, AllFacts, EncodedFacts
  <2>7. PICK k, u : /\ reply.text = Object(k, u)
                    /\ k \in Seq(All) /\ u \in Seq(All) /\ Clean(k) /\ Clean(u)
                    /\ reply.form = "value" => u = Encoded(v)
    <3>1. CASE reply.form = "value"
      <4>1. reply.text = Object(<<"x">>, Encoded(v))
        BY <2>3, <2>4, <3>1 DEF Written
      <4> QED
        BY <2>6, <4>1, NameClean
    <3>2. CASE reply.form = "key"
      <4>1. reply.text = Object(Encoded(v), <<"x">>)
        BY <2>3, <2>4, <3>2 DEF Written
      <4> QED
        BY <2>6, <3>2, <4>1, NameClean
    <3> QED
      BY <3>1, <3>2
  <2>8. ReadsAs(reply.text, k, u, All)
    BY <2>7, AllFacts, ObjectReads
  <2>9. CASE hits = <<>>
    <3>1. got = reply.text
      BY <2>3, <2>9 DEF Given
    <3>2. sent = body
      BY <2>1, <2>2, <2>9, ReplacedNothing
    <3> QED
      BY <2>4, <2>6, <2>7, <2>8, <3>1, <3>2 DEF ReadsAs
  <2>10. CASE hits # <<>>
    <3>1. got = RestoreJSON(reply.text)
      BY <2>3, <2>8, <2>10 DEF Given, ReadsAs
    <3>2. Valid(got) /\ ValueOf(got, Strings(got)[2]) = RestoreText(Decoded(u))
      BY <2>1, <2>2, <2>7, <2>8, <3>1, JSONRestored
    <3>3. ASSUME reply.form = "value", ToSet(body) \cap Placeholders = {},
                 Valid(body) => \A j \in DOMAIN hits : Plain(hits[j])
          PROVE  ValueOf(got, Strings(got)[2]) = Said(body, reply.string)
      <4>1. Meant(sent, reply.string)
        <5>1. DOMAIN hits = 1 .. Len(hits)
          BY <2>2, LenProperties DEF IsReport
        <5> QED
          BY <2>3, <3>3, <5>1 DEF Meant
      <4>2. RestoreText(v) = Said(body, reply.string)
        BY <2>1, <2>2, <2>4, <3>3, <4>1, SaidRestored
      <4> QED
        BY <2>6, <2>7, <3>2, <3>3, <4>2
    <3> QED
      BY <3>2, <3>3
  <2> QED
    BY <2>9, <2>10
<1> QED
  BY <1>1, Inductive, AlwaysReplaced, AlwaysRepeated, PTL

=============================================================================
