---------------------------- MODULE Spans_proof ----------------------------
(* Proofs about Spans, for every text length and every report.             *)
EXTENDS Spans, FiniteSetTheorems, SequenceTheorems, TLAPS

-----------------------------------------------------------------------------
(* The inductive invariant, in parts.                                      *)

(* What is to be merged is in order, and begins no earlier than any hit.   *)
Legal(s) == IsValid(s) /\ s.end <= TextLen

TodoSorted ==
  pc = "merge" =>
    /\ \A i \in DOMAIN todo : Legal(todo[i])
    /\ \A i, j \in DOMAIN todo : i < j => todo[i].start <= todo[j].start
    /\ \A h \in DOMAIN hits, i \in DOMAIN todo : hits[h].start <= todo[i].start

HitsLegal == \A h \in DOMAIN hits : Legal(hits[h])

(* lastEnd is the end of the last hit.                                     *)
LastEnd ==
  pc \in {"sort", "merge"} =>
    lastEnd = IF hits = <<>> THEN -1 ELSE hits[Len(hits)].end

NoHitsYet == pc = "sort" => hits = <<>>

(* Every span reported is still to come or begins inside a hit.            *)
Covered ==
  pc = "merge" =>
    \A i \in DOMAIN input.spans :
      IsValid(input.spans[i]) =>
        \/ \E j \in DOMAIN todo : todo[j] = input.spans[i]
        \/ \E j \in DOMAIN hits : BeginsInside(input.spans[i], hits[j])

(* The rebuilding loop stands behind the last hit it has written.          *)
Writing ==
  /\ pc \in {"sort", "merge"} => written = 0 /\ prev = 0 /\ out = <<>>
  /\ pc \in {"write", "rewrite"} =>
       /\ prev = IF written = 0 THEN 0 ELSE hits[written].end
       /\ prev = IF out = <<>> THEN 0 ELSE out[Len(out)].end
  /\ pc \in {"protect", "coalesce", "done"} =>
       out # <<>> /\ out[Len(out)].end = TextLen

IInv ==
  /\ TypeOK
  /\ TodoSorted
  /\ HitsLegal
  /\ HitsDisjoint
  /\ LastEnd
  /\ NoHitsYet
  /\ Covered
  /\ EveryStartCovered
  /\ Writing
  /\ SlicesLegal

-----------------------------------------------------------------------------
(* What is known of the report.                                            *)
LEMMA InputFacts ==
  ASSUME input \in Inputs
  PROVE  /\ input.spans \in Seq(Span) /\ input.ranges \in Seq(ByteRange)
         /\ \A i \in DOMAIN input.spans : input.spans[i].end <= TextLen
BY SpansAssumption DEF SpansAssumption, Input

(* An arrangement of positions of a sequence makes a sequence.             *)
LEMMA ArrangementFacts ==
  ASSUME NEW T, NEW s \in Seq(T), NEW S \in SUBSET DOMAIN s,
         NEW p \in Arrangements(S)
  PROVE  /\ DOMAIN p = 1 .. Len(At(s, p))
         /\ At(s, p) \in Seq(T)
         /\ DOMAIN At(s, p) = DOMAIN p
         /\ \A i \in DOMAIN p : p[i] \in S /\ At(s, p)[i] = s[p[i]]
         /\ \A k \in S : \E i \in DOMAIN p : p[i] = k
         /\ Len(At(s, p)) = Cardinality(S)
<1>1. IsFiniteSet(S) /\ Cardinality(S) \in Nat
  <2>1. DOMAIN s = 1 .. Len(s) /\ Len(s) \in Nat
    OBVIOUS
  <2>2. IsFiniteSet(1 .. Len(s))
    BY <2>1, FS_Interval
  <2> QED
    BY <2>1, <2>2, FS_Subset, FS_CardinalityType
<1>2. /\ p \in [1 .. Cardinality(S) -> S]
      /\ \A k \in S : \E i \in 1 .. Cardinality(S) : p[i] = k
  BY DEF Arrangements, Bijection, Injection, Surjection
<1>3. At(s, p) \in [1 .. Cardinality(S) -> T]
  BY <1>2 DEF At
<1>4. At(s, p) \in Seq(T) /\ Len(At(s, p)) = Cardinality(S)
  BY <1>1, <1>3
<1> QED
  BY <1>2, <1>4 DEF At

-----------------------------------------------------------------------------
LEMMA InitInv == Init => IInv
<1> SUFFICES ASSUME Init PROVE IInv
  OBVIOUS
<1> USE DEF Init
<1>1. TypeOK
  BY SpansAssumption DEF SpansAssumption, TypeOK
<1>2. TodoSorted /\ HitsLegal /\ HitsDisjoint /\ LastEnd /\ NoHitsYet /\ Covered
  BY DEF TodoSorted, HitsLegal, HitsDisjoint, LastEnd, NoHitsYet, Covered
<1>3. EveryStartCovered /\ Writing /\ SlicesLegal
  BY DEF EveryStartCovered, Writing, SlicesLegal
<1> QED
  BY <1>1, <1>2, <1>3 DEF IInv

(* The steps before the text is written.                                   *)
LEMMA SortInv == ASSUME IInv, SortSpans PROVE IInv'
<1> USE DEF IInv, SortSpans
<1>1. PICK p \in Arrangements(Valid(input.spans)) :
        InStableOrder(input.spans, p) /\ todo' = At(input.spans, p)
  OBVIOUS
<1>2. /\ input.spans \in Seq(Span)
      /\ \A i \in DOMAIN input.spans : input.spans[i].end <= TextLen
  BY InputFacts DEF TypeOK
<1>3. Valid(input.spans) \in SUBSET DOMAIN input.spans
  BY DEF Valid
<1>4. /\ todo' \in Seq(Span) /\ DOMAIN todo' = DOMAIN p
      /\ \A i \in DOMAIN p : p[i] \in Valid(input.spans) /\ todo'[i] = input.spans[p[i]]
      /\ \A k \in Valid(input.spans) : \E i \in DOMAIN p : p[i] = k
      /\ \A i \in DOMAIN p : i \in Int
  <2> DEFINE spans == input.spans
             valid == Valid(spans)
  <2>1. /\ spans \in Seq(Span) /\ valid \in SUBSET DOMAIN spans
        /\ p \in Arrangements(valid) /\ todo' = At(spans, p)
    BY <1>1, <1>2, <1>3
  <2> HIDE DEF spans, valid
  <2>2. /\ DOMAIN p = 1 .. Len(At(spans, p))
        /\ At(spans, p) \in Seq(Span)
        /\ DOMAIN At(spans, p) = DOMAIN p
        /\ \A i \in DOMAIN p : p[i] \in valid /\ At(spans, p)[i] = spans[p[i]]
        /\ \A k \in valid : \E i \in DOMAIN p : p[i] = k
    BY <2>1, ArrangementFacts
  <2>3. /\ todo' \in Seq(Span) /\ DOMAIN todo' = DOMAIN p
        /\ \A i \in DOMAIN p : i \in Int /\ p[i] \in valid /\ todo'[i] = spans[p[i]]
        /\ \A k \in valid : \E i \in DOMAIN p : p[i] = k
    BY <2>1, <2>2
  <2> QED
    BY <2>3 DEF spans, valid
<1>5. hits = <<>> /\ hits' = <<>>
  BY DEF NoHitsYet
<1>6. TypeOK'
  BY <1>4 DEF TypeOK
<1>7. TodoSorted'
  <2>1. \A i \in DOMAIN todo' : Legal(todo'[i])
    BY <1>2, <1>4 DEF Legal, Valid
  <2>2. \A i, j \in DOMAIN todo' : i < j => todo'[i].start <= todo'[j].start
    <3> SUFFICES ASSUME NEW i \in DOMAIN todo', NEW j \in DOMAIN todo', i < j
                 PROVE  todo'[i].start <= todo'[j].start
      OBVIOUS
    <3>1. \/ Precedes(todo'[i], todo'[j])
          \/ ~Precedes(todo'[j], todo'[i])
      BY <1>1, <1>4 DEF InStableOrder
    <3>2. todo'[i] \in Span /\ todo'[j] \in Span
      BY <1>4
    <3> QED
      BY <3>1, <3>2 DEF Precedes, Span
  <2> QED
    BY <2>1, <2>2, <1>5 DEF TodoSorted
<1>8. HitsLegal' /\ HitsDisjoint' /\ LastEnd' /\ NoHitsYet'
  BY <1>5 DEF HitsLegal, HitsDisjoint, LastEnd, NoHitsYet
<1>9. Covered'
  BY <1>4 DEF Covered, Valid
<1>10. EveryStartCovered' /\ Writing' /\ SlicesLegal'
  BY DEF EveryStartCovered, Writing, SlicesLegal
<1> QED
  BY <1>6, <1>7, <1>8, <1>9, <1>10

(* No hit ends after the last one kept.                                    *)
LEMMA LastEndsLast ==
  ASSUME IInv, pc = "merge", NEW h \in DOMAIN hits
  PROVE  hits[h].end <= lastEnd
<1> USE DEF IInv
<1>1. /\ hits \in Seq(Span) /\ hits # <<>> /\ Len(hits) \in DOMAIN hits
      /\ h \in 1 .. Len(hits) /\ Len(hits) \in Nat
      /\ hits[h] \in Span /\ hits[Len(hits)] \in Span
  BY DEF TypeOK
<1>2. lastEnd = hits[Len(hits)].end
  BY <1>1 DEF LastEnd
<1>3. CASE h = Len(hits)
  BY <1>1, <1>2, <1>3 DEF Span
<1>4. CASE h < Len(hits)
  <2>1. hits[h].end <= hits[Len(hits)].start
    BY <1>1, <1>4 DEF HitsDisjoint
  <2>2. hits[Len(hits)].start < hits[Len(hits)].end
    BY <1>1 DEF HitsLegal, Legal, IsValid
  <2> QED
    BY <1>1, <1>2, <2>1, <2>2 DEF Span
<1> QED
  BY <1>1, <1>3, <1>4

(* A span is dropped only for a hit it begins inside.                      *)
LEMMA DroppedInside ==
  ASSUME IInv, DropSpan
  PROVE  \E h \in DOMAIN hits : BeginsInside(Head(todo), hits[h])
<1> USE DEF IInv, DropSpan
<1> DEFINE s == Head(todo)
<1>1. todo \in Seq(Span) /\ 1 \in DOMAIN todo /\ s = todo[1] /\ s \in Span
      /\ hits \in Seq(Span)
  BY DEF TypeOK
<1>2. s.start < lastEnd /\ s.start >= 0 /\ s.start \in Int
  BY <1>1 DEF Clear, TypeOK, TodoSorted, Legal, IsValid, Span
<1>3. hits # <<>> /\ Len(hits) \in DOMAIN hits /\ lastEnd = hits[Len(hits)].end
  BY <1>1, <1>2 DEF LastEnd
<1>4. hits[Len(hits)].start <= s.start
  BY <1>1, <1>3 DEF TodoSorted
<1> QED
  BY <1>2, <1>3, <1>4 DEF BeginsInside

LEMMA KeepInv == ASSUME IInv, KeepSpan PROVE IInv'
<1> USE DEF IInv, KeepSpan
<1> DEFINE s == Head(todo)
<1>1. /\ todo \in Seq(Span) /\ todo # <<>> /\ hits \in Seq(Span)
      /\ s \in Span /\ s = todo[1] /\ Tail(todo) \in Seq(Span)
      /\ DOMAIN Tail(todo) = 1 .. Len(todo) - 1 /\ Len(todo) \in Nat \ {0}
      /\ \A i \in 1 .. Len(todo) - 1 : Tail(todo)[i] = todo[i + 1]
  BY DEF TypeOK
<1>2. /\ hits' \in Seq(Span) /\ Len(hits') = Len(hits) + 1
      /\ DOMAIN hits' = 1 .. Len(hits) + 1 /\ hits' # <<>>
      /\ hits'[Len(hits) + 1] = s /\ \A h \in 1 .. Len(hits) : hits'[h] = hits[h]
      /\ Len(hits) \in Nat /\ DOMAIN hits = 1 .. Len(hits)
  BY <1>1
<1>3. Legal(s)
  BY <1>1 DEF TodoSorted
<1>4. TypeOK'
  BY <1>1, <1>2 DEF TypeOK, Span
<1>5. TodoSorted'
  <2>1. \A i \in DOMAIN todo' : Legal(todo'[i]) /\ i + 1 \in DOMAIN todo
                                 /\ todo'[i] = todo[i + 1]
    BY <1>1 DEF TodoSorted
  <2>2. \A i, j \in DOMAIN todo' : i < j => todo'[i].start <= todo'[j].start
    BY <1>1, <2>1 DEF TodoSorted
  <2>3. \A h \in DOMAIN hits', i \in DOMAIN todo' : hits'[h].start <= todo'[i].start
    <3> SUFFICES ASSUME NEW h \in DOMAIN hits', NEW i \in DOMAIN todo'
                 PROVE  hits'[h].start <= todo[i + 1].start
      BY <2>1
    <3>1. CASE h \in DOMAIN hits
      BY <1>2, <2>1, <3>1 DEF TodoSorted
    <3>2. CASE h = Len(hits) + 1
      BY <1>1, <1>2, <2>1, <3>2 DEF TodoSorted
    <3> QED
      BY <1>2, <3>1, <3>2
  <2> QED
    BY <2>1, <2>2, <2>3 DEF TodoSorted
<1>6. HitsLegal'
  BY <1>2, <1>3 DEF HitsLegal
<1>7. HitsDisjoint'
  <2> SUFFICES ASSUME NEW i \in DOMAIN hits', NEW j \in DOMAIN hits', i < j
               PROVE  hits'[i].end <= hits'[j].start
    BY DEF HitsDisjoint
  <2>1. CASE j \in DOMAIN hits
    BY <1>2, <2>1 DEF HitsDisjoint
  <2>2. CASE j = Len(hits) + 1
    <3>1. i \in DOMAIN hits
      BY <1>2, <2>2
    <3>2. hits[i].end <= lastEnd /\ lastEnd <= s.start
      BY <3>1, LastEndsLast DEF Clear, TypeOK, Span
    <3>3. hits'[i] = hits[i] /\ hits'[j] = s
      BY <1>2, <2>2, <3>1
    <3>4. hits[i].end \in Int /\ lastEnd \in Int /\ s.start \in Int
      <4>1. hits[i] \in Span /\ lastEnd \in Int /\ s \in Span
        BY <1>1, <3>1 DEF TypeOK
      <4> QED
        BY <4>1 DEF Span
    <3> QED
      BY <3>2, <3>3, <3>4
  <2> QED
    BY <1>2, <2>1, <2>2
<1>8. LastEnd' /\ NoHitsYet'
  BY <1>2 DEF LastEnd, NoHitsYet
<1>9. Covered'
  <2> SUFFICES ASSUME NEW i \in DOMAIN input.spans, IsValid(input.spans[i])
               PROVE  \/ \E j \in DOMAIN todo' : todo'[j] = input.spans[i]
                      \/ \E j \in DOMAIN hits' : BeginsInside(input.spans[i], hits'[j])
    BY DEF Covered
  <2>1. CASE \E j \in DOMAIN hits : BeginsInside(input.spans[i], hits[j])
    BY <1>2, <2>1
  <2>2. ASSUME NEW j \in DOMAIN todo, todo[j] = input.spans[i]
        PROVE  \/ \E k \in DOMAIN todo' : todo'[k] = input.spans[i]
               \/ \E k \in DOMAIN hits' : BeginsInside(input.spans[i], hits'[k])
    <3>1. CASE j = 1
      <4>1. BeginsInside(input.spans[i], s)
        BY <1>1, <1>3, <2>2, <3>1 DEF BeginsInside, Legal, IsValid, Span
      <4>2. Len(hits) + 1 \in DOMAIN hits' /\ hits'[Len(hits) + 1] = s
        BY <1>2
      <4> QED
        BY <4>1, <4>2
    <3>2. CASE j # 1
      <4>1. j - 1 \in DOMAIN todo' /\ todo'[j - 1] = todo[j]
        BY <1>1, <3>2
      <4> QED
        BY <2>2, <4>1
    <3> QED
      BY <3>1, <3>2
  <2> QED
    BY <2>1, <2>2 DEF Covered
<1>10. EveryStartCovered' /\ Writing' /\ SlicesLegal'
  BY DEF EveryStartCovered, Writing, SlicesLegal
<1> QED
  BY <1>4, <1>5, <1>6, <1>7, <1>8, <1>9, <1>10

LEMMA DropInv == ASSUME IInv, DropSpan PROVE IInv'
<1> USE DEF IInv, DropSpan
<1> DEFINE s == Head(todo)
<1>1. /\ todo \in Seq(Span) /\ todo # <<>> /\ hits \in Seq(Span)
      /\ s \in Span /\ s = todo[1] /\ Tail(todo) \in Seq(Span)
      /\ DOMAIN Tail(todo) = 1 .. Len(todo) - 1 /\ Len(todo) \in Nat \ {0}
      /\ \A i \in 1 .. Len(todo) - 1 : Tail(todo)[i] = todo[i + 1]
  BY DEF TypeOK
<1>3. TypeOK'
  BY <1>1 DEF TypeOK
<1>4. TodoSorted'
  <2>1. \A i \in DOMAIN todo' : i + 1 \in DOMAIN todo /\ todo'[i] = todo[i + 1]
    BY <1>1
  <2> QED
    BY <1>1, <2>1 DEF TodoSorted
<1>5. HitsLegal' /\ HitsDisjoint' /\ LastEnd' /\ NoHitsYet'
  BY DEF HitsLegal, HitsDisjoint, LastEnd, NoHitsYet
<1>6. Covered'
  <2> SUFFICES ASSUME NEW i \in DOMAIN input.spans, IsValid(input.spans[i])
               PROVE  \/ \E j \in DOMAIN todo' : todo'[j] = input.spans[i]
                      \/ \E j \in DOMAIN hits : BeginsInside(input.spans[i], hits[j])
    BY DEF Covered
  <2>1. CASE \E j \in DOMAIN hits : BeginsInside(input.spans[i], hits[j])
    BY <2>1
  <2>2. ASSUME NEW j \in DOMAIN todo, todo[j] = input.spans[i]
        PROVE  \/ \E k \in DOMAIN todo' : todo'[k] = input.spans[i]
               \/ \E k \in DOMAIN hits : BeginsInside(input.spans[i], hits[k])
    <3>1. CASE j = 1
      BY <1>1, <2>2, <3>1, DroppedInside
    <3>2. CASE j # 1
      <4>1. j - 1 \in DOMAIN todo' /\ todo'[j - 1] = todo[j]
        BY <1>1, <3>2
      <4> QED
        BY <2>2, <4>1
    <3> QED
      BY <3>1, <3>2
  <2> QED
    BY <2>1, <2>2 DEF Covered
<1>7. EveryStartCovered' /\ Writing' /\ SlicesLegal'
  BY DEF EveryStartCovered, Writing, SlicesLegal
<1> QED
  BY <1>3, <1>4, <1>5, <1>6, <1>7

LEMMA MergedInv == ASSUME IInv, Merged PROVE IInv'
<1> USE DEF IInv, Merged
<1>1. TypeOK' /\ TodoSorted' /\ HitsLegal' /\ HitsDisjoint' /\ LastEnd' /\ NoHitsYet'
  BY DEF TypeOK, TodoSorted, HitsLegal, HitsDisjoint, LastEnd, NoHitsYet
<1>2. Covered' /\ SlicesLegal'
  BY DEF Covered, SlicesLegal
<1>3. EveryStartCovered'
  BY DEF EveryStartCovered, Covered
<1>4. Writing'
  BY DEF Writing
<1> QED
  BY <1>1, <1>2, <1>3, <1>4

-----------------------------------------------------------------------------
(* The rebuilding loop.                                                    *)
LEMMA WriteHitInv == ASSUME IInv, WriteHit PROVE IInv'
<1> USE DEF IInv, WriteHit
<1> DEFINE s == hits[written + 1]
<1>1. /\ hits \in Seq(Span) /\ written + 1 \in DOMAIN hits /\ written \in Nat
      /\ s \in Span /\ Legal(s) /\ prev \in Int /\ TextLen \in Nat
  BY SpansAssumption DEF TypeOK, HitsLegal, SpansAssumption
<1>2. 0 <= prev /\ prev <= s.start /\ s.start < s.end /\ s.end <= TextLen
  <2>1. CASE written = 0
    BY <1>1, <2>1 DEF Writing, Legal, IsValid, Span
  <2>2. CASE written # 0
    <3>1. written \in DOMAIN hits /\ prev = hits[written].end
      BY <1>1, <2>2 DEF Writing
    <3>2. hits[written].end <= s.start
      BY <1>1, <3>1 DEF HitsDisjoint
    <3>3. 0 <= prev
      BY <1>1 DEF TypeOK
    <3>4. s.start < s.end /\ s.end <= TextLen
      BY <1>1 DEF Legal, IsValid
    <3> QED
      BY <3>1, <3>2, <3>3, <3>4
  <2> QED
    BY <2>1, <2>2
<1>3. /\ Copied(prev, s.start) \in Piece /\ Masked(s) \in Piece
      /\ out \in Seq(Piece)
  BY <1>1 DEF Copied, Masked, Piece, Span, TypeOK
<1>4. /\ out' \in Seq(Piece) /\ Len(out') = Len(out) + 2 /\ Len(out) \in Nat
      /\ out'[Len(out) + 1] = Copied(prev, s.start)
      /\ out'[Len(out) + 2] = Masked(s)
      /\ \A i \in 1 .. Len(out) : out'[i] = out[i]
      /\ out' # <<>>
  BY <1>3
<1>5. TypeOK'
  BY <1>1, <1>2, <1>4 DEF TypeOK, Span
<1>6. TodoSorted' /\ HitsLegal' /\ HitsDisjoint' /\ LastEnd' /\ NoHitsYet' /\ Covered'
      /\ EveryStartCovered'
  BY DEF TodoSorted, HitsLegal, HitsDisjoint, LastEnd, NoHitsYet, Covered,
         EveryStartCovered
<1>7. Writing'
  BY <1>1, <1>4 DEF Writing, Masked
<1>8. SlicesLegal'
  <2>1. \A i \in DOMAIN out' :
          /\ 0 <= out'[i].start /\ out'[i].start <= out'[i].end /\ out'[i].end <= TextLen
          /\ out'[i].start = IF i = 1 THEN 0 ELSE out'[i - 1].end
    <3> SUFFICES ASSUME NEW i \in DOMAIN out'
                 PROVE  /\ 0 <= out'[i].start /\ out'[i].start <= out'[i].end
                        /\ out'[i].end <= TextLen
                        /\ out'[i].start = IF i = 1 THEN 0 ELSE out'[i - 1].end
      OBVIOUS
    <3>1. i \in Nat /\ i >= 1 /\ i <= Len(out) + 2
      BY <1>4
    <3>2. CASE i <= Len(out)
      <4>1. i \in DOMAIN out /\ out'[i] = out[i]
        BY <1>3, <1>4, <3>1, <3>2
      <4>2. i # 1 => i - 1 \in 1 .. Len(out) /\ out'[i - 1] = out[i - 1]
        BY <1>4, <3>1, <3>2
      <4> QED
        BY <4>1, <4>2 DEF SlicesLegal
    <3>3. CASE i = Len(out) + 1
      <4>1. out'[i] = Copied(prev, s.start)
        BY <1>4, <3>3
      <4>2. out'[i].start = prev /\ out'[i].end = s.start
        BY <4>1 DEF Copied
      <4>3. prev = IF i = 1 THEN 0 ELSE out'[i - 1].end
        <5>1. CASE out = <<>>
          BY <1>3, <1>4, <3>3, <5>1 DEF Writing
        <5>2. CASE out # <<>>
          <6>1. Len(out) \in 1 .. Len(out) /\ i # 1 /\ i - 1 = Len(out)
            BY <1>3, <1>4, <3>3, <5>2
          <6> QED
            BY <1>4, <5>2, <6>1 DEF Writing
        <5> QED
          BY <5>1, <5>2
      <4>4. s.start \in Int /\ s.end \in Int
        BY <1>1 DEF Span
      <4>5. 0 <= prev /\ prev <= s.start /\ s.start <= TextLen
        BY <1>1, <1>2, <4>4
      <4> QED
        BY <4>2, <4>3, <4>5
    <3>4. CASE i = Len(out) + 2
      <4>1. out'[i].start = s.start /\ out'[i].end = s.end
        BY <1>4, <3>4 DEF Masked
      <4>2. i # 1 /\ out'[i - 1].end = s.start
        BY <1>4, <3>1, <3>4 DEF Copied
      <4>3. s.start \in Int /\ s.end \in Int
        BY <1>1 DEF Span
      <4>4. 0 <= s.start /\ s.start <= s.end /\ s.end <= TextLen
        BY <1>1, <1>2, <4>3
      <4> QED
        BY <4>1, <4>2, <4>4
    <3>5. (i <= Len(out)) \/ (i = Len(out) + 1) \/ (i = Len(out) + 2)
      <4>1. Len(out) \in Nat
        BY <1>4
      <4> HIDE DEF s
      <4> QED
        BY <4>1, <3>1
    <3> QED
      BY <3>2, <3>3, <3>4, <3>5
  <2> QED
    BY <2>1 DEF SlicesLegal
<1> QED
  BY <1>5, <1>6, <1>7, <1>8

LEMMA WriteRestInv == ASSUME IInv, WriteRest PROVE IInv'
<1> USE DEF IInv, WriteRest
<1> DEFINE rest == Copied(prev, TextLen)
<1>1. /\ out \in Seq(Piece) /\ rest \in Piece /\ TextLen \in Nat
      /\ 0 <= prev /\ prev <= TextLen /\ prev \in Int
  BY SpansAssumption DEF TypeOK, Copied, Piece, SpansAssumption
<1>2. /\ out' \in Seq(Piece) /\ Len(out') = Len(out) + 1 /\ Len(out) \in Nat
      /\ out'[Len(out) + 1] = rest /\ out' # <<>>
      /\ \A i \in 1 .. Len(out) : out'[i] = out[i]
  BY <1>1
<1>3. rest.start = prev /\ rest.end = TextLen
  BY DEF Copied
<1>4. TypeOK'
  BY <1>1, <1>2 DEF TypeOK
<1>5. TodoSorted' /\ HitsLegal' /\ HitsDisjoint' /\ LastEnd' /\ NoHitsYet' /\ Covered'
      /\ EveryStartCovered'
  BY DEF TodoSorted, HitsLegal, HitsDisjoint, LastEnd, NoHitsYet, Covered,
         EveryStartCovered
<1>6. Writing'
  BY <1>2, <1>3 DEF Writing
<1>7. SlicesLegal'
  <2>1. \A i \in DOMAIN out' :
          /\ 0 <= out'[i].start /\ out'[i].start <= out'[i].end /\ out'[i].end <= TextLen
          /\ out'[i].start = IF i = 1 THEN 0 ELSE out'[i - 1].end
    <3> SUFFICES ASSUME NEW i \in DOMAIN out'
                 PROVE  /\ 0 <= out'[i].start /\ out'[i].start <= out'[i].end
                        /\ out'[i].end <= TextLen
                        /\ out'[i].start = IF i = 1 THEN 0 ELSE out'[i - 1].end
      OBVIOUS
    <3>1. i \in Nat /\ i >= 1 /\ i <= Len(out) + 1
      BY <1>2
    <3>2. CASE i <= Len(out)
      <4>1. i \in DOMAIN out /\ out'[i] = out[i]
        BY <1>1, <1>2, <3>1, <3>2
      <4>2. i # 1 => i - 1 \in 1 .. Len(out) /\ out'[i - 1] = out[i - 1]
        BY <1>2, <3>1, <3>2
      <4> QED
        BY <4>1, <4>2 DEF SlicesLegal
    <3>3. CASE i = Len(out) + 1
      <4>1. prev = IF i = 1 THEN 0 ELSE out'[i - 1].end
        <5>1. CASE out = <<>>
          BY <1>1, <1>2, <3>3, <5>1 DEF Writing
        <5>2. CASE out # <<>>
          <6>1. Len(out) \in 1 .. Len(out) /\ i # 1 /\ i - 1 = Len(out)
            BY <1>1, <1>2, <3>3, <5>2
          <6> QED
            BY <1>2, <5>2, <6>1 DEF Writing
        <5> QED
          BY <5>1, <5>2
      <4> QED
        BY <1>1, <1>2, <1>3, <3>3, <4>1
    <3> QED
      BY <1>2, <3>1, <3>2, <3>3
  <2> QED
    BY <1>2, <1>3, <2>1 DEF SlicesLegal
<1> QED
  BY <1>4, <1>5, <1>6, <1>7

-----------------------------------------------------------------------------
(* The protected ranges.                                                   *)
LEMMA RangesInv ==
  ASSUME IInv, NothingProtected \/ SortRanges \/ AllOpen
  PROVE  IInv'
<1> USE DEF IInv, NothingProtected, SortRanges, AllOpen
<1>1. TypeOK'
  <2>1. CASE SortRanges
    <3>1. PICK p \in Arrangements(DOMAIN input.ranges) :
            InOrder(input.ranges, p) /\ todo' = At(input.ranges, p)
      BY <2>1
    <3>2. todo' \in Seq(ByteRange)
      BY <3>1, InputFacts, ArrangementFacts DEF TypeOK
    <3> QED
      BY <2>1, <3>2 DEF TypeOK
  <2> QED
    BY <2>1 DEF TypeOK
<1>2. TodoSorted' /\ HitsLegal' /\ HitsDisjoint' /\ LastEnd' /\ NoHitsYet' /\ Covered'
      /\ EveryStartCovered'
  BY DEF TodoSorted, HitsLegal, HitsDisjoint, LastEnd, NoHitsYet, Covered,
         EveryStartCovered
<1>3. Writing' /\ SlicesLegal'
  BY DEF Writing, SlicesLegal
<1> QED
  BY <1>1, <1>2, <1>3

LEMMA CoalesceInv == ASSUME IInv, NewZone \/ WidenZone PROVE IInv'
<1> USE DEF IInv, NewZone, WidenZone
<1>1. /\ todo \in Seq(ByteRange) /\ todo # <<>> /\ zones \in Seq(ByteRange)
      /\ Head(todo) \in ByteRange /\ Tail(todo) \in Seq(ByteRange)
  BY DEF TypeOK
<1>2. zones' \in Seq(ByteRange)
  <2>1. CASE NewZone
    BY <1>1, <2>1
  <2>2. CASE WidenZone
    <3>1. zones # <<>> /\ Len(zones) \in DOMAIN zones
      BY <1>1, <2>2 DEF Apart
    <3>2. zones[Len(zones)] \in ByteRange
      BY <1>1, <3>1
    <3>3. \A z, r \in ByteRange : Widened(z, r) \in ByteRange
      BY DEF Widened, ByteRange
    <3>4. zones' = [zones EXCEPT ![Len(zones)] = Widened(zones[Len(zones)], Head(todo))]
      BY <2>2
    <3> QED
      BY <1>1, <3>1, <3>2, <3>3, <3>4
  <2> QED
    BY <2>1, <2>2
<1>3. TypeOK'
  BY <1>1, <1>2 DEF TypeOK
<1>4. TodoSorted' /\ HitsLegal' /\ HitsDisjoint' /\ LastEnd' /\ NoHitsYet' /\ Covered'
      /\ EveryStartCovered'
  BY DEF TodoSorted, HitsLegal, HitsDisjoint, LastEnd, NoHitsYet, Covered,
         EveryStartCovered
<1>5. Writing' /\ SlicesLegal'
  BY DEF Writing, SlicesLegal
<1> QED
  BY <1>3, <1>4, <1>5

LEMMA TakeBackInv == ASSUME IInv, TakeBack PROVE IInv'
<1> USE DEF IInv, TakeBack, Rewind
<1>1. PICK p \in Arrangements(Open) :
        (\A i, j \in DOMAIN p : i < j => p[i] < p[j]) /\ hits' = At(hits, p)
  OBVIOUS
<1>2. Open \in SUBSET DOMAIN hits /\ hits \in Seq(Span) /\ TextLen \in Nat
  BY SpansAssumption DEF Open, TypeOK, SpansAssumption
<1>3. /\ hits' \in Seq(Span) /\ DOMAIN hits' = DOMAIN p
      /\ \A i \in DOMAIN p : p[i] \in DOMAIN hits /\ hits'[i] = hits[p[i]]
  BY <1>1, <1>2, ArrangementFacts
<1>4. TypeOK'
  BY <1>2, <1>3 DEF TypeOK
<1>5. HitsLegal' /\ HitsDisjoint'
  BY <1>1, <1>3 DEF HitsLegal, HitsDisjoint
<1>6. TodoSorted' /\ LastEnd' /\ NoHitsYet' /\ Covered' /\ EveryStartCovered'
  BY DEF TodoSorted, LastEnd, NoHitsYet, Covered, EveryStartCovered
<1>7. Writing' /\ SlicesLegal'
  BY DEF Writing, SlicesLegal
<1> QED
  BY <1>4, <1>5, <1>6, <1>7

-----------------------------------------------------------------------------
THEOREM Inductive == Spec => []IInv
<1>1. IInv /\ [Next]_vars => IInv'
  <2> SUFFICES ASSUME IInv, [Next]_vars PROVE IInv'
    OBVIOUS
  <2>1. CASE UNCHANGED vars
    BY <2>1 DEF IInv, vars, TypeOK, TodoSorted, HitsLegal, HitsDisjoint, LastEnd,
                NoHitsYet, Covered, EveryStartCovered, Writing, SlicesLegal
  <2> QED
    BY <2>1, SortInv, KeepInv, DropInv, MergedInv, WriteHitInv, WriteRestInv,
       RangesInv, CoalesceInv, TakeBackInv DEF Next, Done
<1> QED
  BY <1>1, InitInv, PTL DEF Spec

(* Every variable has its type.                                            *)
THEOREM TypeCorrect == Spec => []TypeOK
<1>1. IInv => TypeOK
  BY DEF IInv
<1> QED
  BY <1>1, Inductive, PTL

(* The hits are in order and do not overlap.                               *)
THEOREM HitsCorrect == Spec => []HitsDisjoint
<1>1. IInv => HitsDisjoint
  BY DEF IInv
<1> QED
  BY <1>1, Inductive, PTL

(* No slice is out of bounds, and the pieces tile the text.                *)
THEOREM SlicesCorrect == Spec => []SlicesLegal
<1>1. IInv => SlicesLegal
  BY DEF IInv
<1> QED
  BY <1>1, Inductive, PTL

(* No reported span goes out from its beginning.                           *)
THEOREM CoverCorrect == Spec => []EveryStartCovered
<1>1. IInv => EveryStartCovered
  BY DEF IInv
<1> QED
  BY <1>1, Inductive, PTL

-----------------------------------------------------------------------------
(* The second inductive invariant: which spans become hits, and what the   *)
(* merged protected ranges hold.  It is kept by the steps that keep IInv.  *)

(* What is to be merged are spans of the report, in stable order, and each *)
(* span not among them begins inside a hit.                                *)
Remaining(p) ==
  /\ todo = At(input.spans, p)
  /\ InStableOrder(input.spans, p)
  /\ \A i \in Valid(input.spans) :
       \/ \E k \in DOMAIN p : p[k] = i
       \/ \E h \in DOMAIN hits : BeginsInside(input.spans[i], hits[h])

Arranged == pc = "merge" => \E p \in Seq(Valid(input.spans)) : Remaining(p)

(* A hit was reported, and is the longest and first of those that start    *)
(* with it; taking hits back changes neither.                              *)
HitsReported ==
  \A h \in DOMAIN hits : \E i \in Valid(input.spans) : hits[h] = input.spans[i]

Chosen(spans, t, i) ==
  spans[i].start = t.start =>
    /\ spans[i].end <= t.end
    /\ spans[i].end = t.end => \E j \in 1 .. i : spans[j] = t

HitsLongest ==
  \A h \in DOMAIN hits, i \in Valid(input.spans) : Chosen(input.spans, hits[h], i)

(* A span that meets no other and no protected range is a hit.             *)
Lone(i) ==
  /\ i \in Valid(input.spans)
  /\ Free(input.spans[i])
  /\ \A j \in DOMAIN input.spans : j # i => ~Meet(input.spans[i], input.spans[j])

LoneHit ==
  pc \notin {"sort", "merge"} =>
    \A i \in DOMAIN input.spans :
      Lone(i) => \E h \in DOMAIN hits : hits[h] = input.spans[i]

(* The masked pieces are the hits that have been written.                  *)
MaskedAreHits ==
  \A i \in DOMAIN out :
    out[i].kind = "masked" => \E h \in 1 .. written : out[i] = Masked(hits[h])

HitsMasked ==
  /\ \A h \in 1 .. written : \E i \in DOMAIN out : out[i] = Masked(hits[h])
  /\ pc \in {"protect", "coalesce", "done"} => written = Len(hits)

(* The ranges are looked at in order: what is to come are ranges of the    *)
(* report that begin no earlier than any zone.                             *)
RangesSorted ==
  pc = "coalesce" =>
    /\ \A k \in DOMAIN todo : \E i \in DOMAIN input.ranges : todo[k] = input.ranges[i]
    /\ \A k, m \in DOMAIN todo : k < m => todo[k].start <= todo[m].start
    /\ \A z \in DOMAIN zones, k \in DOMAIN todo : zones[z].start <= todo[k].start

(* Every range is still to come or lies within a zone, and every byte of a *)
(* zone is a byte of some range.                                           *)
Contains(z, r) == z.start <= r.start /\ r.end <= z.end

ZonesCover ==
  pc \in {"coalesce", "rewrite", "done"} =>
    \A i \in DOMAIN input.ranges :
      \/ pc = "coalesce" /\ \E k \in DOMAIN todo : todo[k] = input.ranges[i]
      \/ \E z \in DOMAIN zones : Contains(zones[z], input.ranges[i])

Tight(r) ==
  /\ r.start < r.end
  /\ \A b \in Bytes(r) : \E i \in DOMAIN input.ranges : b \in Bytes(input.ranges[i])

ZonesTight == \A z \in DOMAIN zones : Tight(zones[z])

NoZonesYet == pc \in {"sort", "merge", "write", "protect"} => zones = <<>>

(* The hits that are left touch no zone.                                   *)
HitsOpen ==
  pc \in {"rewrite", "done"} =>
    \A h \in DOMAIN hits, z \in DOMAIN zones : ~Overlap(hits[h], zones[z])

OrderInv == Arranged /\ HitsReported /\ HitsLongest
ZoneInv ==
  RangesSorted /\ ZonesCover /\ ZonesTight /\ NoZonesYet /\ HitsOpen
PieceInv == LoneHit /\ MaskedAreHits /\ HitsMasked

PInv == OrderInv /\ ZoneInv /\ PieceInv

-----------------------------------------------------------------------------
(* What is left of an arrangement once its first span has been looked at.  *)
LEMMA RemainingFacts ==
  ASSUME IInv, pc = "merge", todo # <<>>,
         NEW p \in Seq(Valid(input.spans)), Remaining(p)
  PROVE  /\ 1 \in DOMAIN p /\ p[1] \in Valid(input.spans)
         /\ Head(todo) = input.spans[p[1]]
         /\ Tail(p) \in Seq(Valid(input.spans))
         /\ DOMAIN Tail(p) = 1 .. Len(p) - 1
         /\ \A k \in DOMAIN Tail(p) : k + 1 \in DOMAIN p /\ Tail(p)[k] = p[k + 1]
         /\ \A k \in DOMAIN p : k # 1 => k - 1 \in DOMAIN Tail(p) /\ Tail(p)[k - 1] = p[k]
         /\ Tail(todo) = At(input.spans, Tail(p))
         /\ InStableOrder(input.spans, Tail(p))
<1> DEFINE V == Valid(input.spans)
<1>1. todo \in Seq(Span) /\ todo # <<>> /\ todo = At(input.spans, p)
  BY DEF IInv, TypeOK, Remaining
<1>2. /\ DOMAIN p = 1 .. Len(p) /\ Len(p) \in Nat
      /\ DOMAIN todo = DOMAIN p /\ \A k \in DOMAIN p : todo[k] = input.spans[p[k]]
  BY <1>1 DEF At
<1>3. Len(p) = Len(todo) /\ Len(p) >= 1 /\ p # <<>>
  BY <1>1, <1>2
<1>4. /\ Tail(p) \in Seq(V) /\ Len(Tail(p)) = Len(p) - 1
      /\ DOMAIN Tail(p) = 1 .. Len(p) - 1
      /\ \A k \in 1 .. Len(p) - 1 : Tail(p)[k] = p[k + 1]
  <2> HIDE DEF V
  <2>1. p \in Seq(V)
    BY DEF V
  <2> QED
    BY <2>1, <1>3
<1>5. /\ \A k \in DOMAIN Tail(p) : k + 1 \in DOMAIN p /\ Tail(p)[k] = p[k + 1]
      /\ \A k \in DOMAIN p : k # 1 => k - 1 \in DOMAIN Tail(p) /\ Tail(p)[k - 1] = p[k]
  BY <1>2, <1>4
<1>6. 1 \in DOMAIN p /\ p[1] \in V /\ Head(todo) = input.spans[p[1]]
  BY <1>1, <1>2, <1>3
<1>7. Tail(todo) = At(input.spans, Tail(p))
  <2>1. /\ DOMAIN Tail(todo) = 1 .. Len(p) - 1
        /\ \A k \in 1 .. Len(p) - 1 : Tail(todo)[k] = todo[k + 1]
        /\ Tail(todo) = [k \in DOMAIN Tail(todo) |-> Tail(todo)[k]]
    BY <1>1, <1>3
  <2>2. \A k \in 1 .. Len(p) - 1 : Tail(todo)[k] = input.spans[Tail(p)[k]]
    BY <1>2, <1>4, <1>5, <2>1
  <2>3. [k \in 1 .. Len(p) - 1 |-> Tail(todo)[k]]
          = [k \in 1 .. Len(p) - 1 |-> input.spans[Tail(p)[k]]]
    BY <2>2
  <2> QED
    BY <1>4, <2>1, <2>3 DEF At
<1>8. InStableOrder(input.spans, Tail(p))
  <2> SUFFICES ASSUME NEW i \in DOMAIN Tail(p), NEW j \in DOMAIN Tail(p), i < j
               PROVE  \/ Precedes(input.spans[Tail(p)[i]], input.spans[Tail(p)[j]])
                      \/ /\ ~Precedes(input.spans[Tail(p)[j]], input.spans[Tail(p)[i]])
                         /\ Tail(p)[i] < Tail(p)[j]
    BY DEF InStableOrder
  <2>1. i + 1 \in DOMAIN p /\ j + 1 \in DOMAIN p /\ i + 1 < j + 1
    BY <1>4, <1>5
  <2>2. Tail(p)[i] = p[i + 1] /\ Tail(p)[j] = p[j + 1]
    BY <1>5
  <2> QED
    BY <2>1, <2>2 DEF Remaining, InStableOrder
<1> QED
  BY <1>4, <1>5, <1>6, <1>7, <1>8

(* What is known of a reported span.                                       *)
LEMMA ReportedFacts ==
  ASSUME IInv, NEW i \in Valid(input.spans)
  PROVE  /\ i \in DOMAIN input.spans /\ i \in Nat \ {0}
         /\ input.spans[i] \in Span /\ IsValid(input.spans[i])
         /\ input.spans[i].start \in Int /\ input.spans[i].end \in Int
         /\ input.spans[i].start < input.spans[i].end
<1>1. input.spans \in Seq(Span) /\ i \in DOMAIN input.spans /\ IsValid(input.spans[i])
  BY InputFacts DEF IInv, TypeOK, Valid
<1>2. input.spans[i] \in Span /\ i \in Nat \ {0}
  BY <1>1
<1> QED
  BY <1>1, <1>2 DEF IsValid, Span

-----------------------------------------------------------------------------
LEMMA OrderSort == ASSUME IInv, SortSpans PROVE OrderInv'
<1>1. PICK p \in Arrangements(Valid(input.spans)) :
        InStableOrder(input.spans, p) /\ todo' = At(input.spans, p)
  BY DEF SortSpans
<1>2. input' = input /\ hits = <<>> /\ hits' = <<>> /\ pc' = "merge"
  BY DEF SortSpans, IInv, NoHitsYet
<1>3. p \in Seq(Valid(input.spans)) /\ \A i \in Valid(input.spans) : \E k \in DOMAIN p : p[k] = i
  <2> DEFINE V == Valid(input.spans)
  <2>1. V \in SUBSET DOMAIN input.spans /\ input.spans \in Seq(Span)
    BY InputFacts DEF IInv, TypeOK, Valid
  <2>2. p \in [1 .. Cardinality(V) -> V] /\ \A i \in V : \E k \in 1 .. Cardinality(V) : p[k] = i
    BY DEF Arrangements, Bijection, Injection, Surjection
  <2>3. Cardinality(V) \in Nat
    <3>1. IsFiniteSet(DOMAIN input.spans)
      <4>1. DOMAIN input.spans = 1 .. Len(input.spans) /\ Len(input.spans) \in Nat
        BY <2>1
      <4> QED
        BY <4>1, FS_Interval
    <3> QED
      BY <2>1, <3>1, FS_Subset, FS_CardinalityType
  <2> HIDE DEF V
  <2>4. p \in Seq(V) /\ \A i \in V : \E k \in DOMAIN p : p[k] = i
    BY <2>2, <2>3
  <2> QED
    BY <2>4 DEF V
<1>4. Arranged'
  BY <1>1, <1>2, <1>3 DEF Arranged, Remaining
<1> QED
  BY <1>2, <1>4 DEF OrderInv, HitsReported, HitsLongest

LEMMA OrderKeep == ASSUME IInv, OrderInv, KeepSpan PROVE OrderInv'
<1> USE DEF OrderInv
<1> DEFINE s == Head(todo)
<1>1. pc = "merge" /\ todo # <<>> /\ input' = input /\ pc' = "merge" /\ todo' = Tail(todo)
  BY DEF KeepSpan
<1>2. PICK p \in Seq(Valid(input.spans)) : Remaining(p)
  BY <1>1 DEF Arranged
<1>3. /\ 1 \in DOMAIN p /\ p[1] \in Valid(input.spans) /\ s = input.spans[p[1]]
      /\ Tail(p) \in Seq(Valid(input.spans))
      /\ \A k \in DOMAIN p : k # 1 => k - 1 \in DOMAIN Tail(p) /\ Tail(p)[k - 1] = p[k]
      /\ Tail(todo) = At(input.spans, Tail(p))
      /\ InStableOrder(input.spans, Tail(p))
  BY <1>1, <1>2, RemainingFacts
<1>4. /\ DOMAIN hits' = 1 .. Len(hits) + 1 /\ DOMAIN hits = 1 .. Len(hits)
      /\ Len(hits) \in Nat
      /\ hits'[Len(hits) + 1] = s /\ \A h \in 1 .. Len(hits) : hits'[h] = hits[h]
  BY DEF KeepSpan, IInv, TypeOK
<1>5. \A i \in Valid(input.spans) :
        \/ \E k \in DOMAIN p : p[k] = i
        \/ \E h \in DOMAIN hits : BeginsInside(input.spans[i], hits[h])
  BY <1>2 DEF Remaining
<1>6. Arranged'
  <2>1. \A i \in Valid(input.spans) :
          \/ \E k \in DOMAIN Tail(p) : Tail(p)[k] = i
          \/ \E h \in DOMAIN hits' : BeginsInside(input.spans[i], hits'[h])
    <3> SUFFICES ASSUME NEW i \in Valid(input.spans)
                 PROVE  \/ \E k \in DOMAIN Tail(p) : Tail(p)[k] = i
                        \/ \E h \in DOMAIN hits' : BeginsInside(input.spans[i], hits'[h])
      OBVIOUS
    <3>1. CASE \E h \in DOMAIN hits : BeginsInside(input.spans[i], hits[h])
      BY <1>4, <3>1
    <3>2. CASE i = p[1]
      <4>1. BeginsInside(input.spans[i], s)
        BY <1>3, <3>2, ReportedFacts DEF BeginsInside
      <4>2. Len(hits) + 1 \in DOMAIN hits'
        BY <1>4
      <4> QED
        BY <1>4, <4>1, <4>2
    <3>3. ASSUME NEW k \in DOMAIN p, p[k] = i, k # 1
          PROVE  \E m \in DOMAIN Tail(p) : Tail(p)[m] = i
      BY <1>3, <3>3
    <3> QED
      BY <1>5, <3>1, <3>2, <3>3
  <2> QED
    BY <1>1, <1>3, <2>1 DEF Arranged, Remaining
<1>7. HitsReported'
  BY <1>1, <1>3, <1>4 DEF HitsReported
<1>8. HitsLongest'
  <2> SUFFICES ASSUME NEW h \in DOMAIN hits', NEW i \in Valid(input.spans)
               PROVE  Chosen(input.spans, hits'[h], i)
    BY <1>1 DEF HitsLongest
  <2>1. CASE h \in DOMAIN hits
    <3>1. Chosen(input.spans, hits[h], i)
      BY <2>1 DEF HitsLongest
    <3> QED
      BY <1>4, <2>1, <3>1
  <2>2. CASE h = Len(hits) + 1
    <3> SUFFICES ASSUME input.spans[i].start = s.start
                 PROVE  /\ input.spans[i].end <= s.end
                        /\ input.spans[i].end = s.end =>
                             \E j \in 1 .. i : input.spans[j] = s
      BY <1>1, <1>4, <2>2 DEF Chosen
    <3>1. /\ i \in Nat \ {0} /\ p[1] \in Nat \ {0}
          /\ input.spans[i].end \in Int /\ s.end \in Int /\ s.start \in Int
      BY <1>3, ReportedFacts
    <3>2. CASE \E g \in DOMAIN hits : BeginsInside(input.spans[i], hits[g])
      <4>1. PICK g \in DOMAIN hits : BeginsInside(input.spans[i], hits[g])
        BY <3>2
      <4>2. hits[g].end <= lastEnd /\ s.start >= lastEnd
        BY <1>1, LastEndsLast DEF KeepSpan, Clear
      <4>4. hits[g].end \in Int /\ lastEnd \in Int
        <5>1. hits[g] \in Span /\ lastEnd \in Int
          BY DEF IInv, TypeOK
        <5> QED
          BY <5>1 DEF Span
      <4>3. s.start < hits[g].end
        BY <4>1 DEF BeginsInside
      <4> QED
        BY <3>1, <4>2, <4>3, <4>4
    <3>3. CASE i = p[1]
      BY <1>3, <3>1, <3>3
    <3>4. ASSUME NEW k \in DOMAIN p, p[k] = i, k # 1
          PROVE  /\ input.spans[i].end <= s.end
                 /\ input.spans[i].end = s.end => \E j \in 1 .. i : input.spans[j] = s
      <4>1. 1 < k
        BY <3>4
      <4>2. \/ Precedes(s, input.spans[i])
            \/ ~Precedes(input.spans[i], s) /\ p[1] < i
        BY <1>2, <1>3, <3>4, <4>1 DEF Remaining, InStableOrder
      <4>3. CASE Precedes(s, input.spans[i])
        BY <3>1, <4>3 DEF Precedes
      <4>4. CASE ~Precedes(input.spans[i], s) /\ p[1] < i
        <5>1. p[1] \in 1 .. i
          BY <3>1, <4>4
        <5> QED
          BY <1>3, <3>1, <4>4, <5>1 DEF Precedes
      <4> QED
        BY <4>2, <4>3, <4>4
    <3> QED
      BY <1>5, <3>2, <3>3, <3>4
  <2> QED
    BY <1>4, <2>1, <2>2
<1> QED
  BY <1>6, <1>7, <1>8

LEMMA OrderDrop == ASSUME IInv, OrderInv, DropSpan PROVE OrderInv'
<1> USE DEF OrderInv
<1>1. /\ pc = "merge" /\ todo # <<>> /\ input' = input /\ pc' = "merge"
      /\ todo' = Tail(todo) /\ hits' = hits
  BY DEF DropSpan
<1>2. PICK p \in Seq(Valid(input.spans)) : Remaining(p)
  BY <1>1 DEF Arranged
<1>3. /\ Head(todo) = input.spans[p[1]]
      /\ Tail(p) \in Seq(Valid(input.spans))
      /\ \A k \in DOMAIN p : k # 1 => k - 1 \in DOMAIN Tail(p) /\ Tail(p)[k - 1] = p[k]
      /\ Tail(todo) = At(input.spans, Tail(p))
      /\ InStableOrder(input.spans, Tail(p))
  BY <1>1, <1>2, RemainingFacts
<1>4. \A i \in Valid(input.spans) :
        \/ \E k \in DOMAIN Tail(p) : Tail(p)[k] = i
        \/ \E h \in DOMAIN hits : BeginsInside(input.spans[i], hits[h])
  <2>1. \E h \in DOMAIN hits : BeginsInside(input.spans[p[1]], hits[h])
    BY <1>3, DroppedInside
  <2>2. \A i \in Valid(input.spans) :
          \/ \E k \in DOMAIN p : p[k] = i
          \/ \E h \in DOMAIN hits : BeginsInside(input.spans[i], hits[h])
    BY <1>2 DEF Remaining
  <2>3. \A k \in DOMAIN p : k = 1 \/ \E m \in DOMAIN Tail(p) : Tail(p)[m] = p[k]
    BY <1>3
  <2> QED
    BY <2>1, <2>2, <2>3
<1>5. Arranged'
  BY <1>1, <1>3, <1>4 DEF Arranged, Remaining
<1> QED
  BY <1>1, <1>5 DEF HitsReported, HitsLongest, Chosen

-----------------------------------------------------------------------------
(* Two ranges that are not empty have a byte in common iff they overlap.   *)
LEMMA MeetIsOverlap ==
  ASSUME NEW a, NEW b, a.start \in Int, a.end \in Int, b.start \in Int, b.end \in Int,
         a.start < a.end, b.start < b.end
  PROVE  Meet(a, b) <=> Overlap(a, b)
<1>1. ASSUME Meet(a, b) PROVE Overlap(a, b)
  <2>1. PICK x : x \in Bytes(a) /\ x \in Bytes(b)
    BY <1>1 DEF Meet
  <2> QED
    BY <2>1 DEF Bytes, Overlap
<1>2. ASSUME Overlap(a, b) PROVE Meet(a, b)
  <2>1. CASE a.start <= b.start
    <3>1. b.start \in Bytes(a) /\ b.start \in Bytes(b)
      BY <1>2, <2>1 DEF Bytes, Overlap
    <3> QED
      BY <3>1 DEF Meet
  <2>2. CASE b.start <= a.start
    <3>1. a.start \in Bytes(a) /\ a.start \in Bytes(b)
      BY <1>2, <2>2 DEF Bytes, Overlap
    <3> QED
      BY <3>1 DEF Meet
  <2> QED
    BY <2>1, <2>2
<1> QED
  BY <1>1, <1>2

(* What is known of a protected range, of a zone and of a hit.             *)
LEMMA RangeFacts ==
  ASSUME IInv, NEW i \in DOMAIN input.ranges
  PROVE  /\ input.ranges[i] \in ByteRange
         /\ input.ranges[i].start \in Int /\ input.ranges[i].end \in Int
         /\ input.ranges[i].start < input.ranges[i].end
<1>1. input.ranges \in Seq(ByteRange) /\ Within(input.ranges[i])
  BY InputFacts, SpansAssumption DEF IInv, TypeOK, SpansAssumption
<1>2. input.ranges[i] \in ByteRange
  BY <1>1
<1> QED
  BY <1>1, <1>2 DEF Within, ByteRange

LEMMA ZoneFacts ==
  ASSUME IInv, NEW z \in DOMAIN zones
  PROVE  zones[z] \in ByteRange /\ zones[z].start \in Int /\ zones[z].end \in Int
<1>1. zones[z] \in ByteRange
  BY DEF IInv, TypeOK
<1> QED
  BY <1>1 DEF ByteRange

LEMMA HitFacts ==
  ASSUME IInv, NEW h \in DOMAIN hits
  PROVE  /\ hits[h] \in Span /\ hits[h].start \in Int /\ hits[h].end \in Int
         /\ hits[h].start < hits[h].end
<1>1. hits[h] \in Span /\ IsValid(hits[h])
  BY DEF IInv, TypeOK, HitsLegal, Legal
<1> QED
  BY <1>1 DEF IsValid, Span

(* A span that meets no protected range overlaps no zone.                  *)
LEMMA FreeOfZones ==
  ASSUME IInv, ZonesTight, NEW h \in DOMAIN hits, Free(hits[h]), NEW z \in DOMAIN zones
  PROVE  ~Overlap(hits[h], zones[z])
<1> SUFFICES ASSUME Overlap(hits[h], zones[z]) PROVE FALSE
  OBVIOUS
<1>1. Tight(zones[z])
  BY DEF ZonesTight
<1>2. Meet(hits[h], zones[z])
  BY <1>1, MeetIsOverlap, HitFacts, ZoneFacts DEF Tight
<1>3. PICK b : b \in Bytes(hits[h]) /\ b \in Bytes(zones[z])
  BY <1>2 DEF Meet
<1>4. PICK i \in DOMAIN input.ranges : b \in Bytes(input.ranges[i])
  BY <1>1, <1>3 DEF Tight
<1> QED
  BY <1>3, <1>4 DEF Free, Meet

-----------------------------------------------------------------------------
(* The protected ranges, step by step.                                     *)
LEMMA ZonesSort == ASSUME IInv, ZoneInv, SortRanges PROVE ZoneInv'
<1> USE DEF ZoneInv
<1>1. /\ pc = "protect" /\ pc' = "coalesce" /\ input' = input /\ hits' = hits
      /\ zones' = <<>> /\ zones = <<>>
  BY DEF SortRanges, NoZonesYet
<1>2. PICK p \in Arrangements(DOMAIN input.ranges) :
        InOrder(input.ranges, p) /\ todo' = At(input.ranges, p)
  BY DEF SortRanges
<1>3. /\ DOMAIN todo' = DOMAIN p
      /\ \A k \in DOMAIN p : p[k] \in DOMAIN input.ranges /\ todo'[k] = input.ranges[p[k]]
      /\ \A i \in DOMAIN input.ranges : \E k \in DOMAIN p : p[k] = i
  <2> DEFINE ranges == input.ranges
             S == DOMAIN ranges
  <2>1. ranges \in Seq(ByteRange) /\ S \in SUBSET DOMAIN ranges
        /\ p \in Arrangements(S) /\ todo' = At(ranges, p)
    BY <1>2, InputFacts DEF IInv, TypeOK
  <2> HIDE DEF ranges, S
  <2>2. /\ DOMAIN At(ranges, p) = DOMAIN p
        /\ \A i \in DOMAIN p : p[i] \in S /\ At(ranges, p)[i] = ranges[p[i]]
        /\ \A k \in S : \E i \in DOMAIN p : p[i] = k
    BY <2>1, ArrangementFacts
  <2>3. /\ DOMAIN todo' = DOMAIN p
        /\ \A i \in DOMAIN p : p[i] \in S /\ todo'[i] = ranges[p[i]]
        /\ \A k \in S : \E i \in DOMAIN p : p[i] = k
    BY <2>1, <2>2
  <2> QED
    BY <2>3 DEF S, ranges
<1>4. RangesSorted'
  <2>1. \A k, m \in DOMAIN todo' : k < m => todo'[k].start <= todo'[m].start
    <3> SUFFICES ASSUME NEW k \in DOMAIN p, NEW m \in DOMAIN p, k < m
                 PROVE  input.ranges[p[k]].start <= input.ranges[p[m]].start
      BY <1>3
    <3>1. input.ranges[p[k]].start \in Int /\ input.ranges[p[m]].start \in Int
      BY <1>3, RangeFacts
    <3> QED
      BY <1>2, <3>1 DEF InOrder
  <2>2. \A k \in DOMAIN todo' : \E i \in DOMAIN input.ranges : todo'[k] = input.ranges[i]
    BY <1>3
  <2> QED
    BY <1>1, <2>1, <2>2 DEF RangesSorted
<1>5. ZonesCover'
  BY <1>1, <1>3 DEF ZonesCover
<1> QED
  BY <1>1, <1>4, <1>5 DEF ZonesTight, NoZonesYet, HitsOpen

(* What is known of the next range and of those after it.                  *)
LEMMA NextRange ==
  ASSUME IInv, RangesSorted, pc = "coalesce", todo # <<>>
  PROVE  /\ 1 \in DOMAIN todo /\ Head(todo) = todo[1]
         /\ \E i \in DOMAIN input.ranges : Head(todo) = input.ranges[i]
         /\ Head(todo) \in ByteRange
         /\ Head(todo).start \in Int /\ Head(todo).end \in Int
         /\ Head(todo).start < Head(todo).end
         /\ \A k \in DOMAIN Tail(todo) : /\ k + 1 \in DOMAIN todo
                                         /\ Tail(todo)[k] = todo[k + 1]
                                         /\ Head(todo).start <= Tail(todo)[k].start
         /\ \A k \in DOMAIN todo :
              k # 1 => k - 1 \in DOMAIN Tail(todo) /\ Tail(todo)[k - 1] = todo[k]
         /\ \A k, m \in DOMAIN Tail(todo) :
              k < m => Tail(todo)[k].start <= Tail(todo)[m].start
<1>1. /\ todo \in Seq(ByteRange) /\ DOMAIN todo = 1 .. Len(todo) /\ Len(todo) \in Nat \ {0}
      /\ DOMAIN Tail(todo) = 1 .. Len(todo) - 1 /\ Head(todo) = todo[1]
      /\ \A k \in 1 .. Len(todo) - 1 : Tail(todo)[k] = todo[k + 1]
  BY DEF IInv, TypeOK
<1>2. PICK i \in DOMAIN input.ranges : Head(todo) = input.ranges[i]
  BY <1>1 DEF RangesSorted
<1>3. \A k \in DOMAIN Tail(todo) : k + 1 \in DOMAIN todo /\ Tail(todo)[k] = todo[k + 1]
  BY <1>1
<1>4. \A k \in DOMAIN Tail(todo) : Head(todo).start <= Tail(todo)[k].start
  BY <1>1, <1>3 DEF RangesSorted
<1>5. \A k, m \in DOMAIN Tail(todo) : k < m => Tail(todo)[k].start <= Tail(todo)[m].start
  BY <1>1, <1>3 DEF RangesSorted
<1>6. \A k \in DOMAIN todo :
        k # 1 => k - 1 \in DOMAIN Tail(todo) /\ Tail(todo)[k - 1] = todo[k]
  BY <1>1
<1>7. 1 \in DOMAIN todo
  BY <1>1
<1> QED
  BY <1>1, <1>2, <1>3, <1>4, <1>5, <1>6, <1>7, RangeFacts

LEMMA ZonesNew == ASSUME IInv, ZoneInv, NewZone PROVE ZoneInv'
<1> USE DEF ZoneInv
<1> DEFINE r == Head(todo)
<1>1. /\ pc = "coalesce" /\ pc' = "coalesce" /\ input' = input /\ hits' = hits
      /\ todo # <<>> /\ todo' = Tail(todo)
  BY DEF NewZone
<1>2. /\ DOMAIN zones' = 1 .. Len(zones) + 1 /\ DOMAIN zones = 1 .. Len(zones)
      /\ Len(zones) \in Nat /\ zones'[Len(zones) + 1] = r
      /\ \A z \in DOMAIN zones : z \in DOMAIN zones' /\ zones'[z] = zones[z]
      /\ Len(zones) + 1 \in DOMAIN zones'
  BY DEF NewZone, IInv, TypeOK
<1>3. \A z \in DOMAIN zones' : z \in DOMAIN zones \/ z = Len(zones) + 1
  BY <1>2
<1>4. PICK i \in DOMAIN input.ranges : r = input.ranges[i]
  BY <1>1, NextRange
<1>5. RangesSorted'
  <2>1. \A k \in DOMAIN Tail(todo) : \E m \in DOMAIN input.ranges : Tail(todo)[k] = input.ranges[m]
    BY <1>1, NextRange DEF RangesSorted
  <2>2. \A k, m \in DOMAIN Tail(todo) : k < m => Tail(todo)[k].start <= Tail(todo)[m].start
    BY <1>1, NextRange
  <2>3. \A z \in DOMAIN zones', k \in DOMAIN Tail(todo) : zones'[z].start <= Tail(todo)[k].start
    BY <1>1, <1>2, <1>3, NextRange DEF RangesSorted
  <2> QED
    BY <1>1, <2>1, <2>2, <2>3 DEF RangesSorted
<1>6. ZonesCover'
  <2> SUFFICES ASSUME NEW m \in DOMAIN input.ranges
               PROVE  \/ \E k \in DOMAIN Tail(todo) : Tail(todo)[k] = input.ranges[m]
                      \/ \E z \in DOMAIN zones' : Contains(zones'[z], input.ranges[m])
    BY <1>1 DEF ZonesCover
  <2>1. CASE \E z \in DOMAIN zones : Contains(zones[z], input.ranges[m])
    BY <1>2, <2>1
  <2>2. ASSUME NEW k \in DOMAIN todo, todo[k] = input.ranges[m], k # 1
        PROVE  \E l \in DOMAIN Tail(todo) : Tail(todo)[l] = input.ranges[m]
    BY <1>1, <2>2, NextRange
  <2>3. CASE r = input.ranges[m]
    <3>1. Contains(r, input.ranges[m])
      BY <2>3, RangeFacts DEF Contains
    <3> QED
      BY <1>2, <3>1
  <2> QED
    BY <1>1, <2>1, <2>2, <2>3, NextRange DEF ZonesCover
<1>7. ZonesTight'
  <2>1. Tight(r)
    BY <1>1, <1>4, NextRange DEF Tight
  <2>2. \A z \in DOMAIN zones' : Tight(zones'[z])
    BY <1>2, <1>3, <2>1 DEF ZonesTight
  <2> QED
    BY <1>1, <2>2 DEF ZonesTight, Tight
<1> QED
  BY <1>1, <1>5, <1>6, <1>7 DEF NoZonesYet, HitsOpen

LEMMA ZonesWiden == ASSUME IInv, ZoneInv, WidenZone PROVE ZoneInv'
<1> USE DEF ZoneInv
<1> DEFINE r == Head(todo)
           last == Len(zones)
           old == zones[last]
           new == Widened(old, r)
<1>1. /\ pc = "coalesce" /\ pc' = "coalesce" /\ input' = input /\ hits' = hits
      /\ todo # <<>> /\ todo' = Tail(todo)
  BY DEF WidenZone
<1>2. zones \in Seq(ByteRange) /\ zones # <<>> /\ last \in DOMAIN zones /\ r.start <= old.end
  <2>1. zones \in Seq(ByteRange) /\ zones # <<>> /\ ~(r.start > old.end)
    BY DEF WidenZone, Apart, IInv, TypeOK
  <2>2. last \in DOMAIN zones
    BY <2>1
  <2> QED
    BY <1>1, <2>1, <2>2, NextRange, ZoneFacts
<1>3. zones' = [zones EXCEPT ![last] = new]
  BY DEF WidenZone
<1>4. /\ DOMAIN zones' = DOMAIN zones /\ zones'[last] = new
      /\ \A z \in DOMAIN zones : z # last => zones'[z] = zones[z]
  BY <1>2, <1>3
<1>5. /\ new.start = old.start /\ new.end \in Int /\ new.end >= old.end /\ new.end >= r.end
      /\ new.end = old.end \/ new.end = r.end
      /\ old.start \in Int /\ old.end \in Int
  <2>1. old \in ByteRange /\ old.start \in Int /\ old.end \in Int
    BY <1>2, ZoneFacts
  <2>2. r.end \in Int
    BY <1>1, NextRange
  <2> HIDE DEF old, r
  <2> QED
    BY <2>1, <2>2 DEF Widened, ByteRange
<1>6. PICK i \in DOMAIN input.ranges : r = input.ranges[i]
  BY <1>1, NextRange
<1> HIDE DEF new, old
<1>7. RangesSorted'
  <2>1. \A k \in DOMAIN Tail(todo) : \E m \in DOMAIN input.ranges : Tail(todo)[k] = input.ranges[m]
    BY <1>1, NextRange DEF RangesSorted
  <2>2. \A k, m \in DOMAIN Tail(todo) : k < m => Tail(todo)[k].start <= Tail(todo)[m].start
    BY <1>1, NextRange
  <2>3. \A z \in DOMAIN zones : zones'[z].start = zones[z].start
    BY <1>4, <1>5 DEF old
  <2>4. \A z \in DOMAIN zones, k \in DOMAIN Tail(todo) : zones[z].start <= Tail(todo)[k].start
    BY <1>1, NextRange DEF RangesSorted
  <2> QED
    BY <1>1, <1>4, <2>1, <2>2, <2>3, <2>4 DEF RangesSorted
<1>8. ZonesCover'
  <2> SUFFICES ASSUME NEW m \in DOMAIN input.ranges
               PROVE  \/ \E k \in DOMAIN Tail(todo) : Tail(todo)[k] = input.ranges[m]
                      \/ \E z \in DOMAIN zones' : Contains(zones'[z], input.ranges[m])
    BY <1>1 DEF ZonesCover
  <2>0. input.ranges[m].start \in Int /\ input.ranges[m].end \in Int
    BY RangeFacts
  <2>1. ASSUME NEW z \in DOMAIN zones, Contains(zones[z], input.ranges[m])
        PROVE  Contains(zones'[z], input.ranges[m])
    <3>1. CASE z = last
      BY <1>4, <1>5, <2>0, <2>1, <3>1 DEF Contains, old
    <3>2. CASE z # last
      BY <1>4, <2>1, <3>2
    <3> QED
      BY <3>1, <3>2
  <2>2. ASSUME NEW k \in DOMAIN todo, todo[k] = input.ranges[m], k # 1
        PROVE  \E l \in DOMAIN Tail(todo) : Tail(todo)[l] = input.ranges[m]
    BY <1>1, <2>2, NextRange
  <2>3. CASE r = input.ranges[m]
    <3>1. old.start <= r.start
      BY <1>1, <1>2, NextRange DEF RangesSorted, old
    <3>2. Contains(zones'[last], input.ranges[m])
      BY <1>4, <1>5, <2>3, <3>1 DEF Contains
    <3> QED
      BY <1>2, <1>4, <3>2
  <2> QED
    BY <1>1, <1>4, <2>1, <2>2, <2>3, NextRange DEF ZonesCover
<1>9. ZonesTight'
  <2>1. Tight(old)
    BY <1>2 DEF ZonesTight, old
  <2>2. ASSUME NEW b \in Bytes(new)
        PROVE  \E m \in DOMAIN input.ranges : b \in Bytes(input.ranges[m])
    <3>1. b \in Bytes(old) \/ b \in Bytes(r)
      <4>1. r.start \in Int /\ r.end \in Int
        BY <1>1, NextRange
      <4> HIDE DEF r
      <4> QED
        BY <1>2, <1>5, <2>2, <4>1 DEF Bytes, old
    <3> QED
      BY <1>6, <2>1, <3>1 DEF Tight
  <2>3. new.start < new.end
    BY <1>5, <2>1 DEF Tight
  <2>4. Tight(new)
    BY <2>2, <2>3 DEF Tight
  <2>5. \A z \in DOMAIN zones' : Tight(zones'[z])
    BY <1>4, <2>4 DEF ZonesTight
  <2> QED
    BY <1>1, <2>5 DEF ZonesTight, Tight
<1> QED
  BY <1>1, <1>7, <1>8, <1>9 DEF NoZonesYet, HitsOpen

(* The hits that are left once some are taken back.                        *)
LEMMA LeftOver ==
  ASSUME IInv, TakeBack
  PROVE  /\ \A h \in DOMAIN hits' : \E g \in Open : hits'[h] = hits[g]
         /\ \A g \in Open : \E h \in DOMAIN hits' : hits'[h] = hits[g]
<1>1. PICK p \in Arrangements(Open) : hits' = At(hits, p)
  BY DEF TakeBack
<1>2. Open \in SUBSET DOMAIN hits /\ hits \in Seq(Span)
  BY DEF Open, IInv, TypeOK
<1> QED
  BY <1>1, <1>2, ArrangementFacts

LEMMA ZonesDecide == ASSUME IInv, ZoneInv, AllOpen \/ TakeBack PROVE ZoneInv'
<1> USE DEF ZoneInv
<1>1. /\ pc = "coalesce" /\ todo = <<>> /\ input' = input /\ zones' = zones
      /\ pc' \in {"done", "rewrite"}
  BY DEF AllOpen, TakeBack
<1>2. \A h \in DOMAIN hits' : \E g \in Open : hits'[h] = hits[g]
  BY LeftOver DEF AllOpen
<1>3. HitsOpen'
  BY <1>1, <1>2 DEF HitsOpen, Open
<1>4. ZonesCover'
  <2>1. DOMAIN todo = {}
    BY <1>1
  <2> QED
    BY <1>1, <2>1 DEF ZonesCover
<1> QED
  BY <1>1, <1>3, <1>4 DEF RangesSorted, ZonesTight, Tight, NoZonesYet

(* The steps that leave ranges and zones alone.                            *)
LEMMA ZonesSame ==
  ASSUME IInv, ZoneInv,
         \/ SortSpans \/ KeepSpan \/ DropSpan \/ Merged
         \/ WriteHit \/ WriteRest \/ NothingProtected \/ UNCHANGED vars
  PROVE  ZoneInv'
<1> USE DEF ZoneInv
<1>1. CASE UNCHANGED vars
  BY <1>1 DEF vars, RangesSorted, ZonesCover, ZonesTight, Tight, NoZonesYet, HitsOpen
<1>2. CASE SortSpans \/ KeepSpan \/ DropSpan \/ Merged
  BY <1>2 DEF SortSpans, KeepSpan, DropSpan, Merged, RangesSorted, ZonesCover, ZonesTight,
     Tight, NoZonesYet, HitsOpen
<1>3. CASE WriteHit \/ WriteRest
  <2>1. /\ input' = input /\ zones' = zones /\ hits' = hits /\ todo' = todo
        /\ pc \in {"write", "rewrite"} /\ pc' # "coalesce"
        /\ pc' = "rewrite" => pc = "rewrite"
        /\ pc' = "done" => pc = "rewrite"
        /\ pc' \in {"sort", "merge", "write", "protect"} => pc = "write"
    BY <1>3 DEF WriteHit, WriteRest
  <2> QED
    BY <2>1 DEF RangesSorted, ZonesCover, ZonesTight, Tight, NoZonesYet, HitsOpen
<1>4. CASE NothingProtected
  <2>1. /\ input' = input /\ zones = <<>> /\ zones' = zones /\ input.ranges = <<>>
        /\ pc' = "done" /\ hits' = hits
    BY <1>4 DEF NothingProtected, NoZonesYet
  <2>2. DOMAIN input.ranges = {} /\ DOMAIN zones = {}
    BY <2>1
  <2> QED
    BY <2>1, <2>2 DEF RangesSorted, ZonesCover, ZonesTight, Tight, NoZonesYet, HitsOpen
<1> QED
  BY <1>1, <1>2, <1>3, <1>4

-----------------------------------------------------------------------------
(* Which spans are hits, once merged, and what the pieces show of them.    *)
LEMMA LoneMerged == ASSUME IInv, OrderInv, Merged PROVE LoneHit'
<1>1. input' = input /\ hits' = hits
  BY DEF Merged
<1> SUFFICES ASSUME NEW i \in DOMAIN input.spans, Lone(i)
             PROVE  \E h \in DOMAIN hits : hits[h] = input.spans[i]
  BY <1>1 DEF LoneHit, Lone, Free
<1>2. i \in Valid(input.spans) /\ IsValid(input.spans[i])
  BY DEF Lone, Valid
<1>3. EveryStartCovered'
  BY MergedInv DEF IInv
<1>4. PICK h \in DOMAIN hits : BeginsInside(input.spans[i], hits[h])
  BY <1>1, <1>2, <1>3 DEF EveryStartCovered, Merged
<1>5. PICK j \in Valid(input.spans) : hits[h] = input.spans[j]
  BY DEF OrderInv, HitsReported
<1>6. Meet(input.spans[i], input.spans[j])
  <2>1. input.spans[i].start \in Bytes(input.spans[i])
        /\ input.spans[i].start \in Bytes(input.spans[j])
    BY <1>2, <1>4, <1>5, ReportedFacts DEF BeginsInside, Bytes
  <2> QED
    BY <2>1 DEF Meet
<1>7. j = i
  BY <1>5, <1>6, ReportedFacts DEF Lone
<1> QED
  BY <1>5, <1>7

LEMMA LoneTakeBack == ASSUME IInv, ZonesTight, LoneHit, TakeBack PROVE LoneHit'
<1>1. input' = input /\ pc = "coalesce"
  BY DEF TakeBack
<1> SUFFICES ASSUME NEW i \in DOMAIN input.spans, Lone(i)
             PROVE  \E h \in DOMAIN hits' : hits'[h] = input.spans[i]
  BY <1>1 DEF LoneHit, Lone, Free
<1>2. PICK g \in DOMAIN hits : hits[g] = input.spans[i]
  BY <1>1 DEF LoneHit
<1>3. g \in Open
  BY <1>2, FreeOfZones DEF Open, Lone
<1> QED
  BY <1>2, <1>3, LeftOver

LEMMA PiecesWriteHit == ASSUME IInv, MaskedAreHits, HitsMasked, WriteHit
                        PROVE  MaskedAreHits' /\ HitsMasked'
<1> DEFINE s == hits[written + 1]
           n == Len(out)
<1>1. /\ hits' = hits /\ written' = written + 1 /\ written \in Nat
      /\ pc' \notin {"protect", "coalesce", "done"}
  BY DEF WriteHit, IInv, TypeOK
<1>2. /\ DOMAIN out' = 1 .. n + 2 /\ n \in Nat /\ DOMAIN out = 1 .. n
      /\ out'[n + 1] = Copied(prev, s.start) /\ out'[n + 2] = Masked(s)
      /\ \A i \in 1 .. n : out'[i] = out[i]
  <2>1. out \in Seq(Piece) /\ out' = out \o <<Copied(prev, s.start), Masked(s)>>
    BY DEF WriteHit, IInv, TypeOK
  <2> HIDE DEF s
  <2> QED
    BY <2>1
<1>3. MaskedAreHits'
  <2> SUFFICES ASSUME NEW i \in DOMAIN out', out'[i].kind = "masked"
               PROVE  \E h \in 1 .. written + 1 : out'[i] = Masked(hits[h])
    BY <1>1 DEF MaskedAreHits, Masked
  <2>1. CASE i \in 1 .. n
    BY <1>1, <1>2, <2>1 DEF MaskedAreHits
  <2>2. i # n + 1
    BY <1>2 DEF Copied
  <2>3. CASE i = n + 2
    BY <1>1, <1>2, <2>3
  <2> QED
    BY <1>2, <2>1, <2>2, <2>3
<1>4. HitsMasked'
  <2>1. ASSUME NEW h \in 1 .. written + 1
        PROVE  \E i \in DOMAIN out' : out'[i] = Masked(hits[h])
    <3>1. CASE h \in 1 .. written
      BY <1>2, <3>1 DEF HitsMasked
    <3>2. CASE h = written + 1
      <4>1. n + 2 \in DOMAIN out'
        BY <1>2
      <4> QED
        BY <1>2, <3>2, <4>1
    <3> QED
      BY <1>1, <3>1, <3>2
  <2> QED
    BY <1>1, <2>1 DEF HitsMasked, Masked
<1> QED
  BY <1>3, <1>4

LEMMA PiecesWriteRest == ASSUME IInv, MaskedAreHits, HitsMasked, WriteRest
                         PROVE  MaskedAreHits' /\ HitsMasked'
<1>1. hits' = hits /\ written' = written /\ written = Len(hits)
  BY DEF WriteRest
<1>2. /\ DOMAIN out' = 1 .. Len(out) + 1 /\ DOMAIN out = 1 .. Len(out) /\ Len(out) \in Nat
      /\ out'[Len(out) + 1] = Copied(prev, TextLen)
      /\ \A i \in 1 .. Len(out) : out'[i] = out[i]
  BY DEF WriteRest, IInv, TypeOK
<1>3. out'[Len(out) + 1].kind = "copied"
  BY <1>2 DEF Copied
<1>4. MaskedAreHits'
  <2>1. \A i \in DOMAIN out' : out'[i].kind = "masked" => i \in DOMAIN out /\ out'[i] = out[i]
    BY <1>2, <1>3
  <2> QED
    BY <1>1, <2>1 DEF MaskedAreHits, Masked
<1>5. HitsMasked'
  <2>1. \A i \in DOMAIN out : i \in DOMAIN out' /\ out'[i] = out[i]
    BY <1>2
  <2> QED
    BY <1>1, <2>1 DEF HitsMasked, Masked
<1> QED
  BY <1>4, <1>5

-----------------------------------------------------------------------------
(* Each part is kept by every step.                                        *)
LEMMA PInvInit == ASSUME Init PROVE PInv
<1>1. OrderInv
  BY DEF Init, OrderInv, Arranged, HitsReported, HitsLongest
<1>2. ZoneInv
  BY DEF Init, ZoneInv, RangesSorted, ZonesCover, ZonesTight, NoZonesYet, HitsOpen
<1>3. PieceInv
  BY DEF Init, PieceInv, LoneHit, MaskedAreHits, HitsMasked
<1> QED
  BY <1>1, <1>2, <1>3 DEF PInv

LEMMA OrderStep == ASSUME IInv, OrderInv, [Next]_vars PROVE OrderInv'
<1>1. CASE TakeBack
  <2>1. \A h \in DOMAIN hits' : \E g \in DOMAIN hits : hits'[h] = hits[g]
    BY <1>1, LeftOver DEF Open
  <2>2. input' = input /\ pc' = "rewrite"
    BY <1>1 DEF TakeBack
  <2> QED
    BY <2>1, <2>2 DEF OrderInv, Arranged, HitsReported, HitsLongest
<1>2. CASE \/ Merged \/ WriteHit \/ WriteRest \/ NothingProtected \/ SortRanges
           \/ NewZone \/ WidenZone \/ AllOpen
  <2>1. input' = input /\ hits' = hits /\ pc' # "merge"
    BY <1>2 DEF Merged, WriteHit, WriteRest, NothingProtected, SortRanges, NewZone,
       WidenZone, AllOpen
  <2> QED
    BY <2>1 DEF OrderInv, Arranged, HitsReported, HitsLongest
<1>3. CASE UNCHANGED vars
  <2>1. input' = input /\ hits' = hits /\ pc' = pc /\ todo' = todo
    BY <1>3 DEF vars
  <2> QED
    BY <2>1 DEF OrderInv, Arranged, Remaining, HitsReported, HitsLongest
<1> QED
  BY <1>1, <1>2, <1>3, OrderSort, OrderKeep, OrderDrop DEF Next, Done

LEMMA ZoneStep == ASSUME IInv, ZoneInv, [Next]_vars PROVE ZoneInv'
BY ZonesSort, ZonesNew, ZonesWiden, ZonesDecide, ZonesSame DEF Next, Done

LEMMA PieceStep == ASSUME IInv, PInv, [Next]_vars PROVE PieceInv'
<1> USE DEF PieceInv, PInv
<1>1. LoneHit'
  <2>1. CASE \/ WriteHit \/ WriteRest \/ NothingProtected \/ SortRanges
             \/ NewZone \/ WidenZone \/ AllOpen \/ UNCHANGED vars
    <3>1. input' = input /\ hits' = hits /\ (pc \in {"sort", "merge"} => pc' = pc)
      BY <2>1 DEF WriteHit, WriteRest, NothingProtected, SortRanges, NewZone, WidenZone,
         AllOpen, vars
    <3> QED
      BY <3>1 DEF LoneHit, Lone, Free
  <2>2. CASE SortSpans \/ KeepSpan \/ DropSpan
    BY <2>2 DEF SortSpans, KeepSpan, DropSpan, LoneHit
  <2> QED
    BY <2>1, <2>2, LoneMerged, LoneTakeBack DEF Next, Done, ZoneInv
<1>2. MaskedAreHits' /\ HitsMasked'
  <2>1. CASE SortSpans \/ KeepSpan \/ DropSpan \/ TakeBack
    <3>1. written' = 0 /\ out' = <<>> /\ pc' \notin {"protect", "coalesce", "done"}
      BY <2>1 DEF SortSpans, KeepSpan, DropSpan, TakeBack, Rewind, IInv, Writing
    <3> QED
      BY <3>1 DEF MaskedAreHits, HitsMasked
  <2>2. CASE \/ Merged \/ NothingProtected \/ SortRanges \/ NewZone \/ WidenZone
             \/ AllOpen \/ UNCHANGED vars
    <3>1. /\ written' = written /\ out' = out /\ hits' = hits
          /\ pc' \in {"protect", "coalesce", "done"} => pc \in {"protect", "coalesce", "done"}
      BY <2>2 DEF Merged, NothingProtected, SortRanges, NewZone, WidenZone, AllOpen, vars
    <3> QED
      BY <3>1 DEF MaskedAreHits, HitsMasked, Masked
  <2> QED
    BY <2>1, <2>2, PiecesWriteHit, PiecesWriteRest DEF Next, Done
<1> QED
  BY <1>1, <1>2

(* The second invariant holds in every reachable state.                    *)
THEOREM PartsInductive == Spec => []PInv
<1>1. IInv /\ PInv /\ [Next]_vars => PInv'
  BY OrderStep, ZoneStep, PieceStep DEF PInv
<1> QED
  BY <1>1, PInvInit, Inductive, PTL DEF Spec

(* Of spans that start together mergeSpans keeps the longest, and of equal *)
(* ones the first reported.                                                *)
THEOREM LongestCorrect == Spec => []LongestFirst
<1>1. PInv => LongestFirst
  BY DEF PInv, OrderInv, HitsLongest, Chosen, LongestFirst, Valid
<1> QED
  BY <1>1, PartsInductive, PTL

(* No byte of a protected range is replaced.                               *)
THEOREM ProtectedCorrect == Spec => []ProtectedKept
<1>1. IInv /\ PInv => ProtectedKept
  <2> SUFFICES ASSUME IInv, PInv, pc = "done",
                      NEW i \in DOMAIN out, out[i].kind = "masked",
                      NEW m \in DOMAIN input.ranges, Meet(out[i], input.ranges[m])
               PROVE  FALSE
    BY DEF ProtectedKept, Free
  <2>1. PICK h \in 1 .. written : out[i] = Masked(hits[h])
    BY DEF PInv, PieceInv, MaskedAreHits
  <2>2. h \in DOMAIN hits
    BY DEF IInv, TypeOK
  <2>3. PICK z \in DOMAIN zones : Contains(zones[z], input.ranges[m])
    BY DEF PInv, ZoneInv, ZonesCover
  <2>4. ~Overlap(hits[h], zones[z])
    BY <2>2 DEF PInv, ZoneInv, HitsOpen
  <2>5. PICK b : b \in Bytes(out[i]) /\ b \in Bytes(input.ranges[m])
    BY DEF Meet
  <2>6. /\ b \in Int /\ hits[h].start <= b /\ b < hits[h].end
        /\ zones[z].start <= b /\ b < zones[z].end
    <3>1. out[i].start = hits[h].start /\ out[i].end = hits[h].end
      BY <2>1 DEF Masked
    <3> QED
      BY <2>2, <2>3, <2>5, <3>1, HitFacts, ZoneFacts, RangeFacts DEF Bytes, Contains
  <2> QED
    BY <2>2, <2>4, <2>6, HitFacts, ZoneFacts DEF Overlap
<1> QED
  BY <1>1, Inductive, PartsInductive, PTL

(* A span that meets no other and no protected range is replaced.          *)
THEOREM UnprotectedCorrect == Spec => []UnprotectedMasked
<1>1. IInv /\ PInv => UnprotectedMasked
  <2> SUFFICES ASSUME IInv, PInv, pc = "done", NEW i \in DOMAIN input.spans, Lone(i)
               PROVE  \E k \in DOMAIN out : out[k] = Masked(input.spans[i])
    BY DEF UnprotectedMasked, Lone, Valid
  <2>1. PICK h \in DOMAIN hits : hits[h] = input.spans[i]
    BY DEF PInv, PieceInv, LoneHit
  <2>2. h \in 1 .. written
    BY DEF PInv, PieceInv, HitsMasked, IInv, TypeOK
  <2> QED
    BY <2>1, <2>2 DEF PInv, PieceInv, HitsMasked
<1> QED
  BY <1>1, Inductive, PartsInductive, PTL
=============================================================================
