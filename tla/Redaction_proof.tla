-------------------------- MODULE Redaction_proof --------------------------
(***************************************************************************)
(* What module Redaction promises, for every set of labels, texts, bodies  *)
(* and answers.  The inductive invariant says how the four records that    *)
(* the code keeps of one text (seen, mapping, entities and the text        *)
(* written) hang together, during the walk and after the gateway's filter. *)
(***************************************************************************)
EXTENDS Redaction, TLAPS

(* A name in use was handed out by its label's counter.                    *)
NamesCounted ==
  \A k \in DOMAIN seen : /\ seen[k].label = k.label
                         /\ seen[k].idx < counters[k.label]

(* No two values share a name.                                             *)
NamesDistinct ==
  \A k, l \in DOMAIN seen : seen[k] = seen[l] => k = l

(* A hit is a detected cell already passed, under the name of its value.   *)
HitsNamed ==
  \A e \in entities :
    /\ e.pos \in 1 .. pos
    /\ e.pos \in Spans
    /\ e.label = body[e.pos].label
    /\ e.text = body[e.pos].text
    /\ Key(e) \in DOMAIN seen
    /\ seen[Key(e)] = e.placeholder
    /\ pc # "redact" => ~body[e.pos].protected

(* Every detected cell already passed is a hit, until the filter drops the *)
(* protected ones.                                                         *)
SpansHit ==
  \A k \in 1 .. pos :
    k \in Spans /\ (pc # "redact" => ~body[k].protected)
      => \E e \in entities : e.pos = k

(* During the walk the map is seen turned around.                          *)
MappingOfSeen ==
  pc = "redact" =>
    /\ \A k \in DOMAIN seen : /\ seen[k] \in DOMAIN mapping
                              /\ mapping[seen[k]] = k.text
    /\ \A p \in DOMAIN mapping : \E k \in DOMAIN seen : seen[k] = p

(* The text written: a name at every hit, the body everywhere else.        *)
Written ==
  /\ Len(redacted) = pos
  /\ \A k \in 1 .. pos :
       IF k \in Spans /\ (pc # "redact" => ~body[k].protected)
       THEN \E e \in entities : e.pos = k /\ redacted[k] = e.placeholder
       ELSE redacted[k] = body[k].text
  /\ pc # "redact" => pos = Len(body)

RestoredFromReply ==
  pc = "restored" => restored = RestoreText(reply, mapping)

IInv ==
  /\ TypeOK
  /\ NamesCounted
  /\ NamesDistinct
  /\ HitsNamed
  /\ SpansHit
  /\ MappingOfSeen
  /\ MappingExact
  /\ Written
  /\ RestoredFromReply

-----------------------------------------------------------------------------
(* Types of the cell the walk stands at.                                   *)
LEMMA CellType ==
  ASSUME TypeOK, NEW k \in DOMAIN body
  PROVE  /\ body[k] \in Cell
         /\ body[k].text \in Token
         /\ k \in Spans => body[k].label \in Labels /\ body[k].text \in Texts
         /\ k \notin Spans => body[k].label = NoLabel
         /\ k \in 1 .. Len(body)
  <1>1. body[k] \in Cell /\ k \in 1 .. Len(body)
    BY DEF TypeOK
  <1>2. body[k].text \in Token
    BY <1>1 DEF Cell, Token
  <1>3. ASSUME k \in Spans
        PROVE  body[k].label \in Labels /\ body[k].text \in Texts
    BY <1>1, <1>3 DEF Cell, Spans
  <1>4. k \notin Spans => body[k].label = NoLabel
    BY DEF Spans
  <1> QED
    BY <1>1, <1>2, <1>3, <1>4

(* Two hits on one cell are one hit.                                       *)
LEMMA OneHit ==
  ASSUME TypeOK, HitsNamed, NEW e \in entities, NEW f \in entities, e.pos = f.pos
  PROVE  e = f
  <1>1. e \in Entity /\ f \in Entity
    BY DEF TypeOK
  <1>2. e.label = f.label /\ e.text = f.text
    BY DEF HitsNamed
  <1>3. e.placeholder = f.placeholder
    BY <1>2 DEF HitsNamed, Key
  <1> QED
    BY <1>1, <1>2, <1>3 DEF Entity

(* Two hits carry the same placeholder exactly when they carry the same    *)
(* label and the same original.                                            *)
LEMMA IdentityFromNames ==
  ASSUME NamesDistinct, HitsNamed
  PROVE  PlaceholderIdentity
  <1> SUFFICES ASSUME NEW e \in entities, NEW f \in entities
               PROVE  e.placeholder = f.placeholder <=> e.label = f.label /\ e.text = f.text
    BY DEF PlaceholderIdentity
  <1>1. /\ Key(e) \in DOMAIN seen /\ seen[Key(e)] = e.placeholder
        /\ Key(f) \in DOMAIN seen /\ seen[Key(f)] = f.placeholder
    BY DEF HitsNamed
  <1>2. e.label = f.label /\ e.text = f.text => e.placeholder = f.placeholder
    BY <1>1 DEF Key
  <1>3. e.placeholder = f.placeholder => Key(e) = Key(f)
    BY <1>1 DEF NamesDistinct
  <1>4. Key(e) = Key(f) => e.label = f.label /\ e.text = f.text
    BY DEF Key
  <1> QED
    BY <1>2, <1>3, <1>4

LEMMA InitIInv == Init => IInv
  <1> SUFFICES ASSUME Init PROVE IInv
    OBVIOUS
  <1> USE DEF Init
  <1>1. /\ DOMAIN seen = {} /\ DOMAIN mapping = {}
        /\ Len(redacted) = 0 /\ redacted = <<>>
    OBVIOUS
  <1>2. body \in Seq(Cell) /\ Len(body) \in Nat
    BY RedactionAssumption
  <1>3. TypeOK
    BY <1>1, <1>2 DEF TypeOK
  <1>4. NamesCounted /\ NamesDistinct
    BY <1>1 DEF NamesCounted, NamesDistinct
  <1>5. HitsNamed /\ SpansHit
    BY DEF HitsNamed, SpansHit
  <1>6. MappingOfSeen /\ MappingExact
    BY <1>1 DEF MappingOfSeen, MappingExact, PlaceholdersOf
  <1>7. Written /\ RestoredFromReply
    BY <1>1 DEF Written, RestoredFromReply
  <1> QED
    BY <1>3, <1>4, <1>5, <1>6, <1>7 DEF IInv
-----------------------------------------------------------------------------
(* What one more cell adds to the text written.                            *)
LEMMA AppendProps ==
  ASSUME NEW s \in Seq(Token), NEW x \in Token
  PROVE  /\ Append(s, x) \in Seq(Token)
         /\ Len(Append(s, x)) = Len(s) + 1
         /\ \A i \in 1 .. Len(s) : Append(s, x)[i] = s[i]
         /\ Append(s, x)[Len(s) + 1] = x
  OBVIOUS

LEMMA CopyGapIInv == IInv /\ CopyGap => IInv'
  <1> SUFFICES ASSUME IInv, CopyGap PROVE IInv'
    OBVIOUS
  <1> DEFINE n == pos + 1
  <1>1. /\ n \in DOMAIN body /\ n \notin Spans /\ pos' = n /\ pc = "redact"
        /\ redacted' = Append(redacted, body[n].text)
        /\ UNCHANGED <<pc, body, seen, counters, mapping, entities, reply, restored>>
    BY DEF CopyGap
  <1>2. Spans' = Spans
    BY <1>1 DEF Spans
  <1>3. /\ TypeOK /\ pos \in Nat /\ Len(redacted) = pos /\ redacted \in Seq(Token)
        /\ body[n].text \in Token /\ n \in 1 .. Len(body) /\ Len(body) \in Nat
    BY <1>1, CellType DEF IInv, Written, TypeOK
  <1>4. /\ redacted' \in Seq(Token) /\ Len(redacted') = n
        /\ \A i \in 1 .. pos : redacted'[i] = redacted[i]
        /\ redacted'[n] = body[n].text
    BY <1>1, <1>3, AppendProps
  <1>5. TypeOK'
    BY <1>1, <1>3, <1>4 DEF TypeOK
  <1>6. NamesCounted' /\ NamesDistinct'
    BY <1>1 DEF IInv, NamesCounted, NamesDistinct
  <1>7. HitsNamed'
    <2> SUFFICES ASSUME NEW e \in entities
                 PROVE  /\ e.pos \in 1 .. n
                        /\ e.pos \in Spans
                        /\ e.label = body[e.pos].label
                        /\ e.text = body[e.pos].text
                        /\ Key(e) \in DOMAIN seen
                        /\ seen[Key(e)] = e.placeholder
      BY <1>1, <1>2 DEF HitsNamed, Key
    <2> QED
      BY <1>3 DEF IInv, HitsNamed
  <1>8. SpansHit'
    BY <1>1, <1>2, <1>3 DEF IInv, SpansHit
  <1>9. MappingOfSeen' /\ MappingExact' /\ RestoredFromReply'
    BY <1>1 DEF IInv, MappingOfSeen, MappingExact, PlaceholdersOf, RestoredFromReply
  <1>10. Written'
    BY <1>1, <1>2, <1>3, <1>4 DEF IInv, Written
  <1> QED
    BY <1>5, <1>6, <1>7, <1>8, <1>9, <1>10 DEF IInv

(* The part of the step that both placeholder actions take: the cell       *)
(* becomes a hit under a name that seen knows.                             *)
LEMMA EmitIInv ==
  ASSUME IInv, pc = "redact", pos + 1 \in Spans, NEW p \in Placeholder,
         Emit(body[pos + 1], p),
         UNCHANGED <<pc, body, reply, restored>>,
         Key(body[pos + 1]) \in DOMAIN seen',
         seen'[Key(body[pos + 1])] = p,
         \A k \in DOMAIN seen : k \in DOMAIN seen' /\ seen'[k] = seen[k]
  PROVE  /\ HitsNamed' /\ SpansHit' /\ Written' /\ RestoredFromReply'
         /\ redacted' \in Seq(Token)
         /\ entities' \subseteq Entity
         /\ pos' \in 0 .. Len(body)
         /\ PlaceholdersOf(entities') = PlaceholdersOf(entities) \cup {p}
         /\ \A e \in entities' : e \in entities \/ (e.placeholder = p /\ e.text = body[pos + 1].text)
  <1> DEFINE n == pos + 1
             hit == [pos |-> n, label |-> body[n].label, text |-> body[n].text,
                     placeholder |-> p]
  <1>1. /\ redacted' = Append(redacted, p)
        /\ entities' = entities \cup {hit}
        /\ pos' = n
    BY DEF Emit
  <1>2. Spans' = Spans
    BY DEF Spans
  <1>3. n \in DOMAIN body
    BY DEF Spans
  <1>4. /\ TypeOK /\ pos \in Nat /\ Len(redacted) = pos /\ redacted \in Seq(Token)
        /\ body[n].label \in Labels /\ body[n].text \in Texts /\ n \in 1 .. Len(body)
        /\ Len(body) \in Nat
    BY <1>3, CellType DEF IInv, Written, TypeOK
  <1>5. p \in Token
    BY DEF Token
  <1>6. /\ redacted' \in Seq(Token) /\ Len(redacted') = n
        /\ \A i \in 1 .. pos : redacted'[i] = redacted[i]
        /\ redacted'[n] = p
    BY <1>1, <1>4, <1>5, AppendProps
  <1>7. hit \in Entity /\ n \in Nat
    BY <1>4 DEF Entity
  <1>8. entities' \subseteq Entity
    BY <1>1, <1>4, <1>7 DEF TypeOK
  <1>9. Key(hit) = Key(body[n])
    BY DEF Key
  <1>10. HitsNamed'
    <2> SUFFICES ASSUME NEW e \in entities'
                 PROVE  /\ e.pos \in 1 .. n
                        /\ e.pos \in Spans
                        /\ e.label = body[e.pos].label
                        /\ e.text = body[e.pos].text
                        /\ Key(e) \in DOMAIN seen'
                        /\ seen'[Key(e)] = e.placeholder
      BY <1>1, <1>2 DEF HitsNamed, Key
    <2>1. CASE e \in entities
      BY <2>1, <1>4 DEF IInv, HitsNamed
    <2>2. CASE e = hit
      BY <2>2, <1>4, <1>9
    <2> QED
      BY <1>1, <2>1, <2>2
  <1>11. SpansHit'
    <2> SUFFICES ASSUME NEW k \in 1 .. n, k \in Spans
                 PROVE  \E e \in entities' : e.pos = k
      BY <1>1, <1>2 DEF SpansHit
    <2>1. CASE k = n
      <3>1. hit \in entities' /\ hit.pos = k
        BY <2>1, <1>1
      <3> QED
        BY <3>1
    <2>2. CASE k \in 1 .. pos
      BY <2>2, <1>1 DEF IInv, SpansHit
    <2> QED
      BY <1>4, <2>1, <2>2
  <1>12. Written'
    <2> SUFFICES ASSUME NEW k \in 1 .. n
                 PROVE  IF k \in Spans
                        THEN \E e \in entities' : e.pos = k /\ redacted'[k] = e.placeholder
                        ELSE redacted'[k] = body[k].text
      BY <1>1, <1>2, <1>6 DEF Written
    <2>1. CASE k = n
      <3>1. hit \in entities' /\ hit.pos = k /\ redacted'[k] = hit.placeholder
        BY <2>1, <1>1, <1>6
      <3> QED
        BY <3>1, <2>1
    <2>2. CASE k \in 1 .. pos
      BY <2>2, <1>1, <1>6 DEF IInv, Written
    <2> QED
      BY <1>4, <2>1, <2>2
  <1>13. RestoredFromReply'
    BY DEF RestoredFromReply
  <1>14. PlaceholdersOf(entities') = PlaceholdersOf(entities) \cup {p}
    <2>1. hit.placeholder = p /\ hit \in entities'
      BY <1>1
    <2> QED
      BY <1>1, <2>1 DEF PlaceholdersOf
  <1>15. \A e \in entities' : e \in entities \/ (e.placeholder = p /\ e.text = body[n].text)
    <2>1. hit.placeholder = p /\ hit.text = body[n].text
      OBVIOUS
    <2> QED
      BY <1>1, <2>1
  <1>16. pos' \in 0 .. Len(body)
    BY <1>1, <1>4
  <1> QED
    BY <1>6, <1>8, <1>10, <1>11, <1>12, <1>13, <1>14, <1>15, <1>16

LEMMA ReusePlaceholderIInv == IInv /\ ReusePlaceholder => IInv'
  <1> SUFFICES ASSUME IInv, ReusePlaceholder PROVE IInv'
    OBVIOUS
  <1> DEFINE cell == body[pos + 1]
             p    == seen[Key(cell)]
  <1>1. /\ pc = "redact" /\ pos + 1 \in Spans /\ Key(cell) \in DOMAIN seen
        /\ Emit(cell, p)
        /\ UNCHANGED <<pc, body, seen, counters, mapping, reply, restored>>
    BY DEF ReusePlaceholder
  <1>2. p \in Placeholder /\ TypeOK
    BY <1>1 DEF IInv, TypeOK
  <1>3. /\ HitsNamed' /\ SpansHit' /\ Written' /\ RestoredFromReply'
        /\ redacted' \in Seq(Token)
        /\ entities' \subseteq Entity
        /\ pos' \in 0 .. Len(body)
        /\ PlaceholdersOf(entities') = PlaceholdersOf(entities) \cup {p}
        /\ \A e \in entities' : e \in entities \/ (e.placeholder = p /\ e.text = cell.text)
    BY <1>1, <1>2, EmitIInv
  <1>4. TypeOK'
    BY <1>1, <1>2, <1>3 DEF TypeOK
  <1>5. NamesCounted' /\ NamesDistinct' /\ MappingOfSeen'
    BY <1>1 DEF IInv, NamesCounted, NamesDistinct, MappingOfSeen
  <1>6. MappingExact'
    <2>1. p \in DOMAIN mapping /\ mapping[p] = Key(cell).text /\ Key(cell).text = cell.text
      BY <1>1 DEF IInv, MappingOfSeen, Key
    <2> QED
      BY <1>1, <1>3, <2>1 DEF IInv, MappingExact
  <1> QED
    BY <1>3, <1>4, <1>5, <1>6 DEF IInv

LEMMA NewPlaceholderIInv == IInv /\ NewPlaceholder => IInv'
  <1> SUFFICES ASSUME IInv, NewPlaceholder PROVE IInv'
    OBVIOUS
  <1> DEFINE cell == body[pos + 1]
             key  == Key(cell)
             p    == IndexedPlaceholder(cell.label, counters[cell.label])
  <1>1. /\ pc = "redact" /\ pos + 1 \in Spans /\ key \notin DOMAIN seen
        /\ counters' = [counters EXCEPT ![cell.label] = @ + 1]
        /\ seen' = With(seen, key, p)
        /\ mapping' = With(mapping, p, cell.text)
        /\ Emit(cell, p)
        /\ UNCHANGED <<pc, body, reply, restored>>
    BY DEF NewPlaceholder
  <1>2. TypeOK /\ pos + 1 \in DOMAIN body
    BY <1>1 DEF IInv, Spans
  <1>3. cell.label \in Labels /\ cell.text \in Texts
    BY <1>1, <1>2, CellType
  <1>4. /\ p \in Placeholder /\ p.label = cell.label /\ p.idx = counters[cell.label]
        /\ key \in [label : Labels, text : Texts] /\ key.label = cell.label /\ key.text = cell.text
        /\ counters \in [Labels -> Nat] /\ counters[cell.label] \in Nat
    BY <1>2, <1>3 DEF TypeOK, IndexedPlaceholder, Placeholder, Key
  <1>5. /\ DOMAIN seen' = DOMAIN seen \cup {key} /\ seen'[key] = p
        /\ \A k \in DOMAIN seen : seen'[k] = seen[k]
    BY <1>1 DEF With
  <1>6. /\ DOMAIN mapping' = DOMAIN mapping \cup {p} /\ mapping'[p] = cell.text
        /\ \A q \in DOMAIN mapping : q # p => mapping'[q] = mapping[q]
    BY <1>1 DEF With
  <1>7. /\ counters' \in [Labels -> Nat]
        /\ \A l \in Labels : counters'[l] = IF l = cell.label THEN counters[l] + 1 ELSE counters[l]
    BY <1>1, <1>3, <1>4
  <1>8. /\ HitsNamed' /\ SpansHit' /\ Written' /\ RestoredFromReply'
        /\ redacted' \in Seq(Token)
        /\ entities' \subseteq Entity
        /\ pos' \in 0 .. Len(body)
        /\ PlaceholdersOf(entities') = PlaceholdersOf(entities) \cup {p}
        /\ \A e \in entities' : e \in entities \/ (e.placeholder = p /\ e.text = cell.text)
    BY <1>1, <1>4, <1>5, EmitIInv
  (* The counter makes the name new.                                       *)
  <1>9. \A k \in DOMAIN seen : seen[k] # p
    <2> SUFFICES ASSUME NEW k \in DOMAIN seen, seen[k] = p PROVE FALSE
      OBVIOUS
    <2>1. k.label = cell.label /\ seen[k].idx < counters[k.label]
      BY <1>4 DEF IInv, NamesCounted
    <2> QED
      BY <1>4, <2>1
  <1>10. p \notin DOMAIN mapping
    BY <1>1, <1>9 DEF IInv, MappingOfSeen
  <1>11. TypeOK'
    <2>1. DOMAIN seen' \subseteq [label : Labels, text : Texts]
      BY <1>2, <1>4, <1>5 DEF TypeOK
    <2>2. \A k \in DOMAIN seen' : seen'[k] \in Placeholder
      BY <1>2, <1>4, <1>5 DEF TypeOK
    <2>3. DOMAIN mapping' \subseteq Placeholder
      BY <1>2, <1>4, <1>6 DEF TypeOK
    <2>4. \A q \in DOMAIN mapping' : mapping'[q] \in Texts
      BY <1>2, <1>3, <1>6 DEF TypeOK
    <2>5. /\ pc' \in {"redact", "filtered", "replied", "restored"}
          /\ body' \in Seq(Cell) /\ pos' \in 0 .. Len(body')
          /\ reply' \in Seq(Token) /\ restored' \in Seq(Token)
      BY <1>1, <1>2, <1>8 DEF TypeOK
    <2> QED
      BY <2>1, <2>2, <2>3, <2>4, <2>5, <1>7, <1>8 DEF TypeOK
  <1>12. NamesCounted'
    <2> SUFFICES ASSUME NEW k \in DOMAIN seen'
                 PROVE  seen'[k].label = k.label /\ seen'[k].idx < counters'[k.label]
      BY DEF NamesCounted
    <2>1. CASE k = key
      BY <2>1, <1>3, <1>4, <1>5, <1>7
    <2>2. CASE k \in DOMAIN seen
      <3>1. k.label \in Labels /\ seen[k].idx \in Nat /\ counters[k.label] \in Nat
        BY <2>2, <1>2, <1>4 DEF TypeOK, Placeholder
      <3>2. seen[k].label = k.label /\ seen[k].idx < counters[k.label]
        BY <2>2 DEF IInv, NamesCounted
      <3> QED
        BY <3>1, <3>2, <2>2, <1>5, <1>7
    <2> QED
      BY <1>5, <2>1, <2>2
  <1>13. NamesDistinct'
    BY <1>5, <1>9 DEF IInv, NamesDistinct
  <1>14. MappingOfSeen'
    <2>1. ASSUME NEW k \in DOMAIN seen'
          PROVE  seen'[k] \in DOMAIN mapping' /\ mapping'[seen'[k]] = k.text
      <3>1. CASE k = key
        BY <3>1, <1>4, <1>5, <1>6
      <3>2. CASE k \in DOMAIN seen
        <4>1. seen[k] \in DOMAIN mapping /\ mapping[seen[k]] = k.text
          BY <3>2, <1>1 DEF IInv, MappingOfSeen
        <4>2. seen[k] # p
          BY <3>2, <1>9
        <4> QED
          BY <3>2, <4>1, <4>2, <1>5, <1>6
      <3> QED
        BY <2>1, <3>1, <3>2, <1>5
    <2>2. ASSUME NEW q \in DOMAIN mapping'
          PROVE  \E k \in DOMAIN seen' : seen'[k] = q
      <3>1. CASE q = p
        BY <3>1, <1>5
      <3>2. CASE q \in DOMAIN mapping
        <4>1. \E k \in DOMAIN seen : seen[k] = q
          BY <3>2, <1>1 DEF IInv, MappingOfSeen
        <4> QED
          BY <4>1, <1>5
      <3> QED
        BY <2>2, <3>1, <3>2, <1>6
    <2> QED
      BY <2>1, <2>2 DEF MappingOfSeen
  <1>15. MappingExact'
    <2>1. DOMAIN mapping' = PlaceholdersOf(entities')
      BY <1>6, <1>8 DEF IInv, MappingExact
    <2>2. ASSUME NEW e \in entities'
          PROVE  mapping'[e.placeholder] = e.text
      <3>1. CASE e \in entities
        <4>1. e.placeholder \in DOMAIN mapping /\ mapping[e.placeholder] = e.text
          BY <3>1 DEF IInv, MappingExact, PlaceholdersOf
        <4> QED
          BY <4>1, <1>6, <1>10
      <3>2. CASE e.placeholder = p /\ e.text = cell.text
        BY <3>2, <1>6
      <3> QED
        BY <1>8, <3>1, <3>2
    <2> QED
      BY <2>1, <2>2 DEF MappingExact
  <1> QED
    BY <1>8, <1>11, <1>12, <1>13, <1>14, <1>15 DEF IInv

-----------------------------------------------------------------------------
LEMMA FilterProtectedIInv == IInv /\ FilterProtected => IInv'
  <1> SUFFICES ASSUME IInv, FilterProtected PROVE IInv'
    OBVIOUS
  <1> DEFINE kept == Unprotected(entities)
  <1>1. /\ pc = "redact" /\ pos = Len(body) /\ pc' = "filtered"
        /\ UNCHANGED <<body, pos, seen, counters, reply, restored>>
    BY DEF FilterProtected
  <1>2. TypeOK /\ Spans' = Spans /\ Len(redacted) = pos /\ pos \in Nat
    BY <1>1 DEF IInv, Spans, TypeOK, Written
  <1>3. /\ kept \subseteq entities
        /\ \A e \in entities : e \in kept <=> ~body[e.pos].protected
    BY DEF Unprotected
  <1>4. entities' = kept
    BY DEF FilterProtected
  <1>5. HitsNamed /\ NamesDistinct /\ MappingExact /\ PlaceholderIdentity
    BY IdentityFromNames DEF IInv
  <1>6. MappingExact' /\ DOMAIN mapping' \subseteq DOMAIN mapping
        /\ \A q \in DOMAIN mapping' : mapping'[q] \in Texts
    <2>1. CASE kept = entities
      BY <2>1, <1>2, <1>4, <1>5 DEF FilterProtected, MappingExact, PlaceholdersOf, TypeOK
    <2>2. CASE kept # entities
      <3>1. mapping' = MappingOf(kept)
        BY <2>2 DEF FilterProtected
      <3>2. DOMAIN mapping' = PlaceholdersOf(kept)
        BY <3>1 DEF MappingOf
      <3>3. ASSUME NEW e \in kept
            PROVE  mapping'[e.placeholder] = e.text
        <4> DEFINE f == CHOOSE f \in kept : f.placeholder = e.placeholder
        <4>1. f \in kept /\ f.placeholder = e.placeholder
          OBVIOUS
        <4>2. f.text = e.text
          BY <4>1, <1>3, <1>5 DEF PlaceholderIdentity
        <4>3. e.placeholder \in PlaceholdersOf(kept)
          BY DEF PlaceholdersOf
        <4> QED
          BY <3>1, <4>2, <4>3 DEF MappingOf
      <3>4. MappingExact'
        BY <1>4, <3>2, <3>3 DEF MappingExact, PlaceholdersOf
      <3>5. PlaceholdersOf(kept) \subseteq PlaceholdersOf(entities)
        BY <1>3 DEF PlaceholdersOf
      <3>6. ASSUME NEW q \in DOMAIN mapping'
            PROVE  mapping'[q] \in Texts
        <4>1. PICK e \in kept : e.placeholder = q
          BY <3>2 DEF PlaceholdersOf
        <4>2. e \in Entity
          BY <1>2, <1>3 DEF TypeOK
        <4> QED
          BY <3>3, <4>1, <4>2 DEF Entity
      <3> QED
        BY <3>2, <3>4, <3>5, <3>6, <1>5 DEF MappingExact
    <2> QED
      BY <2>1, <2>2
  <1>7. HitsNamed'
    <2> SUFFICES ASSUME NEW e \in kept
                 PROVE  /\ e.pos \in 1 .. pos
                        /\ e.pos \in Spans
                        /\ e.label = body[e.pos].label
                        /\ e.text = body[e.pos].text
                        /\ Key(e) \in DOMAIN seen
                        /\ seen[Key(e)] = e.placeholder
                        /\ ~body[e.pos].protected
      BY <1>1, <1>2, <1>4 DEF HitsNamed, Key
    <2> QED
      BY <1>3, <1>5 DEF HitsNamed
  <1>8. SpansHit'
    <2> SUFFICES ASSUME NEW k \in 1 .. pos, k \in Spans, ~body[k].protected
                 PROVE  \E e \in kept : e.pos = k
      BY <1>1, <1>2, <1>4 DEF SpansHit
    <2>1. PICK e \in entities : e.pos = k
      BY <1>1 DEF IInv, SpansHit
    <2> QED
      BY <2>1, <1>3
  (* Before the filter: a name at every detected cell.                     *)
  <1>9. ASSUME NEW k \in 1 .. pos
        PROVE  IF k \in Spans
               THEN \E e \in entities : e.pos = k /\ redacted[k] = e.placeholder
               ELSE redacted[k] = body[k].text
    BY <1>1 DEF IInv, Written
  <1>10. /\ redacted' \in Seq(Token) /\ Len(redacted') = pos
         /\ \A k \in 1 .. pos :
              IF k \in Spans /\ ~body[k].protected
              THEN \E e \in kept : e.pos = k /\ redacted'[k] = e.placeholder
              ELSE redacted'[k] = body[k].text
    <2>1. CASE kept = entities
      <3>1. redacted' = redacted
        BY <2>1 DEF FilterProtected
      <3>2. redacted \in Seq(Token)
        BY <1>2 DEF TypeOK
      <3>3. ASSUME NEW k \in 1 .. pos
            PROVE  IF k \in Spans /\ ~body[k].protected
                   THEN \E e \in kept : e.pos = k /\ redacted[k] = e.placeholder
                   ELSE redacted[k] = body[k].text
        <4>1. CASE k \in Spans
          BY <4>1, <1>3, <1>9, <2>1
        <4>2. CASE k \notin Spans
          BY <4>2, <1>9
        <4> QED
          BY <4>1, <4>2
      <3> QED
        BY <3>1, <3>2, <3>3, <1>2
    <2>2. CASE kept # entities
      <3>1. redacted' = TextOf(kept)
        BY <2>2 DEF FilterProtected
      <3>2. DOMAIN body = 1 .. pos
        BY <1>1, <1>2 DEF TypeOK
      <3>3. ASSUME NEW k \in 1 .. pos, NEW e \in kept, e.pos = k
            PROVE  redacted'[k] = e.placeholder /\ redacted'[k] \in Token
        <4> DEFINE f == CHOOSE f \in kept : f.pos = k
        <4>1. f \in kept /\ f.pos = k
          BY <3>3
        <4>2. f = e
          BY <4>1, <3>3, <1>2, <1>3, <1>5, OneHit
        <4>3. redacted'[k] = f.placeholder
          BY <3>1, <3>2, <3>3 DEF TextOf
        <4>4. e \in Entity
          BY <1>2, <1>3 DEF TypeOK
        <4> QED
          BY <4>2, <4>3, <4>4 DEF Entity, Token
      <3>4. ASSUME NEW k \in 1 .. pos, \A e \in kept : e.pos # k
            PROVE  redacted'[k] = body[k].text /\ redacted'[k] \in Token
        <4>1. body[k].text \in Token
          BY <3>2, <1>2, CellType
        <4> QED
          BY <4>1, <3>1, <3>2, <3>4 DEF TextOf
      <3>5. redacted' \in Seq(Token) /\ Len(redacted') = pos
        <4>1. redacted' \in [1 .. pos -> Token]
          <5>1. redacted' = [k \in 1 .. pos |-> redacted'[k]]
            BY <3>1, <3>2 DEF TextOf
          <5>2. \A k \in 1 .. pos : redacted'[k] \in Token
            BY <3>3, <3>4
          <5> QED
            BY <5>1, <5>2
        <4> QED
          BY <4>1, <1>2
      <3>6. ASSUME NEW k \in 1 .. pos
            PROVE  IF k \in Spans /\ ~body[k].protected
                   THEN \E e \in kept : e.pos = k /\ redacted'[k] = e.placeholder
                   ELSE redacted'[k] = body[k].text
        <4>1. CASE k \in Spans /\ ~body[k].protected
          <5>1. PICK e \in entities : e.pos = k
            BY <4>1, <1>9
          <5>2. e \in kept
            BY <5>1, <4>1, <1>3
          <5> QED
            BY <4>1, <5>1, <5>2, <3>3
        <4>2. CASE ~(k \in Spans /\ ~body[k].protected)
          <5>1. \A e \in kept : e.pos # k
            BY <4>2, <1>3, <1>5 DEF HitsNamed
          <5> QED
            BY <4>2, <5>1, <3>4
        <4> QED
          BY <4>1, <4>2
      <3> QED
        BY <3>5, <3>6
    <2> QED
      BY <2>1, <2>2
  <1>11. Written'
    BY <1>1, <1>2, <1>4, <1>10 DEF Written
  <1>12. TypeOK'
    <2>1. DOMAIN mapping' \subseteq Placeholder
      BY <1>2, <1>6 DEF TypeOK
    <2>2. entities' \subseteq Entity
      BY <1>2, <1>3, <1>4 DEF TypeOK
    <2> QED
      BY <2>1, <2>2, <1>1, <1>2, <1>6, <1>10 DEF TypeOK
  <1>13. NamesCounted' /\ NamesDistinct' /\ MappingOfSeen' /\ RestoredFromReply'
    BY <1>1 DEF IInv, NamesCounted, NamesDistinct, MappingOfSeen, RestoredFromReply
  <1> QED
    BY <1>6, <1>7, <1>8, <1>11, <1>12, <1>13 DEF IInv

(* After the filter only the answer moves.                                 *)
LEMMA AnswerIInv ==
  ASSUME IInv, pc # "redact", pc' \in {"replied", "restored"},
         UNCHANGED <<body, pos, seen, counters, mapping, redacted, entities>>,
         reply' \in Seq(Token), restored' \in Seq(Token), RestoredFromReply'
  PROVE  IInv'
  <1>1. Spans' = Spans
    BY DEF Spans
  <1>2. TypeOK'
    BY DEF IInv, TypeOK
  <1>3. NamesCounted' /\ NamesDistinct' /\ MappingOfSeen' /\ MappingExact'
    BY DEF IInv, NamesCounted, NamesDistinct, MappingOfSeen, MappingExact, PlaceholdersOf
  <1>4. HitsNamed' /\ SpansHit' /\ Written'
    BY <1>1 DEF IInv, HitsNamed, SpansHit, Written, Key
  <1> QED
    BY <1>2, <1>3, <1>4 DEF IInv

LEMMA RestoreTextType ==
  ASSUME TypeOK, NEW text \in Seq(Token)
  PROVE  RestoreText(text, mapping) \in Seq(Token)
  <1>1. \A k \in DOMAIN text :
          (IF text[k] \in DOMAIN mapping THEN mapping[text[k]] ELSE text[k]) \in Token
    BY DEF TypeOK, Token
  <1>2. RestoreText(text, mapping) \in [1 .. Len(text) -> Token]
    BY <1>1 DEF RestoreText
  <1> QED
    BY <1>2

LEMMA NextIInv == IInv /\ [Next]_vars => IInv'
  <1> SUFFICES ASSUME IInv, [Next]_vars PROVE IInv'
    OBVIOUS
  <1>1. CASE CopyGap
    BY <1>1, CopyGapIInv
  <1>2. CASE ReusePlaceholder
    BY <1>2, ReusePlaceholderIInv
  <1>3. CASE NewPlaceholder
    BY <1>3, NewPlaceholderIInv
  <1>4. CASE FilterProtected
    BY <1>4, FilterProtectedIInv
  <1>5. CASE Reply
    <2>1. reply' \in Seq(Token) /\ restored' \in Seq(Token)
      BY <1>5, RedactionAssumption DEF Reply, IInv, TypeOK
    <2> QED
      BY <1>5, <2>1, AnswerIInv DEF Reply, RestoredFromReply
  <1>6. CASE Restore
    <2>1. reply \in Seq(Token) /\ TypeOK
      BY DEF IInv, TypeOK
    <2>2. restored' \in Seq(Token)
      BY <1>6, <2>1, RestoreTextType DEF Restore
    <2>3. RestoredFromReply'
      BY <1>6 DEF Restore, RestoredFromReply, RestoreText
    <2> QED
      BY <1>6, <2>1, <2>2, <2>3, AnswerIInv DEF Restore
  <1>7. CASE UNCHANGED vars
    BY <1>7 DEF vars, IInv, TypeOK, NamesCounted, NamesDistinct, HitsNamed, SpansHit,
       MappingOfSeen, MappingExact, Written, RestoredFromReply, PlaceholdersOf, Spans, Key
  <1> QED
    BY <1>1, <1>2, <1>3, <1>4, <1>5, <1>6, <1>7 DEF Next, Done

(* The inductive invariant holds in every reachable state.                 *)
THEOREM Invariant == Spec => []IInv
  BY InitIInv, NextIInv, PTL DEF Spec

(* Every variable keeps its type.                                          *)
THEOREM TypeCorrect == Spec => []TypeOK
  <1>1. IInv => TypeOK
    BY DEF IInv
  <1> QED
    BY <1>1, Invariant, PTL

(* Within a request a placeholder identifies one value of one type, and a  *)
(* value of a type has one placeholder (RedactReversible).                 *)
THEOREM IdentityCorrect == Spec => []PlaceholderIdentity
  <1>1. IInv => PlaceholderIdentity
    BY IdentityFromNames DEF IInv
  <1> QED
    BY <1>1, Invariant, PTL

(* The map that travels with the request is exactly the one the            *)
(* placeholders in its text need, before and after the gateway's filter.   *)
THEOREM MappingCorrect == Spec => []MappingExact
  <1>1. IInv => MappingExact
    BY DEF IInv
  <1> QED
    BY <1>1, Invariant, PTL

(* The upstream sees a placeholder for every detected value outside the    *)
(* protected ranges, and the client's own text everywhere else.            *)
THEOREM RedactionCorrect == Spec => []RedactsExactly
  <1>1. IInv => RedactsExactly
    <2> SUFFICES ASSUME IInv, pc # "redact" PROVE
                   /\ DOMAIN redacted = DOMAIN body
                   /\ \A k \in DOMAIN body :
                        IF k \in Spans /\ ~body[k].protected
                        THEN redacted[k] \in Placeholder
                        ELSE redacted[k] = body[k].text
      BY DEF RedactsExactly
    <2>1. DOMAIN redacted = 1 .. pos /\ DOMAIN body = 1 .. pos
      BY DEF IInv, TypeOK, Written
    <2>2. ASSUME NEW k \in 1 .. pos, k \in Spans, ~body[k].protected
          PROVE  redacted[k] \in Placeholder
      <3>1. PICK e \in entities : redacted[k] = e.placeholder
        BY <2>2 DEF IInv, Written
      <3> QED
        BY <3>1 DEF IInv, TypeOK, Entity
    <2> QED
      BY <2>1, <2>2 DEF IInv, Written
  <1> QED
    BY <1>1, Invariant, PTL

(* An upstream that echoes the text gives the client its own text back,    *)
(* whatever the values, unless the client typed a placeholder in use.      *)
THEOREM RoundTripCorrect == Spec => []RoundTrip
  <1>1. IInv => RoundTrip
    <2> SUFFICES ASSUME IInv, pc = "restored", reply = redacted, NoClash
                 PROVE  restored = OriginalText
      BY DEF RoundTrip
    <2>1. /\ TypeOK /\ DOMAIN redacted = 1 .. pos /\ DOMAIN body = 1 .. pos
          /\ restored = RestoreText(redacted, mapping)
      BY DEF IInv, TypeOK, Written, RestoredFromReply
    <2>2. ASSUME NEW k \in 1 .. pos
          PROVE  (IF redacted[k] \in DOMAIN mapping THEN mapping[redacted[k]] ELSE redacted[k])
                 = body[k].text
      <3>1. CASE k \in Spans /\ ~body[k].protected
        <4>1. PICK e \in entities : e.pos = k /\ redacted[k] = e.placeholder
          BY <3>1 DEF IInv, Written
        <4>2. e.placeholder \in DOMAIN mapping /\ mapping[e.placeholder] = e.text
          BY DEF IInv, MappingExact, PlaceholdersOf
        <4>3. e.text = body[k].text
          BY <4>1 DEF IInv, HitsNamed
        <4> QED
          BY <4>1, <4>2, <4>3
      <3>2. CASE ~(k \in Spans /\ ~body[k].protected)
        <4>1. redacted[k] = body[k].text
          BY <3>2 DEF IInv, Written
        <4>2. body[k].text \notin DOMAIN mapping
          BY <2>1, <3>2 DEF NoClash
        <4> QED
          BY <4>1, <4>2
      <3> QED
        BY <3>1, <3>2
    <2> QED
      BY <2>1, <2>2 DEF RestoreText, OriginalText
  <1> QED
    BY <1>1, Invariant, PTL

(* Whatever the upstream answers, exactly the placeholders of this         *)
(* request's hits become their originals; every other token is passed on.  *)
THEOREM RestoreCorrect == Spec => []RestoresMeaning
  <1>1. IInv => RestoresMeaning
    <2> SUFFICES ASSUME IInv, pc = "restored"
                 PROVE  /\ DOMAIN restored = DOMAIN reply
                        /\ \A k \in DOMAIN reply :
                             \/ \E e \in entities : e.placeholder = reply[k] /\ restored[k] = e.text
                             \/ /\ \A e \in entities : e.placeholder # reply[k]
                                /\ restored[k] = reply[k]
      BY DEF RestoresMeaning
    <2>1. restored = RestoreText(reply, mapping) /\ MappingExact
      BY DEF IInv, RestoredFromReply
    <2>2. ASSUME NEW k \in DOMAIN reply, reply[k] \in DOMAIN mapping
          PROVE  \E e \in entities : e.placeholder = reply[k] /\ restored[k] = e.text
      <3>1. PICK e \in entities : e.placeholder = reply[k]
        BY <2>1, <2>2 DEF MappingExact, PlaceholdersOf
      <3> QED
        BY <2>1, <2>2, <3>1 DEF MappingExact, RestoreText
    <2>3. ASSUME NEW k \in DOMAIN reply, reply[k] \notin DOMAIN mapping
          PROVE  /\ \A e \in entities : e.placeholder # reply[k]
                 /\ restored[k] = reply[k]
      BY <2>1, <2>3 DEF MappingExact, PlaceholdersOf, RestoreText
    <2> QED
      BY <2>1, <2>2, <2>3 DEF RestoreText
  <1> QED
    BY <1>1, Invariant, PTL

=============================================================================
