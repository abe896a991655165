----------------------------- MODULE Redaction -----------------------------
(***************************************************************************)
(* One text through reversible redaction and back.                         *)
(*                                                                         *)
(* filter.RedactReversible (filter/filter.go) walks the detected spans of  *)
(* a text from left to right and puts an indexed placeholder in place of   *)
(* each; the gateway (internal/gateway/gateway.go, redactBody) then takes  *)
(* the replacements that touch a protected JSON value back; the upstream   *)
(* model answers with some text; filter.RestoreText puts the originals     *)
(* back into the answer.  The HTTP and gRPC services use the same path     *)
(* without the gateway's filter: a body with no protected cell.            *)
(*                                                                         *)
(* A text is a sequence of cells.  A cell with a label is a merged span    *)
(* that detection produced; a cell without one is the text between spans.  *)
(* A placeholder is a pair of label and index: the six labels of the code  *)
(* are bracketed and hold no underscore, so "[label_index]" is injective,  *)
(* and it begins with the only '[' and ends with the only ']' in it, so a  *)
(* replacement never straddles a cell boundary (module Replacer checks     *)
(* this on characters).                                                    *)
(***************************************************************************)
EXTENDS Naturals, Sequences

CONSTANTS
  Labels,   \* the entity types detection can give a span
  NoLabel,  \* the label of a cell that detection left alone
  Texts,    \* strings that are not placeholders
  Bodies,   \* the texts considered
  Replies   \* what the upstream may answer, besides an echo of what it got

Placeholder == [label : Labels, idx : Nat]

Token == Texts \cup Placeholder

(* A user may type something that reads like a placeholder, so the text    *)
(* of an undetected cell is any token.  Detection never reports one:       *)
(* isRedactionPlaceholderValue (filter/secrets.go) skips it.               *)
Cell == [text : Token, label : {NoLabel}, protected : BOOLEAN]
        \cup [text : Texts, label : Labels, protected : BOOLEAN]

ASSUME RedactionAssumption ==
  /\ NoLabel \notin Labels
  /\ Texts \cap Placeholder = {}
  /\ Bodies \subseteq Seq(Cell)
  /\ Replies \subseteq Seq(Token)

VARIABLES
  pc,        \* "redact", "filtered" (what the upstream gets), "replied", "restored"
  body,      \* the text, as detected
  pos,       \* the cells of body already written
  seen,      \* the map from label and original to placeholder
  counters,  \* the next index of every label
  mapping,   \* the map from placeholder to original
  redacted,  \* the text written so far
  entities,  \* the hits: position, label, original, placeholder
  reply,     \* the upstream's answer
  restored   \* the answer with the originals back in place

vars == <<pc, body, pos, seen, counters, mapping, redacted, entities, reply, restored>>

Spans == {k \in DOMAIN body : body[k].label # NoLabel}

(* The function f extended (or overwritten) at x.                          *)
With(f, x, v) == [y \in DOMAIN f \cup {x} |-> IF y = x THEN v ELSE f[y]]

-----------------------------------------------------------------------------
Init ==
  /\ pc = "redact"
  /\ body \in Bodies
  /\ pos = 0
  /\ seen = <<>>
  /\ counters = [l \in Labels |-> 0]
  /\ mapping = <<>>
  /\ redacted = <<>>
  /\ entities = {}
  /\ reply = <<>>
  /\ restored = <<>>

(* The key of seen: label and original, joined by a NUL byte in the code.  *)
Key(cell) == [label |-> cell.label, text |-> cell.text]

(* Mutated form of IndexedPlaceholder: one name for a label's values.      *)
MutSamePlaceholder(label, idx) == [label |-> label, idx |-> 0]

IndexedPlaceholder(label, idx) == [label |-> label, idx |-> idx]

Emit(cell, placeholder) ==
  /\ redacted' = Append(redacted, placeholder)
  /\ entities' = entities \cup {[pos |-> pos + 1, label |-> cell.label,
                                 text |-> cell.text, placeholder |-> placeholder]}
  /\ pos' = pos + 1

(* The text between two spans is copied.                                   *)
CopyGap ==
  /\ pc = "redact"
  /\ pos + 1 \in DOMAIN body \ Spans
  /\ redacted' = Append(redacted, body[pos + 1].text)
  /\ pos' = pos + 1
  /\ UNCHANGED <<pc, body, seen, counters, mapping, entities, reply, restored>>

(* A span whose label and original were met before gets the same name.     *)
ReusePlaceholder ==
  /\ pc = "redact"
  /\ pos + 1 \in Spans
  /\ LET cell == body[pos + 1]
     IN  /\ Key(cell) \in DOMAIN seen
         /\ Emit(cell, seen[Key(cell)])
  /\ UNCHANGED <<pc, body, seen, counters, mapping, reply, restored>>

(* A new one gets the next index of its label.                             *)
NewPlaceholder ==
  /\ pc = "redact"
  /\ pos + 1 \in Spans
  /\ LET cell        == body[pos + 1]
         placeholder == IndexedPlaceholder(cell.label, counters[cell.label])
     IN  /\ Key(cell) \notin DOMAIN seen
         /\ counters' = [counters EXCEPT ![cell.label] = @ + 1]
         /\ seen' = With(seen, Key(cell), placeholder)
         /\ mapping' = With(mapping, placeholder, cell.text)
         /\ Emit(cell, placeholder)
  /\ UNCHANGED <<pc, body, reply, restored>>

-----------------------------------------------------------------------------
PlaceholdersOf(hits) == {e.placeholder : e \in hits}

(* Mutated form of MappingOf: the map keeps what the filter dropped.       *)
MutMappingOfAll(hits) == mapping

(* filterReversibleResult rebuilds the map from the hits that are left.    *)
MappingOf(hits) ==
  [p \in PlaceholdersOf(hits) |-> (CHOOSE e \in hits : e.placeholder = p).text]

(* Mutated form of TextOf: the protected cells keep their placeholders.    *)
MutTextOfAll(hits) == redacted

(* ... and the text: placeholders at the hits, the body everywhere else.   *)
TextOf(hits) ==
  [k \in DOMAIN body |-> IF \E e \in hits : e.pos = k
                         THEN (CHOOSE e \in hits : e.pos = k).placeholder
                         ELSE body[k].text]

(* Mutated form of Unprotected: every hit inside the body is dropped once  *)
(* one cell is protected.                                                  *)
MutUnprotectedAllOrNothing(hits) ==
  {e \in hits : \A k \in DOMAIN body : ~body[k].protected}

Unprotected(hits) == {e \in hits : ~body[e.pos].protected}

(* redactBody: the hits that overlap a protected range are taken back; if  *)
(* none does, the result stands as it is.                                  *)
FilterProtected ==
  /\ pc = "redact"
  /\ pos = Len(body)
  /\ LET kept == Unprotected(entities)
     IN  IF kept = entities
         THEN UNCHANGED <<entities, mapping, redacted>>
         ELSE /\ entities' = kept
              /\ mapping' = MappingOf(kept)
              /\ redacted' = TextOf(kept)
  /\ pc' = "filtered"
  /\ UNCHANGED <<body, pos, seen, counters, reply, restored>>

(* The upstream answers: an echo of what it was sent, or anything else.    *)
Reply ==
  /\ pc = "filtered"
  /\ reply' \in {redacted} \cup Replies
  /\ pc' = "replied"
  /\ UNCHANGED <<body, pos, seen, counters, mapping, redacted, entities, restored>>

(* Every placeholder of the map gives way to its original, in one pass:    *)
(* an original that is put back is not looked at again.                    *)
RestoreText(text, map) ==
  [k \in DOMAIN text |-> IF text[k] \in DOMAIN map THEN map[text[k]] ELSE text[k]]

Restore ==
  /\ pc = "replied"
  /\ restored' = RestoreText(reply, mapping)
  /\ pc' = "restored"
  /\ UNCHANGED <<body, pos, seen, counters, mapping, redacted, entities, reply>>

(* The request is over.                                                    *)
Done == pc = "restored" /\ UNCHANGED vars

Next ==
  \/ CopyGap
  \/ ReusePlaceholder
  \/ NewPlaceholder
  \/ FilterProtected
  \/ Reply
  \/ Restore
  \/ Done

Spec == Init /\ [][Next]_vars

-----------------------------------------------------------------------------
Entity == [pos : Nat, label : Labels, text : Texts, placeholder : Placeholder]

(* Every variable has its type; seen and mapping are functions on a        *)
(* growing domain.                                                         *)
TypeOK ==
  /\ pc \in {"redact", "filtered", "replied", "restored"}
  /\ body \in Seq(Cell)
  /\ pos \in 0 .. Len(body)
  /\ DOMAIN seen \subseteq [label : Labels, text : Texts]
  /\ \A k \in DOMAIN seen : seen[k] \in Placeholder
  /\ counters \in [Labels -> Nat]
  /\ DOMAIN mapping \subseteq Placeholder
  /\ \A p \in DOMAIN mapping : mapping[p] \in Texts
  /\ redacted \in Seq(Token)
  /\ entities \subseteq Entity
  /\ reply \in Seq(Token)
  /\ restored \in Seq(Token)

(* Two hits carry the same placeholder exactly when they have the same     *)
(* type and the same original: the promise made to the model that a        *)
(* placeholder identifies one value (RedactReversible's seen and           *)
(* counters).                                                              *)
PlaceholderIdentity ==
  \A e, f \in entities :
    e.placeholder = f.placeholder <=> e.label = f.label /\ e.text = f.text

(* The map that travels with the request holds the placeholders of the     *)
(* hits that were really replaced, each with its original, and nothing     *)
(* else (RedactReversible and filterReversibleResult keep mapping and      *)
(* entities in step).                                                      *)
MappingExact ==
  /\ DOMAIN mapping = PlaceholdersOf(entities)
  /\ \A e \in entities : mapping[e.placeholder] = e.text

(* What the upstream gets: a placeholder at every detected cell outside    *)
(* the protected ranges, and every other cell as the client wrote it.      *)
RedactsExactly ==
  pc # "redact" =>
    /\ DOMAIN redacted = DOMAIN body
    /\ \A k \in DOMAIN body :
         IF k \in Spans /\ ~body[k].protected
         THEN redacted[k] \in Placeholder
         ELSE redacted[k] = body[k].text

(* Nothing the client typed itself reads like a placeholder in use.        *)
NoClash ==
  \A k \in DOMAIN body :
    (k \notin Spans \/ body[k].protected) => body[k].text \notin DOMAIN mapping

OriginalText == [k \in DOMAIN body |-> body[k].text]

(* An upstream that echoes the text gives the client its own text back,    *)
(* unless the client typed a placeholder that the request also uses.       *)
RoundTrip ==
  pc = "restored" /\ reply = redacted /\ NoClash => restored = OriginalText

(* Whatever the answer, a placeholder in it that names a hit of this       *)
(* request becomes that hit's original, and every other token is passed    *)
(* on (RestoreText with the map of this request).                          *)
RestoresMeaning ==
  pc = "restored" =>
    /\ DOMAIN restored = DOMAIN reply
    /\ \A k \in DOMAIN reply :
         \/ \E e \in entities : e.placeholder = reply[k] /\ restored[k] = e.text
         \/ /\ \A e \in entities : e.placeholder # reply[k]
            /\ restored[k] = reply[k]

=============================================================================
