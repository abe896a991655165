------------------------------ MODULE JSONBody ------------------------------
(***************************************************************************)
(* One JSON body on its way through the gateway: the scanner that finds    *)
(* the protected values without parsing (protectedJSONValueRanges...), the *)
(* hits that are replaced in the bytes as they are, the upstream that reads*)
(* the result and repeats one of its strings, and the restoration of the   *)
(* reply (restoreBodyWithMode, RestoreJSON).                               *)
(*                                                                         *)
(* A body is a sequence of symbols: one byte each, except that the name of *)
(* a field, the prefix of an id, a UUID and a placeholder are one symbol.  *)
(* The documents are flat objects of strings and numbers: nothing in the   *)
(* scanner depends on depth.  Offsets are those of the code: a range holds *)
(* the bytes start .. end - 1, counted from 0.                             *)
(***************************************************************************)
EXTENDS Naturals, Sequences, FiniteSets, SequencesExt

CONSTANTS
  Fields,      \* protectedRequestJSONFields, in order
  Bodies,      \* the bodies of requests
  Reports(_),  \* the lists of hits that detection may give for a body
  Placeholders,\* the symbols that replace them
  None         \* nothing yet

Q == "\""
B == "\\"
Space == " "

Slice(s, r) == SubSeq(s, r.start + 1, r.end)

(* A report of RedactReversible: hits in order, apart, within the body, as *)
(* mergeSpans leaves them; and two of them share a placeholder only if the *)
(* same text is behind both.                                               *)
IsReport(hs, b) ==
  /\ hs \in Seq([start : Nat, end : Nat, placeholder : Placeholders])
  /\ \A i \in DOMAIN hs : hs[i].start < hs[i].end /\ hs[i].end <= Len(b)
  /\ \A i, j \in DOMAIN hs : i < j => hs[i].end <= hs[j].start
  /\ \A i, j \in DOMAIN hs :
       hs[i].placeholder = hs[j].placeholder => Slice(b, hs[i]) = Slice(b, hs[j])

(* Bodies and fields are sequences; a field's name is a word, and so is a  *)
(* placeholder.                                                            *)
ASSUME JSONBodyAssumption ==
  /\ \A b \in Bodies : /\ b \in Seq(ToSet(b))
                        /\ \A hs \in Reports(b) : IsReport(hs, b)
  /\ Fields \in Seq(ToSet(Fields)) /\ Fields # <<>>
  /\ ToSet(Fields) \cap {Q, B, Space, "{", "}", ":", ",", "0"} = {}
  /\ Placeholders \cap {Q, B} = {}

-----------------------------------------------------------------------------
(* JSON, as encoding/json reads it.                                        *)

(* The positions that a backslash escapes.                                 *)
Escapes(s) ==
  LET escaped[i \in 0 .. Len(s)] ==
        i > 1 /\ s[i - 1] = B /\ ~escaped[i - 1]
  IN  {i \in DOMAIN s : escaped[i]}

Quotes(s) == LET escapes == Escapes(s) IN {i \in DOMAIN s : s[i] = Q /\ i \notin escapes}

Ascending(S) ==
  [k \in 1 .. Cardinality(S) |->
     CHOOSE i \in S : Cardinality({j \in S : j < i}) = k - 1]

(* The strings of a body, with their quotes, in order.                     *)
Strings(s) ==
  LET q == Ascending(Quotes(s))
  IN  [k \in 1 .. Len(q) \div 2 |-> [start |-> q[2 * k - 1] - 1, end |-> q[2 * k]]]

Content(s, r) == SubSeq(s, r.start + 2, r.end - 1)

(* Whether every quote has its pair, and what is left of the body when the *)
(* strings are single symbols and the spaces between tokens are gone.      *)
Closed(s) == Cardinality(Quotes(s)) % 2 = 0

Outline(s) ==
  LET quotes  == Quotes(s)
      outside == {i \in DOMAIN s : Cardinality({q \in quotes : q < i}) % 2 = 0
                                   /\ s[i] # Space}
      at      == Ascending(outside)
  IN  [k \in DOMAIN at |-> s[at[k]]]

(* json.Valid: an object of members separated by commas.                   *)
IsObject(o) ==
  /\ Len(o) % 4 = 1 /\ Len(o) > 1 /\ o[1] = "{"
  /\ \A j \in 1 .. (Len(o) - 1) \div 4 :
       /\ o[4 * j - 2] = Q /\ o[4 * j - 1] = ":" /\ o[4 * j] \in {Q, "0"}
       /\ o[4 * j + 1] = IF 4 * j + 1 = Len(o) THEN "}" ELSE ","

Valid(s) ==
  /\ Closed(s)
  /\ \A i \in Escapes(s) : s[i] \in {Q, B, "/"}
  /\ IsObject(Outline(s))

(* The value of the content of a string, and how encoding/json writes one. *)
Decoded(c) ==
  LET escapes == Escapes(c)
      at      == Ascending({i \in DOMAIN c : c[i] = B => i \in escapes})
  IN  [k \in DOMAIN at |-> c[at[k]]]

Encoded(v) ==
  FlattenSeq([i \in DOMAIN v |-> IF v[i] \in {Q, B} THEN <<B, v[i]>> ELSE <<v[i]>>])

ValueOf(s, r) == Decoded(Content(s, r))

-----------------------------------------------------------------------------
(* What is protected: encrypted_content always, the other fields when they *)
(* hold an id of the protocol.                                             *)
HasPrefix(v, ps) == v # <<>> /\ Head(v) \in ps

(* isGatewayProtocolID: one of the known prefixes, and something after it. *)
ProtocolPrefixes ==
  {"call_", "resp_", "msg_", "item_", "fc_", "rs_", "run_", "step_", "thread_",
   "asst_", "batch_", "conv_", "toolu_", "file-", "chatcmpl-", "cmpl-"}

IsGatewayProtocolID(v) == HasPrefix(v, ProtocolPrefixes) /\ Len(v) > 1

TrimSpace(v) ==
  LET solid == {i \in DOMAIN v : v[i] # Space}
  IN  IF solid = {} THEN <<>> ELSE SubSeq(v, Min(solid), Max(solid))

IsCodexSessionID(v) ==
  LET t == TrimSpace(v)
  IN  \/ HasPrefix(t, {"codex-", "codex_", "session_", "sess_", "thread_", "conv_"}) /\ Len(t) > 1
      \/ t = <<"uuid">>

(* The fields that hold ids of one kind, by their prefix.                  *)
PrefixOf == [previous_response_id |-> "resp_", response_id |-> "resp_",
             call_id |-> "call_", tool_call_id |-> "call_",
             conversation_id |-> "conv_", thread_id |-> "thread_",
             run_id |-> "run_", step_id |-> "step_", assistant_id |-> "asst_",
             file_id |-> "file-", batch_id |-> "batch_"]

(* strconv.Unquote reads a string as Go does: it refuses the escape "\/"   *)
(* of JSON.                                                                *)
Unquotes(c) == \A i \in Escapes(c) : c[i] # "/"

(* shouldProtectRequestJSONValue, for the content of the string.           *)
ShouldProtect(field, c) ==
  \/ field = "encrypted_content"
  \/ /\ Unquotes(c)
     /\ \/ field \in {"id", "item_id", "output_item_id"} /\ IsGatewayProtocolID(Decoded(c))
        \/ field \in {"session_id", "codex_session_id"} /\ IsCodexSessionID(Decoded(c))
        \/ field \in DOMAIN PrefixOf /\ HasPrefix(Decoded(c), {PrefixOf[field]})

-----------------------------------------------------------------------------
VARIABLES
  body,    \* the body the client sent
  stage,   \* "scan", "detect", "sent", "replied", "restored"
  field,   \* the field the scanner looks for, by its number
  from,    \* searchFrom
  ranges,  \* the protected ranges found
  hits,    \* the hits that were replaced
  sent,    \* what the upstream gets
  reply,   \* which string it repeats, and how
  got      \* what the client gets

vars == <<body, stage, field, from, ranges, hits, sent, reply, got>>

Init ==
  /\ body \in Bodies
  /\ stage = "scan" /\ field = 1 /\ from = 0 /\ ranges = <<>>
  /\ hits = <<>> /\ sent = None /\ reply = None /\ got = None

(* bytes.Index: where the quoted name of the field is next, from an offset.*)
KeysFrom(f, at) ==
  {k \in at .. Len(body) - 3 : SubSeq(body, k + 1, k + 3) = <<Q, f, Q>>}

KeyEnd == Min(KeysFrom(Fields[field], from)) + 3

(* skipJSONSpace, and the byte at an offset.                               *)
SkipSpace(i) ==
  Min({j \in i .. Len(body) : j = Len(body) \/ body[j + 1] # Space})

At(i, c) == i < Len(body) /\ body[i + 1] = c

AfterKey == SkipSpace(KeyEnd)
ValueAt  == SkipSpace(AfterKey + 1)

(* Mutated form of StringEnds: an escaped quote ends the string.           *)
MutStringEndsEarly(start) ==
  {i \in start + 2 .. Len(body) : body[i] = Q}

(* scanJSONStringEnd: the end of the string that starts at an offset, or   *)
(* none.                                                                   *)
StringEnds(start) ==
  LET rest == SubSeq(body, start + 2, Len(body))
  IN  {start + 1 + q : q \in Quotes(rest)}

Scanning == stage = "scan" /\ field <= Len(Fields)

(* A body that is not JSON has no protected values.                        *)
SkipInvalid ==
  /\ Scanning /\ field = 1 /\ from = 0 /\ ~Valid(body)
  /\ stage' = "detect"
  /\ UNCHANGED <<body, field, from, ranges, hits, sent, reply, got>>

(* The field does not occur any more: the next one, from the beginning.    *)
NextField ==
  /\ Scanning /\ Valid(body) /\ KeysFrom(Fields[field], from) = {}
  /\ field' = field + 1 /\ from' = 0
  /\ stage' = IF field = Len(Fields) THEN "detect" ELSE stage
  /\ UNCHANGED <<body, ranges, hits, sent, reply, got>>

(* The name is a key, its value a string, and the string to be protected.  *)
Found ==
  /\ At(AfterKey, ":")
  /\ At(ValueAt, Q) /\ StringEnds(ValueAt) # {}
  /\ ShouldProtect(Fields[field],
       Content(body, [start |-> ValueAt, end |-> Min(StringEnds(ValueAt))]))

(* Mutated form of Protect: what is left of the field is not looked for.   *)
MutProtectFirst ==
  /\ Scanning /\ Valid(body) /\ KeysFrom(Fields[field], from) # {} /\ Found
  /\ ranges' = Append(ranges, [start |-> ValueAt, end |-> Min(StringEnds(ValueAt))])
  /\ from' = Len(body)
  /\ UNCHANGED <<body, stage, field, hits, sent, reply, got>>

Protect ==
  /\ Scanning /\ Valid(body) /\ KeysFrom(Fields[field], from) # {} /\ Found
  /\ ranges' = Append(ranges, [start |-> ValueAt, end |-> Min(StringEnds(ValueAt))])
  /\ from' = Min(StringEnds(ValueAt))
  /\ UNCHANGED <<body, stage, field, hits, sent, reply, got>>

PassOver ==
  /\ Scanning /\ Valid(body) /\ KeysFrom(Fields[field], from) # {} /\ ~Found
  /\ from' = KeyEnd
  /\ UNCHANGED <<body, stage, field, ranges, hits, sent, reply, got>>

-----------------------------------------------------------------------------
(* redactBody: the hits are found in the bytes of the body, whatever they  *)
(* mean in JSON; those that touch a protected range are taken back, the    *)
(* others replaced.  (Merging the ranges before, which Spans models,       *)
(* changes nothing in which hits touch one.)                               *)
Overlaps(h, r) == h.start < r.end /\ h.end > r.start

Kept(hs) ==
  LET at == Ascending({i \in DOMAIN hs : \A k \in DOMAIN ranges : ~Overlaps(hs[i], ranges[k])})
  IN  [k \in DOMAIN at |-> hs[at[k]]]

(* Mutated form of Replaced: the end of a hit is taken for its last byte.  *)
MutReplacedOneMore(hs) ==
  LET startOf(k) == IF k = 0 THEN 0 ELSE hs[k].end + 1
      piece(k)   == IF k > Len(hs) THEN SubSeq(body, startOf(Len(hs)) + 1, Len(body))
                    ELSE SubSeq(body, startOf(k - 1) + 1, hs[k].start) \o <<hs[k].placeholder>>
  IN  FlattenSeq([k \in 1 .. Len(hs) + 1 |-> piece(k)])

Replaced(hs) ==
  LET startOf(k) == IF k = 0 THEN 0 ELSE hs[k].end
      piece(k)   == IF k > Len(hs) THEN SubSeq(body, startOf(Len(hs)) + 1, Len(body))
                    ELSE SubSeq(body, startOf(k - 1) + 1, hs[k].start) \o <<hs[k].placeholder>>
  IN  FlattenSeq([k \in 1 .. Len(hs) + 1 |-> piece(k)])

Redact ==
  /\ stage = "detect"
  /\ \E hs \in Reports(body) :
       hits' = Kept(hs) /\ sent' = Replaced(Kept(hs))
  /\ stage' = "sent"
  /\ UNCHANGED <<body, field, from, ranges, reply, got>>

-----------------------------------------------------------------------------
(* The upstream reads the body, if it is JSON or was never meant to be. It *)
(* repeats one of the strings, or the whole of a text: as a value or a key *)
(* of an object, in an object that is cut off, in the first of two         *)
(* documents, or in plain text.                                            *)
Object(k, v) == <<"{", Q>> \o k \o <<Q, ":", Q>> \o v \o <<Q, "}">>

Written(form, v) ==
  CASE form \in {"value", "text"} -> Object(<<"x">>, Encoded(v))
    [] form = "key" -> Object(Encoded(v), <<"x">>)
    [] form = "cut" -> Front(Object(<<"x">>, Encoded(v)))
    [] form = "two" -> Object(<<"x">>, Encoded(v)) \o Object(<<"x">>, <<>>)

(* What is said with a body: its k-th string, or all of a text.            *)
Said(s, k) == IF Valid(body) THEN ValueOf(s, Strings(s)[k]) ELSE s

Answer ==
  /\ stage = "sent"
  /\ Valid(body) => Valid(sent)
  /\ \E k \in IF Valid(body) THEN DOMAIN Strings(sent) ELSE {0},
        form \in {"value", "text", "key", "cut", "two"} :
       reply' = [string |-> k, form |-> form, text |-> Written(form, Said(sent, k))]
  /\ stage' = "replied"
  /\ UNCHANGED <<body, field, from, ranges, hits, sent, got>>

(* RestoreText: each placeholder of the request becomes the bytes it stood *)
(* for, as they were in the body.                                          *)
RestoreText(t) ==
  FlattenSeq([i \in DOMAIN t |->
    IF \E k \in DOMAIN hits : t[i] = hits[k].placeholder
    THEN Slice(body, hits[CHOOSE k \in DOMAIN hits : t[i] = hits[k].placeholder])
    ELSE <<t[i]>>])

(* parseJSONBody: the first document, if there is one that is complete.    *)
DocumentEnds(t)  == {i \in DOMAIN t : Valid(SubSeq(t, 1, i))}
FirstDocument(t) == SubSeq(t, 1, Min(DocumentEnds(t)))

(* Mutated form of RestoreJSON: the text is restored as it is.             *)
MutRestoreJSON(doc) == RestoreText(doc)

(* RestoreJSON between decoding and marshalJSON: values are restored, keys *)
(* are not.  (An object has one member here.)                              *)
RestoreJSON(doc) ==
  Object(Encoded(ValueOf(doc, Strings(doc)[1])),
         Encoded(RestoreText(ValueOf(doc, Strings(doc)[2]))))

(* restoreBodyWithMode: "text", "json" and "text_json_parse_fallback".  A  *)
(* request without hits has no mapping, and its answer stays as it is.     *)
Restore ==
  /\ stage = "replied"
  /\ got' = IF hits = <<>> THEN reply.text
            ELSE IF reply.form = "text" \/ DocumentEnds(reply.text) = {}
            THEN RestoreText(reply.text)
            ELSE RestoreJSON(FirstDocument(reply.text))
  /\ stage' = "restored"
  /\ UNCHANGED <<body, field, from, ranges, hits, sent, reply>>

Next ==
  \/ SkipInvalid \/ NextField \/ Protect \/ PassOver
  \/ Redact \/ Answer \/ Restore

Spec == Init /\ [][Next]_vars

-----------------------------------------------------------------------------
(* Every variable has its type; the scanner stays within the body.         *)
TypeOK ==
  /\ body \in Bodies
  /\ stage \in {"scan", "detect", "sent", "replied", "restored"}
  /\ field \in 1 .. Len(Fields) + 1 /\ from \in 0 .. Len(body)
  /\ \A k \in DOMAIN ranges : ranges[k].start < ranges[k].end /\ ranges[k].end <= Len(body)

(* The members of a body: two strings with nothing but a colon and spaces  *)
(* between them.                                                           *)
IsMember(s, k, v) ==
  \E c \in k.end + 1 .. v.start :
    s[c] = ":" /\ \A i \in (k.end + 1 .. v.start) \ {c} : s[i] = Space

Members(s) ==
  {m \in [key : ToSet(Strings(s)), value : ToSet(Strings(s))] : IsMember(s, m.key, m.value)}

(* What the scanner protects is always the whole value of a member: of a   *)
(* key with the field's name, or one that ends in it behind an escaped     *)
(* quote.  A name inside a value or inside embedded JSON protects nothing  *)
(* (protectedJSONValueRangesForField).                                     *)
EndsIn(c, f) == c = <<f>> \/ (Len(c) >= 2 /\ SubSeq(c, Len(c) - 1, Len(c)) = <<Q, f>>)

RangesAreValues ==
  \A k \in DOMAIN ranges : \E m \in Members(body), f \in ToSet(Fields) :
    /\ m.value = ranges[k]
    /\ EndsIn(Content(body, m.key), f)
    /\ ShouldProtect(f, Content(body, m.value))

(* ... and no member is missed: the value of a field that is to be         *)
(* protected is sent as it is, whatever is reported about it.  (A value    *)
(* with the escape "\/" counts as none: strconv.Unquote refuses it.)       *)
ProtectedUntouched ==
  stage = "sent" /\ Valid(body) =>
    \A m \in Members(body), f \in ToSet(Fields) :
      /\ Content(body, m.key) = <<f>>
      /\ ShouldProtect(f, Content(body, m.value))
      => \A k \in DOMAIN hits : ~Overlaps(hits[k], m.value)

(* Replacing bytes keeps the body JSON, with the same number of strings,   *)
(* as long as every hit lies within one string and splits no escape        *)
(* (redactBody replaces in the bytes, without decoding).                   *)
WithinString(h) ==
  /\ \E k \in DOMAIN Strings(body) :
       Strings(body)[k].start < h.start /\ h.end < Strings(body)[k].end
  /\ h.start + 1 \notin Escapes(body) /\ h.end + 1 \notin Escapes(body)

StillJSON ==
  stage = "sent" /\ Valid(body) /\ (\A k \in DOMAIN hits : WithinString(hits[k])) =>
    Valid(sent) /\ Len(Strings(sent)) = Len(Strings(body))

(* A JSON answer is JSON again after restoration, whatever the originals   *)
(* hold; and what the upstream repeats in it as a value reads as the client*)
(* wrote it - if the client wrote no placeholder itself, and if the body   *)
(* was a text or no original in it holds an escape: bytes of the body are  *)
(* put into a decoded string (RestoreJSON and marshalJSON), as they are.   *)
Plain(h) == \A c \in ToSet(Slice(body, h)) : c \notin {Q, B}

RepliesRestored ==
  stage = "restored" /\ reply.form \in {"value", "key"} =>
    /\ Valid(got)
    /\ /\ reply.form = "value"
       /\ ToSet(body) \cap Placeholders = {}
       /\ Valid(body) => \A k \in DOMAIN hits : Plain(hits[k])
       => ValueOf(got, Strings(got)[2]) = Said(body, reply.string)

(* What the upstream gets is JSON whenever the client sent JSON            *)
(* (gateway_test.go:260 fails with "redacted request is invalid JSON").    *)
SentIsJSON == stage = "sent" /\ Valid(body) => Valid(sent)

=============================================================================
