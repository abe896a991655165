----------------------------- MODULE MCJSONBody -----------------------------
(* Finite instances of JSONBody.  "kw" is a word that rules look for, as   *)
(* "api_key".                                                              *)
EXTENDS JSONBody

Names == <<"encrypted_content", "id", "session_id", "call_id">>

Replacing == {"[type_0]", "[type_1]"}

(* Keys: the names, a word, and names behind escapes.                      *)
Keys == {<<n>> : n \in ToSet(Names)} \cup {<<"kw">>, <<"x", B, Q, "id">>, <<"id", B, B>>}

(* Values: ids that each field takes or refuses, names, escapes, embedded  *)
(* JSON, and a number.                                                     *)
Contents ==
  { <<>>, <<"x">>, <<"id">>, <<"call_">>, <<"call_", "x">>, <<"call_", B, "/">>,
    <<"resp_", "x">>, <<Space, "uuid">>, <<"codex_", "x">>, <<"x", B, Q>>, <<B, B>>,
    <<B, Q, "id", B, Q, ":", B, Q, "call_", "x">> }

Quoted(c) == <<Q>> \o c \o <<Q>>

Document(k1, v1, k2, v2, gap) ==
  <<"{">> \o Quoted(k1) \o gap \o <<":">> \o gap \o v1 \o <<",">>
  \o Quoted(k2) \o <<":">> \o v2 \o <<"}">>

Texts == { <<"call_", "x">>, <<"{", Q, "id", Q, ":", Q, "call_", "x", Q>>,
           <<"kw", Q, B, "x">>, <<"[type_0]", "kw">>, <<"kw", "x", "kw", "x">> }

Documents ==
  {Document(k1, Quoted(v1), k2, v2, gap) :
     k1 \in Keys, v1 \in Contents, k2 \in {<<"id">>, <<"kw">>},
     v2 \in {<<"0">>, Quoted(<<"call_", "x">>), Quoted(<<"x">>)}, gap \in {<<>>, <<Space>>}}

AllBodies == Documents \cup Texts

(* Any one hit of up to MaxHit bytes, or none; in a text, any two as well. *)
MaxHit == 3

Hits(b, name) ==
  {h \in [start : 0 .. Len(b) - 1, end : 1 .. Len(b), placeholder : {name}] :
     h.start < h.end /\ h.end <= h.start + MaxHit}

AnyTwo(b) ==
  {<<h, [i EXCEPT !.placeholder = IF Slice(b, i) = Slice(b, h) THEN h.placeholder ELSE @]>> :
     h \in Hits(b, "[type_0]"), i \in Hits(b, "[type_1]")}

AnyHit(b) ==
  {<<>>} \cup {<<h>> : h \in Hits(b, "[type_0]")}
  \cup IF b \in Texts THEN {hs \in AnyTwo(b) : hs[1].end <= hs[2].start} ELSE {}

(* What the rule generic-api-key matches in a member: from the key word to *)
(* the quote behind the value (rules/gitleaks.toml:640 has no secretGroup).*)
KeyWordToQuote(b) ==
  {<<[start |-> m.key.start + 1, end |-> m.value.end, placeholder |-> "[type_0]"]>> :
     m \in {m \in Members(b) : Content(b, m.key) = <<"kw">> /\ Content(b, m.value) = <<"x">>}}

=============================================================================
