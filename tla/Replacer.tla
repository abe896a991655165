------------------------------ MODULE Replacer ------------------------------
(***************************************************************************)
(* The two operations on text that streaming restoration is made of:       *)
(* filter.RestoreText (a strings.NewReplacer over the map) and             *)
(* splitStreamingSuffix (internal/gateway/gateway.go).  A text is a        *)
(* sequence of bytes; of UTF-8 a byte tells how long the character is that *)
(* it starts.                                                              *)
(***************************************************************************)
EXTENDS Naturals, SequencesExt

CONSTANTS
  Bytes,  \* what a text is made of
  Width   \* how many bytes the character has that a byte starts; 0 if it starts none

Texts == Seq(Bytes)

Starts(byte) == Width[byte] > 0

(* A character starts at i and ends in front of next.                      *)
Character(s, i, next) ==
  /\ next = i + Width[s[i]]
  /\ next <= Len(s) + 1
  /\ next <= Len(s) => Starts(s[next])
  /\ \A j \in i + 1 .. next - 1 : ~Starts(s[j])

(* Whole characters and nothing else.                                      *)
ValidText(s) ==
  /\ s # <<>> => Starts(s[1])
  /\ \A i \in 1 .. Len(s) : Starts(s[i]) => Character(s, i, i + Width[s[i]])

From(s, i) == SubSeq(s, i, Len(s))

(* The placeholders that stand at the beginning of a text.                 *)
Here(text, mapping) == {p \in DOMAIN mapping : IsPrefix(p, text)}

(* strings.Replacer walks the text once from left to right; at each byte   *)
(* it puts the original of the placeholder found there, and goes on behind *)
(* the placeholder: what it put is not looked at again.  At most one       *)
(* placeholder can start at a byte, so the order of the pairs, which Go's  *)
(* map iteration leaves open, does not matter.                             *)
RestoreText(text, mapping) ==
  LET rest[t \in Texts] ==
        IF t = <<>> THEN <<>>
        ELSE IF Here(t, mapping) = {} THEN <<t[1]>> \o rest[From(t, 2)]
        ELSE LET p == CHOOSE p \in Here(t, mapping) : TRUE
             IN  mapping[p] \o rest[From(t, Len(p) + 1)]
  IN  rest[text]

(* No placeholder is a part of another: a bracket opens it and the next    *)
(* one closes it.                                                          *)
Unambiguous(mapping) ==
  \A p, q \in DOMAIN mapping : \A i \in 1 .. Len(q) :
    IsPrefix(p, From(q, i)) => i = 1 /\ p = q

(* Mutated form of CutBefore: a character may be cut in two.               *)
MutCutAnywhere(s, keepBytes) == Len(s) - keepBytes

(* The last start of a character that leaves at least keepBytes behind.    *)
CutBefore(s, keepBytes) ==
  Max({c \in 0 .. Len(s) - keepBytes : c = 0 \/ Starts(s[c + 1])})

(* What may be sent on now, and what is kept for the next delta.           *)
SplitStreamingSuffix(s, keepBytes) ==
  IF keepBytes = 0 THEN [prefix |-> s, suffix |-> <<>>]
  ELSE IF Len(s) <= keepBytes THEN [prefix |-> <<>>, suffix |-> s]
  ELSE LET cut == CutBefore(s, keepBytes)
       IN  [prefix |-> SubSeq(s, 1, cut), suffix |-> From(s, cut + 1)]

=============================================================================
