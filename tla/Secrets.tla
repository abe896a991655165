------------------------------ MODULE Secrets ------------------------------
(***************************************************************************)
(* Secrets in a text (filter/secrets.go): the three routes, what each of   *)
(* them matches and what it lets go.                                       *)
(*                                                                         *)
(* Texts are those of PII, with words as single symbols: what the routes   *)
(* tell apart is which expressions a word can be part of, how long it is,  *)
(* and its entropy.  Of the rules there are two kinds: one that looks for  *)
(* an assignment to a key word (generic-api-key in rules/gitleaks.toml),   *)
(* and one that knows the form of a key (the built-in ones).               *)
(***************************************************************************)
EXTENDS PII, TLC

Keyword     == "password"    \* in every list of key words
ContextWord == "bearer"      \* in reSecretContext only
AuthHeader  == "Authorization: Basic "  \* reAuthHeaderPrefix
Random      == "rand"        \* no form, and an entropy above every threshold
Middling    == "mid"         \* entropy between entropyMin and entropyMinStrict
Word        == "word"        \* a word
KnownKey    == "sk-key"      \* the form of a known key
Placeholder == "[type_0]"    \* a value that was redacted before
Template    == "${VAR}"
ControlID   == "call_id"     \* isLLMControlID
UUID        == "uuid"
Hash        == "hash"        \* 32 hexadecimal digits
IDName      == "order_id"    \* a name with one of benignIDSuffixes
Dummy       == "TODO"        \* one of commonPlaceholders
URLPrefix   == "git@"        \* one of urlPrefixes
Backtick    == "backtick"

(* The bytes of a symbol; every symbol not named is one byte.              *)
Sizes == Keyword :> 8 @@ ContextWord :> 6 @@ AuthHeader :> 21 @@ Random :> 24 @@ Middling :> 24
         @@ Word :> 4 @@ KnownKey :> 24 @@ Placeholder :> 8 @@ Template :> 6 @@ ControlID :> 7
         @@ UUID :> 36 @@ Hash :> 32 @@ IDName :> 8 @@ Dummy :> 4 @@ Email :> 7 @@ SSH :> 4 @@ URLPrefix :> 4

Size(c)  == IF c \in DOMAIN Sizes THEN Sizes[c] ELSE 1
Bytes(c) == FoldLeft(LAMBDA n, x : n + Size(x), 0, c)

(* shannonEntropy, as the highest of the thresholds below that it reaches, *)
(* in tenths of a bit; a text has that of its most irregular symbol.       *)
Entropies == Random :> 48 @@ KnownKey :> 48 @@ Middling :> 40 @@ Email :> 30
             @@ UUID :> 35 @@ Hash :> 35 @@ ControlID :> 30
EntropyOf(x) == IF x \in DOMAIN Entropies THEN Entropies[x] ELSE 0
Entropy(c)   == FoldLeft(LAMBDA n, x : IF EntropyOf(x) > n THEN EntropyOf(x) ELSE n, 0, c)

(* The classes of the regular expressions.                                 *)
Names      == {Keyword, ContextWord, Random, Middling, Word, KnownKey, ControlID, UUID,
               Hash, IDName, Dummy} \cup Digits
Spaces     == {" ", "\t", Newline}
QuoteMarks == {"\"", "'"}

(* Where a run of symbols of a class ends.                                 *)
RunEnd(t, i, S) == Max({j \in i .. Len(t) : AllIn(t, i, j, S)})

-----------------------------------------------------------------------------
(* What no route takes for a secret.                                       *)
IsTemplateVar(c)               == c = <<Template>>
IsHexHash(c)                   == c = <<Hash>>
IsUUID(c)                      == c = <<UUID>>
IsLLMControlID(c)              == c = <<ControlID>>
IsRedactionPlaceholderValue(c) == c # <<>> /\ Head(c) = Placeholder /\ ToSet(Tail(c)) \subseteq {"\\"}
IsLikelyPlaceholder(c)         == Dummy \in ToSet(c)
IsShortEnough(c)               == Bytes(c) <= 512  \* maxGenericSecret

(* isBusinessIDAssignment: the name before the first "=".                  *)
IsBusinessIDAssignment(c) ==
  \E k \in 2 .. Len(c) :
    /\ c[k] = "=" /\ c[k - 1] = IDName
    /\ \A j \in 1 .. k - 1 : c[j] \notin {"=", Keyword}

LooksLikeURLMatch(c) ==
  \/ \E k \in 1 .. Len(c) - 2 : SubSeq(c, k, k + 2) = <<":", "/", "/">>
  \/ \E k \in 4 .. Len(c) :
       /\ c[k] = ":" /\ "." \in ToSet(SubSeq(c, 2, k - 2))
       /\ ToSet(SubSeq(c, 1, k - 1)) \subseteq (Names \ {IDName, ControlID}) \cup {".", "-"}

SecretWords      == {Keyword, ContextWord, AuthHeader}
HasSecretWord(c) == ToSet(c) \cap SecretWords # {}

HasJSONNoise(c) ==
  \/ ToSet(c) \cap {",", "{", "}", "[", "]", Placeholder, Template} # {}
  \/ /\ \E k \in 1 .. Len(c) - 1 : SubSeq(c, k, k + 1) \in {<<"\"", ":">>, <<":", "\"">>}
     /\ ~HasSecretWord(c)

IsShaped(c) ==
  \/ ~IsShortEnough(c) \/ IsTemplateVar(c) \/ IsHexHash(c) \/ IsUUID(c) \/ IsLLMControlID(c)
  \/ IsRedactionPlaceholderValue(c) \/ IsBusinessIDAssignment(c)

-----------------------------------------------------------------------------
(* The first route: the rules.  generic-api-key takes the word around the  *)
(* key word, a sign of assignment, and a value up to a terminator, which   *)
(* it takes along.                                                         *)
Terminators == Spaces \cup QuoteMarks \cup {Backtick, ";"}

(* Where the value of an assignment may end that starts at an offset.      *)
ValueEnds(t, i) ==
  {j \in {RunEnd(t, i, Names \cup {".", "=", "-"}), RunEnd(t, i, (Names \ {KnownKey, ControlID, UUID, IDName}) \cup {"+", "/"})} :
     Bytes(SubSeq(t, i + 1, j)) \in 10 .. 150}

(* A value is behind a key word, with a sign of assignment in between and  *)
(* no more than a few words before it and quotes after it.                 *)
GenericEnd(t, i) ==
  LET keys   == {k \in i .. Len(t) - 1 : At(t, k) = Keyword /\ AllIn(t, i, k, Names \cup {".", "-"})}
      signs  == {s \in i .. Len(t) - 1 :
                   /\ At(t, s) \in {"=", ":", ",", ">"}
                   /\ \E k \in keys : \E g \in k + 1 .. s :
                        /\ AllIn(t, k + 1, g, Names \cup {" ", "\t", ".", "-"})
                        /\ Bytes(SubSeq(t, k + 2, g)) <= 20
                        /\ AllIn(t, g, s, Spaces \cup QuoteMarks) /\ s - g <= 3}
      values == {v \in i .. Len(t) : \E s \in signs :
                   AllIn(t, s + 1, v, Spaces \cup QuoteMarks \cup {Backtick, "="}) /\ v \in s + 1 .. s + 6}
      ends   == {IF e = Len(t) THEN e ELSE e + 1 : e \in
                   {e \in UNION {ValueEnds(t, v) : v \in values} :
                      e = Len(t) \/ At(t, e) \in Terminators}}
  IN  IF ends = {} THEN 0 ELSE Max(ends)

KnownEnd(t, i) == IF At(t, i) = KnownKey THEN i + 1 ELSE 0

(* ruleApplies: the key words of a rule occur somewhere in the text.       *)
GenericRule == [keywords |-> {Keyword}, entropy |-> 35]
KnownRule   == [keywords |-> {KnownKey}, entropy |-> 0]

RuleApplies(r, t) == ToSet(t) \cap r.keywords # {}

RuleSpans(t, r) ==
  LET end(i) == IF r = GenericRule THEN GenericEnd(t, i) ELSE KnownEnd(t, i)
      secret(m) == LET c == Slice(t, m)
                   IN  /\ Entropy(c) >= r.entropy
                       /\ ~LooksLikeURLMatch(c) /\ ~IsShaped(c)
                       /\ ~IsLikelyPlaceholder(c) /\ ~HasJSONNoise(c)
  IN  IF RuleApplies(r, t)
      THEN Labelled(SelectSeq(FindAll(Ends(t, end)), secret), "secret")
      ELSE <<>>

-----------------------------------------------------------------------------
(* The second route: what is assigned to a key word, up to a space or a    *)
(* quote.                                                                  *)
AssignedAt(t, i) ==
  LET sign  == RunEnd(t, i + 1, Spaces)
      value == RunEnd(t, sign + 1, Spaces)
  IN  value + IF At(t, value) \in QuoteMarks THEN 1 ELSE 0

AssignedEnd(t, i) == RunEnd(t, AssignedAt(t, i), ToSet(t) \ (Spaces \cup QuoteMarks \cup {";"}))

IsAssignment(t, i) ==
  /\ At(t, i) = Keyword
  /\ At(t, RunEnd(t, i + 1, Spaces)) \in {"=", ":"}
  /\ Bytes(SubSeq(t, AssignedAt(t, i) + 1, AssignedEnd(t, i))) >= 4

(* A short value without variety says nothing ("TODO", "null").            *)
IsWeak(c) == Bytes(c) <= 16 /\ Entropy(c) < 30

IsNoValue(c) ==
  IsTemplateVar(c) \/ IsLLMControlID(c) \/ IsRedactionPlaceholderValue(c) \/ IsWeak(c)

ContextSpans(t) ==
  LET end(i) == IF IsAssignment(t, i) THEN AssignedEnd(t, i) ELSE 0
      values == [k \in DOMAIN FindAll(Ends(t, end)) |->
                   LET m == FindAll(Ends(t, end))[k]
                   IN  [start |-> AssignedAt(t, m.start), end |-> m.end]]
  IN  Labelled(SelectSeq(values, LAMBDA m : ~IsNoValue(Slice(t, m))), "secret")

-----------------------------------------------------------------------------
(* The third route: long words of high entropy.                            *)
TokenChars == Names \cup {"=", "/", "+", "-"}

TokenEnd(t, i) ==
  LET j == RunEnd(t, i, TokenChars)
  IN  IF Bytes(SubSeq(t, i + 1, j)) >= 20 THEN j ELSE 0

(* contextLookback: the symbols that begin in the 30 bytes before.         *)
Lookback(t, i) == Min({j \in 0 .. i : Bytes(SubSeq(t, j + 1, i)) <= 30})

HasSecretContext(t, m) == HasSecretWord(SubSeq(t, Lookback(t, m.start) + 1, m.end))

(* hasStrongSecretContext: the last key word is in the candidate, or only  *)
(* signs of assignment are between them; behind the name of a header comes *)
(* the scheme first, so it counts only in its full form.                   *)
HasStrongSecretContext(t, m) ==
  LET words == {k \in Lookback(t, m.start) .. m.end - 1 : At(t, k) \in SecretWords}
      last  == Max(words)
      between == IF At(t, last) = AuthHeader THEN Spaces ELSE Spaces \cup QuoteMarks \cup {"=", ":"}
  IN  words # {} /\ AllIn(t, last + 1, m.start, between)

PathBoundary == {"/", "\\", ":", ".", "@", "?", "=", URLPrefix}

IsOnPathOrURLBoundary(t, m) ==
  \/ ToSet(Slice(t, m)) \cap {"/", "\\", ":"} # {}
  \/ At(t, m.start - 1) \in PathBoundary \/ At(t, m.end) \in PathBoundary
  \/ \E k \in 0 .. m.start - 1 : At(t, k) = URLPrefix /\ Bytes(SubSeq(t, k + 1, m.start)) <= 8

IsRandom(t, m) ==
  /\ HasStrongSecretContext(t, m) \/ ~IsOnPathOrURLBoundary(t, m)
  /\ ~IsShaped(Slice(t, m))
  /\ Entropy(Slice(t, m)) >= IF HasSecretContext(t, m) THEN 40 ELSE 48

EntropySpans(t) ==
  LET end(i) == TokenEnd(t, i)
  IN  Labelled(SelectSeq(FindAll(Ends(t, end)), LAMBDA m : IsRandom(t, m)), "secret")

=============================================================================
