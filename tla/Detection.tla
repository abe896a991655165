----------------------------- MODULE Detection -----------------------------
(***************************************************************************)
(* Filter.detect (filter/filter.go): the rules are loaded, every detector  *)
(* of PII and Secrets reports its spans, and mergeSpans keeps those that do*)
(* not overlap.  (Spans has the same merge step by step, for any spans.)   *)
(***************************************************************************)
EXTENDS Secrets

CONSTANTS
  Texts,      \* the texts to look at
  RuleFiles,  \* what PF_GITLEAKS_TOML may name: "rules", "broken", "empty", "none"
  Fallbacks   \* Options.DisableEntropyFallback, negated

ASSUME DetectionAssumption ==
  /\ RuleFiles \subseteq {"rules", "broken", "empty", "none"}
  /\ Fallbacks \subseteq BOOLEAN

VARIABLES
  text,      \* the text
  fallback,  \* whether the third route is taken
  rules,     \* the rules, in order
  step,      \* what comes next
  spans,     \* the spans reported so far
  hits       \* the result

vars == <<text, fallback, rules, step, spans, hits>>

Init ==
  /\ text \in Texts /\ fallback \in Fallbacks
  /\ rules = <<>> /\ step = "load" /\ spans = <<>> /\ hits = <<>>

(* newSecretDetector: a file without usable rules leaves the built-in ones.*)
RulesOf(file) == IF file = "rules" THEN <<GenericRule, KnownRule>> ELSE <<KnownRule>>

(* main, which takes the built-in rules as well when the file cannot be    *)
(* read.                                                                   *)
LoadRules ==
  /\ step = "load" /\ step' = "pii"
  /\ \E file \in RuleFiles : rules' = RulesOf(file)
  /\ UNCHANGED <<text, fallback, spans, hits>>

Report(from, to, found) ==
  /\ step = from /\ step' = to
  /\ spans' = spans \o found
  /\ UNCHANGED <<text, fallback, rules, hits>>

FindPII      == Report("pii", "rules", DetectPII(text))
FindByRules  == Report("rules", "context", FlattenSeq([k \in DOMAIN rules |-> RuleSpans(text, rules[k])]))
FindAssigned == Report("context", "entropy", ContextSpans(text))
FindRandom   == Report("entropy", "merge", IF fallback THEN EntropySpans(text) ELSE <<>>)

(* Mutated form of Precedes: the shortest first.                           *)
MutShorterFirst(s, u) == s.start < u.start \/ (s.start = u.start /\ s.end < u.end)

(* mergeSpans: by start, the longest first, and each that begins behind    *)
(* those kept.                                                             *)
Precedes(s, u) == s.start < u.start \/ (s.start = u.start /\ s.end > u.end)

Merged(ss) ==
  FoldLeft(LAMBDA kept, s : IF kept = <<>> \/ s.start >= Last(kept).end THEN Append(kept, s) ELSE kept,
           <<>>, SortSeq(ss, Precedes))

Merge ==
  /\ step = "merge" /\ step' = "done"
  /\ hits' = Merged(spans)
  /\ UNCHANGED <<text, fallback, rules, spans>>

Next == LoadRules \/ FindPII \/ FindByRules \/ FindAssigned \/ FindRandom \/ Merge

Spec == Init /\ [][Next]_vars

-----------------------------------------------------------------------------
(* Every variable has its type, and every span lies within the text.       *)
TypeOK ==
  /\ text \in Seq(STRING) /\ fallback \in BOOLEAN
  /\ step \in {"load", "pii", "rules", "context", "entropy", "merge", "done"}
  /\ \A k \in DOMAIN spans :
       0 <= spans[k].start /\ spans[k].start < spans[k].end /\ spans[k].end <= Len(text)

Ranges == {m \in [start : 0 .. Len(text) - 1, end : 1 .. Len(text)] : m.start < m.end}

Masks(h, m) == h.start <= m.start /\ m.end <= h.end

(* The numbers an expression with assertions on both sides would find,     *)
(* which Go's expressions lack (pii.go:8: the boundaries are checked after *)
(* the match instead, by digitBounded and ipBounded).                      *)
AllDigits(m) == ToSet(Slice(text, m)) \subseteq Digits

IsIDCard(m) ==
  /\ m.end - m.start = 18 /\ DigitBounded(text, m)
  /\ AllDigits([m EXCEPT !.end = @ - 1]) /\ At(text, m.start) # "0"
  /\ At(text, m.end - 1) \in Digits \cup {"X", "x"}

IsBankCard(m) ==
  m.end - m.start \in 13 .. 19 /\ AllDigits(m) /\ DigitBounded(text, m) /\ LuhnValid(Slice(text, m))

IsIP(m) ==
  /\ m.end - m.start \in 7 .. 15 /\ IPBounded(text, m)
  /\ ToSet(Slice(text, m)) \subseteq Digits \cup {"."}
  /\ \E i, j, k \in m.start + 1 .. m.end - 2 :
       /\ i < j /\ j < k
       /\ \A d \in {i, j, k} : At(text, d) = "."
       /\ \A o \in {<<m.start, i>>, <<i + 1, j>>, <<j + 1, k>>, <<k + 1, m.end>>} :
            IsOctet(SubSeq(text, o[1] + 1, o[2]))

(* A phone number, with its country code or without.                       *)
CountryCodes ==
  {<<>>} \cup {p \o <<"8", "6">> \o s : p \in {<<>>, <<"+">>}, s \in {<<>>, <<"-">>, <<" ">>}}

IsPhone(m) ==
  /\ m.end - m.start \in 11 .. 15 /\ DigitBounded(text, m)
  /\ AllDigits([m EXCEPT !.start = m.end - 11])
  /\ At(text, m.end - 11) = "1" /\ At(text, m.end - 10) \notin {"0", "1", "2"}
  /\ Slice(text, [m EXCEPT !.end = m.end - 11]) \in CountryCodes

(* ... unless what is before it reads like a country code that belongs to  *)
(* a longer number: the match that takes it along is thrown away, and the  *)
(* phone number with it.                                                   *)
BehindLongerNumber(m) ==
  \E s \in 1 .. m.start - 1 :
    /\ At(text, s - 1) \in Digits /\ PhoneEnd(text, s) = m.end

NumbersMasked ==
  step = "done" =>
    \A m \in Ranges :
      IsIDCard(m) \/ IsBankCard(m) \/ IsIP(m) \/ (IsPhone(m) /\ ~BehindLongerNumber(m))
        => \E k \in DOMAIN hits : Masks(hits[k], m)

(* A value that is assigned to a key word is masked as a whole, up to a    *)
(* backtick if it has one: no other detector that reports a part of it, or *)
(* something that reaches into it, may displace it in mergeSpans.  With the*)
(* third route this holds of its beginning only: a long word that begins   *)
(* with the key word wins, and may end earlier than the value              *)
(* (Options.DisableEntropyFallback).                                       *)
Value(i) == Slice(text, [start |-> AssignedAt(text, i), end |-> AssignedEnd(text, i)])

ExplicitSecretsMasked ==
  step = "done" =>
    \A i \in 0 .. Len(text) - 1 :
      IsAssignment(text, i) /\ ~IsNoValue(Value(i)) =>
        LET start == AssignedAt(text, i)
            ticks == {j \in DOMAIN Value(i) : Value(i)[j] = Backtick}
            end   == IF ticks = {} THEN start + Len(Value(i)) ELSE start + Min(ticks) - 1
        IN  \E k \in DOMAIN hits :
              Masks(hits[k], [start |-> start, end |-> IF fallback THEN start + 1 ELSE end])

(* A bank card number with one digit wrong is never reported: the checksum *)
(* tells any two digits apart, in either kind of place (luhnValid).        *)
TyposRejected ==
  \A k \in DOMAIN spans :
    spans[k].label = "card" =>
      LET n == Slice(text, spans[k])
      IN  \A i \in DOMAIN n, d \in Digits : d # n[i] => ~LuhnValid([n EXCEPT ![i] = d])

=============================================================================
