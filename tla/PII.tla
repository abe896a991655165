-------------------------------- MODULE PII --------------------------------
(***************************************************************************)
(* Structured personal data in a text (filter/pii.go): what each regular   *)
(* expression matches, which of its matches the code keeps, and the spans  *)
(* that detectPII returns.                                                 *)
(*                                                                         *)
(* A text is a sequence of symbols: a digit or a character of its own, or  *)
(* a whole token, such as an e-mail address.  Offsets count symbols from 0 *)
(* and a span holds start .. end - 1, as in the code.                      *)
(***************************************************************************)
EXTENDS Integers, Sequences, FiniteSets, SequencesExt

NumberedDigits == <<"0", "1", "2", "3", "4", "5", "6", "7", "8", "9">>
Digits         == ToSet(NumberedDigits)
DigitOf        == [c \in Digits |-> (CHOOSE k \in 1 .. 10 : NumberedDigits[k] = c) - 1]

Email   == "a@b.com"   \* what reEmail matches
SSH     == "ssh "      \* one of sshCommands
Newline == "\n"

(* The symbol at an offset, or none.                                       *)
At(t, i)      == IF i \in 0 .. Len(t) - 1 THEN t[i + 1] ELSE "end"
Slice(t, m)   == SubSeq(t, m.start + 1, m.end)
AllIn(t, i, j, S) == j <= Len(t) /\ \A k \in i .. j - 1 : t[k + 1] \in S

(* FindAll: matches from left to right, none overlapping another.  ends    *)
(* says where a match that starts at an offset ends, 0 if none starts.     *)
FindAll(ends) ==
  LET n == Cardinality(DOMAIN ends)
      from[i \in 0 .. n] ==
        LET starts == {s \in i .. n - 1 : ends[s] > 0}
        IN  IF starts = {} THEN <<>>
            ELSE LET s == Min(starts)
                 IN  <<[start |-> s, end |-> ends[s]]>> \o from[ends[s]]
  IN  from[0]

Ends(t, End(_)) == [i \in 0 .. Len(t) - 1 |-> End(i)]

-----------------------------------------------------------------------------
(* Mutated form of CountryCode: there is none.                             *)
MutCountryCode(t, i) == 0

(* rePhoneCN: a country code if there is one, and eleven digits.           *)
CountryCode(t, i) ==
  LET code == IF At(t, i) = "+" THEN 3 ELSE 2
      sep  == IF At(t, i + code) \in {"-", " ", "\t", Newline} THEN 1 ELSE 0
  IN  IF At(t, i + code - 2) = "8" /\ At(t, i + code - 1) = "6" THEN code + sep ELSE 0

PhoneEnd(t, i) ==
  LET n == i + CountryCode(t, i)
  IN  IF /\ At(t, n) = "1" /\ At(t, n + 1) \in Digits \ {"0", "1", "2"}
         /\ AllIn(t, n, n + 11, Digits)
      THEN n + 11 ELSE 0

(* reIDCard: seventeen digits, the first not 0, and a digit or an X.       *)
IDCardEnd(t, i) ==
  IF /\ At(t, i) \in Digits \ {"0"} /\ AllIn(t, i, i + 17, Digits)
     /\ At(t, i + 17) \in Digits \cup {"X", "x"}
  THEN i + 18 ELSE 0

(* reBankCard: 13 to 19 digits, as many as there are.                      *)
BankCardEnd(t, i) ==
  LET lengths == {n \in 13 .. 19 : AllIn(t, i, i + n, Digits)}
  IN  IF lengths = {} THEN 0 ELSE i + Max(lengths)

(* reIPv4: four numbers up to 255.  Three are followed by a dot, so each of*)
(* these takes all digits; the last takes as many as make a number.        *)
IsOctet(c) ==
  /\ Len(c) \in 1 .. 3 /\ ToSet(c) \subseteq Digits
  /\ Len(c) = 3 =>
       \/ c[1] = "1"
       \/ c[1] = "2" /\ DigitOf[c[2]] < 5
       \/ c[1] = "2" /\ c[2] = "5" /\ DigitOf[c[3]] < 6

Octets(t, i) ==
  {n \in 1 .. 3 : i + n <= Len(t) /\ IsOctet(SubSeq(t, i + 1, i + n))}

DottedEnd(t, i) ==
  LET dotted == {n \in Octets(t, i) : At(t, i + n) = "."}
  IN  IF dotted = {} THEN Len(t) ELSE i + Max(dotted) + 1

IPv4End(t, i) ==
  LET last == DottedEnd(t, DottedEnd(t, DottedEnd(t, i)))
  IN  IF Octets(t, last) = {} THEN 0 ELSE last + Max(Octets(t, last))

-----------------------------------------------------------------------------
(* What the code checks after a match.                                     *)
DigitBounded(t, m) == At(t, m.start - 1) \notin Digits /\ At(t, m.end) \notin Digits

IPBounded(t, m) ==
  At(t, m.start - 1) \notin Digits \cup {"."} /\ At(t, m.end) \notin Digits \cup {"."}

(* Mutated form of Doubled: the digits of a two-digit product are not added.*)
MutDoubled(d) == 2 * d

(* A digit that is doubled, with the digits of the product added up.       *)
Doubled(d) == IF 2 * d > 9 THEN 2 * d - 9 ELSE 2 * d

LuhnValid(num) ==
  LET weight(i) == IF (Len(num) - i) % 2 = 1 THEN Doubled(DigitOf[num[i]]) ELSE DigitOf[num[i]]
      sum[i \in 0 .. Len(num)] == IF i = 0 THEN 0 ELSE sum[i - 1] + weight(i)
  IN  sum[Len(num)] % 10 = 0

(* user@host:path, and an address behind a remote command on its line, are *)
(* no e-mail addresses.                                                    *)
IsSSHURL(t, m) ==
  /\ At(t, m.end) = ":" /\ m.end + 1 < Len(t)
  /\ At(t, m.end + 1) \notin {" ", "\t"}

IsInSSHCommandContext(t, m) ==
  \E k \in 0 .. m.start - 1 : At(t, k) = SSH /\ \A j \in k .. m.start - 1 : At(t, j) # Newline

Labelled(ms, label) ==
  [k \in DOMAIN ms |-> [start |-> ms[k].start, end |-> ms[k].end, label |-> label]]

Emails(t) ==
  LET end(i) == IF At(t, i) = Email THEN i + 1 ELSE 0
  IN  Labelled(SelectSeq(FindAll(Ends(t, end)),
        LAMBDA m : ~IsSSHURL(t, m) /\ ~IsInSSHCommandContext(t, m)), "email")

Phones(t) ==
  LET end(i) == PhoneEnd(t, i)
  IN  Labelled(SelectSeq(FindAll(Ends(t, end)), LAMBDA m : DigitBounded(t, m)), "phone")

IDCards(t) ==
  LET end(i) == IDCardEnd(t, i)
  IN  Labelled(SelectSeq(FindAll(Ends(t, end)), LAMBDA m : DigitBounded(t, m)), "id")

IPs(t) ==
  LET end(i) == IPv4End(t, i)
  IN  Labelled(SelectSeq(FindAll(Ends(t, end)), LAMBDA m : IPBounded(t, m)), "ip")

BankCards(t) ==
  LET end(i) == BankCardEnd(t, i)
  IN  Labelled(SelectSeq(FindAll(Ends(t, end)),
        LAMBDA m : DigitBounded(t, m) /\ LuhnValid(Slice(t, m))), "card")

DetectPII(t) == Emails(t) \o Phones(t) \o IDCards(t) \o IPs(t) \o BankCards(t)

=============================================================================
