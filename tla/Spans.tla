------------------------------- MODULE Spans -------------------------------
(***************************************************************************)
(* From what the detectors report to the text that is sent on, by byte     *)
(* positions: filter.mergeSpans and the rebuilding loop of Redact and      *)
(* RedactReversible (filter/filter.go), and, in the gateway                *)
(* (internal/gateway/gateway.go), mergeByteRanges and the hits that        *)
(* filterReversibleResult takes back because they touch a protected JSON   *)
(* value.  The services have no protected ranges.                          *)
(***************************************************************************)
EXTENDS Integers, Sequences, FiniteSets, Functions

CONSTANTS
  TextLen,  \* length of the text in bytes
  Labels,   \* the placeholders of the entity types
  Inputs    \* what detectors and JSON scanner may report

ByteRange == [start : Int, end : Int]
Span  == [start : Int, end : Int, label : Labels]

Input == [spans : Seq(Span), ranges : Seq(ByteRange)]

Within(r) == 0 <= r.start /\ r.start < r.end /\ r.end <= TextLen

ASSUME SpansAssumption ==
  /\ TextLen \in Nat
  /\ Inputs \subseteq Input
  /\ \A in \in Inputs :
       /\ \A i \in DOMAIN in.spans : in.spans[i].end <= TextLen
       /\ \A i \in DOMAIN in.ranges : Within(in.ranges[i])

VARIABLES
  pc,       \* "sort", "merge", "write", "protect", "coalesce", "rewrite", "done"
  input,    \* what was reported
  todo,     \* the sorted spans or ranges still to be looked at
  hits,     \* the spans that are replaced (merged, entities)
  lastEnd,  \* the end of the last span kept
  zones,    \* the merged protected ranges
  written,  \* how many hits the rebuilding loop has written
  prev,     \* the end of what it has consumed
  out       \* the pieces it has written

vars == <<pc, input, todo, hits, lastEnd, zones, written, prev, out>>

Init ==
  /\ pc = "sort"
  /\ input \in Inputs
  /\ todo = <<>> /\ hits = <<>> /\ lastEnd = -1 /\ zones = <<>>
  /\ written = 0 /\ prev = 0 /\ out = <<>>

-----------------------------------------------------------------------------
(* Mutated form of Precedes: of two spans that start together, the shorter *)
(* one comes first.                                                        *)
MutShorterFirst(a, b) == a.start < b.start \/ (a.start = b.start /\ a.end < b.end)

(* sort.SliceStable's less: by start, the longer first.                    *)
Precedes(a, b) == a.start < b.start \/ (a.start = b.start /\ a.end > b.end)

(* The positions in S, in every order.                                     *)
Arrangements(S) == Bijection(1 .. Cardinality(S), S)

At(s, p) == [i \in DOMAIN p |-> s[p[i]]]

(* A stable sort puts no span before one that precedes it, and leaves the  *)
(* others in their order.                                                  *)
InStableOrder(s, p) ==
  \A i, j \in DOMAIN p :
    i < j => \/ Precedes(s[p[i]], s[p[j]])
             \/ ~Precedes(s[p[j]], s[p[i]]) /\ p[i] < p[j]

(* s.start >= 0 && s.start < s.end                                         *)
IsValid(s) == s.start >= 0 /\ s.start < s.end

Valid(spans) == {i \in DOMAIN spans : IsValid(spans[i])}

SortSpans ==
  /\ pc = "sort"
  /\ \E p \in Arrangements(Valid(input.spans)) :
       InStableOrder(input.spans, p) /\ todo' = At(input.spans, p)
  /\ pc' = "merge"
  /\ UNCHANGED <<input, hits, lastEnd, zones, written, prev, out>>

(* Mutated form of Clear: the span may begin on the last byte of the one   *)
(* before.                                                                 *)
MutClearOneOff(s) == s.start >= lastEnd - 1

(* Mutated form of Clear: spans that touch are dropped.                    *)
MutClearStrict(s) == s.start > lastEnd

Clear(s) == s.start >= lastEnd

KeepSpan ==
  /\ pc = "merge" /\ todo # <<>>
  /\ Clear(Head(todo))
  /\ hits' = Append(hits, Head(todo))
  /\ lastEnd' = Head(todo).end
  /\ todo' = Tail(todo)
  /\ UNCHANGED <<pc, input, zones, written, prev, out>>

DropSpan ==
  /\ pc = "merge" /\ todo # <<>>
  /\ ~Clear(Head(todo))
  /\ todo' = Tail(todo)
  /\ UNCHANGED <<pc, input, hits, lastEnd, zones, written, prev, out>>

Merged ==
  /\ pc = "merge" /\ todo = <<>>
  /\ pc' = "write"
  /\ UNCHANGED <<input, todo, hits, lastEnd, zones, written, prev, out>>

-----------------------------------------------------------------------------
(* The rebuilding loop.  text[from:to] is legal in Go only if              *)
(* from <= to <= len(text).                                                *)
Copied(from, to) == [kind |-> "copied", start |-> from, end |-> to]
Masked(s)        == [kind |-> "masked", start |-> s.start, end |-> s.end]

WriteHit ==
  /\ pc \in {"write", "rewrite"} /\ written < Len(hits)
  /\ LET s == hits[written + 1]
     IN  /\ out' = out \o <<Copied(prev, s.start), Masked(s)>>
         /\ prev' = s.end
  /\ written' = written + 1
  /\ UNCHANGED <<pc, input, todo, hits, lastEnd, zones>>

WriteRest ==
  /\ pc \in {"write", "rewrite"} /\ written = Len(hits)
  /\ out' = Append(out, Copied(prev, TextLen))
  /\ prev' = TextLen
  /\ pc' = IF pc = "write" THEN "protect" ELSE "done"
  /\ UNCHANGED <<input, todo, hits, lastEnd, zones, written>>

-----------------------------------------------------------------------------
(* redactBody: without protected ranges the result stands.                 *)
NothingProtected ==
  /\ pc = "protect" /\ input.ranges = <<>>
  /\ pc' = "done"
  /\ UNCHANGED <<input, todo, hits, lastEnd, zones, written, prev, out>>

(* sort.Slice of mergeByteRanges: by start, then end; which of two equal   *)
(* ranges comes first does not show.                                       *)
InOrder(s, p) ==
  \A i, j \in DOMAIN p :
    i < j => \/ s[p[i]].start < s[p[j]].start
             \/ s[p[i]].start = s[p[j]].start /\ s[p[i]].end <= s[p[j]].end

SortRanges ==
  /\ pc = "protect" /\ input.ranges # <<>>
  /\ \E p \in Arrangements(DOMAIN input.ranges) :
       InOrder(input.ranges, p) /\ todo' = At(input.ranges, p)
  /\ pc' = "coalesce"
  /\ UNCHANGED <<input, hits, lastEnd, zones, written, prev, out>>

Apart(r) == zones # <<>> => r.start > zones[Len(zones)].end

NewZone ==
  /\ pc = "coalesce" /\ todo # <<>>
  /\ Apart(Head(todo))
  /\ zones' = Append(zones, Head(todo))
  /\ todo' = Tail(todo)
  /\ UNCHANGED <<pc, input, hits, lastEnd, written, prev, out>>

(* Mutated form of Widened: the later end wins even if it is nearer.       *)
MutWidenedAlways(zone, r) == [zone EXCEPT !.end = r.end]

Widened(zone, r) == IF r.end > zone.end THEN [zone EXCEPT !.end = r.end] ELSE zone

WidenZone ==
  /\ pc = "coalesce" /\ todo # <<>>
  /\ ~Apart(Head(todo))
  /\ zones' = [zones EXCEPT ![Len(zones)] = Widened(@, Head(todo))]
  /\ todo' = Tail(todo)
  /\ UNCHANGED <<pc, input, hits, lastEnd, written, prev, out>>

(* Mutated form of Overlap: a hit that touches a range counts.             *)
MutOverlapTouching(a, b) == a.start <= b.end /\ a.end >= b.start

Overlap(a, b) == a.start < b.end /\ a.end > b.start

Open == {i \in DOMAIN hits : \A z \in DOMAIN zones : ~Overlap(hits[i], zones[z])}

Rewind == prev' = 0 /\ out' = <<>> /\ written' = 0

(* filterReversibleResult: the hits outside the protected ranges are left, *)
(* and the text is rebuilt if that is not all of them.                     *)
AllOpen ==
  /\ pc = "coalesce" /\ todo = <<>>
  /\ Open = DOMAIN hits
  /\ pc' = "done"
  /\ UNCHANGED <<input, todo, hits, lastEnd, zones, written, prev, out>>

TakeBack ==
  /\ pc = "coalesce" /\ todo = <<>>
  /\ Open # DOMAIN hits
  /\ \E p \in Arrangements(Open) :
       /\ \A i, j \in DOMAIN p : i < j => p[i] < p[j]
       /\ hits' = At(hits, p)
  /\ Rewind
  /\ pc' = "rewrite"
  /\ UNCHANGED <<input, todo, lastEnd, zones>>

Done == pc = "done" /\ UNCHANGED vars

Next ==
  \/ SortSpans \/ KeepSpan \/ DropSpan \/ Merged
  \/ WriteHit \/ WriteRest
  \/ NothingProtected \/ SortRanges \/ NewZone \/ WidenZone
  \/ AllOpen \/ TakeBack
  \/ Done

Spec == Init /\ [][Next]_vars

-----------------------------------------------------------------------------
(* Every variable has its type.                                            *)
Piece == [kind : {"copied", "masked"}, start : Int, end : Int]

TypeOK ==
  /\ pc \in {"sort", "merge", "write", "protect", "coalesce", "rewrite", "done"}
  /\ input \in Inputs
  /\ pc = "merge" => todo \in Seq(Span)
  /\ pc = "coalesce" => todo \in Seq(ByteRange)
  /\ hits \in Seq(Span)
  /\ lastEnd \in Int
  /\ zones \in Seq(ByteRange)
  /\ written \in 0 .. Len(hits)
  /\ prev \in 0 .. TextLen
  /\ out \in Seq(Piece)

(* The hits are in order and do not overlap (mergeSpans), which is what    *)
(* the rebuilding loop needs.                                              *)
HitsDisjoint ==
  \A i, j \in DOMAIN hits : i < j => hits[i].end <= hits[j].start

(* No slice the rebuilding loops take is out of bounds (the process would  *)
(* panic), and the pieces follow one another from the first byte to the    *)
(* last: nothing is sent twice or left out.                                *)
SlicesLegal ==
  /\ \A i \in DOMAIN out :
       /\ 0 <= out[i].start /\ out[i].start <= out[i].end /\ out[i].end <= TextLen
       /\ out[i].start = IF i = 1 THEN 0 ELSE out[i - 1].end
  /\ pc = "done" => out # <<>> /\ out[Len(out)].end = TextLen

(* Of what was reported, nothing outside the protected ranges goes out as  *)
(* it is from its beginning: each span is replaced, or begins inside one   *)
(* that was kept and that starts no later (mergeSpans drops a span only    *)
(* for an earlier one).                                                    *)
BeginsInside(s, t) == t.start <= s.start /\ s.start < t.end

Bytes(r) == r.start .. r.end - 1

Meet(a, b) == Bytes(a) \cap Bytes(b) # {}

Free(s) == \A i \in DOMAIN input.ranges : ~Meet(s, input.ranges[i])

EveryStartCovered ==
  pc \in {"write", "protect"} =>
    \A i \in DOMAIN input.spans :
      IsValid(input.spans[i]) =>
        \E j \in DOMAIN hits : BeginsInside(input.spans[i], hits[j])

(* Of spans that start together the longest is kept, and of equal ones the *)
(* one reported first gives its type (structured data before secrets).     *)
LongestFirst ==
  pc \in {"write", "protect"} =>
    \A h \in DOMAIN hits :
      \A i \in DOMAIN input.spans :
        LET s == input.spans[i]
        IN  s.start = hits[h].start /\ IsValid(s) =>
              /\ s.end <= hits[h].end
              /\ s.end = hits[h].end =>
                   \E j \in 1 .. i : input.spans[j] = hits[h]

(* No byte of a protected range is replaced: merging the ranges loses none *)
(* of them (a tool-call id the gateway replaced would break the protocol). *)
ProtectedKept ==
  pc = "done" =>
    \A i \in DOMAIN out : out[i].kind = "masked" => Free(out[i])

(* A span that overlaps no other and none of the protected ranges is       *)
(* replaced: merging the ranges adds nothing to them, and taking other     *)
(* hits back leaves this one (filterReversibleResult).                     *)
UnprotectedMasked ==
  pc = "done" =>
    \A i \in DOMAIN input.spans :
      LET s == input.spans[i]
      IN  /\ IsValid(s) /\ Free(s)
          /\ \A j \in DOMAIN input.spans : j # i => ~Meet(s, input.spans[j])
          => \E k \in DOMAIN out : out[k] = Masked(s)

=============================================================================
