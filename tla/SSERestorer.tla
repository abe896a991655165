---------------------------- MODULE SSERestorer ----------------------------
(***************************************************************************)
(* Restoration of a streamed answer (internal/gateway/gateway.go).  A      *)
(* goroutine (restoreSSEStreamWithStats) reads the upstream's events one   *)
(* by one, restores the placeholders in them and writes the result into a  *)
(* pipe that the reverse proxy copies to the client.  Text arrives in      *)
(* deltas, in independent streams told apart by a key; a placeholder may   *)
(* be cut anywhere between two deltas, so the end of what was restored is  *)
(* kept back until more comes.                                             *)
(*                                                                         *)
(* An event is a sequence of data lines; its other lines go out as they    *)
(* came.  A data line is one of these:                                     *)
(*   delta  a text delta that inspectSSEEvent recognises;                  *)
(*   late   one that only transformData recognises (the data line before   *)
(*          the event line, or something behind the JSON value);           *)
(*   whole  every other one: an object with whole values, text that is not *)
(*          JSON, [DONE].                                                  *)
(* A comment or a keep-alive is the event <<>>.                            *)
(***************************************************************************)
EXTENDS Replacer

CONSTANTS
  Keys,       \* the delta streams (deltaKey)
  Mapping,    \* the request's map from placeholder to original
  Events,     \* what the upstream can send
  MaxRune,    \* the longest character in bytes
  MaxEvents   \* bound on the length of the stream

(* A data line: what kind it is, its stream if it has one, and its text.   *)
Lines == [kind : {"delta", "late"}, key : Keys, text : Texts]
         \cup [kind : {"whole"}, text : Texts]

(* Decoded JSON strings hold whole characters; so do the placeholders, and *)
(* the spans that they stand for, which are not empty (mergeSpans).        *)
ASSUME SSERestorerAssumption ==
  /\ MaxRune \in Nat \ {0}
  /\ MaxEvents \in Nat
  /\ Width \in [Bytes -> 0 .. MaxRune]
  /\ IsFiniteSet(Keys)
  /\ IsFiniteSet(DOMAIN Mapping)
  /\ DOMAIN Mapping # {}
  /\ \A p \in DOMAIN Mapping :
       /\ p \in Texts /\ p # <<>> /\ ValidText(p)
       /\ Mapping[p] \in Texts /\ Mapping[p] # <<>> /\ ValidText(Mapping[p])
  /\ Unambiguous(Mapping)
  /\ \A e \in Events : e \in Seq(Lines) /\ \A i \in 1 .. Len(e) : ValidText(e[i].text)

VARIABLES
  pc,       \* the goroutine: "reading", "writing" (blocked in the pipe), "ended"
  events,   \* how many events it has read
  pending,  \* per key: the text kept back
  out,      \* what the write it is in sends: data lines, and flushed text
  after,    \* what follows the write: "read", "flush" or "close"
  client,   \* "there" or "gone"
  ending,   \* how the pipe ended for its reader: "open", "closed" or "error"
  sent,     \* history, per key: the text the client got in deltas
  raw       \* history, per key: the text the upstream sent, cut where it was flushed

vars == <<pc, events, pending, out, after, client, ending, sent, raw>>

KeepBytes == Max({Len(p) : p \in DOMAIN Mapping}) - 1

Restored(text) == RestoreText(text, Mapping)

Delta(key, text) == [kind |-> "delta", key |-> key, text |-> text]
Flushed(key, text) == [kind |-> "flush", key |-> key, text |-> text]
Whole(text)      == [kind |-> "whole", text |-> text]

TextOf(items, key) ==
  FlattenSeq([i \in DOMAIN items |->
                IF items[i].kind # "whole" /\ items[i].key = key THEN items[i].text ELSE <<>>])

Init ==
  /\ pc = "reading"
  /\ events = 0
  /\ pending = [k \in Keys |-> <<>>]
  /\ out = <<>>
  /\ after = "read"
  /\ client = "there"
  /\ ending = "open"
  /\ sent = [k \in Keys |-> <<>>]
  /\ raw = [k \in Keys |-> << <<>> >>]

-----------------------------------------------------------------------------
(* Mutated form of Recognised: every event is taken for a delta.           *)
MutRecognisedAny(event) == TRUE

Recognised(event) == \E i \in DOMAIN event : event[i].kind = "delta"

KeptBack(kept) == {k \in Keys : kept[k] # <<>>}

(* Mutated form of FlushOrders: only one stream is flushed.                *)
MutFlushOne(kept) == {<<k>> : k \in KeptBack(kept)}

(* flushAll walks a Go map: any order.                                     *)
FlushOrders(kept) == SetToSeqs(KeptBack(kept))

FlushItems(order, kept) ==
  [i \in DOMAIN order |-> Flushed(order[i], Restored(kept[order[i]]))]

Emptied == [k \in Keys |-> <<>>]

CutOff(received) ==
  [k \in Keys |-> IF pending[k] # <<>> THEN Append(received[k], <<>>) ELSE received[k]]

Received(received, key, text) ==
  [received EXCEPT ![key] = Append(Front(@), Last(@) \o text)]

(* Mutated form of TransformDelta: what was kept back is not looked at     *)
(* together with the new text.                                             *)
MutRestoreAlone(kept, text) ==
  LET parts == SplitStreamingSuffix(Restored(text), KeepBytes)
  IN  [prefix |-> kept \o parts.prefix, suffix |-> parts.suffix]

(* Mutated form of TransformDelta: everything is kept until a flush.       *)
MutKeepAll(kept, text) == [prefix |-> <<>>, suffix |-> Restored(kept \o text)]

TransformDelta(kept, text) == SplitStreamingSuffix(Restored(kept \o text), KeepBytes)

(* transformData, for what is written, kept back and received so far.      *)
TransformData(s, line) ==
  IF line.kind = "whole"
  THEN [s EXCEPT !.out = Append(@, Whole(Restored(line.text)))]
  ELSE LET parts == TransformDelta(s.pending[line.key], line.text)
       IN  [out     |-> Append(s.out, Delta(line.key, parts.prefix)),
            pending |-> [s.pending EXCEPT ![line.key] = parts.suffix],
            raw     |-> Received(s.raw, line.key, line.text)]

(* The data lines of an event, one after the other.                        *)
Transformed(start, event) ==
  LET upto[i \in 0 .. Len(event)] ==
        IF i = 0 THEN start ELSE TransformData(upto[i - 1], event[i])
  IN  upto[Len(event)]

(* An event in which no delta is recognised first flushes every stream.    *)
ProcessEvent(event) ==
  LET flush == ~Recognised(event) /\ KeptBack(pending) # {}
      kept  == IF flush THEN Emptied ELSE pending
      cut   == IF flush THEN CutOff(raw) ELSE raw
  IN  \E order \in (IF flush THEN FlushOrders(pending) ELSE {<<>>}) :
        LET done == Transformed([out     |-> FlushItems(order, pending),
                                 pending |-> kept,
                                 raw     |-> cut], event)
        IN  out' = done.out /\ pending' = done.pending /\ raw' = done.raw

ReadEvent ==
  /\ pc = "reading"
  /\ events < MaxEvents
  /\ \E event \in Events : ProcessEvent(event)
  /\ events' = events + 1
  /\ after' \in {"read", "flush"}  \* flush: the stream ends inside this event
  /\ pc' = "writing"
  /\ UNCHANGED <<client, ending, sent>>

FlushAll ==
  /\ \E order \in FlushOrders(pending) : out' = FlushItems(order, pending)
  /\ pending' = Emptied
  /\ raw' = CutOff(raw)

(* The stream is over: what was kept back goes out.                        *)
ReadEOF ==
  /\ pc = "reading"
  /\ FlushAll
  /\ after' = "close"
  /\ pc' = "writing"
  /\ UNCHANGED <<events, client, ending, sent>>

(* pw.Close() or pw.CloseWithError(err).                                   *)
End(how) == pc' = "ended" /\ ending' = how

(* The upstream breaks off; or the client has left, which cancels the      *)
(* request to the upstream.                                                *)
ReadError ==
  /\ pc = "reading"
  /\ End("error")
  /\ UNCHANGED <<events, pending, out, after, client, sent, raw>>

(* The reader of the pipe has taken everything that was written.           *)
Written ==
  /\ pc = "writing"
  /\ client = "there"
  /\ sent' = [k \in Keys |-> sent[k] \o TextOf(out, k)]
  /\ IF after = "flush"
     THEN FlushAll /\ after' = "close" /\ UNCHANGED <<pc, ending>>
     ELSE /\ out' = <<>>
          /\ after' = "read"
          /\ IF after = "close" THEN End("closed") ELSE pc' = "reading" /\ UNCHANGED ending
          /\ UNCHANGED <<pending, raw>>
  /\ UNCHANGED <<events, client>>

(* Mutated form of WriteFails: the error is ignored.                       *)
MutWriteFailsUnnoticed ==
  /\ pc = "writing"
  /\ client = "gone"
  /\ pc' = "reading"
  /\ out' = <<>>
  /\ UNCHANGED <<events, pending, after, client, ending, sent, raw>>

(* The reader has closed the pipe: the write fails and the goroutine gives *)
(* up.                                                                     *)
WriteFails ==
  /\ pc = "writing"
  /\ client = "gone"
  /\ End("error")
  /\ out' = <<>>
  /\ UNCHANGED <<events, pending, after, client, sent, raw>>

ClientLeaves ==
  /\ client = "there"
  /\ client' = "gone"
  /\ UNCHANGED <<pc, events, pending, out, after, ending, sent, raw>>

Over == pc = "ended" /\ UNCHANGED vars

Next ==
  \/ ReadEvent
  \/ ReadEOF
  \/ ReadError
  \/ Written
  \/ WriteFails
  \/ ClientLeaves
  \/ Over

Spec == Init /\ [][Next]_vars

(* The goroutine does not stop inside a write, a client that is there      *)
(* reads on, and a read whose request was cancelled returns.  Nothing      *)
(* makes the upstream send.                                                *)
Fairness ==
  /\ WF_vars(Written \/ WriteFails)
  /\ WF_vars(client = "gone" /\ ReadError)

FairSpec == Spec /\ Fairness

-----------------------------------------------------------------------------
(* What a write sends: a data line, or text that was kept back.            *)
Items == [kind : {"delta", "flush"}, key : Keys, text : Texts]
         \cup [kind : {"whole"}, text : Texts]

(* Every variable has its type.                                            *)
TypeOK ==
  /\ pc \in {"reading", "writing", "ended"}
  /\ events \in 0 .. MaxEvents
  /\ pending \in [Keys -> Texts]
  /\ out \in Seq(Items)
  /\ after \in {"read", "flush", "close"}
  /\ client \in {"there", "gone"}
  /\ ending \in {"open", "closed", "error"}
  /\ sent \in [Keys -> Texts]
  /\ raw \in [Keys -> Seq(Texts) \ {<<>>}]

Apart(s, t) == ~IsPrefix(s, t) /\ ~IsPrefix(t, s)

(* Nothing but a placeholder reads like one once originals are in the      *)
(* text: no original begins like the rest of a placeholder, or has a part  *)
(* that reads or ends like the beginning of one.                           *)
OriginalsApart(mapping) ==
  \A p, q \in DOMAIN mapping :
    /\ \A i \in 2 .. Len(p) : Apart(From(p, i), mapping[q])
    /\ \A i \in 1 .. Len(mapping[q]) : Apart(From(mapping[q], i), p)

(* The text of every segment, restored as a whole.                         *)
Expected(key) == FlattenSeq([i \in DOMAIN raw[key] |-> Restored(raw[key][i])])

(* Where the upstream cuts the text into deltas makes no difference: what  *)
(* the client got, with what is on its way and what is kept back, is what  *)
(* restoring the text between two flushes in one piece gives (pending,     *)
(* RestoreText and splitStreamingSuffix across transformDelta and          *)
(* flushAll).                                                              *)
StreamMatchesWhole ==
  ending # "error" =>
    \A k \in Keys : sent[k] \o TextOf(out, k) \o pending[k] = Expected(k)

(* Only whole characters are on their way to the client and kept back: no  *)
(* character is cut in two (the JSON encoder would replace its halves).    *)
CharactersWhole ==
  /\ \A i \in DOMAIN out : ValidText(out[i].text)
  /\ \A k \in Keys : ValidText(pending[k])

(* What is kept back per stream is less than a placeholder and a           *)
(* character, however long the deltas and the originals are.               *)
PendingBounded ==
  \A k \in Keys : Len(pending[k]) <= KeepBytes + MaxRune - 1

(* An event without a delta overtakes no text: everything received before  *)
(* it goes out in front of it.  (A data line of another kind in an event   *)
(* with a delta does, hasDelta is per event.)                              *)
NothingOvertaken ==
  LET Places(kind) == {i \in DOMAIN out : out[i].kind = kind}
  IN  Places("whole") # {} /\ Places("delta") = {} =>
        /\ KeptBack(pending) = {}
        /\ \A i \in Places("flush"), j \in Places("whole") : i < j

(* A pipe that is closed without an error has carried everything, and the  *)
(* reader of the pipe is not left waiting: when the goroutine has ended,   *)
(* so has the pipe (pw.Close and pw.CloseWithError in replaceSSEBody).     *)
CleanEndComplete ==
  /\ ending = "closed" => \A k \in Keys : pending[k] = <<>> /\ sent[k] = Expected(k)
  /\ pc = "ended" => ending # "open"

(* When the client has left, the goroutine ends.                           *)
GoroutineEnds == client = "gone" ~> pc = "ended"

(* README.md: a placeholder that the upstream splits across chunks is      *)
(* still restored, whatever comes between the chunks.                      *)
SplitsRestored ==
  ending = "closed" => \A k \in Keys : sent[k] = Restored(FlattenSeq(raw[k]))

=============================================================================
