# Verification of privacy-filter

TLA+ models of the privacy filter, the TLC runs that check them and the proofs that
TLAPS checks. Everything is translated from the Go source; the "map" of
`PROJECT.json` says which lines each definition stands for.

    tlc -config MCGateway.cfg MCGateway      # one run
    tlc -config MCGatewaySessions.cfg MCGateway
    tlapm Redaction_proof.tla                # one module of proofs

## The system

The filter takes sensitive values out of a text before a language model sees it and
can put them back into the answer. It is used in three ways: as a library, behind an
HTTP and a gRPC API, and as a reverse proxy ("gateway") in front of a model's API.

| Part | State | Operations | Hard behaviour |
|---|---|---|---|
| detectors of personal data (`filter/pii.go`) | none | five expressions, each with checks after the match | matches that take a number along and are thrown away, boundaries, the checksum |
| detectors of secrets (`filter/secrets.go`, `rules/gitleaks.toml`) | compiled rules, read-only | rules, assignments to key words, words of high entropy | exceptions of each route, spans of several routes that overlap |
| span merging, rebuilding (`filter/filter.go`) | local: sorted spans, last end, builder | `mergeSpans`, the loops of `Redact` and `RedactReversible` | slice bounds, which span wins |
| reversible redaction (`filter/filter.go`) | local: `seen`, `counters`, `mapping`, entities | `RedactReversible`, `RestoreText`, `RestoreJSON` | identity of placeholders, literals that read like one |
| session store (`store/store.go`) | a map from id to mapping and expiry, an RWMutex, the clock | `Save`, `Load`, `Destroy` | two critical sections in `Load`, cloning outside the lock, the instant of expiry |
| HTTP and gRPC APIs (`internal/httpapi`, `internal/grpcapi`) | none of their own | redact, batch, redact reversibly, restore | one store behind both, failures between redacting and saving |
| processes (`cmd/server`, `cmd/http`, `cmd/grpc`, `internal/config`) | two servers, or one | boot, listen, signal, shutdown | order of the two shutdowns, a listener that fails, handlers in flight |
| gateway request path (`internal/gateway`) | per request: body, `GetBody`, mapping in the context | `ServeHTTP`, `redactRequestBody`, `restoreResponse` | concurrent requests, retries by the transport, conversations the upstream remembers |
| bypass sessions (`internal/gateway`) | table of at most 1024 sessions, a mutex | `mark`, `has`, `pruneLocked` | eviction between two requests of a session, ids in map order |
| protected JSON ranges (`internal/gateway`) | local | `protectedJSONValueRanges...`, `mergeByteRanges`, `filterReversibleResult` | scanning without parsing, escapes, in-place merging, hits that are taken back |
| JSON bodies (`internal/gateway`, `filter/filter.go`) | local | `redactBody`, `parseJSONBody`, `RestoreJSON`, `marshalJSON` | bytes are replaced in encoded text and put back into decoded strings |
| streamed restoration (`internal/gateway`) | per response: `pending` text per stream, a pipe | `processEvent`, `transformDelta`, `flushAll` | placeholders cut anywhere, UTF-8, other events in between, a client that leaves |
| gateway log | none that others depend on | `logEvent`, `logBodyEvent`, the details of replacing and restoring | sensitive values in log lines |
| gateway process (`cmd/gateway`), generated code | none | | |

The APIs call the filter and the store. The gateway calls the filter and keeps no
sessions: the mapping of a request travels in its context to `restoreResponse`.
Requests of the gateway share only the table of bypass sessions, requests of the APIs
only the store. A streamed response has a goroutine of its own that talks to the
reverse proxy through an `io.Pipe`.

## Modules

    PII <- Secrets <- Detection        from a text to the merged spans
    Spans          byte positions: from reported spans to the text sent on
    JSONBody       one JSON body there and back, byte by byte
    Redaction      tokens: placeholders, mapping, protected parts, restoration
    SessionStoreAbs <- SessionStore    the promise of the store, and MemoryStore
    Service        both APIs and the three server processes, over SessionStoreAbs
    BypassSessions <- Gateway          the table, and the requests that use it
    Replacer       <- SSERestorer      text operations, and the streaming goroutine
    *_proof        theorems about the module they extend
    MC*            finite instances

`Service` takes its store from `SessionStoreAbs` (INSTANCE), which the run
`session_store` shows `SessionStore` to implement; `Gateway` extends
`BypassSessions`, so that a decision about a request and the change of the table are
one step.

**PII, Secrets, Detection.** A text is a sequence of symbols. Digits and separators are
themselves, so PII spells out every expression over them: `PhoneEnd`, `IDCardEnd`, ...
say where a match that starts at an offset ends, `FindAll` takes matches from left to
right as `FindAllStringIndex` does, and each detector keeps those that pass its checks.
Words are single symbols with a size and a level of entropy (in tenths of a bit, as
high as the highest threshold reached), because the routes for secrets tell no more
apart: `RuleSpans`, `ContextSpans` and `EntropySpans` are the three routes with their
exceptions in the code's order. Two rules stand for the rule file: the one that takes
any assignment to a key word, which is the most intricate, and one that knows the form
of a key. Detection loads the rules, lets every detector report, and merges.

**JSONBody.** `NextField`, `Protect` and `PassOver` are the iterations of
`protectedJSONValueRangesForField`, with its search position; `Redact` is `redactBody`
with any hits; `Answer` an upstream that decodes the body, repeats one of its strings as
a value, a key, in an object that is cut off, before a second document, or as text;
`Restore` is `restoreBodyWithMode`. What `encoding/json` does (`Valid`, `Decoded`,
`Strings`) is written down for flat objects and is the reference the scanner is compared
with: the scanner itself has no notion of depth.

**Spans.** One action per iteration: `SortSpans`, `KeepSpan`/`DropSpan` for the greedy
loop, `WriteHit`/`WriteRest` for the rebuilding loop, `SortRanges`, `NewZone`/`WidenZone`
for `mergeByteRanges`, `AllOpen`/`TakeBack` for `filterReversibleResult`, which sends
the rebuilding loop round a second time. The sort is any arrangement that a stable
sort may return. The spans and ranges are inputs; nothing is assumed of spans but
that they end inside the text.

**Redaction.** A text is a sequence of cells, each a merged span or the text between
two, protected or not. `CopyGap`, `ReusePlaceholder`, `NewPlaceholder` are the
iterations of `RedactReversible`; `FilterProtected` is the gateway's filter; `Reply`
the upstream, which may echo or say anything; `Restore` puts the originals back. A
placeholder is a pair of label and index, since `[label_index]` is injective for the
code's labels.

**SessionStore.** Each critical section is two steps (taking the lock; the work and
the release) and each piece of work outside the lock is one. Map objects live in
`heap` and are referred to by handlers and entries, so that a missing clone would
show: `Mutate` lets a handler change the map it holds at any time. `saved` and `gone`
are history.

**Service.** `Boot`, `Listen`, `Signal`, `StopGRPC`, `Exit` are `main`, of the combined
server or of one with a single API (`process`), which a signal kills; `Accept` to
`Respond` a request in either API, in the order in which the code refuses it.
Listening, draining and accepting are those of `net/http` and `grpc` (external).

**BypassSessions, Gateway.** `Mark` and `Use` are atomic, as in the code (one mutex).
A request arrives, is rejected, skipped, bypassed or redacted, sent, perhaps sent again
through `GetBody`, answered, and restored or passed through. The upstream knows what it
was sent in this conversation and may repeat any of it. Cells carry their origin as
history. `logged` collects the sensitive values that the log lines of a request hold.
A gateway without a configured marker is one whose requests hold none. The
answer to a request is restored as a whole here; how a stream is restored is SSERestorer's.

**Replacer, SSERestorer.** Text is a sequence of bytes; of UTF-8 it keeps how long the
character is that a byte starts (`Width`, 0 for a byte that starts none, which is what
`utf8.RuneStart` asks). `RestoreText` is `strings.Replacer`'s walk from left to right.
`ReadEvent`, `ReadEOF`, `ReadError`, `Written`, `WriteFails`
are the goroutine; `ClientLeaves` closes the pipe's reader. An event is a sequence of
data lines, each a delta, a delta that only the second inspection recognises, or anything
else.

## Runs

| Run | Shows | Bounds |
|---|---|---|
| `detect` | numbers of every kind are masked wherever they stand, values assigned to a key word as a whole; no card number with a wrong digit is reported | about 10,700 texts: two numbers of full length with what may stand around and between them; key word, sign, 13 kinds of value, 6 tails and 3 endings after 33 beginnings; with the rule file and without, with the third route and without |
| `spans` | slices in bounds, hits disjoint, the longest span wins, protected bytes stay, free spans go | every list of 3 spans over 4 bytes, or 2 spans and 2 ranges: nesting, touching, repeating all occur |
| `json` | the scanner protects whole values of the right fields and misses none; replacing inside strings keeps JSON; what is repeated is restored, and an answer stays JSON | bodies of two members from 7 keys and 12 values (escaped quotes, names inside values, embedded JSON, `\/`), 4 of the 17 fields (one of each kind), any single hit of up to 3 bytes anywhere; 5 texts, one with a placeholder in it, with any two hits as well, equal originals under one placeholder |
| `redaction` | placeholders identify values, exact mapping, round trip | every text of 3 cells with 2 labels and 2 values: a repeat, a second value and a typed placeholder fit |
| `session_store` | no race, no sharing, right answers, refinement of the atomic store, every call returns | 2 goroutines, 1 id, 2 contents, a clock of 3 instants: save, load and destroy of one id overlap, and it expires between any two steps |
| `service` | either API restores what either saved, under its own id, and not past its time; nothing accepted is cut off, except what Shutdown gave up on; after the signal the process ends | 3 requests (of different APIs and operations), all three programs, an unset, a valid and an invalid lifetime: two redactions and a restore, or one and two |
| `gateway` | raw values only by opting out, nobody else's values, one exchange is transparent, the log holds only what was replaced, every request ends | 2 requests of every shape, 2 values |
| `gateway_sessions` | who is let through unredacted and for how long | 3 requests, 2 sessions, 1 place: opting out, eviction by another session and a request after it, with ties |
| `sse` | streaming equals restoring in one piece between flushes; characters, bound, order, ending of the pipe and of the goroutine | 4 events, also of two data lines, 2 streams, placeholders of 3 and 4 bytes with a two-byte character, originals longer and shorter |

Symmetry is used for goroutines, requests, sessions and labels where they are
interchangeable, never in a run with a liveness property.

### Disagreements

Three runs end in a violation: a statement of the documentation or of a test that the
code does not keep.

- `sse_split`: an event of another kind between the halves of a placeholder flushes
  the first half; neither is restored (README.md:172-174).
- `gateway_conversation`: a placeholder of an earlier turn is restored with the latest
  turn's mapping (SKILL.md:41).
- `json_broken`: `generic-api-key` matches from the key word inside a name to the quote
  behind the value, so `{"api_key":"..."}` is sent as `{"[...]}`, which is no JSON
  (gateway_test.go:260 fails on such a request).

The passing properties next to them state what does hold: `StreamMatchesWhole` between
flushes, `TransparentInOneTurn`, and `StillJSON` for hits within one string. Other limits
of the code show in the way a property had to be stated:

- `RoundTrip` needs `NoClash`: a placeholder that the client typed itself is replaced on
  the way back.
- `EveryStartCovered` speaks of the start of a span: the tail of a span that begins
  inside an earlier one and ends behind it is sent on. `ExplicitSecretsMasked` shows
  where this happens: a long word that holds the key word and the beginning of its value
  is a span of the third route, and displaces the span of the whole value.
- `NumbersMasked` leaves out a phone number behind digits that end in 86: the match that
  takes them for a country code is thrown away, and the number with it.
- `RepliesRestored` holds of originals without quotes and backslashes: others are bytes
  of the encoded body, and their escapes are doubled when a decoded answer is encoded
  again; and of bodies without a placeholder, as `RoundTrip` does. Keys of objects are
  not restored, and a second document is dropped.
- `ProtectedUntouched` does not count a value with the escape `\/`, which
  `strconv.Unquote` refuses.
- `StreamMatchesWhole` and `CleanEndComplete` need `OriginalsApart` (an ASSUME of the
  instance, a hypothesis of the theorems): no original can be taken for a part of a
  placeholder of the same request, at its beginning, inside or at its end. Restored text
  that is kept back passes through `RestoreText` again, together with what comes next: an
  original that ends in `[` could open a placeholder with it.
- `NothingOvertaken` speaks of events without a delta: in one that has a delta too, a
  data line of another kind goes out before the end of the delta that is kept back. And
  when the upstream ends without the blank line of its last event, the flushed text
  follows that event's lines directly.
- `LogHoldsReplaced` allows the log of level info to hold every original that was
  replaced, as gateway_test.go expects, although the README speaks of metadata only.
- `OptOutHolds` lasts until as many other sessions as the table has places were used
  (README.md:207 says "for the rest of that session").
- Nothing like "an expired session goes eventually" is stated, since only its own id's
  `Load` or `Destroy` removes it.

### Fairness

- SessionStore: a goroutine inside a call goes on (weak), and one that waits for the
  lock gets it (strong): `sync.RWMutex` keeps new readers out while a writer waits and
  lets waiting readers in first when a writer unlocks. Nobody has to call.
- SSERestorer: a write that can proceed or fail does, a client that is there reads on,
  and a read whose request was cancelled returns. Nothing makes the upstream send.
- Gateway: the handler runs, and the upstream answers or fails or its client gives up.
- Service: Shutdown and GracefulStop return when they may, and a gRPC handler, whose
  message is complete, runs. HTTP handlers may hang on a slow body.

## Proofs

Each is for every value of the constants, from the named ASSUME of its module.

- **Redaction_proof**: `TypeOK`, `PlaceholderIdentity`, `MappingExact`,
  `RedactsExactly`, `RoundTrip`, `RestoresMeaning`. The inductive invariant adds that
  every index given out lies below its label's counter (`NamesCounted`), that `seen` is
  injective (`NamesDistinct`), that each hit carries the name `seen` has for it
  (`HitsNamed`), that the cells written so far are the hits and the copies
  (`SpansHit`, `Written`) and that before the filter the mapping is the inverse of
  `seen` (`MappingOfSeen`). Without the counters a new name could repeat an old one.
- **SessionStore_proof**: `TypeOK`, `NoMapRace`, `NoSharing`, `LoadsWhatWasSaved`,
  `GoneForGood`, `KeptWhileAlive`. The invariant ties the mutex to the program
  counters (`LocksHeld`), makes every handler's map its own (`OwnMaps`), keeps stored
  maps equal to what was saved (`StoredAsSaved`), and follows an id drawn by `Save`
  until it is published (`EntriesPending`) and an entry taken by `Load` after the lock
  is gone (`EntriesTaken`).
  The same module proves `Spec => ImplementsAtomicStore`, the refinement of
  `SessionStoreAbs`. Seven kinds of steps are steps of the atomic store (a save at its
  commit, a load when it reads the entry, a destroy when it removes it, an expired
  entry's deletion as a collection); drawing an id, taking the lock, cloning and what a
  handler does to its own map are stutters. The mapping needs four clauses beyond the
  invariant above: no call starts later than now (`CalledBefore`), a
  goroutine is in the handler it called (`HandlerCalled`), the entry being saved ends its
  life ttl after an instant of the call (`SavePromised`), and who is told "expired" is on
  record (`ToldExpired`; with `GoneOnce` it makes the atomic `Return` legal).
- **BypassSessions_proof**: `BypassTypeOK`, `SeenBounded`, `DroppedOnlyWhenCrowded`
  (the last two are left to the proof; `OptOutHolds` is what the runs check of them). The
  argument: what is pruned is no newer than the `MaxSeen` sessions that stay, and the
  set of sessions newer than one that is out of the table only grows.
- **Gateway_proof**: `TypeOK`, `RawOnlyByOptOut`, `NobodyElsesValues`,
  `TransparentInOneTurn`, `LogHoldsReplaced`, `BypassNeedsMarker`, the action property
  `OptOutHolds`, and that the gateway touches the table of sessions only by its
  operations (`Spec => BypassSpec`). The invariant says what each place of a request
  has filled in (`Fresh`), that the decision agrees with the body and the session
  (`AsDecided`), that what an upstream knows of a request is what that request sent,
  masked or not as decided (`KnowsTold`), that an answer is made of what is known
  (`AnswersKnown`) and restored with the request's own mapping (`GetsAnswer`), and that
  every session in the table has carried the marker (`SeenHasMarker`). `OptOutHolds`
  then follows from `DroppedOnlyWhenCrowded`.
- **Spans_proof**: `TypeOK`, `HitsDisjoint`, `SlicesLegal`, `EveryStartCovered`, then
  `LongestFirst`, `ProtectedKept`, `UnprotectedMasked`. The first invariant says that
  what is left to look at is sorted, that `lastEnd` is the end of the last hit, that
  every valid span is still to come or begins inside a hit, and that the rebuilding loop
  has written exactly up to `prev`. The second has three parts: `OrderInv` (what is left
  is an arrangement of reports; a hit is the first of the longest at its start),
  `ZoneInv` (the merged ranges cover the protected ones and nothing but them) and
  `PieceInv` (a span nobody else meets becomes a hit; the masked pieces are the hits that
  no zone touches).
- **Service_proof**: `TypeOK`, `RestoresOwnText`, `SessionsAnswer`, `NothingPastItsTime`,
  `NothingCutOff`, and that both APIs use the store by its operations alone
  (`Spec => Store!Spec`). The invariant has a part for the process (`NobodyYet`,
  `Listeners`: who can be accepted at which stage) and one for the sessions: how far
  each request has got (`Progress`), that a live session belongs to one redaction and
  holds its mapping (`Owned`, `Names`), that it is kept for at least ttl and at most
  until ttl after the answer (`Kept`), and what a client can have been told (`Told`).
  It needs one assumption, `NothingAssumption`: no call and no answer is `Nothing`.
- **JSONBody_proof**: `TypeOK`, `RangesAreValues`, `ProtectedUntouched`, `StillJSON`,
  `RepliesRestored`, for bodies of any length, any list of fields and any report
  (`JSONBodyAssumption`: the name of a field is a word, no punctuation of JSON; a
  placeholder is neither a quote nor a backslash; `IsReport`: the hits of a report are in
  order and apart, as `mergeSpans` leaves them, and share a placeholder only if they share
  their original). The lemmas come first: quoting satisfies its recursion
  (`EscapesRule`, by a least counterexample, since induction is out of reach) and restarts
  behind any symbol but a backslash (`QuotesRestart`: what `scanJSONStringEnd` sees is
  what a reader of the whole body sees); quotes pair up (`OpenedIsClosed`,
  `ClosedIsOpened`); between the strings of a valid body is only punctuation
  (`OutsideSymbols`), so a name before a quote stands at the end of a string
  (`NameIsInString`), and no value is a key as well (`NoKeyAsValue`). The invariant adds
  that the scanner has left no member behind that is due (`Scanned`): skipping to the end
  of a value that was protected jumps over none (`DueFound`). For `StillJSON`, `Reworded`
  says of two bodies that the symbols of one stand in the same order in the other, but for
  parts of strings that single symbols replace; then both quote and escape at the same
  places, and have the same outline (`SameEscapes`, `SameQuotes`, `SameOutline`, from which
  `SameForm`). What `FlattenSeq` puts together is known by where each of its pieces begins
  (`SomeJoins`, `FlattenGives`, `SomeOffsets`), which makes a body and the one that is sent
  such a pair (`WithinReworded`). `RepliesRestored` takes the same way back and through
  two codings: decoding undoes encoding (`EncodedFacts`); an object is read as it was
  written, is the first document of its text and ends nowhere before
  (`ObjectReads`, `ObjectAlone`); and restoring the value of a string of the body that is
  sent gives the value of the same string of the client's body (`SaidRestored`), symbol by
  symbol: what stays, stays in order, and a placeholder becomes the places it stands for
  (`Unveiled`, `RestoredSpelling`). That needs originals without quotes and backslashes
  only to know that a hit is inside one string or spans none (`PlainAligned`); the first
  half, that the answer is JSON, needs nothing. The invariants are `SentAsReplaced` and
  `Repeated`: what was sent, what was answered with it and what was made of that.
- **SSERestorer_proof**: `TypeOK`, `CharactersWhole`, `PendingBounded`, `NothingOvertaken`;
  and, from `OriginalsApart`, `StreamMatchesWhole` and `CleanEndComplete`. It assumes
  `SSERestorerAssumption`: texts, placeholders and originals consist of whole characters,
  none of them is empty, and no placeholder is a part of another (`Unambiguous`; in the
  code a bracket opens it and the next one closes it). The lemmas about
  `RestoreText` come first: it satisfies its recursion (`RestoredNothing`, `RestoredByte`,
  `RestoredPlaceholder`), restoring what was restored up to any point, followed by more,
  is restoring all of it at once (`RestoredTwice`), and restored text holds no placeholder (`RestoredIsFree`). They are
  shown by a least counterexample over the length of the text. A second group says what
  one delta sends and keeps (`DeltaFacts`), that the cut falls between characters
  (`SplitWhole`), and what a flush sends of each stream, in any order (`FlushFacts`).
  `WholeInv` carries the first three properties. `StreamInv` adds that what is kept back
  holds no placeholder, so that flushing it, or restoring it once more, changes nothing;
  `Phases` ties `after` and `ending` to the place of the goroutine.

The type invariants are proved here and left out of the runs where nothing else would
be learnt. Every inductive invariant was model-checked before it was proved.

Only model-checked:

- Liveness: `EveryCallReturns`, `GoroutineEnds`, `EveryRequestEnds`, `SignalEnds` rest on
  fairness, which the prover does not handle.
- Detection: the expressions of PII and Secrets search a text recursively.

## Not modelled

- `reEmail` and the characters inside words: an e-mail address, a key, a UUID is one
  symbol, so what a single character does to these expressions is not covered; nor are
  blocks of private keys and the prefixes of long structured secrets, which only widen
  what the routes accept. `shannonEntropy` is a table of levels. The rule file is data:
  two kinds of rules stand for it, and none with a `secretGroup`.
- JSON of more depth than one object, numbers but 0, and `\u` escapes: the scanner looks
  at none of them, and `RestoreJSON` treats every string value alike.
- HTTP paths and header rewriting of the director; formatting, truncation and counters
  of the log.
- `cmd/gateway`, which reads its settings and serves one handler until it is killed, and
  the generated gRPC code.
- A gRPC client that never completes its message is outside Service.

## Plan

Done, in this order: Redaction, SessionStore with its abstraction, SSERestorer,
BypassSessions and Gateway, Spans, Service, four modules of proofs; the scanner and
RestoreJSON (JSONBody), detection (PII, Secrets, Detection), the single-API servers and
the log; then the proofs about Gateway and Service, of what Spans says of protection, of
the refinement of SessionStore, of JSONBody as a whole, and of SSERestorer. What is left
is out of the prover's reach: liveness, and the recursive expressions of Detection.
