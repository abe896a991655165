------------------------------ MODULE Gateway ------------------------------
(***************************************************************************)
(* The path of requests through the gateway (internal/gateway/gateway.go): *)
(* a request is refused, passed on untouched, passed on untouched because  *)
(* its session opted out, or redacted; the mapping of a redacted request   *)
(* travels in the request's context and restores the response.  Requests   *)
(* run concurrently and share only the table of BypassSessions.            *)
(*                                                                         *)
(* A body is a sequence of fields, each holding one sensitive value in a   *)
(* part of the JSON that is protected or not.  The upstream and the        *)
(* transport are the environment: the upstream remembers earlier turns of  *)
(* a conversation (previous_response_id) and may repeat anything it knows, *)
(* the transport may send a request again.                                 *)
(***************************************************************************)
EXTENDS BypassSessions, Sequences

CONSTANTS
  Requests,  \* the requests of a run
  Values,    \* the sensitive values, all of one type
  Offers,    \* what a client may send
  LogLevel,  \* Options.LogLevel
  DebugBody, \* Options.DebugBody
  None       \* no session, no earlier turn

Field == [value : Values, protected : BOOLEAN]

(* "none": no body; "empty": a body of no bytes; "binary": a content type  *)
(* the gateway does not transform; "encoded": a Content-Encoding;          *)
(* "unreadable": reading the body fails.                                   *)
Shapes == {"text", "none", "empty", "binary", "encoded", "unreadable"}

Offer == [shape : Shapes, body : Seq(Field), marker : BOOLEAN,
          header : Sessions \cup {None},  \* first valid id in the headers
          top : Sessions \cup {None},     \* ... in the body's own fields
          nested : SUBSET Sessions]       \* the ids deeper in the JSON

(* The responses, with the same meanings; "sse" is an event stream (read   *)
(* to its end here: SSERestorer has the rest).                             *)
ReplyShapes == {"text", "sse", "binary", "encoded", "unreadable"}

Placeholder(n) == [index |-> n]

ASSUME GatewayAssumption ==
  /\ Offers \subseteq Offer
  /\ LogLevel \in {"error", "info", "debug", "trace"} /\ DebugBody \in BOOLEAN
  /\ None \notin Sessions \cup Requests
  /\ \A v \in Values : v \notin [index : Nat]

VARIABLES
  pc,       \* where each request is
  req,      \* what the client sent
  prev,     \* the turn it continues
  path,     \* how the gateway treated it
  session,  \* the session id it was decided for (status.sessionHash)
  mapping,  \* the mapping in its context
  body,     \* r.Body: what will be sent
  again,    \* r.GetBody: what will be sent on a retry
  knows,    \* what the upstream read in this conversation
  reply,    \* the response
  got,      \* what the client gets
  status,   \* its status code, 0 before
  logged    \* the sensitive values that its log lines hold

requestVars == <<pc, req, prev, path, session, mapping, body, again, knows,
                 reply, got, status, logged>>
vars == <<bypassVars, requestVars>>

NoOffer == [shape |-> "none", body |-> <<>>, marker |-> FALSE,
            header |-> None, top |-> None, nested |-> {}]

All(x) == [r \in Requests |-> x]

Init ==
  /\ BypassInit
  /\ pc = All("idle") /\ req = All(NoOffer) /\ prev = All(None)
  /\ path = All("none") /\ session = All(None) /\ mapping = All(<<>>)
  /\ body = All(<<>>) /\ again = All(<<>>) /\ knows = All({})
  /\ reply = All(<<>>) /\ got = All(<<>>) /\ status = All(0)
  /\ logged = All({})

Goto(r, from, to) == pc[r] = from /\ pc' = [pc EXCEPT ![r] = to]

End(r, from, code) ==
  Goto(r, from, "done") /\ status' = [status EXCEPT ![r] = code]

-----------------------------------------------------------------------------
(* Redaction of one body: each value is numbered by its first appearance;  *)
(* the protected parts count but stay as they are, and a value that appears*)
(* in no other part has no entry in the mapping.                           *)
FirstAt(b, v) ==
  CHOOSE i \in DOMAIN b :
    b[i].value = v /\ \A j \in DOMAIN b : b[j].value = v => i <= j

PlaceholderOf(b, v) ==
  Placeholder(Cardinality({b[j].value : j \in 1 .. FirstAt(b, v) - 1}))

(* A cell of a text: what it says, what it meant to the client who sent it,*)
(* and where it comes from (the last two are history).                     *)
Cell(r, b, i, shown) ==
  [shown |-> shown, meant |-> b[i].value, from |-> r, at |-> i]

Raw(r, b) == [i \in DOMAIN b |-> Cell(r, b, i, b[i].value)]

Redacted(r, b) ==
  [i \in DOMAIN b |->
     Cell(r, b, i, IF b[i].protected THEN b[i].value
                   ELSE PlaceholderOf(b, b[i].value))]

(* Mutated form of MappingOf: the entries left are renumbered from 0.      *)
MutMappingRenumbered(b) ==
  LET open == SelectSeq(b, LAMBDA f : ~f.protected)
  IN  [p \in {PlaceholderOf(open, open[i].value) : i \in DOMAIN open} |->
         open[CHOOSE i \in DOMAIN open :
                PlaceholderOf(open, open[i].value) = p].value]

MappingOf(b) ==
  LET open == {i \in DOMAIN b : ~b[i].protected}
  IN  [p \in {PlaceholderOf(b, b[i].value) : i \in open} |->
         b[CHOOSE i \in open : PlaceholderOf(b, b[i].value) = p].value]

Restored(m, shown) == IF shown \in DOMAIN m THEN m[shown] ELSE shown

-----------------------------------------------------------------------------
(* The client's request arrives; it may continue an answered turn.         *)
Arrive(r) ==
  /\ Goto(r, "idle", "arrived")
  /\ \E o \in Offers : req' = [req EXCEPT ![r] = o]
  /\ \E q \in {None} \cup {q \in Requests : status[q] = 200} :
       prev' = [prev EXCEPT ![r] = q]
  /\ UNCHANGED <<bypassVars, path, session, mapping, body, again, knows,
                 reply, got, status, logged>>

(* Reading the body fails: 400, and the upstream is not called.            *)
Reject(r) ==
  /\ req[r].shape = "unreadable"
  /\ End(r, "arrived", 400)
  /\ path' = [path EXCEPT ![r] = "rejected"]
  /\ UNCHANGED <<bypassVars, req, prev, session, mapping, body, again, knows,
                 reply, got, logged>>

(* The bodies redactRequestBody leaves alone.  A request it does not       *)
(* replace has no GetBody.                                                 *)
Skip(r) ==
  /\ req[r].shape \in {"none", "empty", "binary", "encoded"}
  /\ Goto(r, "arrived", "ready")
  /\ path' = [path EXCEPT ![r] = "skipped"]
  /\ body' = [body EXCEPT ![r] = Raw(r, req[r].body)]
  /\ UNCHANGED <<bypassVars, req, prev, session, mapping, again, knows,
                 reply, got, status, logged>>

(* Mutated form of ReplaceBody: a retry still reads the original body.     *)
MutReplaceBodyOnce(r, b) ==
  /\ body' = [body EXCEPT ![r] = b]
  /\ again' = [again EXCEPT ![r] = Raw(r, req[r].body)]

(* replaceRequestBody: the body, and the one a retry reads.                *)
ReplaceBody(r, b) ==
  /\ body' = [body EXCEPT ![r] = b]
  /\ again' = [again EXCEPT ![r] = b]

(* codexSessionIDFromRequest: the headers come first, then the body's own  *)
(* fields, then the ids deeper down in the order a Go map is walked, which *)
(* may be any.                                                             *)
SessionsOf(o) ==
  IF o.header # None THEN {o.header}
  ELSE IF o.top # None THEN {o.top}
  ELSE o.nested

Bypass(r, s) ==
  /\ Goto(r, "arrived", "ready")
  /\ path' = [path EXCEPT ![r] = "bypassed"]
  /\ session' = [session EXCEPT ![r] = s]
  /\ ReplaceBody(r, Raw(r, req[r].body))
  /\ UNCHANGED <<req, prev, mapping, knows, reply, got, status, logged>>

(* requestBypassStatus: active because of the marker, ...                  *)
BypassByMarker(r) ==
  /\ req[r].shape = "text" /\ req[r].marker
  /\ \E s \in SessionsOf(req[r]) : Bypass(r, s) /\ Mark(s)

(* ... because an earlier request of the session had it, ...               *)
BypassBySession(r) ==
  /\ req[r].shape = "text" /\ ~req[r].marker
  /\ \E s \in SessionsOf(req[r]) : Bypass(r, s) /\ Use(s)

(* ... or not active: no session (a marker then counts for nothing), or    *)
(* one that is not in the table.                                           *)
NoBypass(r) ==
  /\ req[r].shape = "text"
  /\ Goto(r, "arrived", "redacting")
  /\ \/ SessionsOf(req[r]) = {} /\ session' = session
     \/ \E s \in SessionsOf(req[r]) \ DOMAIN seen :
          ~req[r].marker /\ session' = [session EXCEPT ![r] = s]
  /\ UNCHANGED <<bypassVars, req, prev, path, mapping, body, again, knows,
                 reply, got, status, logged>>

(* Mutated form of WithMapping: the gateway keeps the mapping of the       *)
(* latest request.                                                         *)
MutMappingShared(r, m) ==
  mapping' = [q \in Requests |-> IF pc[q] # "idle" THEN m ELSE mapping[q]]

(* withMapping: the mapping goes into the context of this request.         *)
WithMapping(r, m) == mapping' = [mapping EXCEPT ![r] = m]

Cells(b) == {b[i] : i \in DOMAIN b}

(* Mutated form of LogsBodies: the setting alone is enough.                *)
MutLogsBodiesAlways == DebugBody

(* logEvent at level info, and logBodyEvent.                               *)
LogsDetails == LogLevel # "error"
LogsBodies  == DebugBody /\ LogLevel \in {"debug", "trace"}

(* The sensitive values that reach the log with some originals and a text. *)
Log(r, originals, text) ==
  logged' = [logged EXCEPT ![r] = @
    \cup (IF LogsDetails THEN originals ELSE {})
    \cup (IF LogsBodies THEN {c.shown : c \in Cells(text)} \cap Values ELSE {})]

Redact(r) ==
  /\ Goto(r, "redacting", "ready")
  /\ path' = [path EXCEPT ![r] = "redacted"]
  /\ ReplaceBody(r, Redacted(r, req[r].body))
  /\ WithMapping(r, MappingOf(req[r].body))
  /\ Log(r, {f.value : f \in {g \in Cells(req[r].body) : ~g.protected}}, Redacted(r, req[r].body))
  /\ UNCHANGED <<bypassVars, req, prev, session, knows, reply, got, status>>

-----------------------------------------------------------------------------
(* The transport and the upstream.                                         *)
Send(r) ==
  /\ Goto(r, "ready", "waiting")
  /\ knows' = [knows EXCEPT ![r] =
       Cells(body[r]) \cup IF prev[r] = None THEN {} ELSE knows[prev[r]]]
  /\ UNCHANGED <<bypassVars, req, prev, path, session, mapping, body, again,
                 reply, got, status, logged>>

(* The connection was lost before the answer: the transport reads the body *)
(* again.                                                                  *)
Resend(r) ==
  /\ pc[r] = "waiting"
  /\ knows' = [knows EXCEPT ![r] = @ \cup Cells(again[r])]
  /\ UNCHANGED <<bypassVars, pc, req, prev, path, session, mapping, body,
                 again, reply, got, status, logged>>

(* No answer, or the client left: ErrorHandler.                            *)
UpstreamFails(r) ==
  /\ End(r, "waiting", 502)
  /\ UNCHANGED <<bypassVars, req, prev, path, session, mapping, body, again,
                 knows, reply, got, logged>>

(* The upstream repeats something it was told in this conversation.        *)
Answer(r) ==
  /\ Goto(r, "waiting", "answered")
  /\ \E shape \in ReplyShapes, cell \in knows[r] :
       reply' = [reply EXCEPT ![r] = [shape |-> shape, cell |-> cell]]
  /\ UNCHANGED <<bypassVars, req, prev, path, session, mapping, body, again,
                 knows, got, status, logged>>

(* An answer that repeats nothing.                                         *)
AnswerPlain(r) ==
  /\ End(r, "waiting", 200)
  /\ UNCHANGED <<bypassVars, req, prev, path, session, mapping, body, again,
                 knows, reply, got, logged>>

-----------------------------------------------------------------------------
(* restoreResponse: without a mapping, or when the response is not text,   *)
(* the response stays as it is.                                            *)
Untouched(r) ==
  mapping[r] = <<>> \/ reply[r].shape \in {"binary", "encoded"}

Give(r, shown) ==
  /\ reply[r].shape # "unreadable"
  /\ End(r, "answered", 200)
  /\ got' = [got EXCEPT ![r] = [reply[r].cell EXCEPT !.shown = shown]]
  /\ UNCHANGED <<bypassVars, req, prev, path, session, mapping, body, again,
                 knows, reply>>

PassThrough(r) ==
  /\ pc[r] = "answered" /\ Untouched(r)
  /\ Give(r, reply[r].cell.shown)
  /\ UNCHANGED logged

(* The placeholders that were restored are logged, and the text unless it  *)
(* is a stream.                                                            *)
Restore(r) ==
  LET shown == reply[r].cell.shown
  IN  /\ pc[r] = "answered" /\ ~Untouched(r)
      /\ Give(r, Restored(mapping[r], shown))
      /\ Log(r, {mapping[r][p] : p \in {shown} \cap DOMAIN mapping[r]},
             IF reply[r].shape = "sse" THEN <<>>
             ELSE <<[shown |-> Restored(mapping[r], shown)]>>)

(* Mutated form of ReadFails: the error is noticed only if the response is *)
(* copied.                                                                 *)
MutReadFailsUnnoticed(r) ==
  /\ pc[r] = "answered" /\ reply[r].shape = "unreadable" /\ Untouched(r)
  /\ End(r, "answered", 200)
  /\ UNCHANGED <<bypassVars, req, prev, path, session, mapping, body, again,
                 knows, reply, got, logged>>

(* Reading the response fails: ErrorHandler if it was to be restored; if   *)
(* not, the status is out already and the connection is cut.               *)
ReadFails(r) ==
  /\ pc[r] = "answered" /\ reply[r].shape = "unreadable"
  /\ End(r, "answered", IF Untouched(r) THEN 200 ELSE 502)
  /\ UNCHANGED <<bypassVars, req, prev, path, session, mapping, body, again,
                 knows, reply, got, logged>>

-----------------------------------------------------------------------------
Handle(r) ==
  \/ Reject(r) \/ Skip(r)
  \/ BypassByMarker(r) \/ BypassBySession(r) \/ NoBypass(r)
  \/ Redact(r) \/ Send(r)
  \/ PassThrough(r) \/ Restore(r) \/ ReadFails(r)

Upstream(r) == Answer(r) \/ AnswerPlain(r) \/ UpstreamFails(r)

Next ==
  \/ \E r \in Requests :
       Arrive(r) \/ Handle(r) \/ Upstream(r) \/ Resend(r)
  \/ Tick /\ UNCHANGED requestVars

Spec == Init /\ [][Next]_vars

(* The goroutine of a request runs, and the upstream answers, fails, or    *)
(* its client gives up; no more than that.                                 *)
FairSpec ==
  Spec /\ \A r \in Requests : WF_vars(Handle(r)) /\ WF_vars(Upstream(r))

-----------------------------------------------------------------------------
(* Every variable has its type, and the parts of a request's state agree   *)
(* with where it is.                                                       *)
TypeOK ==
  /\ BypassTypeOK
  /\ \A r \in Requests :
       /\ pc[r] \in {"idle", "arrived", "redacting", "ready", "waiting",
                     "answered", "done"}
       /\ req[r] \in Offers \cup {NoOffer}
       /\ prev[r] \in Requests \cup {None}
       /\ path[r] \in {"none", "rejected", "skipped", "bypassed", "redacted"}
       /\ session[r] \in Sessions \cup {None}
       /\ \A p \in DOMAIN mapping[r] :
            p \in [index : Nat] /\ mapping[r][p] \in Values
       /\ status[r] \in {0, 200, 400, 502}
       /\ status[r] # 0 <=> pc[r] = "done"
       /\ logged[r] \subseteq Values

(* A value reaches the upstream as it is only from a part of the JSON that *)
(* is protected, in a body the gateway does not transform, or in a request *)
(* whose session opted out; first attempt or retry (README.md:5: sensitive *)
(* data is stripped before it reaches the model).                          *)
RawOnlyByOptOut ==
  \A r \in Requests : \A c \in knows[r] :
    c.shown = c.meant =>
      \/ path[c.from] \in {"skipped", "bypassed"}
      \/ req[c.from].body[c.at].protected

(* A request goes through untouched for its session only if a request of   *)
(* that session carried the marker: the one itself, or one decided before. *)
BypassNeedsMarker ==
  \A r \in Requests : path[r] = "bypassed" =>
    \E q \in Requests :
      req[q].marker /\ path[q] = "bypassed" /\ session[q] = session[r]

(* When a session has opted out, a request of it is redacted again only if *)
(* MaxSeen other sessions have been used since (the table holds no more).  *)
DecidedRedacted(r, s) ==
  pc[r] = "arrived" /\ pc'[r] = "redacting" /\ session'[r] = s

OptOutHolds ==
  [][\A r \in Requests, s \in Sessions :
       DecidedRedacted(r, s) /\ s \in DOMAIN last =>
         Cardinality(NewerThan(s)) >= MaxSeen]_vars

(* A client sees a sensitive value only if it sent it in this request, or  *)
(* the upstream itself wrote it: requests do not read each other's mapping.*)
NobodyElsesValues ==
  \A r \in Requests :
    got[r] # <<>> /\ got[r].shown \in Values =>
      \/ got[r].shown = reply[r].cell.shown
      \/ \E i \in DOMAIN req[r].body : req[r].body[i].value = got[r].shown

(* The gateway is transparent for one exchange: when the upstream repeats  *)
(* what this request told it, in a text the gateway restores, the client   *)
(* reads the value it meant.                                               *)
Readable(r) == got[r] # <<>> /\ reply[r].shape \in {"text", "sse"}

TransparentInOneTurn ==
  \A r \in Requests :
    Readable(r) /\ got[r].from = r => got[r].shown = got[r].meant

(* ... and in a conversation the upstream remembers                        *)
(* (skills/privacy-filter-gateway/SKILL.md:41: "The user always receives   *)
(* the real values"; :64: the same placeholder is the same value).         *)
TransparentInConversation ==
  \A r \in Requests : Readable(r) => got[r].shown = got[r].meant

(* The log of a request holds a sensitive value only if the gateway        *)
(* replaced it in this request - at level error not even then - or if it   *)
(* logs bodies: what is protected, skipped or let through for its session, *)
(* and what the upstream writes, stays out (logRequestReplacementDetails   *)
(* after filterReversibleResult; logBodyEvent).                            *)
LogHoldsReplaced ==
  \A r \in Requests : \A v \in logged[r] :
    /\ path[r] = "redacted" /\ LogLevel # "error"
    /\ \/ \E i \in DOMAIN req[r].body : req[r].body[i] = [value |-> v, protected |-> FALSE]
       \/ DebugBody /\ LogLevel \in {"debug", "trace"}

(* Every request that arrives is answered, one way or the other.           *)
EveryRequestEnds ==
  \A r \in Requests : pc[r] = "arrived" ~> pc[r] = "done"

=============================================================================
