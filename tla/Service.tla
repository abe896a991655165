------------------------------ MODULE Service ------------------------------
(***************************************************************************)
(* The process cmd/server: the HTTP API (internal/httpapi/api.go) and the  *)
(* gRPC API (internal/grpcapi/server.go) over one session store, from the  *)
(* reading of the configuration to the graceful shutdown; and the two      *)
(* processes cmd/http and cmd/grpc, which have one of the APIs each.       *)
(*                                                                         *)
(* The store is the one of SessionStoreAbs, which SessionStore implements: *)
(* a handler calls it, it answers at some instant, the handler returns.    *)
(* net/http and google.golang.org/grpc are the environment: Shutdown and   *)
(* GracefulStop close the listener at once and wait for what was accepted. *)
(* What a handler does between its calls of the store touches nothing      *)
(* shared and is part of the next step.                                    *)
(***************************************************************************)
EXTENDS Naturals

CONSTANTS
  Requests,    \* the requests of a run
  Texts,       \* the texts to redact; the mapping of a text is named after it
  Ids,         \* session ids
  Foreign,     \* an id this process never draws
  NoId,        \* no session_id
  DefaultTTL,  \* store.DefaultTTL
  Settings,    \* what PF_SESSION_TTL may say: a time; 0 if not positive or no time
  Unset,       \* PF_SESSION_TTL is not set
  MaxTime,     \* bound on the clock
  Processes,   \* the programs considered: "server", "http", "grpc"
  Offers,      \* per request: what it may be, of all the Calls below
  Nothing      \* no answer yet

(* The requests.  "plain" stands for health, redact and batch, which leave *)
(* the store alone.  An HTTP body may be no JSON or hold none or both of   *)
(* text and json; a gRPC request may hold neither, or a json string that   *)
(* is no JSON.                                                             *)
Calls ==
  [api : {"http"}, op : {"plain"}, form : {"text", "undecodable"}]
  \cup [api : {"grpc"}, op : {"plain"}, form : {"text"}]
  \cup [api : {"http"}, op : {"redact"}, text : Texts, form : {"text", "undecodable"}]
  \cup [api : {"grpc"}, op : {"redact"}, text : Texts, form : {"text"}]
  \cup [api : {"http"}, op : {"restore"}, id : Ids \cup {NoId},
        form : {"text", "json", "none", "both", "undecodable"}]
  \cup [api : {"grpc"}, op : {"restore"}, id : Ids \cup {NoId},
        form : {"text", "json", "none", "badJSON"}]

ASSUME ServiceAssumption ==
  /\ DefaultTTL \in Nat \ {0}
  /\ Settings \subseteq Nat
  /\ MaxTime \in Nat
  /\ Foreign \in Ids /\ NoId \notin Ids /\ Unset \notin Settings
  /\ Processes \subseteq {"server", "http", "grpc"}
  /\ Offers \in [Requests -> SUBSET Calls]

VARIABLES
  process, \* the program that runs
  stage,   \* main: "boot", "serving", "stopHTTP", "stopGRPC", "exited", "failed", "killed"
  ttl,     \* the lifetime of sessions
  http,    \* the HTTP listener: "starting", "open", "closed", "failed"
  grpc,    \* the gRPC listener: "open", "closed"
  late,    \* whether hs.Shutdown gave up waiting
  pc,      \* per request: "idle", "accepted", "storing", "done"
  call,    \* per request: what the client sent
  result,  \* per request: the answer
  at,      \* history, per request: when it was answered
  clock, live, used, phase, since, req, ans  \* the store

mainVars    == <<process, stage, ttl, http, grpc, late>>
requestVars == <<pc, call, result, at>>
storeVars   == <<clock, live, used, phase, since, req, ans>>
vars        == <<mainVars, requestVars, storeVars>>

Store == INSTANCE SessionStoreAbs
           WITH Threads <- Requests, Contents <- Texts, TTLs <- Settings \cup {DefaultTTL}

Ok           == [kind |-> "ok"]
Session(id)  == [kind |-> "session", id |-> id]
Restored(m)  == [kind |-> "restored", mapping |-> m]
Refused(why) == [kind |-> why]

Answers ==
  {Ok} \cup {Session(id) : id \in Ids \cup {NoId}} \cup {Restored(m) : m \in Texts}
    \cup {Refused(why) : why \in {"invalid", "notFound", "internal"}}

(* Nothing is told from every request and every answer.                    *)
ASSUME NothingAssumption == Nothing \notin Calls \cup Answers

All(x) == [r \in Requests |-> x]

(* cmd/http has no gRPC port, cmd/grpc no HTTP port.  The combined server  *)
(* outlives the failure of its HTTP listener, and it alone asks for the    *)
(* signal.                                                                 *)
OpensGRPC       == process # "http"
OpensHTTP       == process # "grpc"
EndsWithoutHTTP == process = "http"
CatchesSignal   == process = "server"

Init ==
  /\ process \in Processes
  /\ stage = "boot" /\ ttl = 0 /\ late = FALSE
  /\ http = (IF OpensHTTP THEN "starting" ELSE "closed") /\ grpc = "closed"
  /\ pc = All("idle") /\ call = All(Nothing) /\ result = All(Nothing) /\ at = All(0)
  /\ Store!Init

-----------------------------------------------------------------------------
(* config.SessionTTL, for a setting that is none of the invalid ones.      *)
SessionTTL(raw) == IF raw = Unset THEN DefaultTTL ELSE raw

(* main up to the start of the servers.  An invalid setting ends it before *)
(* anything listens, and so does a gRPC port that cannot be opened; the    *)
(* HTTP port is opened later, by ListenAndServe.                           *)
Boot ==
  /\ stage = "boot"
  /\ \E raw \in Settings \cup {Unset} :
       \/ (raw = 0 \/ OpensGRPC) /\ stage' = "failed" /\ UNCHANGED <<ttl, grpc>>
       \/ /\ raw # 0
          /\ stage' = "serving" /\ ttl' = SessionTTL(raw)
          /\ grpc' = IF OpensGRPC THEN "open" ELSE "closed"
  /\ UNCHANGED <<process, http, late, requestVars, storeVars>>

(* ListenAndServe.  In the combined server its failure is logged and the   *)
(* process goes on without HTTP; in cmd/http it is fatal.  After Shutdown  *)
(* it opens nothing.                                                       *)
Listen ==
  /\ stage \in {"serving", "stopHTTP", "stopGRPC"} /\ http = "starting"
  /\ http' \in IF stage = "serving" THEN {"open", "failed"} ELSE {"closed"}
  /\ stage' = IF EndsWithoutHTTP /\ http' = "failed" THEN "failed" ELSE stage
  /\ UNCHANGED <<process, ttl, grpc, late, requestVars, storeVars>>

Active(r) == pc[r] \in {"accepted", "storing"}

(* The signal.  The combined server takes it and calls hs.Shutdown, which  *)
(* closes the HTTP listener; the others are killed by it.                  *)
Signal ==
  /\ stage = "serving"
  /\ stage' = IF CatchesSignal THEN "stopHTTP" ELSE "killed"
  /\ http' = IF http = "open" THEN "closed" ELSE http
  /\ grpc' = IF CatchesSignal THEN grpc ELSE "closed"
  /\ UNCHANGED <<process, ttl, late, requestVars, storeVars>>

HTTPDrained == \A r \in Requests : Active(r) => call[r].api # "http"

(* Five seconds have passed and something is still running.                *)
GiveUp == ~HTTPDrained /\ late' = TRUE

(* Shutdown returns, and its error is ignored; GracefulStop closes the     *)
(* gRPC listener.  The HTTP requests still running are left running.       *)
StopGRPC ==
  /\ stage = "stopHTTP"
  /\ (HTTPDrained /\ late' = late) \/ GiveUp
  /\ stage' = "stopGRPC" /\ grpc' = "closed"
  /\ UNCHANGED <<process, ttl, http, requestVars, storeVars>>

(* Mutated form of GRPCDrained: Stop instead of GracefulStop.              *)
MutStop == TRUE

(* Mutated form of GRPCDrained: it waits for the HTTP requests as well.    *)
MutWaitForAll == \A r \in Requests : ~Active(r)

GRPCDrained == \A r \in Requests : Active(r) => call[r].api # "grpc"

(* GracefulStop returns once every RPC is over, and so does main.          *)
Exit ==
  /\ stage = "stopGRPC"
  /\ GRPCDrained
  /\ stage' = "exited"
  /\ UNCHANGED <<process, ttl, http, grpc, late, requestVars, storeVars>>

-----------------------------------------------------------------------------
Running == stage \in {"serving", "stopHTTP", "stopGRPC"}

(* The ids that clients were given.                                        *)
Known == {result[r].id : r \in {q \in Requests :
            result[q] # Nothing /\ result[q].kind = "session"}}

Accept(r) ==
  /\ Running /\ pc[r] = "idle"
  /\ \E c \in Offers[r] :
       /\ (c.api = "http" /\ http = "open") \/ (c.api = "grpc" /\ grpc = "open")
       /\ c.op = "restore" => c.id \in Known \cup {Foreign, NoId}
       /\ call' = [call EXCEPT ![r] = c]
  /\ pc' = [pc EXCEPT ![r] = "accepted"]
  /\ UNCHANGED <<mainVars, result, at, storeVars>>

Answer(r, a) ==
  /\ result' = [result EXCEPT ![r] = a]
  /\ at' = [at EXCEPT ![r] = clock]
  /\ pc' = [pc EXCEPT ![r] = "done"]
  /\ UNCHANGED <<mainVars, call>>

(* What a handler refuses before it calls the store: the HTTP one looks at *)
(* the whole request, the gRPC one at the id.                              *)
RefusedFirst(c) ==
  \/ c.form = "undecodable"
  \/ c.op = "restore" /\ c.id = NoId
  \/ c.api = "http" /\ c.op = "restore" /\ c.form \in {"none", "both"}

Refuse(r) ==
  /\ Running /\ pc[r] = "accepted" /\ RefusedFirst(call[r])
  /\ Answer(r, Refused("invalid"))
  /\ UNCHANGED storeVars

AnswerPlain(r) ==
  /\ Running /\ pc[r] = "accepted" /\ ~RefusedFirst(call[r]) /\ call[r].op = "plain"
  /\ Answer(r, Ok)
  /\ UNCHANGED storeVars

(* Mutated form of StoreCall: sessions get the default lifetime, whatever  *)
(* was set.                                                                *)
MutStoreDefault(c) ==
  IF c.op = "redact" THEN [op |-> "save", content |-> c.text, ttl |-> DefaultTTL]
                     ELSE [op |-> "load", id |-> c.id]

StoreCall(c) ==
  IF c.op = "redact" THEN [op |-> "save", content |-> c.text, ttl |-> ttl]
                     ELSE [op |-> "load", id |-> c.id]

CallStore(r) ==
  /\ Running /\ pc[r] = "accepted" /\ ~RefusedFirst(call[r]) /\ call[r].op # "plain"
  /\ Store!Call(r) /\ req'[r] = StoreCall(call[r])
  /\ pc' = [pc EXCEPT ![r] = "storing"]
  /\ UNCHANGED <<mainVars, call, result, at>>

StoreActs(r) ==
  /\ Running
  /\ Store!SaveFails(r) \/ Store!Save(r) \/ Store!Load(r)
  /\ Foreign \notin used'
  /\ UNCHANGED <<mainVars, requestVars>>

(* What the gRPC handler refuses after Load.                               *)
RefusedLast(c) == c.api = "grpc" /\ c.form \in {"none", "badJSON"}

(* Mutated form of Outcome: an id is given out although nothing was saved. *)
MutIgnoreSaveError(c, a) ==
  IF a.kind \in {"saved", "failed"} THEN Session(IF a.kind = "saved" THEN a.id ELSE Foreign)
  ELSE IF a.kind \in {"notFound", "expired"} THEN Refused("notFound")
  ELSE IF RefusedLast(c) THEN Refused("invalid")
  ELSE Restored(a.content)

(* The answer, by what the store said.                                     *)
Outcome(c, a) ==
  IF a.kind = "saved" THEN Session(a.id)
  ELSE IF a.kind = "failed" THEN Refused("internal")
  ELSE IF a.kind \in {"notFound", "expired"} THEN Refused("notFound")
  ELSE IF RefusedLast(c) THEN Refused("invalid")
  ELSE Restored(a.content)

Respond(r) ==
  /\ Running /\ pc[r] = "storing"
  /\ Store!Return(r)
  /\ Answer(r, Outcome(call[r], ans[r]))

(* The store lets a session go that is past its time.                      *)
Collect == Running /\ Store!Collect /\ UNCHANGED <<mainVars, requestVars>>

Tick == clock < MaxTime /\ Store!Tick /\ UNCHANGED <<mainVars, requestVars>>

Handle(r) ==
  Refuse(r) \/ AnswerPlain(r) \/ CallStore(r) \/ StoreActs(r) \/ Respond(r)

Stopping == StopGRPC \/ Exit

Next ==
  \/ Boot \/ Listen \/ Signal \/ Stopping
  \/ \E r \in Requests : Accept(r) \/ Handle(r)
  \/ Collect
  \/ Tick

Spec == Init /\ [][Next]_vars

(* Shutdown returns when nothing is left or after five seconds, and main   *)
(* goes on.  A gRPC handler has its request in hand and runs to its end;   *)
(* an HTTP handler reads its body, which a client may be slow to send: no  *)
(* fairness.  The store lets an expired session go before Load tells       *)
(* anybody (LoadDelete in SessionStore).                                   *)
FairSpec ==
  /\ Spec
  /\ WF_vars(Stopping)
  /\ WF_vars(Collect)
  /\ \A r \in Requests :
       WF_vars(pc[r] # "idle" /\ call[r].api = "grpc" /\ Handle(r))

-----------------------------------------------------------------------------
(* Every variable has its type.                                            *)
TypeOK ==
  /\ process \in Processes
  /\ stage \in {"boot", "serving", "stopHTTP", "stopGRPC", "exited", "failed", "killed"}
  /\ ttl \in Nat
  /\ http \in {"starting", "open", "closed", "failed"}
  /\ grpc \in {"open", "closed"}
  /\ late \in BOOLEAN
  /\ \A r \in Requests :
       /\ pc[r] \in {"idle", "accepted", "storing", "done"}
       /\ call[r] \in Offers[r] \cup {Nothing}
       /\ at[r] \in 0 .. clock
       /\ call[r] = Nothing <=> pc[r] = "idle"
       /\ result[r] # Nothing <=> pc[r] = "done"
       /\ phase[r] # "idle" => pc[r] = "storing"

(* Saved(q, id): q redacted a text and was told that id restores it.       *)
Saved(q, id) == result[q] = Session(id)

(* What comes back under a session is the text that was redacted under it, *)
(* through either API, and nothing comes back under any other id           *)
(* (redactReversible and Restore over one shared store).                   *)
RestoresOwnText ==
  \A r \in Requests :
    result[r] # Nothing /\ result[r].kind = "restored" =>
      /\ call[r].id \in Known
      /\ \A q \in Requests :
           Saved(q, call[r].id) => call[q].text = result[r].mapping

(* A well-formed restore under an id that was given out succeeds, unless   *)
(* the configured lifetime has passed since the redaction began.           *)
WellFormed(c) == c.form \in {"text", "json"}

SessionsAnswer ==
  \A r, q \in Requests :
    /\ pc[r] = "done" /\ call[r].op = "restore" /\ WellFormed(call[r])
    /\ Saved(q, call[r].id)
    => \/ result[r].kind = "restored"
       \/ result[r].kind = "notFound" /\ at[r] >= since[q] + ttl

(* No restore that began after the lifetime of its session gives anything  *)
(* back, counted from the answer of the redaction at the latest.           *)
NothingPastItsTime ==
  \A r, q \in Requests :
    result[r] # Nothing /\ result[r].kind = "restored" /\ Saved(q, call[r].id) =>
      since[r] < at[q] + ttl

(* Nothing that was accepted is left without an answer when the process    *)
(* exits, except an HTTP request that Shutdown gave up waiting for (the    *)
(* order of hs.Shutdown and gs.GracefulStop in main).                      *)
NothingCutOff ==
  stage = "exited" =>
    \A r \in Requests : Active(r) => call[r].api = "http" /\ late

(* After the signal the process comes to its end, although gRPC requests   *)
(* are still accepted while Shutdown waits, and HTTP requests may hang.    *)
SignalEnds == stage = "stopHTTP" ~> stage = "exited"

=============================================================================
