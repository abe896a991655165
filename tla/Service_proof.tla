--------------------------- MODULE Service_proof ---------------------------
(* Proofs about Service, for every number of requests, texts, ids and      *)
(* settings.                                                               *)
EXTENDS Service, TLAPS

-----------------------------------------------------------------------------
(* The inductive invariant, in parts.                                      *)

(* The types, those of the store's variables included.                     *)
Typed ==
  /\ ttl \in Nat /\ clock \in Nat
  /\ process \in Processes
  /\ stage \in {"boot", "serving", "stopHTTP", "stopGRPC", "exited", "failed", "killed"}
  /\ http \in {"starting", "open", "closed", "failed"}
  /\ grpc \in {"open", "closed"}
  /\ late \in BOOLEAN
  /\ pc \in [Requests -> {"idle", "accepted", "storing", "done"}]
  /\ call \in [Requests -> Calls \cup {Nothing}]
  /\ result \in [Requests -> Answers \cup {Nothing}]
  /\ at \in [Requests -> Nat] /\ since \in [Requests -> Nat]
  /\ phase \in [Requests -> {"idle", "busy", "done"}]
  /\ DOMAIN req = Requests /\ DOMAIN ans = Requests
  /\ used \subseteq Ids /\ Foreign \notin used
  /\ DOMAIN live \subseteq used
  /\ \A id \in DOMAIN live : live[id].until \in Nat

(* How far a request is, here and in the store.                            *)
Progress ==
  \A r \in Requests :
    /\ at[r] <= clock /\ since[r] <= clock
    /\ call[r] \in Offers[r] \cup {Nothing}
    /\ call[r] = Nothing <=> pc[r] = "idle"
    /\ result[r] # Nothing <=> pc[r] = "done"
    /\ phase[r] # "idle" <=> pc[r] = "storing"
    /\ pc[r] = "storing" => ~RefusedFirst(call[r]) /\ call[r].op # "plain"
    /\ phase[r] # "idle" => req[r] = StoreCall(call[r])

NobodyYet == stage = "boot" => \A r \in Requests : pc[r] = "idle"

(* r redacted a text and the store said that id restores it, whether the   *)
(* client has been told or not.  Nobody else was given that id.            *)
Holds(r, id) ==
  \/ phase[r] = "done" /\ ans[r] = Store!Saved(id)
  \/ Saved(r, id)

Owned ==
  /\ \A r \in Requests, id \in Ids \cup {NoId} :
       Holds(r, id) => id \in used /\ call[r].op = "redact"
  /\ \A q, r \in Requests, id \in Ids : Holds(q, id) /\ Holds(r, id) => q = r

(* The session of a redaction holds its text and ends ttl after an instant *)
(* of the call; it is gone only after that.                                *)
Over(q) == IF pc[q] = "done" THEN at[q] ELSE clock

Kept ==
  \A q \in Requests, id \in Ids :
    Holds(q, id) =>
      /\ id \in DOMAIN live => /\ live[id].content = call[q].text
                               /\ since[q] + ttl <= live[id].until
                               /\ live[id].until <= Over(q) + ttl
      /\ id \notin DOMAIN live => since[q] + ttl <= clock

(* A request to restore names an id that some client was given, one this   *)
(* process never draws, or none.                                           *)
Names ==
  \A r \in Requests :
    call[r] # Nothing /\ call[r].op = "restore" =>
      call[r].id \in Known \cup {Foreign, NoId}

(* What the store has answered and the handler has yet to pass on.         *)
Right(r, m) ==
  /\ call[r].id \in Known
  /\ \A q \in Requests :
       Saved(q, call[r].id) => call[q].text = m /\ since[r] < at[q] + ttl

TooLate(r) ==
  \A q \in Requests : Saved(q, call[r].id) => since[q] + ttl <= clock

Told ==
  \A r \in Requests :
    phase[r] = "done" =>
      /\ call[r].op = "redact" =>
           ans[r] = Store!Is("failed") \/ \E id \in Ids : ans[r] = Store!Saved(id)
      /\ call[r].op = "restore" =>
           \/ \E m \in Texts : ans[r] = Store!Loaded(m) /\ Right(r, m)
           \/ ans[r] \in {Store!Is("notFound"), Store!Is("expired")} /\ TooLate(r)

(* What was accepted while the process stops.                              *)
Listeners ==
  /\ stage \in {"stopHTTP", "stopGRPC", "exited"} => http # "open"
  /\ stage \in {"stopGRPC", "exited"} =>
       /\ grpc # "open"
       /\ \A r \in Requests : Active(r) /\ call[r].api = "http" => late

MainInv == NobodyYet /\ Listeners /\ NothingCutOff
DataInv ==
  /\ Progress /\ Owned /\ Kept /\ Names /\ Told
  /\ RestoresOwnText /\ SessionsAnswer /\ NothingPastItsTime

IInv == Typed /\ MainInv /\ DataInv

-----------------------------------------------------------------------------
(* What is known of a request and of an answer.                            *)
LEMMA CallFacts ==
  ASSUME NEW c \in Calls
  PROVE  /\ c # Nothing
         /\ c.api \in {"http", "grpc"}
         /\ c.op \in {"plain", "redact", "restore"}
         /\ c.op = "redact" => c.text \in Texts
         /\ c.op = "restore" => c.id \in Ids \cup {NoId}
<1>1. c # Nothing
  BY NothingAssumption DEF NothingAssumption
<1> QED
  BY <1>1 DEF Calls

LEMMA AnswerFacts ==
  /\ Nothing \notin Answers
  /\ Ok \in Answers
  /\ \A id \in Ids \cup {NoId} : Session(id) \in Answers
  /\ \A m \in Texts : Restored(m) \in Answers
  /\ \A why \in {"invalid", "notFound", "internal"} : Refused(why) \in Answers
BY NothingAssumption DEF NothingAssumption, Answers

(* What the parts of the invariant say of one request.                     *)
LEMMA RequestFacts ==
  ASSUME IInv, NEW r \in Requests, call[r] # Nothing
  PROVE  /\ call[r] \in Calls /\ call[r].api \in {"http", "grpc"}
         /\ call[r].op \in {"plain", "redact", "restore"}
         /\ call[r].op = "redact" => call[r].text \in Texts
         /\ call[r].op = "restore" => call[r].id \in Ids \cup {NoId}
<1>1. call[r] \in Calls
  BY DEF IInv, Typed
<1> QED
  BY <1>1, CallFacts

(* The lifetime of a session, once the process serves.                     *)
LEMMA SettingFacts == DefaultTTL \in Nat /\ Settings \subseteq Nat
BY ServiceAssumption DEF ServiceAssumption

-----------------------------------------------------------------------------
LEMMA InitInv == ASSUME Init PROVE IInv
<1>1. /\ \A r \in Requests :
           /\ pc[r] = "idle" /\ call[r] = Nothing /\ result[r] = Nothing /\ at[r] = 0
           /\ phase[r] = "idle" /\ since[r] = 0
      /\ clock = 0
  BY DEF Init, Store!Init, All
<1>2. Typed
  <2>1. DOMAIN live = {} /\ used = {}
    BY DEF Init, Store!Init
  <2> QED
    BY <2>1 DEF Init, Store!Init, All, Typed
<1>3. \A r \in Requests, id \in Ids \cup {NoId} : ~Holds(r, id)
  BY <1>1, AnswerFacts DEF Holds, Saved
<1>4. Progress
  <2> SUFFICES ASSUME NEW r \in Requests
               PROVE  /\ at[r] <= clock /\ since[r] <= clock
                      /\ call[r] \in Offers[r] \cup {Nothing}
                      /\ call[r] = Nothing <=> pc[r] = "idle"
                      /\ result[r] # Nothing <=> pc[r] = "done"
                      /\ phase[r] # "idle" <=> pc[r] = "storing"
                      /\ pc[r] # "storing" /\ phase[r] = "idle"
    BY DEF Progress
  <2>1. at[r] <= clock /\ since[r] <= clock
    BY <1>1
  <2> QED
    BY <1>1, <2>1
<1>5. Owned /\ Kept
  BY <1>3 DEF Owned, Kept
<1>6. Names /\ Told
  BY <1>1 DEF Names, Told
<1>7. RestoresOwnText /\ SessionsAnswer /\ NothingPastItsTime
  BY <1>1 DEF RestoresOwnText, SessionsAnswer, NothingPastItsTime
<1>8. MainInv
  BY <1>1 DEF Init, MainInv, NobodyYet, Listeners, NothingCutOff
<1> QED
  BY <1>2, <1>4, <1>5, <1>6, <1>7, <1>8 DEF IInv, DataInv

-----------------------------------------------------------------------------
(* The types.                                                              *)
LEMMA TypedMain ==
  ASSUME Typed, Boot \/ Listen \/ Signal \/ Stopping \/ UNCHANGED vars
  PROVE  Typed'
<1>1. UNCHANGED <<requestVars, storeVars>> /\ process' = process
  BY DEF Boot, Listen, Signal, Stopping, StopGRPC, Exit, vars, mainVars
<1>2. /\ ttl' \in Nat /\ http' \in {"starting", "open", "closed", "failed"}
      /\ grpc' \in {"open", "closed"} /\ late' \in BOOLEAN
      /\ stage' \in {"boot", "serving", "stopHTTP", "stopGRPC", "exited", "failed", "killed"}
  <2>1. CASE Boot
    BY <2>1, SettingFacts DEF Boot, Typed, SessionTTL
  <2>2. CASE Listen \/ Signal \/ UNCHANGED vars
    BY <2>2 DEF Listen, Signal, vars, mainVars, Typed
  <2>3. CASE Stopping
    BY <2>3 DEF Stopping, StopGRPC, Exit, GiveUp, Typed
  <2> QED
    BY <2>1, <2>2, <2>3
<1> QED
  BY <1>1, <1>2 DEF Typed, requestVars, storeVars

LEMMA TypedAnswer ==
  ASSUME Typed, NEW r \in Requests, NEW a \in Answers, Answer(r, a)
  PROVE  /\ pc' \in [Requests -> {"idle", "accepted", "storing", "done"}]
         /\ call' \in [Requests -> Calls \cup {Nothing}]
         /\ result' \in [Requests -> Answers \cup {Nothing}]
         /\ at' \in [Requests -> Nat]
         /\ UNCHANGED mainVars
BY DEF Typed, Answer

(* What the answers of the store become.                                   *)
LEMMA OutcomeFacts ==
  ASSUME IInv, NEW r \in Requests, pc[r] = "storing", phase[r] = "done"
  PROVE  /\ Outcome(call[r], ans[r]) \in Answers
         /\ call[r] \in Calls
         /\ call[r].op = "redact" =>
              \/ Outcome(call[r], ans[r]) = Refused("internal")
              \/ \E id \in Ids : /\ ans[r] = Store!Saved(id)
                                 /\ Outcome(call[r], ans[r]) = Session(id)
         /\ call[r].op = "restore" =>
              \/ \E m \in Texts :
                   /\ ans[r] = Store!Loaded(m) /\ Right(r, m)
                   /\ Outcome(call[r], ans[r]) = IF RefusedLast(call[r])
                                                THEN Refused("invalid") ELSE Restored(m)
              \/ /\ ans[r] \in {Store!Is("notFound"), Store!Is("expired")} /\ TooLate(r)
                 /\ Outcome(call[r], ans[r]) = Refused("notFound")
         /\ call[r].op = "redact" \/ call[r].op = "restore"
<1>1. call[r] \in Calls /\ (call[r].op = "redact" \/ call[r].op = "restore")
  <2>1. call[r] # Nothing /\ call[r].op # "plain"
    BY DEF IInv, DataInv, Progress
  <2> QED
    BY <2>1, RequestFacts
<1>2. CASE call[r].op = "redact"
  <2>1. ans[r] = Store!Is("failed") \/ \E id \in Ids : ans[r] = Store!Saved(id)
    BY <1>2 DEF IInv, DataInv, Told
  <2>2. CASE ans[r] = Store!Is("failed")
    <3>1. Outcome(call[r], ans[r]) = Refused("internal")
      BY <2>2 DEF Outcome, Store!Is
    <3> QED
      BY <1>1, <1>2, <3>1, AnswerFacts
  <2>3. ASSUME NEW id \in Ids, ans[r] = Store!Saved(id)
        PROVE  Outcome(call[r], ans[r]) = Session(id)
    BY <2>3 DEF Outcome, Store!Saved
  <2> QED
    BY <1>1, <1>2, <2>1, <2>2, <2>3, AnswerFacts
<1>3. CASE call[r].op = "restore"
  <2>1. \/ \E m \in Texts : ans[r] = Store!Loaded(m) /\ Right(r, m)
        \/ ans[r] \in {Store!Is("notFound"), Store!Is("expired")} /\ TooLate(r)
    BY <1>3 DEF IInv, DataInv, Told
  <2>2. ASSUME NEW m \in Texts, ans[r] = Store!Loaded(m)
        PROVE  Outcome(call[r], ans[r]) = IF RefusedLast(call[r])
                                          THEN Refused("invalid") ELSE Restored(m)
    BY <2>2 DEF Outcome, Store!Loaded
  <2>3. CASE ans[r] \in {Store!Is("notFound"), Store!Is("expired")} /\ TooLate(r)
    <3>1. Outcome(call[r], ans[r]) = Refused("notFound")
      BY <2>3 DEF Outcome, Store!Is
    <3> QED
      BY <1>1, <1>3, <2>3, <3>1, AnswerFacts
  <2> QED
    BY <1>1, <1>3, <2>1, <2>2, <2>3, AnswerFacts
<1> QED
  BY <1>1, <1>2, <1>3

(* The store takes the request that the handler makes.                     *)
LEMMA StoreAsked ==
  ASSUME IInv, NEW r \in Requests, phase[r] = "busy"
  PROVE  /\ pc[r] = "storing" /\ call[r] \in Calls /\ req[r] = StoreCall(call[r])
         /\ Store!Busy(r, "save") => call[r].op = "redact"
         /\ Store!Busy(r, "load") => call[r].op = "restore"
         /\ ~Store!Busy(r, "destroy")
         /\ call[r].op = "redact" => req[r].content = call[r].text /\ req[r].ttl = ttl
         /\ call[r].op = "restore" => req[r].id = call[r].id
<1>1. pc[r] = "storing" /\ req[r] = StoreCall(call[r]) /\ call[r].op # "plain"
      /\ call[r] # Nothing
  BY DEF IInv, DataInv, Progress
<1>2. call[r] \in Calls /\ call[r].op \in {"redact", "restore"}
  BY <1>1, RequestFacts
<1> QED
  BY <1>1, <1>2 DEF StoreCall, Store!Busy

LEMMA TypedStep == ASSUME IInv, [Next]_vars PROVE Typed'
<1> USE DEF IInv
<1>1. ASSUME NEW r \in Requests, Accept(r) PROVE Typed'
  <2>1. PICK c \in Offers[r] : call' = [call EXCEPT ![r] = c]
    BY <1>1 DEF Accept
  <2>2. c \in Calls
    BY ServiceAssumption DEF ServiceAssumption
  <2> QED
    BY <1>1, <2>1, <2>2 DEF Accept, Typed, mainVars, storeVars
<1>2. ASSUME NEW r \in Requests, Refuse(r) \/ AnswerPlain(r) PROVE Typed'
  <2>1. Answer(r, Refused("invalid")) \/ Answer(r, Ok)
    BY <1>2 DEF Refuse, AnswerPlain
  <2>2. UNCHANGED storeVars
    BY <1>2 DEF Refuse, AnswerPlain
  <2> QED
    BY <2>1, <2>2, TypedAnswer, AnswerFacts DEF Typed, mainVars, storeVars
<1>3. ASSUME NEW r \in Requests, CallStore(r) PROVE Typed'
  BY <1>3 DEF CallStore, Store!Call, Typed, mainVars
<1>4. ASSUME NEW r \in Requests, Respond(r) PROVE Typed'
  <2>1. phase[r] = "done" /\ pc[r] = "storing"
    BY <1>4 DEF Respond, Store!Return
  <2>2. Outcome(call[r], ans[r]) \in Answers /\ Answer(r, Outcome(call[r], ans[r]))
    BY <1>4, <2>1, OutcomeFacts DEF Respond
  <2> QED
    BY <1>4, <2>2, TypedAnswer DEF Respond, Store!Return, Typed, mainVars
<1>5. ASSUME NEW r \in Requests, StoreActs(r) PROVE Typed'
  <2>1. /\ UNCHANGED <<mainVars, requestVars, clock, since>>
        /\ phase' \in [Requests -> {"idle", "busy", "done"}]
        /\ DOMAIN req' = Requests /\ DOMAIN ans' = Requests /\ Foreign \notin used'
    BY <1>5 DEF StoreActs, Store!SaveFails, Store!Save, Store!Load, Store!Answer, Typed
  <2>2. /\ used' \subseteq Ids /\ DOMAIN live' \subseteq used'
        /\ \A id \in DOMAIN live' : live'[id].until \in Nat
    <3>1. CASE Store!SaveFails(r) \/ Store!Load(r)
      BY <3>1 DEF Store!SaveFails, Store!Load, Typed
    <3>2. CASE Store!Save(r)
      <4>1. PICK id \in Store!Fresh, t \in since[r] .. clock :
              /\ live' = [i \in DOMAIN live \cup {id} |->
                            IF i = id
                            THEN [content |-> req[r].content, until |-> t + req[r].ttl]
                            ELSE live[i]]
              /\ used' = used \cup {id}
        BY <3>2 DEF Store!Save
      <4>2. req[r].ttl = ttl
        BY <3>2, StoreAsked DEF Store!Save, Store!Busy
      <4>3. t + req[r].ttl \in Nat
        BY <4>2 DEF Typed
      <4> QED
        BY <4>1, <4>3 DEF Store!Fresh, Typed
    <3> QED
      BY <1>5, <3>1, <3>2 DEF StoreActs
  <2> QED
    BY <2>1, <2>2 DEF Typed, mainVars, requestVars
<1>6. CASE Collect
  BY <1>6 DEF Collect, Store!Collect, Store!Without, Typed, mainVars, requestVars
<1>7. CASE Tick
  BY <1>7 DEF Tick, Store!Tick, Typed, mainVars, requestVars
<1> QED
  BY <1>1, <1>2, <1>3, <1>4, <1>5, <1>6, <1>7, TypedMain DEF Next, Handle

-----------------------------------------------------------------------------
(* The stages of main.                                                     *)
LEMMA MainStep == ASSUME IInv, [Next]_vars PROVE MainInv'
<1> USE DEF IInv, MainInv
<1>1. CASE Boot
  BY <1>1 DEF Boot, requestVars, NobodyYet, Listeners, NothingCutOff
<1>2. CASE Listen
  BY <1>2 DEF Listen, requestVars, NobodyYet, Listeners, NothingCutOff, Active
<1>3. CASE Signal
  BY <1>3 DEF Signal, Listeners, NobodyYet, NothingCutOff, Typed
<1>4. CASE StopGRPC
  BY <1>4 DEF StopGRPC, GiveUp, HTTPDrained, requestVars, Listeners, NobodyYet,
     NothingCutOff, Active
<1>5. CASE Exit
  <2>1. \A r \in Requests : Active(r) => call[r].api = "http"
    <3> SUFFICES ASSUME NEW r \in Requests, Active(r) PROVE call[r].api = "http"
      OBVIOUS
    <3>1. call[r] # Nothing
      BY DEF Active, DataInv, Progress
    <3>2. call[r].api # "grpc"
      BY <1>5 DEF Exit, GRPCDrained
    <3> QED
      BY <3>1, <3>2, RequestFacts
  <2> QED
    BY <1>5, <2>1 DEF Exit, requestVars, Listeners, NobodyYet, NothingCutOff, Active
<1>6. ASSUME NEW r \in Requests, Accept(r) PROVE MainInv'
  <2>1. PICK c \in Offers[r] : /\ (c.api = "http" /\ http = "open") \/ (c.api = "grpc" /\ grpc = "open")
                               /\ call' = [call EXCEPT ![r] = c]
    BY <1>6 DEF Accept
  <2>2. /\ stage' = stage /\ http' = http /\ grpc' = grpc /\ late' = late
        /\ stage \notin {"boot", "exited"}
        /\ \A q \in Requests : q # r => pc'[q] = pc[q] /\ call'[q] = call[q]
        /\ call'[r] = c
    BY <1>6, <2>1 DEF Accept, Running, mainVars, Typed
  <2>3. Listeners'
    BY <2>1, <2>2 DEF Listeners, Active
  <2> QED
    BY <2>2, <2>3 DEF NobodyYet, NothingCutOff
<1>7. ASSUME NEW r \in Requests, Handle(r) PROVE MainInv'
  <2>1. /\ UNCHANGED mainVars /\ call' = call /\ stage \notin {"boot", "exited"}
        /\ \A q \in Requests : Active(q)' => Active(q)
    <3>1. CASE Refuse(r) \/ AnswerPlain(r) \/ Respond(r)
      BY <3>1 DEF Refuse, AnswerPlain, Respond, Answer, Running, Active, Typed
    <3>2. CASE CallStore(r)
      BY <3>2 DEF CallStore, Running, Active, Typed
    <3>3. CASE StoreActs(r)
      BY <3>3 DEF StoreActs, Running, Active, requestVars
    <3> QED
      BY <1>7, <3>1, <3>2, <3>3 DEF Handle
  <2> QED
    BY <2>1 DEF mainVars, NobodyYet, Listeners, NothingCutOff
<1>8. CASE Collect \/ Tick \/ UNCHANGED vars
  BY <1>8 DEF Collect, Tick, vars, mainVars, requestVars, NobodyYet, Listeners, NothingCutOff,
     Active
<1> QED
  BY <1>1, <1>2, <1>3, <1>4, <1>5, <1>6, <1>7, <1>8 DEF Next, Stopping

-----------------------------------------------------------------------------
(* Sessions and who holds them.                                            *)
LEMMA SessionInjective ==
  ASSUME NEW i, NEW j, Session(i) = Session(j) PROVE i = j
BY DEF Session

(* Who holds a session has reached the store; who was told of it is done.  *)
LEMMA HolderFacts ==
  ASSUME IInv, NEW q \in Requests, NEW id \in Ids \cup {NoId}, Holds(q, id)
  PROVE  /\ pc[q] \in {"storing", "done"}
         /\ Saved(q, id) => pc[q] = "done"
         /\ id \in used /\ id \in Ids /\ id # NoId /\ id # Foreign
         /\ call[q] # Nothing /\ call[q].op = "redact" /\ call[q].text \in Texts
<1>1. Saved(q, id) => pc[q] = "done"
  BY AnswerFacts DEF Saved, IInv, DataInv, Progress
<1>2. pc[q] \in {"storing", "done"}
  BY <1>1 DEF Holds, IInv, DataInv, Progress
<1>3. id \in used /\ call[q].op = "redact"
  BY DEF IInv, DataInv, Owned
<1>4. id \in Ids /\ id # NoId /\ id # Foreign
  BY <1>3, ServiceAssumption DEF ServiceAssumption, IInv, Typed
<1>5. call[q] # Nothing
  BY <1>2 DEF IInv, DataInv, Progress
<1> QED
  BY <1>1, <1>2, <1>3, <1>4, <1>5, RequestFacts

(* An id is known iff a request was told that it restores its text.        *)
LEMMA KnownFacts ==
  ASSUME IInv, NEW id
  PROVE  id \in Known <=> \E q \in Requests : Saved(q, id) /\ id \in Ids
<1>1. ASSUME NEW q \in Requests, result[q] # Nothing, result[q].kind = "session"
      PROVE  Saved(q, result[q].id) /\ result[q].id \in Ids \cup {NoId}
  <2>1. result[q] \in Answers
    BY <1>1 DEF IInv, Typed
  <2>2. \E i \in Ids \cup {NoId} : result[q] = Session(i)
    BY <1>1, <2>1 DEF Answers, Ok, Restored, Refused
  <2> QED
    BY <2>2 DEF Session, Saved
<1>2. ASSUME id \in Known PROVE \E q \in Requests : Saved(q, id) /\ id \in Ids
  <2>1. PICK q \in Requests : Saved(q, id) /\ id \in Ids \cup {NoId}
    BY <1>1, <1>2 DEF Known
  <2> QED
    BY <2>1, HolderFacts DEF Holds
<1>3. ASSUME NEW q \in Requests, Saved(q, id), id \in Ids PROVE id \in Known
  <2>1. result[q] # Nothing /\ result[q].kind = "session" /\ result[q].id = id
    BY <1>3, AnswerFacts DEF Saved, Session
  <2> QED
    BY <2>1 DEF Known
<1> QED
  BY <1>2, <1>3

-----------------------------------------------------------------------------
(* The steps that touch no request.                                        *)
LEMMA DataMain ==
  ASSUME IInv, Boot \/ Listen \/ Signal \/ Stopping \/ UNCHANGED vars
  PROVE  DataInv'
<1>1. UNCHANGED <<requestVars, storeVars>> /\ (Boot \/ ttl' = ttl)
  BY DEF Boot, Listen, Signal, Stopping, StopGRPC, Exit, vars, mainVars
<1> USE DEF requestVars, storeVars
<1>2. CASE ttl' = ttl
  <2>1. Progress' /\ Owned' /\ Kept'
    BY <1>1, <1>2 DEF IInv, DataInv, Progress, StoreCall, Owned, Kept, Over, Holds, Saved
  <2>2. Names' /\ Told'
    BY <1>1, <1>2 DEF IInv, DataInv, Names, Known, Told, Right, TooLate, Saved
  <2>3. RestoresOwnText' /\ SessionsAnswer' /\ NothingPastItsTime'
    BY <1>1, <1>2 DEF IInv, DataInv, RestoresOwnText, SessionsAnswer, NothingPastItsTime, Known,
       Saved
  <2> QED
    BY <2>1, <2>2, <2>3 DEF DataInv
<1>3. CASE Boot
  <2>1. \A r \in Requests : pc[r] = "idle"
    BY <1>3 DEF Boot, IInv, MainInv, NobodyYet
  <2>2. \A r \in Requests : call[r] = Nothing /\ result[r] = Nothing /\ phase[r] = "idle"
    BY <2>1 DEF IInv, DataInv, Progress
  <2>3. \A r \in Requests, id \in Ids \cup {NoId} : ~Holds(r, id)'
    BY <1>1, <2>2, AnswerFacts DEF Holds, Saved
  <2>4. Progress' /\ Owned' /\ Kept'
    BY <1>1, <2>1, <2>2, <2>3 DEF IInv, DataInv, Progress, Owned, Kept
  <2>5. Names' /\ Told'
    BY <1>1, <2>2 DEF Names, Told
  <2>6. RestoresOwnText' /\ SessionsAnswer' /\ NothingPastItsTime'
    BY <1>1, <2>1, <2>2 DEF RestoresOwnText, SessionsAnswer, NothingPastItsTime
  <2> QED
    BY <2>4, <2>5, <2>6 DEF DataInv
<1> QED
  BY <1>1, <1>2, <1>3

(* A request arrives.                                                      *)
LEMMA DataAccept == ASSUME IInv, NEW r \in Requests, Accept(r) PROVE DataInv'
<1>1. PICK c \in Offers[r] :
        /\ c.op = "restore" => c.id \in Known \cup {Foreign, NoId}
        /\ call' = [call EXCEPT ![r] = c]
  BY DEF Accept
<1>2. /\ call'[r] = c /\ pc'[r] = "accepted" /\ c # Nothing
      /\ \A q \in Requests : q # r => call'[q] = call[q] /\ pc'[q] = pc[q]
      /\ pc[r] = "idle" /\ call[r] = Nothing /\ result[r] = Nothing /\ phase[r] = "idle"
  BY <1>1, CallFacts, ServiceAssumption
     DEF ServiceAssumption, Accept, IInv, Typed, DataInv, Progress
<1>3. UNCHANGED <<mainVars, result, at, storeVars>>
  BY DEF Accept
<1>4. /\ \A id \in Ids \cup {NoId} : ~Holds(r, id)
      /\ \A q \in Requests : \A id : Saved(q, id)' <=> Saved(q, id)
      /\ \A q \in Requests : \A id : Holds(q, id)' <=> Holds(q, id)
      /\ Known' = Known
  BY <1>2, <1>3, AnswerFacts DEF Holds, Saved, storeVars, Known
<1>5. Progress'
  <2>1. UNCHANGED <<clock, at, since, result, phase, req>>
    BY <1>3 DEF storeVars
  <2>2. /\ at[r] <= clock /\ since[r] <= clock
        /\ \A q \in Requests \ {r} :
             /\ at[q] <= clock /\ since[q] <= clock
             /\ call[q] \in Offers[q] \cup {Nothing}
             /\ call[q] = Nothing <=> pc[q] = "idle"
             /\ result[q] # Nothing <=> pc[q] = "done"
             /\ phase[q] # "idle" <=> pc[q] = "storing"
             /\ pc[q] = "storing" => ~RefusedFirst(call[q]) /\ call[q].op # "plain"
             /\ phase[q] # "idle" => req[q] = StoreCall(call[q])
    BY DEF IInv, DataInv, Progress
  <2>3. /\ at'[r] <= clock' /\ since'[r] <= clock'
        /\ call'[r] \in Offers[r] \cup {Nothing}
        /\ call'[r] = Nothing <=> pc'[r] = "idle"
        /\ result'[r] # Nothing <=> pc'[r] = "done"
        /\ phase'[r] # "idle" <=> pc'[r] = "storing"
        /\ pc'[r] # "storing" /\ phase'[r] = "idle"
    BY <1>2, <2>1, <2>2
  <2>4. ASSUME NEW q \in Requests \ {r}
        PROVE  /\ at'[q] <= clock' /\ since'[q] <= clock'
               /\ call'[q] \in Offers[q] \cup {Nothing}
               /\ call'[q] = Nothing <=> pc'[q] = "idle"
               /\ result'[q] # Nothing <=> pc'[q] = "done"
               /\ phase'[q] # "idle" <=> pc'[q] = "storing"
               /\ pc'[q] = "storing" => ~RefusedFirst(call'[q]) /\ call'[q].op # "plain"
               /\ phase'[q] # "idle" => req'[q] = StoreCall(call'[q])
    <3>1. call'[q] = call[q] /\ pc'[q] = pc[q]
      BY <1>2
    <3> QED
      BY <3>1, <2>1, <2>2
  <2>5. UNCHANGED ttl
    BY <1>3 DEF mainVars
  <2> QED
    BY <2>3, <2>4, <2>5 DEF Progress, StoreCall
<1> USE DEF mainVars, storeVars, IInv, DataInv
<1>6. Owned'
  BY <1>2, <1>3, <1>4 DEF Owned
<1>7. Kept'
  BY <1>2, <1>3, <1>4 DEF Kept, Over
<1>8. Names'
  BY <1>1, <1>2, <1>4 DEF Names
<1>9. Told'
  <2> SUFFICES ASSUME NEW p \in Requests, phase[p] = "done"
               PROVE  /\ call[p].op = "redact" =>
                            ans[p] = Store!Is("failed") \/ \E id \in Ids : ans[p] = Store!Saved(id)
                      /\ call[p].op = "restore" =>
                            \/ \E m \in Texts : ans[p] = Store!Loaded(m) /\ Right(p, m)'
                            \/ ans[p] \in {Store!Is("notFound"), Store!Is("expired")} /\ TooLate(p)'
    BY <1>2, <1>3 DEF Told
  <2>1. p # r /\ call'[p] = call[p] /\ call[p] # Nothing
    BY <1>2 DEF Progress
  <2>2. call[p].op = "restore" => call[p].id \in Ids \cup {NoId}
    BY <2>1, RequestFacts
  <2>3. call[p].op = "restore" =>
          \A q \in Requests : Saved(q, call[p].id) => q # r /\ call'[q] = call[q]
    BY <1>2, <1>4, <2>2 DEF Holds
  <2>4. call[p].op = "restore" => /\ \A m : Right(p, m) => Right(p, m)'
                                  /\ TooLate(p) => TooLate(p)'
    BY <1>3, <1>4, <2>1, <2>3 DEF Right, TooLate
  <2> QED
    BY <2>1, <2>4 DEF Told
<1>10. /\ \A p \in Requests : result[p] # Nothing =>
               p # r /\ call'[p] = call[p] /\ pc'[p] = pc[p]
       /\ \A p \in Requests : pc'[p] = "done" => p # r /\ call'[p] = call[p] /\ pc[p] = "done"
       /\ \A q \in Requests, id \in Ids \cup {NoId} : Saved(q, id) => call'[q] = call[q]
  BY <1>2, <1>4 DEF Holds
<1>11. RestoresOwnText'
  <2>1. \A p \in Requests : call[p].id \in Known => call[p].id \in Ids
    BY KnownFacts
  <2> QED
    BY <1>3, <1>4, <1>10, <2>1 DEF RestoresOwnText
<1>12. SessionsAnswer'
  BY <1>3, <1>4, <1>10 DEF SessionsAnswer
<1>13. NothingPastItsTime'
  BY <1>3, <1>4, <1>10 DEF NothingPastItsTime
<1> QED
  BY <1>5, <1>6, <1>7, <1>8, <1>9, <1>11, <1>12, <1>13

(* While nobody is answered, what the answers say stays true.              *)
LEMMA NobodyAnswered ==
  ASSUME IInv, UNCHANGED <<result, call, at, ttl>>, clock' \in Nat, clock' >= clock,
         \A p \in Requests : /\ pc'[p] = "done" <=> pc[p] = "done"
                             /\ pc[p] = "done" => since'[p] = since[p]
  PROVE  /\ Names' /\ RestoresOwnText' /\ SessionsAnswer' /\ NothingPastItsTime'
         /\ Known' = Known
         /\ \A q, id : Saved(q, id)' <=> Saved(q, id)
         /\ \A r \in Requests : call[r] # Nothing /\ call[r].op = "restore" =>
              /\ \A m : Right(r, m) /\ since'[r] = since[r] => Right(r, m)'
              /\ TooLate(r) => TooLate(r)'
<1>1. Known' = Known /\ \A q, id : Saved(q, id)' <=> Saved(q, id)
  BY DEF Known, Saved
<1>2. ASSUME NEW q \in Requests, NEW id \in Ids \cup {NoId}, Saved(q, id)
      PROVE  since'[q] = since[q]
  <2>1. pc[q] = "done"
    BY <1>2, HolderFacts DEF Holds
  <2> QED
    BY <2>1
<1> USE DEF IInv, DataInv
<1>3. Names'
  BY <1>1 DEF Names
<1>4. RestoresOwnText'
  BY <1>1 DEF RestoresOwnText
<1>5. SessionsAnswer'
  <2>1. \A r \in Requests : pc[r] = "done" /\ call[r].op = "restore" =>
                              call[r].id \in Ids \cup {NoId}
    BY RequestFacts DEF Progress
  <2> QED
    BY <1>1, <1>2, <2>1 DEF SessionsAnswer
<1>6. NothingPastItsTime'
  <2>1. \A r \in Requests : result[r] # Nothing => since'[r] = since[r]
    BY DEF Progress
  <2> QED
    BY <1>1, <2>1 DEF NothingPastItsTime
<1>7. ASSUME NEW r \in Requests, call[r] # Nothing, call[r].op = "restore"
      PROVE  /\ \A m : Right(r, m) /\ since'[r] = since[r] => Right(r, m)'
             /\ TooLate(r) => TooLate(r)'
  <2>1. call[r].id \in Ids \cup {NoId}
    BY <1>7, RequestFacts
  <2>2. ASSUME NEW m, Right(r, m), since'[r] = since[r] PROVE Right(r, m)'
    BY <1>1, <2>2 DEF Right
  <2>3. ASSUME TooLate(r) PROVE TooLate(r)'
    <3> SUFFICES ASSUME NEW q \in Requests, Saved(q, call[r].id)
                 PROVE  since'[q] + ttl <= clock'
      BY <1>1 DEF TooLate
    <3>1. since'[q] = since[q] /\ since[q] + ttl <= clock
      BY <1>2, <2>1, <2>3 DEF TooLate
    <3> QED
      BY <3>1 DEF Typed
  <2> QED
    BY <2>2, <2>3
<1> QED
  BY <1>1, <1>3, <1>4, <1>5, <1>6, <1>7

(* The handler calls the store.                                            *)
LEMMA DataCallStore == ASSUME IInv, NEW r \in Requests, CallStore(r) PROVE DataInv'
<1>1. /\ pc[r] = "accepted" /\ pc'[r] = "storing" /\ phase[r] = "idle" /\ phase'[r] = "busy"
      /\ since'[r] = clock /\ req'[r] = StoreCall(call[r])
      /\ ~RefusedFirst(call[r]) /\ call[r].op # "plain"
      /\ \A q \in Requests : q # r => /\ pc'[q] = pc[q] /\ phase'[q] = phase[q]
                                      /\ since'[q] = since[q] /\ req'[q] = req[q]
  BY DEF CallStore, Store!Call, IInv, Typed
<1>2. UNCHANGED <<mainVars, call, result, at, clock, live, used, ans>>
  BY DEF CallStore, Store!Call
<1> USE DEF IInv, DataInv, mainVars
<1>3. /\ clock \in Nat /\ clock' = clock
      /\ \A p \in Requests : /\ pc'[p] = "done" <=> pc[p] = "done"
                             /\ pc[p] = "done" => since'[p] = since[p]
  <2>1. clock \in Nat /\ clock' = clock
    BY <1>2 DEF Typed
  <2>2. \A p \in Requests : /\ pc'[p] = "done" <=> pc[p] = "done"
                            /\ pc[p] = "done" => since'[p] = since[p]
    BY <1>1
  <2> QED
    BY <2>1, <2>2
<1>4. /\ Names' /\ RestoresOwnText' /\ SessionsAnswer' /\ NothingPastItsTime'
      /\ \A q, id : Saved(q, id)' <=> Saved(q, id)
      /\ \A p \in Requests : call[p] # Nothing /\ call[p].op = "restore" =>
           /\ \A m : Right(p, m) /\ since'[p] = since[p] => Right(p, m)'
           /\ TooLate(p) => TooLate(p)'
  <2>1. clock' \in Nat /\ clock' >= clock /\ UNCHANGED <<result, call, at, ttl>>
    BY <1>2, <1>3
  <2> HIDE DEF IInv
  <2> QED
    BY <1>3, <2>1, NobodyAnswered
<1>5. /\ \A q \in Requests : \A id : Holds(q, id)' <=> Holds(q, id)
      /\ \A id \in Ids \cup {NoId} : ~Holds(r, id)
  <2>1. ASSUME NEW id \in Ids \cup {NoId}, Holds(r, id) PROVE FALSE
    <3> HIDE DEF IInv
    <3>1. pc[r] \in {"storing", "done"}
      BY <2>1, HolderFacts DEF Holds
    <3> QED
      BY <1>1, <3>1
  <2> QED
    BY <1>1, <1>2, <1>4, <2>1 DEF Holds
<1>6. Progress'
  <2>1. since'[r] <= clock
    BY <1>1 DEF Typed
  <2> QED
    BY <1>1, <1>2, <2>1 DEF Progress, StoreCall
<1>7. Owned'
  BY <1>2, <1>5 DEF Owned
<1>8. Kept'
  BY <1>1, <1>2, <1>5 DEF Kept, Over
<1>9. Told'
  <2>1. \A p \in Requests : phase'[p] = "done" => /\ p # r /\ phase[p] = "done"
                                                  /\ since'[p] = since[p] /\ call[p] # Nothing
    BY <1>1 DEF Progress
  <2> QED
    BY <1>2, <1>4, <2>1 DEF Told
<1> QED
  BY <1>4, <1>6, <1>7, <1>8, <1>9

(* The store lets a session go, or time passes.                            *)
LEMMA DataAlone == ASSUME IInv, Collect \/ Tick PROVE DataInv'
<1>1. UNCHANGED <<mainVars, requestVars, used, phase, since, req, ans>>
  BY DEF Collect, Tick, Store!Collect, Store!Tick
<1> USE DEF IInv, DataInv, mainVars, requestVars
<1>2. clock \in Nat /\ clock' \in Nat /\ clock' >= clock
  BY DEF Collect, Tick, Store!Collect, Store!Tick, Typed
<1>3. /\ Names' /\ RestoresOwnText' /\ SessionsAnswer' /\ NothingPastItsTime'
      /\ \A q, id : Saved(q, id)' <=> Saved(q, id)
      /\ \A p \in Requests : call[p] # Nothing /\ call[p].op = "restore" =>
           /\ \A m : Right(p, m) /\ since'[p] = since[p] => Right(p, m)'
           /\ TooLate(p) => TooLate(p)'
  BY <1>1, <1>2, NobodyAnswered
<1>4. \A q \in Requests : \A id : Holds(q, id)' <=> Holds(q, id)
  BY <1>1, <1>3 DEF Holds
<1>5. Progress'
  <2>1. \A r \in Requests : at[r] \in Nat /\ since[r] \in Nat
    BY DEF Typed
  <2>2. \A r \in Requests : at[r] <= clock' /\ since[r] <= clock'
    BY <1>2, <2>1 DEF Progress
  <2> QED
    BY <1>1, <2>2 DEF Progress, StoreCall
<1>6. Owned'
  BY <1>1, <1>4 DEF Owned
<1>7. Kept'
  <2> SUFFICES ASSUME NEW q \in Requests, NEW id \in Ids, Holds(q, id)
               PROVE  /\ id \in DOMAIN live' => /\ live'[id].content = call[q].text
                                                /\ since[q] + ttl <= live'[id].until
                                                /\ live'[id].until <= Over(q)' + ttl
                      /\ id \notin DOMAIN live' => since[q] + ttl <= clock'
    BY <1>1, <1>4 DEF Kept
  <2>1. /\ id \in DOMAIN live => /\ live[id].content = call[q].text
                                 /\ since[q] + ttl <= live[id].until
                                 /\ live[id].until <= Over(q) + ttl
                                 /\ live[id].until \in Nat
        /\ id \notin DOMAIN live => since[q] + ttl <= clock
    BY DEF Kept, Typed
  <2>2. Over(q) <= Over(q)' /\ Over(q) \in Nat /\ Over(q)' \in Nat
        /\ since[q] + ttl \in Nat /\ ttl \in Nat
    BY <1>1, <1>2 DEF Over, Typed
  <2>3. CASE live' = live
    BY <1>2, <2>1, <2>2, <2>3
  <2>4. CASE Collect
    <3>1. PICK i \in DOMAIN live : clock >= live[i].until /\ live' = Store!Without(i)
      BY <2>4 DEF Collect, Store!Collect
    <3>2. /\ DOMAIN live' = DOMAIN live \ {i}
          /\ \A j \in DOMAIN live' : live'[j] = live[j]
      BY <3>1 DEF Store!Without
    <3> QED
      BY <1>2, <2>1, <2>2, <3>1, <3>2
  <2> QED
    BY <2>3, <2>4 DEF Tick, Store!Tick
<1>8. Told'
  BY <1>1, <1>3 DEF Told, Progress
<1> QED
  BY <1>3, <1>5, <1>6, <1>7, <1>8

(* The store answers: what does not change with it.                        *)
LEMMA StoreFrame ==
  ASSUME IInv, NEW r \in Requests, StoreActs(r)
  PROVE  /\ UNCHANGED <<mainVars, requestVars, clock, since, req>>
         /\ phase[r] = "busy" /\ phase'[r] = "done"
         /\ \A q \in Requests : q # r => phase'[q] = phase[q] /\ ans'[q] = ans[q]
         /\ Names' /\ RestoresOwnText' /\ SessionsAnswer' /\ NothingPastItsTime'
         /\ Progress'
         /\ Known' = Known /\ \A q, id : Saved(q, id)' <=> Saved(q, id)
         /\ \A q \in Requests : \A id : q # r => (Holds(q, id)' <=> Holds(q, id))
         /\ \A p \in Requests : call[p] # Nothing /\ call[p].op = "restore" =>
              /\ \A m : Right(p, m) => Right(p, m)'
              /\ TooLate(p) => TooLate(p)'
         /\ \A id \in Ids \cup {NoId} : ~Saved(r, id)
         /\ clock \in Nat /\ ttl \in Nat /\ \A q \in Requests : since[q] \in Nat
<1>1. /\ UNCHANGED <<mainVars, requestVars, clock, since, req>>
      /\ phase[r] = "busy" /\ phase'[r] = "done"
      /\ \A q \in Requests : q # r => phase'[q] = phase[q] /\ ans'[q] = ans[q]
  BY DEF StoreActs, Store!SaveFails, Store!Save, Store!Load, Store!Answer, Store!Busy, IInv, Typed
<1>2. clock \in Nat /\ ttl \in Nat /\ \A q \in Requests : since[q] \in Nat
  BY DEF IInv, Typed
<1>3. /\ Names' /\ RestoresOwnText' /\ SessionsAnswer' /\ NothingPastItsTime'
      /\ Known' = Known /\ \A q, id : Saved(q, id)' <=> Saved(q, id)
      /\ \A p \in Requests : call[p] # Nothing /\ call[p].op = "restore" =>
           /\ \A m : Right(p, m) /\ since'[p] = since[p] => Right(p, m)'
           /\ TooLate(p) => TooLate(p)'
  BY <1>1, <1>2, NobodyAnswered DEF mainVars, requestVars
<1>4. Progress'
  BY <1>1 DEF mainVars, requestVars, IInv, DataInv, Progress, StoreCall
<1>5. \A q \in Requests : \A id : q # r => (Holds(q, id)' <=> Holds(q, id))
  BY <1>1, <1>3 DEF Holds
<1>6. ASSUME NEW id \in Ids \cup {NoId}, Saved(r, id) PROVE FALSE
  <2>1. Holds(r, id)
    BY <1>6 DEF Holds
  <2>2. pc[r] = "storing" /\ pc[r] = "done"
    BY <1>1, <1>6, <2>1, StoreAsked, HolderFacts
  <2> QED
    BY <2>2
<1> QED
  BY <1>1, <1>2, <1>3, <1>4, <1>5, <1>6

LEMMA DataSave ==
  ASSUME IInv, NEW r \in Requests, StoreActs(r), Store!SaveFails(r) \/ Store!Save(r)
  PROVE  DataInv'
<1> USE DEF IInv, DataInv, mainVars, requestVars
<1>1. /\ UNCHANGED <<mainVars, requestVars, clock, since, req>>
      /\ phase[r] = "busy" /\ phase'[r] = "done"
      /\ \A q \in Requests : q # r => phase'[q] = phase[q] /\ ans'[q] = ans[q]
      /\ \A q \in Requests : \A id : q # r => (Holds(q, id)' <=> Holds(q, id))
      /\ \A p \in Requests : call[p] # Nothing /\ call[p].op = "restore" =>
           /\ \A m : Right(p, m) => Right(p, m)'
           /\ TooLate(p) => TooLate(p)'
      /\ \A id \in Ids \cup {NoId} : ~Saved(r, id) /\ ~Saved(r, id)'
  BY StoreFrame
<1>2. Store!Busy(r, "save")
  BY DEF Store!SaveFails, Store!Save
<1>3. call[r].op = "redact" /\ req[r].content = call[r].text /\ req[r].ttl = ttl
      /\ pc[r] = "storing"
  BY <1>1, <1>2, StoreAsked
<1>4. ASSUME ans'[r] = Store!Is("failed") \/ \E id \in Ids : ans'[r] = Store!Saved(id)
      PROVE  Told'
  BY <1>1, <1>3, <1>4 DEF Told, Progress
<1>5. CASE Store!SaveFails(r)
  <2>1. ans'[r] = Store!Is("failed") /\ live' = live /\ used' = used
    BY <1>5 DEF Store!SaveFails, Store!Answer, Typed
  <2>2. \A id : ans'[r] # Store!Saved(id)
    BY <2>1 DEF Store!Is, Store!Saved
  <2>3. \A q \in Requests, id \in Ids \cup {NoId} : Holds(q, id)' => Holds(q, id)
    BY <1>1, <2>2 DEF Holds
  <2>4. Owned'
    BY <1>1, <2>1, <2>3 DEF Owned
  <2>5. Kept'
    BY <1>1, <2>1, <2>3 DEF Kept, Over
  <2> QED
    BY <1>4, <2>1, <2>4, <2>5, StoreFrame
<1>6. CASE Store!Save(r)
  <2>1. PICK id \in Store!Fresh, t \in since[r] .. clock :
          /\ live' = [i \in DOMAIN live \cup {id} |->
                        IF i = id
                        THEN [content |-> req[r].content, until |-> t + req[r].ttl]
                        ELSE live[i]]
          /\ used' = used \cup {id}
          /\ Store!Answer(r, Store!Saved(id))
    BY <1>6 DEF Store!Save
  <2>2. ans'[r] = Store!Saved(id) /\ id \in Ids /\ id \notin used /\ id \notin DOMAIN live
        /\ id # NoId
    BY <2>1, ServiceAssumption DEF ServiceAssumption, Store!Answer, Store!Fresh, Typed
  <2>3. \A i : Store!Saved(i) = Store!Saved(id) => i = id
    BY DEF Store!Saved
  <2>4. \A i \in Ids \cup {NoId} : Holds(r, i)' => i = id
    BY <1>1, <2>2, <2>3 DEF Holds
  <2>5. \A q \in Requests, i \in Ids \cup {NoId} :
          q # r /\ Holds(q, i)' => Holds(q, i) /\ i \in used /\ i # id
    BY <1>1, <2>2, HolderFacts
  <2>6. Owned'
    <3>1. \A q \in Requests, i \in Ids \cup {NoId} :
            Holds(q, i)' => i \in used' /\ call'[q].op = "redact"
      BY <1>1, <1>3, <2>1, <2>4, <2>5 DEF Owned
    <3>2. \A p, q \in Requests, i \in Ids : Holds(p, i)' /\ Holds(q, i)' => p = q
      BY <2>4, <2>5 DEF Owned
    <3> QED
      BY <3>1, <3>2 DEF Owned
  <2>7. Kept'
    <3> SUFFICES ASSUME NEW q \in Requests, NEW i \in Ids, Holds(q, i)'
                 PROVE  /\ i \in DOMAIN live' => /\ live'[i].content = call[q].text
                                                 /\ since[q] + ttl <= live'[i].until
                                                 /\ live'[i].until <= Over(q) + ttl
                        /\ i \notin DOMAIN live' => since[q] + ttl <= clock
      BY <1>1 DEF Kept, Over
    <3>1. CASE q = r
      <4>1. i = id /\ Over(q) = clock
        BY <1>3, <2>4, <3>1 DEF Over
      <4>2. i \in DOMAIN live' /\ live'[i] = [content |-> call[q].text, until |-> t + ttl]
        BY <1>3, <2>1, <3>1, <4>1
      <4>3. since[q] + ttl <= t + ttl /\ t + ttl <= clock + ttl
        BY <2>1, <3>1, StoreFrame
      <4> QED
        BY <4>1, <4>2, <4>3
    <3>2. CASE q # r
      <4>1. Holds(q, i) /\ i # id
        BY <2>5, <3>2
      <4>2. (i \in DOMAIN live' <=> i \in DOMAIN live) /\ (i \in DOMAIN live => live'[i] = live[i])
        BY <2>1, <4>1
      <4> QED
        BY <4>1, <4>2 DEF Kept
    <3> QED
      BY <3>1, <3>2
  <2> QED
    BY <1>4, <2>2, <2>6, <2>7, StoreFrame
<1> QED
  BY <1>5, <1>6

LEMMA DataLoad ==
  ASSUME IInv, NEW r \in Requests, StoreActs(r), Store!Load(r)
  PROVE  DataInv'
<1> USE DEF IInv, DataInv, mainVars, requestVars
<1> DEFINE id == call[r].id
<1>1. /\ UNCHANGED <<mainVars, requestVars, clock, since, req>>
      /\ phase[r] = "busy" /\ phase'[r] = "done"
      /\ \A q \in Requests : q # r => phase'[q] = phase[q] /\ ans'[q] = ans[q]
      /\ Known' = Known /\ \A q, i : Saved(q, i)' <=> Saved(q, i)
      /\ \A q \in Requests : \A i : q # r => (Holds(q, i)' <=> Holds(q, i))
      /\ \A p \in Requests : call[p] # Nothing /\ call[p].op = "restore" =>
           /\ \A m : Right(p, m) => Right(p, m)'
           /\ TooLate(p) => TooLate(p)'
      /\ \A i \in Ids \cup {NoId} : ~Saved(r, i)
      /\ clock \in Nat /\ ttl \in Nat /\ \A q \in Requests : since[q] \in Nat
  BY StoreFrame
<1>2. UNCHANGED <<live, used>>
  BY DEF Store!Load
<1>3. /\ call[r].op = "restore" /\ req[r].id = id /\ pc[r] = "storing" /\ call[r] # Nothing
      /\ id \in Ids \cup {NoId}
  <2>1. call[r].op = "restore" /\ req[r].id = id /\ pc[r] = "storing" /\ call[r] # Nothing
    BY <1>1, StoreAsked, CallFacts DEF Store!Load
  <2> QED
    BY <2>1, RequestFacts
<1>4. \/ id \notin DOMAIN live /\ ans'[r] = Store!Is("notFound")
      \/ id \in DOMAIN live /\ clock >= live[id].until /\ ans'[r] = Store!Is("expired")
      \/ id \in DOMAIN live /\ clock < live[id].until /\ ans'[r] = Store!Loaded(live[id].content)
  BY <1>3 DEF Store!Load, Store!Answer, Typed
<1>5. \A i : ans'[r] # Store!Saved(i)
  BY <1>4 DEF Store!Is, Store!Loaded, Store!Saved
<1>6. \A q \in Requests, i \in Ids \cup {NoId} : Holds(q, i)' => Holds(q, i)
  BY <1>1, <1>5 DEF Holds
<1>7. Owned'
  BY <1>1, <1>2, <1>6 DEF Owned
<1>8. Kept'
  BY <1>1, <1>2, <1>6 DEF Kept, Over
<1>9. ASSUME NEW q \in Requests, Saved(q, id)
      PROVE  /\ id \in DOMAIN live => /\ live[id].content = call[q].text
                                      /\ since[q] + ttl <= live[id].until
                                      /\ live[id].until <= at[q] + ttl
                                      /\ live[id].until \in Nat
             /\ id \notin DOMAIN live => since[q] + ttl <= clock
             /\ at[q] + ttl \in Nat /\ call[q].text \in Texts
  <2>1. Holds(q, id)
    BY <1>9 DEF Holds
  <2> HIDE DEF IInv, id
  <2>2. id \in Ids /\ pc[q] = "done" /\ call[q].text \in Texts
    BY <1>3, <1>9, <2>1, HolderFacts DEF Holds
  <2>3. /\ id \in DOMAIN live => /\ live[id].content = call[q].text
                                 /\ since[q] + ttl <= live[id].until
                                 /\ live[id].until <= Over(q) + ttl
                                 /\ live[id].until \in Nat
        /\ id \notin DOMAIN live => since[q] + ttl <= clock
        /\ at[q] + ttl \in Nat
    BY <2>1, <2>2 DEF Kept, Typed, IInv
  <2> QED
    BY <2>2, <2>3 DEF Over
<1>10. ASSUME id \notin DOMAIN live \/ clock >= live[id].until PROVE TooLate(r)
  <2> SUFFICES ASSUME NEW q \in Requests, Saved(q, id) PROVE since[q] + ttl <= clock
    BY DEF TooLate
  <2> HIDE DEF id
  <2> QED
    BY <1>1, <1>9, <1>10
<1>11. ASSUME id \in DOMAIN live, clock < live[id].until
       PROVE  live[id].content \in Texts /\ Right(r, live[id].content)
  <2>1. id \in Known
    <3>1. id \in Ids /\ id # Foreign /\ id # NoId
      BY <1>11, ServiceAssumption DEF ServiceAssumption, Typed
    <3> QED
      BY <1>3, <3>1 DEF Names
  <2>2. PICK q \in Requests : Saved(q, id)
    BY <2>1, KnownFacts
  <2>3. ASSUME NEW p \in Requests, Saved(p, id)
        PROVE  call[p].text = live[id].content /\ since[r] < at[p] + ttl
    <3>1. since[r] <= clock /\ since[r] \in Nat /\ clock \in Nat
      BY <1>1 DEF Progress
    <3> HIDE DEF id
    <3> QED
      BY <1>9, <1>11, <2>3, <3>1
  <2>4. live[id].content \in Texts
    BY <1>9, <1>11, <2>2
  <2> QED
    BY <2>1, <2>3, <2>4 DEF Right
<1>12. \/ \E m \in Texts : ans'[r] = Store!Loaded(m) /\ Right(r, m)'
       \/ ans'[r] \in {Store!Is("notFound"), Store!Is("expired")} /\ TooLate(r)'
  BY <1>1, <1>3, <1>4, <1>10, <1>11
<1>13. Told'
  BY <1>1, <1>3, <1>12 DEF Told, Progress
<1> QED
  BY <1>7, <1>8, <1>13, StoreFrame

-----------------------------------------------------------------------------
(* The handler answers: nobody but r is told anything, and r is told only  *)
(* of a session it holds, which nobody asked for before.                   *)
LEMMA AnswerFrame ==
  ASSUME IInv, NEW r \in Requests, NEW a \in Answers, Answer(r, a),
         pc[r] \in {"accepted", "storing"},
         \A id \in Ids \cup {NoId} : a = Session(id) => Holds(r, id)
  PROVE  /\ UNCHANGED <<mainVars, call>>
         /\ pc'[r] = "done" /\ result'[r] = a /\ at'[r] = clock /\ result[r] = Nothing
         /\ \A q \in Requests : q # r => /\ pc'[q] = pc[q] /\ result'[q] = result[q]
                                         /\ at'[q] = at[q]
         /\ \A q \in Requests : \A id : Saved(q, id) => q # r \/ id \notin Ids \cup {NoId}
         /\ \A q \in Requests : \A id : q # r => (Saved(q, id)' <=> Saved(q, id))
         /\ \A id : id \in Known => id \in Known'
         /\ \A p \in Requests : call[p] # Nothing /\ call[p].op = "restore" =>
              \A q \in Requests : Saved(q, call[p].id)' => q # r /\ Saved(q, call[p].id)
<1>1. /\ UNCHANGED <<mainVars, call>>
      /\ pc'[r] = "done" /\ result'[r] = a /\ at'[r] = clock
      /\ \A q \in Requests : q # r => /\ pc'[q] = pc[q] /\ result'[q] = result[q]
                                      /\ at'[q] = at[q]
  BY DEF Answer, IInv, Typed
<1>2. result[r] = Nothing
  BY DEF IInv, DataInv, Progress
<1>3. \A q \in Requests : \A id : Saved(q, id) => q # r \/ id \notin Ids \cup {NoId}
  BY <1>2, AnswerFacts DEF Saved
<1>4. \A q \in Requests : \A id : q # r => (Saved(q, id)' <=> Saved(q, id))
  BY <1>1 DEF Saved
<1>5. \A id : id \in Known => id \in Known'
  <2> SUFFICES ASSUME NEW q \in Requests, result[q] # Nothing, result[q].kind = "session"
               PROVE  result[q].id \in Known'
    BY DEF Known
  <2>1. q # r /\ result'[q] = result[q]
    BY <1>1, <1>2
  <2> QED
    BY <2>1 DEF Known
<1>6. ASSUME NEW p \in Requests, call[p] # Nothing, call[p].op = "restore",
             NEW q \in Requests, Saved(q, call[p].id)'
      PROVE  q # r /\ Saved(q, call[p].id)
  <2>1. call[p].id \in Ids \cup {NoId}
    BY <1>6, RequestFacts
  <2>2. CASE q = r
    <3>1. a = Session(call[p].id)
      BY <1>1, <1>6, <2>2 DEF Saved
    <3>2. Holds(r, call[p].id)
      BY <2>1, <3>1
    <3>3. call[p].id \in Ids /\ call[p].id # NoId /\ call[p].id # Foreign
      BY <2>1, <3>2, HolderFacts
    <3>4. call[p].id \in Known
      BY <1>6, <3>3 DEF IInv, DataInv, Names
    <3>5. PICK h \in Requests : Saved(h, call[p].id)
      BY <3>4, KnownFacts
    <3>6. h = r
      BY <3>2, <3>3, <3>5 DEF Holds, IInv, DataInv, Owned
    <3> QED
      BY <1>3, <2>1, <3>5, <3>6
  <2>3. CASE q # r
    BY <1>1, <1>4, <1>6, <2>3
  <2> QED
    BY <2>2, <2>3
<1> QED
  BY <1>1, <1>2, <1>3, <1>4, <1>5, <1>6

(* What every answer keeps, whoever gives it.                              *)
LEMMA AnswerKeeps ==
  ASSUME IInv, NEW r \in Requests, NEW a \in Answers, Answer(r, a),
         pc[r] \in {"accepted", "storing"}, call[r] # Nothing,
         UNCHANGED <<clock, live, used, since>>,
         \A q \in Requests : q # r => /\ phase'[q] = phase[q] /\ req'[q] = req[q]
                                      /\ ans'[q] = ans[q],
         phase'[r] = "idle",
         \A id \in Ids \cup {NoId} : a = Session(id) => Holds(r, id),
         a.kind = "restored" => Right(r, a.mapping) /\ call[r].op = "restore",
         call[r].op = "restore" /\ WellFormed(call[r]) /\ call[r].id \in Known
           => a.kind = "restored" \/ (a.kind = "notFound" /\ TooLate(r))
  PROVE  DataInv'
<1>1. /\ UNCHANGED <<mainVars, call>>
      /\ pc'[r] = "done" /\ result'[r] = a /\ at'[r] = clock /\ result[r] = Nothing
      /\ \A q \in Requests : q # r => /\ pc'[q] = pc[q] /\ result'[q] = result[q]
                                      /\ at'[q] = at[q]
      /\ \A q \in Requests : \A id : q # r => (Saved(q, id)' <=> Saved(q, id))
      /\ \A id : id \in Known => id \in Known'
      /\ \A p \in Requests : call[p] # Nothing /\ call[p].op = "restore" =>
           \A q \in Requests : Saved(q, call[p].id)' => q # r /\ Saved(q, call[p].id)
  BY AnswerFrame
<1> USE DEF IInv, DataInv, mainVars
<1>2. \A q \in Requests, id \in Ids \cup {NoId} : Holds(q, id)' => Holds(q, id)
  BY <1>1 DEF Holds, Saved
<1>3. Progress'
  <2>1. a # Nothing
    BY AnswerFacts
  <2>2. at'[r] <= clock
    BY <1>1 DEF Typed
  <2> QED
    BY <1>1, <2>1, <2>2 DEF Progress, StoreCall
<1>4. Owned'
  BY <1>1, <1>2 DEF Owned
<1>5. Kept'
  <2>1. \A q \in Requests : Over(q)' = Over(q)
    BY <1>1 DEF Over
  <2> QED
    BY <1>1, <1>2, <2>1 DEF Kept
<1>6. Names'
  BY <1>1 DEF Names
<1>7. Told'
  <2> SUFFICES ASSUME NEW p \in Requests, phase'[p] = "done"
               PROVE  /\ call[p].op = "redact" =>
                           ans[p] = Store!Is("failed") \/ \E id \in Ids : ans[p] = Store!Saved(id)
                      /\ call[p].op = "restore" =>
                           \/ \E m \in Texts : ans[p] = Store!Loaded(m) /\ Right(p, m)'
                           \/ ans[p] \in {Store!Is("notFound"), Store!Is("expired")} /\ TooLate(p)'
    BY <1>1 DEF Told
  <2>1. p # r /\ phase[p] = "done" /\ call[p] # Nothing
    BY DEF Progress
  <2>2. ASSUME call[p].op = "restore"
        PROVE  /\ \A m : Right(p, m) => Right(p, m)'
               /\ TooLate(p) => TooLate(p)'
    BY <1>1, <2>1, <2>2 DEF Right, TooLate
  <2> QED
    BY <2>1, <2>2 DEF Told
<1>8. \A p \in Requests : p # r => result'[p] = result[p] /\ at'[p] = at[p]
  BY <1>1
<1>9. \A p, q \in Requests :
        call[p] # Nothing /\ call[p].op = "restore" /\ Saved(q, call[p].id)'
          => q # r /\ Saved(q, call[p].id) /\ at'[q] = at[q] /\ call[p].id \in Known
  <2> SUFFICES ASSUME NEW p \in Requests, NEW q \in Requests,
                      call[p] # Nothing, call[p].op = "restore", Saved(q, call[p].id)'
               PROVE  q # r /\ Saved(q, call[p].id) /\ at'[q] = at[q] /\ call[p].id \in Known
    OBVIOUS
  <2>1. q # r /\ Saved(q, call[p].id) /\ at'[q] = at[q]
    BY <1>1
  <2>2. call[p].id \in Ids
    <3>1. call[p].id \in Ids \cup {NoId}
      BY RequestFacts
    <3> QED
      BY <2>1, <3>1, HolderFacts DEF Holds
  <2> QED
    BY <2>1, <2>2, KnownFacts
<1>10. SessionsAnswer'
  <2> SUFFICES ASSUME NEW p \in Requests, NEW q \in Requests, pc'[p] = "done",
                      call[p].op = "restore", WellFormed(call[p]), Saved(q, call[p].id)'
               PROVE  \/ result'[p].kind = "restored"
                      \/ result'[p].kind = "notFound" /\ at'[p] >= since[q] + ttl
    BY <1>1 DEF SessionsAnswer
  <2>1. call[p] # Nothing
    BY <1>1 DEF Progress
  <2>2. q # r /\ Saved(q, call[p].id) /\ call[p].id \in Known
    BY <1>9, <2>1
  <2>3. CASE p = r
    <3>1. clock \in Nat /\ since[q] + ttl \in Nat
      BY DEF Typed
    <3>2. a.kind = "restored" \/ (a.kind = "notFound" /\ since[q] + ttl <= clock)
      BY <2>2, <2>3 DEF TooLate
    <3> QED
      BY <1>1, <2>3, <3>1, <3>2
  <2>4. CASE p # r
    BY <1>1, <2>2, <2>4 DEF SessionsAnswer
  <2> QED
    BY <2>3, <2>4
<1>11. ASSUME NEW p \in Requests, result'[p] # Nothing, result'[p].kind = "restored"
       PROVE  /\ call[p].id \in Known /\ call[p] # Nothing
              /\ \A q \in Requests : Saved(q, call[p].id)' =>
                   /\ call[q].text = result'[p].mapping
                   /\ since[p] < at'[q] + ttl
  <2>1. CASE p = r
    <3>1. Right(r, a.mapping) /\ call[r].op = "restore"
      BY <1>1, <1>11, <2>1
    <3> QED
      BY <1>1, <1>9, <2>1, <3>1 DEF Right
  <2>2. CASE p # r
    <3>1. result[p] # Nothing /\ result[p].kind = "restored" /\ result'[p] = result[p]
      BY <1>1, <1>11, <2>2
    <3>2. call[p].id \in Known
      BY <3>1 DEF RestoresOwnText
    <3>3. call[p] # Nothing /\ pc[p] = "done"
      BY <3>1 DEF Progress
    <3>4. ASSUME NEW q \in Requests, Saved(q, call[p].id)'
          PROVE  Saved(q, call[p].id) /\ at'[q] = at[q]
      <4>1. q # r
        <5>1. PICK h \in Requests : Saved(h, call[p].id) /\ call[p].id \in Ids
          BY <3>2, KnownFacts
        <5>2. Holds(h, call[p].id)
          BY <5>1 DEF Holds
        <5>3. CASE q = r
          <6>1. Holds(r, call[p].id)
            BY <1>1, <1>2, <3>4, <5>1, <5>3 DEF Holds
          <6>2. h = r
            BY <5>1, <5>2, <6>1 DEF Owned
          <6>3. pc[r] = "done"
            BY <5>1, <5>2, <6>2, HolderFacts
          <6> QED
            BY <6>3
        <5> QED
          BY <5>3
      <4> QED
        BY <1>1, <3>4, <4>1
    <3>5. \A q \in Requests : Saved(q, call[p].id) =>
            call[q].text = result[p].mapping /\ since[p] < at[q] + ttl
      BY <3>1 DEF RestoresOwnText, NothingPastItsTime
    <3> QED
      BY <3>1, <3>2, <3>3, <3>4, <3>5
  <2> QED
    BY <2>1, <2>2
<1>12. RestoresOwnText'
  BY <1>1, <1>11 DEF RestoresOwnText
<1>13. NothingPastItsTime'
  BY <1>1, <1>11 DEF NothingPastItsTime
<1> QED
  BY <1>3, <1>4, <1>5, <1>6, <1>7, <1>10, <1>12, <1>13

LEMMA DataAnswer ==
  ASSUME IInv, NEW r \in Requests, Refuse(r) \/ AnswerPlain(r)
  PROVE  DataInv'
<1>1. /\ pc[r] = "accepted" /\ call[r] # Nothing /\ phase[r] = "idle"
      /\ UNCHANGED storeVars
  BY DEF Refuse, AnswerPlain, IInv, DataInv, Progress
<1>2. PICK a \in {Refused("invalid"), Ok} :
        /\ Answer(r, a)
        /\ RefusedFirst(call[r]) \/ call[r].op = "plain"
  BY DEF Refuse, AnswerPlain
<1>3. /\ a \in Answers /\ a.kind # "restored"
      /\ \A id : a # Session(id)
  BY <1>2, AnswerFacts DEF Refused, Ok, Session
<1>4. ~(call[r].op = "restore" /\ WellFormed(call[r]) /\ call[r].id \in Known)
  <2> SUFFICES ASSUME call[r].op = "restore", WellFormed(call[r]), call[r].id \in Known
               PROVE  FALSE
    OBVIOUS
  <2>1. call[r].id = NoId
    BY <1>2 DEF RefusedFirst, WellFormed
  <2> QED
    BY <2>1, KnownFacts, ServiceAssumption DEF ServiceAssumption
<1> QED
  BY <1>1, <1>2, <1>3, <1>4, AnswerKeeps DEF storeVars

LEMMA DataRespond == ASSUME IInv, NEW r \in Requests, Respond(r) PROVE DataInv'
<1> DEFINE a == Outcome(call[r], ans[r])
<1>1. /\ pc[r] = "storing" /\ phase[r] = "done" /\ Answer(r, a) /\ Store!Return(r)
  BY DEF Respond, Store!Return
<1>2. /\ a \in Answers /\ call[r] \in Calls /\ call[r] # Nothing
      /\ call[r].op = "redact" \/ call[r].op = "restore"
  BY <1>1, OutcomeFacts, CallFacts
<1>3. /\ UNCHANGED <<clock, live, used, since>> /\ phase'[r] = "idle"
      /\ \A q \in Requests : q # r => /\ phase'[q] = phase[q] /\ req'[q] = req[q]
                                      /\ ans'[q] = ans[q]
  BY <1>1 DEF Store!Return, IInv, Typed
<1>4. CASE call[r].op = "redact"
  <2>1. \/ a = Refused("internal")
        \/ \E id \in Ids : ans[r] = Store!Saved(id) /\ a = Session(id)
    BY <1>1, <1>4, OutcomeFacts
  <2> HIDE DEF a
  <2>2. a.kind # "restored"
    BY <2>1 DEF Refused, Session
  <2>3. ASSUME NEW id \in Ids \cup {NoId}, a = Session(id) PROVE Holds(r, id)
    <3>1. PICK i \in Ids : ans[r] = Store!Saved(i) /\ a = Session(i)
      BY <2>1, <2>3 DEF Refused, Session
    <3>2. i = id
      BY <2>3, <3>1 DEF Session
    <3> QED
      BY <1>1, <3>1, <3>2 DEF Holds
  <2> QED
    BY <1>1, <1>2, <1>3, <1>4, <2>2, <2>3, AnswerKeeps
<1>5. CASE call[r].op = "restore"
  <2>1. \/ \E m \in Texts :
             /\ ans[r] = Store!Loaded(m) /\ Right(r, m)
             /\ a = IF RefusedLast(call[r]) THEN Refused("invalid") ELSE Restored(m)
        \/ TooLate(r) /\ a = Refused("notFound")
    BY <1>1, <1>5, OutcomeFacts
  <2> HIDE DEF a
  <2>2. /\ \A id : a # Session(id)
        /\ a.kind = "restored" => Right(r, a.mapping)
    BY <2>1 DEF Refused, Restored, Session
  <2>3. ASSUME WellFormed(call[r])
        PROVE  a.kind = "restored" \/ (a.kind = "notFound" /\ TooLate(r))
    <3>1. ~RefusedLast(call[r])
      BY <2>3 DEF WellFormed, RefusedLast
    <3> QED
      BY <2>1, <3>1 DEF Restored, Refused
  <2> QED
    BY <1>1, <1>2, <1>3, <1>5, <2>2, <2>3, AnswerKeeps
<1> QED
  BY <1>2, <1>4, <1>5

-----------------------------------------------------------------------------
LEMMA StepInv == ASSUME IInv, [Next]_vars PROVE IInv'
<1>1. ASSUME NEW r \in Requests, StoreActs(r) PROVE DataInv'
  BY <1>1, DataSave, DataLoad DEF StoreActs
<1>2. DataInv'
  BY <1>1, DataMain, DataAccept, DataAnswer, DataCallStore, DataRespond, DataAlone
     DEF Next, Handle
<1> QED
  BY <1>2, TypedStep, MainStep DEF IInv

(* The invariant holds in every reachable state.                           *)
THEOREM Inductive == Spec => []IInv
<1>1. IInv /\ [Next]_vars => IInv'
  BY StepInv
<1> QED
  BY <1>1, InitInv, PTL DEF Spec

(* Every variable has its type.                                            *)
THEOREM TypeCorrect == Spec => []TypeOK
<1>1. IInv => TypeOK
  <2> SUFFICES ASSUME IInv PROVE TypeOK
    OBVIOUS
  <2>1. ASSUME NEW r \in Requests
        PROVE  /\ pc[r] \in {"idle", "accepted", "storing", "done"}
               /\ at[r] \in 0 .. clock
               /\ call[r] \in Offers[r] \cup {Nothing}
               /\ call[r] = Nothing <=> pc[r] = "idle"
               /\ result[r] # Nothing <=> pc[r] = "done"
               /\ phase[r] # "idle" => pc[r] = "storing"
    <3>1. at[r] \in Nat /\ clock \in Nat /\ at[r] <= clock
      BY DEF IInv, Typed, DataInv, Progress
    <3>2. pc[r] \in {"idle", "accepted", "storing", "done"}
      BY DEF IInv, Typed
    <3>3. /\ call[r] \in Offers[r] \cup {Nothing}
          /\ call[r] = Nothing <=> pc[r] = "idle"
          /\ result[r] # Nothing <=> pc[r] = "done"
          /\ phase[r] # "idle" => pc[r] = "storing"
      BY DEF IInv, DataInv, Progress
    <3> QED
      BY <3>1, <3>2, <3>3
  <2> QED
    BY <2>1 DEF IInv, Typed, TypeOK
<1> QED
  BY <1>1, Inductive, PTL

(* What comes back under a session is the text that was redacted under it. *)
THEOREM RestoresCorrect == Spec => []RestoresOwnText
<1>1. IInv => RestoresOwnText
  BY DEF IInv, DataInv
<1> QED
  BY <1>1, Inductive, PTL

(* A well-formed restore succeeds until the configured lifetime is over.   *)
THEOREM AnswersCorrect == Spec => []SessionsAnswer
<1>1. IInv => SessionsAnswer
  BY DEF IInv, DataInv
<1> QED
  BY <1>1, Inductive, PTL

(* No restore that began after the lifetime gives anything back.           *)
THEOREM LifetimeCorrect == Spec => []NothingPastItsTime
<1>1. IInv => NothingPastItsTime
  BY DEF IInv, DataInv
<1> QED
  BY <1>1, Inductive, PTL

(* The shutdown leaves nothing unanswered but the HTTP requests that       *)
(* hs.Shutdown gave up waiting for.                                        *)
THEOREM ShutdownCorrect == Spec => []NothingCutOff
<1>1. IInv => NothingCutOff
  BY DEF IInv, MainInv
<1> QED
  BY <1>1, Inductive, PTL

(* The handlers use the store as SessionStoreAbs says it may be used: what *)
(* the processes do to it are behaviours of that specification.            *)
THEOREM UsesStore == Spec => Store!Spec
<1>1. Init => Store!Init
  BY DEF Init
<1>2. [Next]_vars => [Store!Next]_(Store!vars)
  <2> SUFFICES ASSUME [Next]_vars PROVE Store!Next \/ UNCHANGED storeVars
    BY DEF Store!vars, storeVars
  <2>1. CASE Boot \/ Listen \/ Signal \/ Stopping \/ UNCHANGED vars
    BY <2>1 DEF Boot, Listen, Signal, Stopping, StopGRPC, Exit, vars
  <2>2. CASE \E r \in Requests : Accept(r) \/ Refuse(r) \/ AnswerPlain(r)
    BY <2>2 DEF Accept, Refuse, AnswerPlain
  <2>3. CASE \E r \in Requests : CallStore(r) \/ StoreActs(r) \/ Respond(r)
    BY <2>3 DEF CallStore, StoreActs, Respond, Store!Next
  <2>4. CASE Collect \/ Tick
    BY <2>4 DEF Collect, Tick, Store!Next
  <2> QED
    BY <2>1, <2>2, <2>3, <2>4 DEF Next, Handle
<1> QED
  BY <1>1, <1>2, PTL DEF Spec, Store!Spec
=============================================================================
