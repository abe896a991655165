-------------------------- MODULE SessionStoreAbs --------------------------
(***************************************************************************)
(* What store.SessionStore promises to the HTTP and gRPC handlers: a store *)
(* in which every operation happens at one instant between its call and    *)
(* its return, sessions are values that nobody can reach into, and a       *)
(* session answers for ttl from some instant of the call that saved it.    *)
(***************************************************************************)
EXTENDS Naturals

CONSTANTS
  Threads,   \* the goroutines that serve requests
  Ids,       \* session ids
  Contents,  \* the mappings a session can hold
  TTLs,      \* the lifetimes asked for; 0 stands for every ttl that is not positive
  Nothing    \* no request, no answer

VARIABLES
  clock,  \* the time
  live,   \* the sessions kept, each with its content and the end of its life
  used,   \* the ids handed out so far
  phase,  \* per goroutine: "idle", "busy" (called) or "done" (answered)
  since,  \* per goroutine: when it called
  req,    \* per goroutine: the call
  ans     \* per goroutine: the answer

vars == <<clock, live, used, phase, since, req, ans>>

StoreCalls ==
  [op : {"save"}, content : Contents, ttl : TTLs]
  \cup [op : {"load", "destroy"}, id : Ids]

Saved(id)       == [kind |-> "saved", id |-> id]
Loaded(content) == [kind |-> "loaded", content |-> content]
Is(kind)        == [kind |-> kind]

Init ==
  /\ clock = 0
  /\ live = <<>>
  /\ used = {}
  /\ phase = [t \in Threads |-> "idle"]
  /\ since = [t \in Threads |-> 0]
  /\ req = [t \in Threads |-> Nothing]
  /\ ans = [t \in Threads |-> Nothing]

Call(t) ==
  /\ phase[t] = "idle"
  /\ \E r \in StoreCalls : req' = [req EXCEPT ![t] = r]
  /\ phase' = [phase EXCEPT ![t] = "busy"]
  /\ since' = [since EXCEPT ![t] = clock]
  /\ UNCHANGED <<clock, live, used, ans>>

Busy(t, op) == phase[t] = "busy" /\ req[t].op = op

Answer(t, answer) ==
  /\ phase' = [phase EXCEPT ![t] = "done"]
  /\ ans' = [ans EXCEPT ![t] = answer]
  /\ UNCHANGED <<clock, since, req>>

(* A save may fail, and must fail when the ttl is not positive.            *)
SaveFails(t) ==
  /\ Busy(t, "save")
  /\ Answer(t, Is("failed"))
  /\ UNCHANGED <<live, used>>

(* Mutated form of Fresh: an id may be drawn twice.                        *)
MutRepeated == Ids

Fresh == Ids \ used

Save(t) ==
  /\ Busy(t, "save")
  /\ req[t].ttl > 0
  /\ \E id \in Fresh, at \in since[t] .. clock :
       /\ live' = [i \in DOMAIN live \cup {id} |->
                     IF i = id
                     THEN [content |-> req[t].content, until |-> at + req[t].ttl]
                     ELSE live[i]]
       /\ used' = used \cup {id}
       /\ Answer(t, Saved(id))

Load(t) ==
  /\ Busy(t, "load")
  /\ LET id == req[t].id
     IN  \/ id \notin DOMAIN live /\ Answer(t, Is("notFound"))
         \/ id \in DOMAIN live /\ clock >= live[id].until /\ Answer(t, Is("expired"))
         \/ id \in DOMAIN live /\ clock < live[id].until /\ Answer(t, Loaded(live[id].content))
  /\ UNCHANGED <<live, used>>

Without(id) == [i \in DOMAIN live \ {id} |-> live[i]]

Destroy(t) ==
  /\ Busy(t, "destroy")
  /\ LET id == req[t].id
     IN  \/ id \notin DOMAIN live /\ Answer(t, Is("notFound")) /\ UNCHANGED live
         \/ id \in DOMAIN live /\ Answer(t, Is("destroyed")) /\ live' = Without(id)
  /\ UNCHANGED used

(* A session past its time may go at any moment.                           *)
Collect ==
  /\ \E id \in DOMAIN live : clock >= live[id].until /\ live' = Without(id)
  /\ UNCHANGED <<clock, used, phase, since, req, ans>>

(* Who is told that a session expired finds it gone.                       *)
Return(t) ==
  /\ phase[t] = "done"
  /\ ans[t] = Is("expired") => req[t].id \notin DOMAIN live
  /\ phase' = [phase EXCEPT ![t] = "idle"]
  /\ req' = [req EXCEPT ![t] = Nothing]
  /\ ans' = [ans EXCEPT ![t] = Nothing]
  /\ UNCHANGED <<clock, live, used, since>>

Tick == clock' = clock + 1 /\ UNCHANGED <<live, used, phase, since, req, ans>>

Next ==
  \/ \E t \in Threads : Call(t) \/ SaveFails(t) \/ Save(t) \/ Load(t) \/ Destroy(t) \/ Return(t)
  \/ Collect
  \/ Tick

Spec == Init /\ [][Next]_vars

=============================================================================
