---------------------------- MODULE SessionStore ----------------------------
(***************************************************************************)
(* store.MemoryStore (store/store.go): the sessions of reversible          *)
(* redaction, shared by the goroutines that serve HTTP and gRPC requests.  *)
(*                                                                         *)
(* A critical section under the RWMutex is two steps: taking the lock, and *)
(* the work up to the release.  What the code does outside the lock        *)
(* (drawing the id, cloning, reading the clock for expiresAt, cloning the  *)
(* answer) is a step of its own.  A Go map is an object that holders can   *)
(* share: maps are kept in heap, named after whom they were made for (the  *)
(* goroutine that built or got it, or the session that Save cloned it      *)
(* for), and everything else holds references to it.                       *)
(***************************************************************************)
EXTENDS Naturals

CONSTANTS
  Threads,   \* the goroutines that serve requests
  Ids,       \* session ids; newSessionID never draws one twice (128 random bits)
  Contents,  \* the mappings a session can hold
  TTLs,      \* the lifetimes asked for; 0 stands for every ttl that is not positive
  MaxTime,   \* bound on the clock
  Nothing    \* no reference, no request, no answer

ASSUME SessionStoreAssumption ==
  /\ TTLs \subseteq Nat
  /\ Contents # {}
  /\ MaxTime \in Nat
  /\ Threads \cap Ids = {}
  /\ Nothing \notin Threads \cup Ids

VARIABLES
  clock,     \* the time
  mu,        \* the RWMutex: the goroutines that hold it to read, and to write
  sessions,  \* the map from id to entry
  heap,      \* the contents of the map objects
  held,      \* per goroutine: the map object its handler holds
  pc,        \* per goroutine: where it is
  req,       \* per goroutine: the call it is in
  ans,       \* per goroutine: the answer it returns
  entry,     \* per goroutine: the local variables id and entry
  since,     \* history, per goroutine: when it called
  saved,     \* history: per id ever drawn, what Save was given and promised
  gone       \* history: the ids somebody was told are over, and why

vars == <<clock, mu, sessions, heap, held, pc, req, ans, entry, since, saved, gone>>

Refs  == Threads \cup Ids
Entry == [ref : Refs, expiresAt : Nat]

Requests ==
  [op : {"save"}, content : Contents, ttl : TTLs]
  \cup [op : {"load", "destroy"}, id : Ids]

Answers ==
  [kind : {"saved"}, id : Ids]
  \cup [kind : {"failed", "loaded", "notFound", "expired", "destroyed"}]

(* The function f extended (or overwritten) at x.                          *)
With(f, x, v) == [y \in DOMAIN f \cup {x} |-> IF y = x THEN v ELSE f[y]]

Goto(t, label) == pc' = [pc EXCEPT ![t] = label]

Init ==
  /\ clock = 0
  /\ mu = [readers |-> {}, writers |-> {}]
  /\ sessions = <<>>
  /\ heap = [r \in Refs |-> CHOOSE c \in Contents : TRUE]
  /\ held = [t \in Threads |-> Nothing]
  /\ pc = [t \in Threads |-> "idle"]
  /\ req = [t \in Threads |-> Nothing]
  /\ ans = [t \in Threads |-> Nothing]
  /\ entry = [t \in Threads |-> Nothing]
  /\ since = [t \in Threads |-> 0]
  /\ saved = <<>>
  /\ gone = {}

-----------------------------------------------------------------------------
(* sync.RWMutex: one writer or any number of readers.                      *)
RLock(t) ==
  /\ mu.writers = {}
  /\ mu' = [mu EXCEPT !.readers = @ \cup {t}]

RUnlock(t) == mu' = [mu EXCEPT !.readers = @ \ {t}]

Lock(t) ==
  /\ mu.writers = {} /\ mu.readers = {}
  /\ mu' = [mu EXCEPT !.writers = {t}]

Unlock(t) == mu' = [mu EXCEPT !.writers = @ \ {t}]

(* The handler is done with the call and returns.                          *)
Finish(t, answer) ==
  /\ ans' = [ans EXCEPT ![t] = answer]
  /\ Goto(t, "done")

(* Mutated form of CloneMapping: the map itself instead of a copy.         *)
MutShareMapping(from, to) == [ref |-> from, heap |-> heap]

(* cloneMapping: a new object for owner `to' with the contents of `from'.  *)
CloneMapping(from, to) == [ref |-> to, heap |-> [heap EXCEPT ![to] = heap[from]]]

ExpiresAt(ttl) == clock + ttl

(* Mutated form of Expired: still alive at the very end of its life.       *)
MutExpiredAfter(e) == clock > e.expiresAt

(* Mutated form of Expired: gone one instant early.                        *)
MutExpiredEarly(e) == clock + 1 >= e.expiresAt

(* !now.Before(e.expiresAt)                                                *)
Expired(e) == clock >= e.expiresAt

(* Mutated form of Remove: the entry stays in the map.                     *)
MutRemoveNothing(id) == sessions' = sessions

Remove(id) == sessions' = [i \in DOMAIN sessions \ {id} |-> sessions[i]]

-----------------------------------------------------------------------------
(* A handler that saves has built the mapping it passes (its own object);  *)
(* one that loads or destroys has none any more.                           *)
Call(t) ==
  /\ pc[t] = "idle"
  /\ \E r \in Requests :
       /\ req' = [req EXCEPT ![t] = r]
       /\ Goto(t, r.op)
       /\ IF r.op = "save"
          THEN /\ held' = [held EXCEPT ![t] = t]
               /\ heap' = [heap EXCEPT ![t] = r.content]
          ELSE /\ held' = [held EXCEPT ![t] = Nothing]
               /\ UNCHANGED heap
  /\ since' = [since EXCEPT ![t] = clock]
  /\ UNCHANGED <<clock, mu, sessions, ans, entry, saved, gone>>

(* ttl <= 0, or no randomness for an id.                                   *)
SaveFails(t) ==
  /\ pc[t] = "save"
  /\ Finish(t, [kind |-> "failed"])
  /\ UNCHANGED <<clock, mu, sessions, heap, held, req, entry, since, saved, gone>>

SavePrepare(t) ==
  /\ pc[t] = "save"
  /\ req[t].ttl > 0
  /\ \E id \in Ids \ DOMAIN saved :
       LET copy == CloneMapping(held[t], id)
           at   == ExpiresAt(req[t].ttl)
       IN  /\ heap' = copy.heap
           /\ entry' = [entry EXCEPT ![t] = [id |-> id, ref |-> copy.ref, expiresAt |-> at]]
           /\ saved' = With(saved, id, [content |-> req[t].content, expiresAt |-> at])
  /\ Goto(t, "saving")
  /\ UNCHANGED <<clock, mu, sessions, held, req, ans, since, gone>>

(* Mutated form of SaveLock: the map is written without the lock.          *)
MutSaveUnlocked(t) ==
  /\ pc[t] = "saving"
  /\ Goto(t, "commit")
  /\ UNCHANGED <<clock, mu, sessions, heap, held, req, ans, entry, since, saved, gone>>

SaveLock(t) ==
  /\ pc[t] = "saving"
  /\ Lock(t)
  /\ Goto(t, "commit")
  /\ UNCHANGED <<clock, sessions, heap, held, req, ans, entry, since, saved, gone>>

SaveCommit(t) ==
  /\ pc[t] = "commit"
  /\ sessions' = With(sessions, entry[t].id,
                      [ref |-> entry[t].ref, expiresAt |-> entry[t].expiresAt])
  /\ Unlock(t)
  /\ Finish(t, [kind |-> "saved", id |-> entry[t].id])
  /\ UNCHANGED <<clock, heap, held, req, entry, since, saved, gone>>

-----------------------------------------------------------------------------
LoadLock(t) ==
  /\ pc[t] = "load"
  /\ RLock(t)
  /\ Goto(t, "read")
  /\ UNCHANGED <<clock, sessions, heap, held, req, ans, entry, since, saved, gone>>

LoadMissing(t) ==
  /\ pc[t] = "read"
  /\ req[t].id \notin DOMAIN sessions
  /\ RUnlock(t)
  /\ Finish(t, [kind |-> "notFound"])
  /\ UNCHANGED <<clock, sessions, heap, held, req, entry, since, saved, gone>>

(* The entry is copied into the goroutine's own variable.                  *)
Take(t) ==
  /\ pc[t] = "read"
  /\ req[t].id \in DOMAIN sessions
  /\ entry' = [entry EXCEPT ![t] = [id        |-> req[t].id,
                                    ref       |-> sessions[req[t].id].ref,
                                    expiresAt |-> sessions[req[t].id].expiresAt]]
  /\ UNCHANGED <<clock, sessions, heap, held, req, ans, since, saved, gone>>

LoadExpired(t) ==
  /\ Take(t)
  /\ Expired(sessions[req[t].id])
  /\ RUnlock(t)
  /\ Goto(t, "expired")

LoadAlive(t) ==
  /\ Take(t)
  /\ ~Expired(sessions[req[t].id])
  /\ RUnlock(t)
  /\ Goto(t, "clone")

(* The answer is cloned after the lock is released.                        *)
LoadClone(t) ==
  /\ pc[t] = "clone"
  /\ LET copy == CloneMapping(entry[t].ref, t)
     IN  /\ heap' = copy.heap
         /\ held' = [held EXCEPT ![t] = copy.ref]
  /\ Finish(t, [kind |-> "loaded"])
  /\ UNCHANGED <<clock, mu, sessions, req, entry, since, saved, gone>>

(* Mutated form of LoadRelock: an expired session makes Load start over.   *)
MutLoadRetries(t) ==
  /\ pc[t] = "expired"
  /\ Goto(t, "load")
  /\ UNCHANGED <<clock, mu, sessions, heap, held, req, ans, entry, since, saved, gone>>

LoadRelock(t) ==
  /\ pc[t] = "expired"
  /\ Lock(t)
  /\ Goto(t, "delete")
  /\ UNCHANGED <<clock, sessions, heap, held, req, ans, entry, since, saved, gone>>

(* The entry is looked at once more before it is deleted.                  *)
LoadDelete(t) ==
  /\ pc[t] = "delete"
  /\ LET id == req[t].id
     IN  /\ IF id \in DOMAIN sessions /\ Expired(sessions[id])
            THEN Remove(id)
            ELSE UNCHANGED sessions
         /\ gone' = gone \cup {<<id, "expired">>}
  /\ Unlock(t)
  /\ Finish(t, [kind |-> "expired"])
  /\ UNCHANGED <<clock, heap, held, req, entry, since, saved>>

-----------------------------------------------------------------------------
DestroyLock(t) ==
  /\ pc[t] = "destroy"
  /\ Lock(t)
  /\ Goto(t, "destroying")
  /\ UNCHANGED <<clock, sessions, heap, held, req, ans, entry, since, saved, gone>>

DestroyMissing(t) ==
  /\ pc[t] = "destroying"
  /\ req[t].id \notin DOMAIN sessions
  /\ Unlock(t)
  /\ Finish(t, [kind |-> "notFound"])
  /\ UNCHANGED <<clock, sessions, heap, held, req, entry, since, saved, gone>>

DestroyFound(t) ==
  /\ pc[t] = "destroying"
  /\ req[t].id \in DOMAIN sessions
  /\ Remove(req[t].id)
  /\ gone' = gone \cup {<<req[t].id, "destroyed">>}
  /\ Unlock(t)
  /\ Finish(t, [kind |-> "destroyed"])
  /\ UNCHANGED <<clock, heap, held, req, entry, since, saved>>

-----------------------------------------------------------------------------
Return(t) ==
  /\ pc[t] = "done"
  /\ req' = [req EXCEPT ![t] = Nothing]
  /\ ans' = [ans EXCEPT ![t] = Nothing]
  /\ entry' = [entry EXCEPT ![t] = Nothing]
  /\ Goto(t, "idle")
  /\ UNCHANGED <<clock, mu, sessions, heap, held, since, saved, gone>>

(* Between calls a handler may write to the map it passed or got.          *)
Mutate(t) ==
  /\ pc[t] = "idle"
  /\ held[t] # Nothing
  /\ \E c \in Contents : heap' = [heap EXCEPT ![held[t]] = c]
  /\ UNCHANGED <<clock, mu, sessions, held, pc, req, ans, entry, since, saved, gone>>

Tick ==
  /\ clock < MaxTime
  /\ clock' = clock + 1
  /\ UNCHANGED <<mu, sessions, heap, held, pc, req, ans, entry, since, saved, gone>>

(* The steps that take the lock, and the others a call consists of.        *)
LockStep(t) == SaveLock(t) \/ LoadLock(t) \/ LoadRelock(t) \/ DestroyLock(t)

Step(t) ==
  \/ SaveFails(t) \/ SavePrepare(t) \/ SaveCommit(t)
  \/ LoadMissing(t) \/ LoadExpired(t) \/ LoadAlive(t) \/ LoadClone(t)
  \/ LoadDelete(t)
  \/ DestroyMissing(t) \/ DestroyFound(t)
  \/ Return(t)

Next ==
  \/ \E t \in Threads : Call(t) \/ LockStep(t) \/ Step(t) \/ Mutate(t)
  \/ Tick

Spec == Init /\ [][Next]_vars

(* A goroutine inside a call keeps running, and one that waits for the     *)
(* lock gets its turn: in sync.RWMutex a waiting writer keeps new readers  *)
(* out, and a writer that unlocks lets the waiting readers in first.       *)
(* Nobody has to call.                                                     *)
Fairness ==
  /\ \A t \in Threads : WF_vars(Step(t)) /\ SF_vars(LockStep(t))
  /\ WF_vars(Tick)

FairSpec == Spec /\ Fairness

-----------------------------------------------------------------------------
Labels == {"idle", "save", "saving", "commit", "load", "read", "clone", "expired", "delete",
           "destroy", "destroying", "done"}

(* Every variable has its type.                                            *)
TypeOK ==
  /\ clock \in Nat
  /\ mu \in [readers : SUBSET Threads, writers : SUBSET Threads]
  /\ DOMAIN sessions \subseteq Ids
  /\ \A id \in DOMAIN sessions : sessions[id] \in Entry
  /\ heap \in [Refs -> Contents]
  /\ held \in [Threads -> Refs \cup {Nothing}]
  /\ pc \in [Threads -> Labels]
  /\ req \in [Threads -> Requests \cup {Nothing}]
  /\ ans \in [Threads -> Answers \cup {Nothing}]
  /\ entry \in [Threads -> [id : Ids, ref : Refs, expiresAt : Nat] \cup {Nothing}]
  /\ since \in [Threads -> Nat]
  /\ DOMAIN saved \subseteq Ids
  /\ \A id \in DOMAIN saved : saved[id] \in [content : Contents, expiresAt : Nat]
  /\ gone \subseteq Ids \X {"expired", "destroyed"}

(* Nobody touches the map of sessions while somebody writes to it: the     *)
(* critical sections of Save, Load and Destroy exclude one another.        *)
Writing == {t \in Threads : pc[t] \in {"commit", "delete", "destroying"}}
Reading == {t \in Threads : pc[t] = "read"}

NoMapRace ==
  \A t \in Writing : Reading = {} /\ \A u \in Writing : u = t

(* No handler holds a map object that the store keeps or that another      *)
(* handler holds (Save and Load clone).                                    *)
NoSharing ==
  \A t \in Threads :
    held[t] # Nothing =>
      /\ \A id \in DOMAIN sessions : sessions[id].ref # held[t]
      /\ \A u \in Threads \ {t} : held[u] # held[t]

(* What Load gives for a session is what Save was given for it, whatever   *)
(* the callers do to their maps before, meanwhile and after, and even if   *)
(* the session goes while its map is being cloned.                         *)
LoadsWhatWasSaved ==
  \A t \in Threads :
    pc[t] = "done" /\ ans[t].kind = "loaded" =>
      /\ req[t].id \in DOMAIN saved
      /\ heap[held[t]] = saved[req[t].id].content

(* A session that somebody was told is over never comes back.              *)
GoneForGood == \A g \in gone : g[1] \notin DOMAIN sessions

(* A session once answered by Save is there until its time is up or it is  *)
(* destroyed; nothing else makes it go.                                    *)
KeptWhileAlive ==
  \A id \in DOMAIN saved :
    \/ id \in DOMAIN sessions
    \/ <<id, "destroyed">> \in gone
    \/ clock >= saved[id].expiresAt
    \/ \E t \in Threads : pc[t] \in {"saving", "commit"} /\ entry[t].id = id

-----------------------------------------------------------------------------
(* The store implements the atomic one: a call takes effect when its       *)
(* critical section ends, a load when it reads the entry; the deletion of  *)
(* an expired entry is the atomic store's collection.                      *)
Phase(t) ==
  CASE pc[t] \in {"save", "saving", "commit", "load", "read", "destroy", "destroying"} -> "busy"
    [] pc[t] \in {"clone", "expired", "delete", "done"} -> "done"
    [] pc[t] = "idle" -> "idle"

AbsAnswer(t) ==
  CASE pc[t] = "clone"                 -> [kind |-> "loaded", content |-> heap[entry[t].ref]]
    [] pc[t] \in {"expired", "delete"} -> [kind |-> "expired"]
    [] pc[t] = "done"                  -> IF ans[t].kind = "loaded"
                                          THEN [kind |-> "loaded", content |-> heap[held[t]]]
                                          ELSE ans[t]
    [] OTHER                           -> Nothing

Atomic == INSTANCE SessionStoreAbs WITH
  live  <- [id \in DOMAIN sessions |-> [content |-> heap[sessions[id].ref],
                                        until   |-> sessions[id].expiresAt]],
  used  <- {id \in DOMAIN saved : ~\E t \in Threads : /\ pc[t] \in {"saving", "commit"}
                                                      /\ entry[t].id = id},
  phase <- [t \in Threads |-> Phase(t)],
  ans   <- [t \in Threads |-> AbsAnswer(t)]

(* Every operation of MemoryStore happens at one instant of its call.      *)
ImplementsAtomicStore == Atomic!Spec

(* Every call returns: no goroutine is stuck on the lock.                  *)
EveryCallReturns == \A t \in Threads : pc[t] # "idle" ~> pc[t] = "idle"

=============================================================================
