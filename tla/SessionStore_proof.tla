------------------------- MODULE SessionStore_proof -------------------------
(***************************************************************************)
(* What module SessionStore promises, for every set of goroutines, ids and *)
(* contents.  The inductive invariant says who holds the lock, what a      *)
(* goroutine in the middle of a call has in its hands, and that every map  *)
(* object the store keeps is the one Save made for that id and has the     *)
(* contents Save was given.                                                *)
(***************************************************************************)
EXTENDS SessionStore, TLAPS

(* The lock is held exactly by the goroutines inside a critical section.   *)
LocksHeld == mu.readers = Reading /\ mu.writers = Writing

InSave    == {"save", "saving", "commit"}
InLoad    == {"load", "read", "clone", "expired", "delete"}
InDestroy == {"destroy", "destroying"}

(* A goroutine works on the call it is in.                                 *)
CallsKnown ==
  \A t \in Threads :
    /\ pc[t] \in InSave => /\ req[t] \in [op : {"save"}, content : Contents, ttl : TTLs]
                           /\ held[t] = t
    /\ pc[t] \in InLoad \cup InDestroy => req[t] \in [op : {"load", "destroy"}, id : Ids]
    /\ pc[t] = "save" => heap[t] = req[t].content
    /\ pc[t] = "done" => ans[t] \in Answers

(* A handler's map object is its own.                                      *)
OwnMaps == \A t \in Threads : held[t] \in {t, Nothing}

(* The store's map objects are those Save made, with the saved contents;   *)
(* the entry is the one Save prepared.                                     *)
StoredAsSaved ==
  /\ \A id \in DOMAIN saved : heap[id] = saved[id].content
  /\ \A id \in DOMAIN sessions : /\ id \in DOMAIN saved
                                 /\ sessions[id].ref = id
                                 /\ sessions[id].expiresAt = saved[id].expiresAt

(* An entry on its way into the store is in no other hands.                *)
Saving(t) == pc[t] \in {"saving", "commit"}

EntriesPending ==
  \A t \in Threads :
    Saving(t) =>
      /\ entry[t] \in [id : Ids, ref : Refs, expiresAt : Nat]
      /\ entry[t].id \in DOMAIN saved
      /\ entry[t].id \notin DOMAIN sessions
      /\ entry[t].ref = entry[t].id
      /\ entry[t].expiresAt = saved[entry[t].id].expiresAt
      /\ \A g \in gone : g[1] # entry[t].id
      /\ \A u \in Threads \ {t} : Saving(u) => entry[u].id # entry[t].id

(* An entry that Load took out is one that Save made.                      *)
EntriesTaken ==
  \A t \in Threads :
    pc[t] \in {"clone", "expired", "delete"} =>
      /\ entry[t] \in [id : Ids, ref : Refs, expiresAt : Nat]
      /\ req[t].id \in DOMAIN saved
      /\ entry[t].ref = req[t].id
      /\ pc[t] # "clone" => clock >= saved[req[t].id].expiresAt
      /\ \A u \in Threads : Saving(u) => entry[u].id # req[t].id

(* What was answered is what was saved.                                    *)
AnswersKept ==
  \A t \in Threads :
    pc[t] = "done" /\ ans[t].kind = "loaded" =>
      /\ req[t] \in [op : {"load", "destroy"}, id : Ids]
      /\ req[t].id \in DOMAIN saved
      /\ held[t] = t
      /\ heap[t] = saved[req[t].id].content

GoneOnce == \A g \in gone : g[1] \in DOMAIN saved /\ g[1] \notin DOMAIN sessions

IInv ==
  /\ TypeOK
  /\ LocksHeld
  /\ NoMapRace
  /\ CallsKnown
  /\ OwnMaps
  /\ StoredAsSaved
  /\ EntriesPending
  /\ EntriesTaken
  /\ AnswersKept
  /\ GoneOnce
  /\ KeptWhileAlive

-----------------------------------------------------------------------------
LEMMA InitIInv == Init => IInv
  <1> SUFFICES ASSUME Init PROVE IInv
    OBVIOUS
  <1> USE SessionStoreAssumption DEF Init
  <1>1. (CHOOSE c \in Contents : TRUE) \in Contents
    OBVIOUS
  <1>2. DOMAIN sessions = {} /\ DOMAIN saved = {}
    OBVIOUS
  <1>3. TypeOK
    BY <1>1, <1>2 DEF TypeOK, Labels
  <1>4. LocksHeld /\ NoMapRace
    BY DEF LocksHeld, NoMapRace, Reading, Writing
  <1>5. CallsKnown /\ OwnMaps
    BY DEF CallsKnown, OwnMaps, InSave, InLoad, InDestroy
  <1>6. StoredAsSaved /\ GoneOnce /\ KeptWhileAlive
    BY <1>2 DEF StoredAsSaved, GoneOnce, KeptWhileAlive
  <1>7. EntriesPending /\ EntriesTaken /\ AnswersKept
    BY DEF EntriesPending, EntriesTaken, AnswersKept, Saving
  <1> QED
    BY <1>3, <1>4, <1>5, <1>6, <1>7 DEF IInv

(* One lemma per step of the code, one step of the proof per part of the   *)
(* invariant that it can disturb.                                          *)
LEMMA CallIInv ==
  ASSUME IInv, NEW t \in Threads, Call(t)
  PROVE  IInv'
  <1> USE SessionStoreAssumption DEF IInv
  <1>1. PICK r \in Requests :
           /\ req' = [req EXCEPT ![t] = r]
           /\ pc' = [pc EXCEPT ![t] = r.op]
           /\ IF r.op = "save"
              THEN /\ held' = [held EXCEPT ![t] = t]
                   /\ heap' = [heap EXCEPT ![t] = r.content]
              ELSE held' = [held EXCEPT ![t] = Nothing] /\ heap' = heap
    BY DEF Call, Goto
  <1>2. /\ pc[t] = "idle" /\ since' = [since EXCEPT ![t] = clock]
        /\ UNCHANGED <<clock, mu, sessions, ans, entry, saved, gone>>
    BY DEF Call
  <1>3. /\ r.op \in {"save", "load", "destroy"}
        /\ r.op = "save" => r \in [op : {"save"}, content : Contents, ttl : TTLs]
        /\ r.op # "save" => r \in [op : {"load", "destroy"}, id : Ids]
    BY DEF Requests
  <1>4. /\ \A u \in Threads : pc'[u] = IF u = t THEN r.op ELSE pc[u]
        /\ \A u \in Threads : req'[u] = IF u = t THEN r ELSE req[u]
        /\ \A id \in Ids : heap'[id] = heap[id]
        /\ \A u \in Threads \ {t} : heap'[u] = heap[u] /\ held'[u] = held[u]
    BY <1>1, <1>2, <1>3 DEF TypeOK, Refs
  <1>5. TypeOK'
    BY <1>1, <1>2, <1>3, <1>4 DEF TypeOK, Refs, Entry, Requests, Answers, Labels
  <1>6. LocksHeld'
    BY <1>2, <1>3, <1>4 DEF LocksHeld, Reading, Writing
  <1>7. NoMapRace'
    BY <1>2, <1>3, <1>4 DEF NoMapRace, Reading, Writing
  <1>8. CallsKnown' /\ OwnMaps'
    BY <1>1, <1>2, <1>3, <1>4 DEF CallsKnown, InSave, InLoad, InDestroy, Requests, Answers, OwnMaps, TypeOK, Refs
  <1>9. StoredAsSaved' /\ GoneOnce'
    BY <1>1, <1>2, <1>3, <1>4 DEF StoredAsSaved, GoneOnce, TypeOK, Refs
  <1>10. EntriesPending'
    BY <1>2, <1>3, <1>4 DEF EntriesPending, Saving
  <1>11. EntriesTaken'
    BY <1>2, <1>3, <1>4 DEF EntriesTaken, Saving
  <1>12. AnswersKept'
    BY <1>2, <1>3, <1>4 DEF AnswersKept
  <1>13. KeptWhileAlive'
    BY <1>2, <1>3, <1>4 DEF KeptWhileAlive
  <1> QED
    BY <1>5, <1>6, <1>7, <1>8, <1>9, <1>10, <1>11, <1>12, <1>13

LEMMA SaveFailsIInv ==
  ASSUME IInv, NEW t \in Threads, SaveFails(t)
  PROVE  IInv'
  <1> USE SessionStoreAssumption DEF IInv
  <1>1. TypeOK'
    BY DEF SaveFails, Finish, Goto, TypeOK, Refs, Entry, Requests, Answers, Labels
  <1>2. LocksHeld' /\ NoMapRace'
    BY DEF SaveFails, Finish, Goto, LocksHeld, Reading, Writing, NoMapRace, TypeOK, Refs
  <1>3. CallsKnown' /\ OwnMaps'
    BY DEF SaveFails, Finish, Goto, CallsKnown, InSave, InLoad, InDestroy, Requests, Answers, OwnMaps, TypeOK, Refs
  <1>4. StoredAsSaved' /\ GoneOnce'
    BY DEF SaveFails, Finish, Goto, StoredAsSaved, GoneOnce, TypeOK, Refs
  <1>5. EntriesPending'
    BY DEF SaveFails, Finish, Goto, EntriesPending, Saving, GoneOnce, TypeOK, Refs
  <1>6. EntriesTaken'
    BY DEF SaveFails, Finish, Goto, EntriesTaken, Saving, TypeOK, Refs
  <1>7. AnswersKept' /\ KeptWhileAlive'
    BY DEF SaveFails, Finish, Goto, AnswersKept, KeptWhileAlive, TypeOK, Refs
  <1> QED
    BY <1>1, <1>2, <1>3, <1>4, <1>5, <1>6, <1>7

LEMMA SavePrepareIInv ==
  ASSUME IInv, NEW t \in Threads, SavePrepare(t)
  PROVE  IInv'
  <1> USE SessionStoreAssumption DEF IInv
  <1>1. PICK id \in Ids \ DOMAIN saved :
           /\ heap' = [heap EXCEPT ![id] = heap[held[t]]]
           /\ entry' = [entry EXCEPT ![t] =
                          [id |-> id, ref |-> id, expiresAt |-> clock + req[t].ttl]]
           /\ saved' = With(saved, id, [content   |-> req[t].content,
                                        expiresAt |-> clock + req[t].ttl])
    BY DEF SavePrepare, CloneMapping, ExpiresAt
  <1>2. /\ pc[t] = "save" /\ pc' = [pc EXCEPT ![t] = "saving"]
        /\ UNCHANGED <<clock, mu, sessions, held, req, ans, since, gone>>
    BY DEF SavePrepare, Goto
  <1>3. /\ held[t] = t /\ heap[t] = req[t].content
        /\ req[t].content \in Contents /\ req[t].ttl \in Nat
    BY <1>2 DEF CallsKnown, InSave
  <1>4. /\ DOMAIN saved' = DOMAIN saved \cup {id}
        /\ saved'[id] = [content |-> req[t].content, expiresAt |-> clock + req[t].ttl]
        /\ \A i \in DOMAIN saved : saved'[i] = saved[i]
    BY <1>1 DEF With
  <1>5. /\ heap' \in [Refs -> Contents] /\ heap'[id] = req[t].content
        /\ \A r \in Refs \ {id} : heap'[r] = heap[r]
    BY <1>1, <1>3 DEF TypeOK, Refs
  <1>6. /\ entry'[t] = [id |-> id, ref |-> id, expiresAt |-> clock + req[t].ttl]
        /\ \A u \in Threads \ {t} : entry'[u] = entry[u]
        /\ clock + req[t].ttl \in Nat
    BY <1>1, <1>3 DEF TypeOK
  <1>7. \A u \in Threads : pc'[u] = IF u = t THEN "saving" ELSE pc[u]
    BY <1>2 DEF TypeOK
  <1>8. TypeOK'
    <2>1. \A i \in DOMAIN saved' : saved'[i] \in [content : Contents, expiresAt : Nat]
      BY <1>3, <1>4, <1>6 DEF TypeOK
    <2>2. entry' \in [Threads -> [id : Ids, ref : Refs, expiresAt : Nat] \cup {Nothing}]
      BY <1>1, <1>6 DEF TypeOK, Refs
    <2> QED
      BY <2>1, <2>2, <1>2, <1>4, <1>5 DEF TypeOK, Labels
  <1>9. LocksHeld' /\ NoMapRace'
    BY <1>1, <1>2, <1>3, <1>4, <1>5, <1>6, <1>7 DEF LocksHeld, Reading, Writing, NoMapRace, TypeOK, Refs
  <1>10. CallsKnown'
    BY <1>2, <1>5, <1>7 DEF CallsKnown, InSave, InLoad, InDestroy, Refs
  <1>11. OwnMaps'
    BY <1>1, <1>2, <1>3, <1>4, <1>5, <1>6, <1>7 DEF OwnMaps, TypeOK, Refs
  <1>12. StoredAsSaved'
    BY <1>2, <1>4, <1>5 DEF StoredAsSaved, TypeOK, Refs
  <1>13. GoneOnce'
    BY <1>2, <1>4 DEF GoneOnce
  <1>14. EntriesPending'
    <2> SUFFICES ASSUME NEW u \in Threads, Saving(u)'
                 PROVE  /\ entry'[u] \in [id : Ids, ref : Refs, expiresAt : Nat]
                        /\ entry'[u].id \in DOMAIN saved'
                        /\ entry'[u].id \notin DOMAIN sessions
                        /\ entry'[u].ref = entry'[u].id
                        /\ entry'[u].expiresAt = saved'[entry'[u].id].expiresAt
                        /\ \A g \in gone : g[1] # entry'[u].id
                        /\ \A v \in Threads \ {u} : Saving(v)' => entry'[v].id # entry'[u].id
      BY <1>2 DEF EntriesPending
    <2>1. \A v \in Threads \ {t} : Saving(v)' => /\ Saving(v)
                                                 /\ entry'[v].id \in DOMAIN saved
                                                 /\ entry'[v].id # id
      BY <1>6, <1>7 DEF Saving, EntriesPending
    <2>2. CASE u = t
      <3>1. id \notin DOMAIN sessions /\ \A g \in gone : g[1] # id
        BY DEF StoredAsSaved, GoneOnce
      <3> QED
        BY <2>1, <2>2, <3>1, <1>4, <1>6 DEF Refs
    <2>3. CASE u # t
      BY <2>1, <2>3, <1>4, <1>6 DEF EntriesPending
    <2> QED
      BY <2>2, <2>3
  <1>15. EntriesTaken'
    BY <1>2, <1>4, <1>6, <1>7 DEF EntriesTaken, Saving
  <1>16. AnswersKept'
    BY <1>2, <1>4, <1>5, <1>7 DEF AnswersKept, TypeOK, Refs
  <1>17. KeptWhileAlive'
    <2> SUFFICES ASSUME NEW i \in DOMAIN saved'
                 PROVE  \/ i \in DOMAIN sessions
                        \/ <<i, "destroyed">> \in gone
                        \/ clock >= saved'[i].expiresAt
                        \/ \E u \in Threads : /\ pc'[u] \in {"saving", "commit"}
                                              /\ entry'[u].id = i
      BY <1>2 DEF KeptWhileAlive
    <2>1. CASE i = id
      BY <2>1, <1>6, <1>7
    <2>2. CASE i \in DOMAIN saved
      BY <2>2, <1>2, <1>4, <1>6, <1>7 DEF KeptWhileAlive
    <2> QED
      BY <2>1, <2>2, <1>4
  <1> QED
    BY <1>8, <1>9, <1>10, <1>11, <1>12, <1>13, <1>14, <1>15, <1>16, <1>17

LEMMA SaveLockIInv ==
  ASSUME IInv, NEW t \in Threads, SaveLock(t)
  PROVE  IInv'
  <1> USE SessionStoreAssumption DEF IInv
  <1>1. TypeOK'
    BY DEF SaveLock, Lock, Goto, TypeOK, Refs, Entry, Requests, Answers, Labels
  <1>2. LocksHeld' /\ NoMapRace'
    BY DEF SaveLock, Lock, Goto, LocksHeld, Reading, Writing, NoMapRace, TypeOK, Refs
  <1>3. CallsKnown' /\ OwnMaps'
    BY DEF SaveLock, Lock, Goto, CallsKnown, InSave, InLoad, InDestroy, Requests, Answers, OwnMaps, TypeOK, Refs
  <1>4. StoredAsSaved' /\ GoneOnce'
    BY DEF SaveLock, Lock, Goto, StoredAsSaved, GoneOnce, TypeOK, Refs
  <1>5. EntriesPending'
    BY DEF SaveLock, Lock, Goto, EntriesPending, Saving, GoneOnce, TypeOK, Refs
  <1>6. EntriesTaken'
    BY DEF SaveLock, Lock, Goto, EntriesTaken, Saving, TypeOK, Refs
  <1>7. AnswersKept' /\ KeptWhileAlive'
    BY DEF SaveLock, Lock, Goto, AnswersKept, KeptWhileAlive, TypeOK, Refs
  <1> QED
    BY <1>1, <1>2, <1>3, <1>4, <1>5, <1>6, <1>7

LEMMA SaveCommitIInv ==
  ASSUME IInv, NEW t \in Threads, SaveCommit(t)
  PROVE  IInv'
  <1> USE SessionStoreAssumption DEF IInv
  <1>1. /\ pc[t] = "commit"
        /\ sessions' = With(sessions, entry[t].id,
                            [ref |-> entry[t].ref, expiresAt |-> entry[t].expiresAt])
        /\ mu' = [mu EXCEPT !.writers = @ \ {t}]
        /\ ans' = [ans EXCEPT ![t] = [kind |-> "saved", id |-> entry[t].id]]
        /\ pc' = [pc EXCEPT ![t] = "done"]
        /\ UNCHANGED <<clock, heap, held, req, entry, since, saved, gone>>
    BY DEF SaveCommit, Unlock, Finish, Goto
  <1>2. /\ entry[t] \in [id : Ids, ref : Refs, expiresAt : Nat]
        /\ entry[t].id \in DOMAIN saved /\ entry[t].id \in Ids
        /\ entry[t].ref = entry[t].id
        /\ entry[t].expiresAt = saved[entry[t].id].expiresAt
        /\ \A g \in gone : g[1] # entry[t].id
        /\ \A u \in Threads \ {t} : Saving(u) => entry[u].id # entry[t].id
    BY <1>1 DEF EntriesPending, Saving
  <1>3. /\ DOMAIN sessions' = DOMAIN sessions \cup {entry[t].id}
        /\ sessions'[entry[t].id] = [ref |-> entry[t].ref, expiresAt |-> entry[t].expiresAt]
        /\ \A i \in DOMAIN sessions \ {entry[t].id} : sessions'[i] = sessions[i]
    BY <1>1 DEF With
  <1>4. /\ \A u \in Threads : pc'[u] = IF u = t THEN "done" ELSE pc[u]
        /\ ans'[t] = [kind |-> "saved", id |-> entry[t].id]
        /\ \A u \in Threads \ {t} : ans'[u] = ans[u]
    BY <1>1 DEF TypeOK
  <1>5. TypeOK'
    <2>1. \A i \in DOMAIN sessions' : sessions'[i] \in Entry
      BY <1>2, <1>3 DEF TypeOK, Entry
    <2>2. ans' \in [Threads -> Answers \cup {Nothing}]
      BY <1>1, <1>2 DEF TypeOK, Answers
    <2> QED
      BY <2>1, <2>2, <1>1, <1>2, <1>3 DEF TypeOK, Labels
  <1>6. LocksHeld'
    BY <1>1, <1>4 DEF LocksHeld, Reading, Writing, TypeOK
  <1>7. NoMapRace'
    BY <1>4 DEF NoMapRace, Reading, Writing
  <1>8. CallsKnown'
    <2>1. ans'[t] \in Answers
      BY <1>2, <1>4 DEF Answers
    <2> QED
      BY <2>1, <1>1, <1>4 DEF CallsKnown, InSave, InLoad, InDestroy
  <1>9. OwnMaps'
    BY <1>1, <1>2, <1>3, <1>4 DEF OwnMaps, TypeOK, Refs
  <1>10. StoredAsSaved'
    BY <1>1, <1>2, <1>3 DEF StoredAsSaved
  <1>11. GoneOnce'
    BY <1>1, <1>2, <1>3 DEF GoneOnce
  <1>12. EntriesPending'
    BY <1>1, <1>2, <1>3, <1>4 DEF EntriesPending, Saving
  <1>13. EntriesTaken'
    BY <1>1, <1>4 DEF EntriesTaken, Saving
  <1>14. AnswersKept'
    BY <1>1, <1>4 DEF AnswersKept
  <1>15. KeptWhileAlive'
    <2> SUFFICES ASSUME NEW i \in DOMAIN saved
                 PROVE  \/ i \in DOMAIN sessions'
                        \/ <<i, "destroyed">> \in gone
                        \/ clock >= saved[i].expiresAt
                        \/ \E u \in Threads : /\ pc'[u] \in {"saving", "commit"}
                                              /\ entry[u].id = i
      BY <1>1 DEF KeptWhileAlive
    <2>1. CASE \E u \in Threads : pc[u] \in {"saving", "commit"} /\ entry[u].id = i
      <3>1. PICK u \in Threads : pc[u] \in {"saving", "commit"} /\ entry[u].id = i
        BY <2>1
      <3>2. CASE u = t
        BY <3>1, <3>2, <1>3
      <3>3. CASE u # t
        BY <3>1, <3>3, <1>4
      <3> QED
        BY <3>2, <3>3
    <2>2. CASE ~\E u \in Threads : pc[u] \in {"saving", "commit"} /\ entry[u].id = i
      BY <2>2, <1>3 DEF KeptWhileAlive
    <2> QED
      BY <2>1, <2>2
  <1> QED
    BY <1>5, <1>6, <1>7, <1>8, <1>9, <1>10, <1>11, <1>12, <1>13, <1>14, <1>15

LEMMA LoadLockIInv ==
  ASSUME IInv, NEW t \in Threads, LoadLock(t)
  PROVE  IInv'
  <1> USE SessionStoreAssumption DEF IInv
  <1>1. TypeOK'
    BY DEF LoadLock, RLock, Goto, TypeOK, Refs, Entry, Requests, Answers, Labels
  <1>2. LocksHeld' /\ NoMapRace'
    BY DEF LoadLock, RLock, Goto, LocksHeld, Reading, Writing, NoMapRace, TypeOK, Refs
  <1>3. CallsKnown' /\ OwnMaps'
    BY DEF LoadLock, RLock, Goto, CallsKnown, InSave, InLoad, InDestroy, Requests, Answers, OwnMaps, TypeOK, Refs
  <1>4. StoredAsSaved' /\ GoneOnce'
    BY DEF LoadLock, RLock, Goto, StoredAsSaved, GoneOnce, TypeOK, Refs
  <1>5. EntriesPending'
    BY DEF LoadLock, RLock, Goto, EntriesPending, Saving, GoneOnce, TypeOK, Refs
  <1>6. EntriesTaken'
    BY DEF LoadLock, RLock, Goto, EntriesTaken, Saving, TypeOK, Refs
  <1>7. AnswersKept' /\ KeptWhileAlive'
    BY DEF LoadLock, RLock, Goto, AnswersKept, KeptWhileAlive, TypeOK, Refs
  <1> QED
    BY <1>1, <1>2, <1>3, <1>4, <1>5, <1>6, <1>7

LEMMA LoadMissingIInv ==
  ASSUME IInv, NEW t \in Threads, LoadMissing(t)
  PROVE  IInv'
  <1> USE SessionStoreAssumption DEF IInv
  <1>1. TypeOK'
    BY DEF LoadMissing, RUnlock, Finish, Goto, TypeOK, Refs, Entry, Requests, Answers, Labels
  <1>2. LocksHeld' /\ NoMapRace'
    BY DEF LoadMissing, RUnlock, Finish, Goto, LocksHeld, Reading, Writing, NoMapRace, TypeOK, Refs
  <1>3. CallsKnown' /\ OwnMaps'
    BY DEF LoadMissing, RUnlock, Finish, Goto, CallsKnown, InSave, InLoad, InDestroy, Requests, Answers, OwnMaps, TypeOK, Refs
  <1>4. StoredAsSaved' /\ GoneOnce'
    BY DEF LoadMissing, RUnlock, Finish, Goto, StoredAsSaved, GoneOnce, TypeOK, Refs
  <1>5. EntriesPending'
    BY DEF LoadMissing, RUnlock, Finish, Goto, EntriesPending, Saving, GoneOnce, TypeOK, Refs
  <1>6. EntriesTaken'
    BY DEF LoadMissing, RUnlock, Finish, Goto, EntriesTaken, Saving, TypeOK, Refs
  <1>7. AnswersKept' /\ KeptWhileAlive'
    BY DEF LoadMissing, RUnlock, Finish, Goto, AnswersKept, KeptWhileAlive, TypeOK, Refs
  <1> QED
    BY <1>1, <1>2, <1>3, <1>4, <1>5, <1>6, <1>7

LEMMA LoadExpiredIInv ==
  ASSUME IInv, NEW t \in Threads, LoadExpired(t)
  PROVE  IInv'
  <1> USE SessionStoreAssumption DEF IInv
  <1>1. /\ pc[t] = "read" /\ pc' = [pc EXCEPT ![t] = "expired"]
        /\ req[t].id \in DOMAIN sessions
        /\ entry' = [entry EXCEPT ![t] = [id        |-> req[t].id,
                                         ref       |-> sessions[req[t].id].ref,
                                         expiresAt |-> sessions[req[t].id].expiresAt]]
        /\ mu' = [mu EXCEPT !.readers = @ \ {t}]
        /\ UNCHANGED <<clock, sessions, heap, held, req, ans, since, saved, gone>>
    BY DEF LoadExpired, Take, RUnlock, Goto
  <1>2. /\ req[t].id \in Ids /\ req[t].id \in DOMAIN saved
        /\ sessions[req[t].id].ref = req[t].id
        /\ sessions[req[t].id].expiresAt = saved[req[t].id].expiresAt
        /\ sessions[req[t].id].expiresAt \in Nat
    BY <1>1 DEF CallsKnown, InLoad, StoredAsSaved, TypeOK, Entry
  <1>3. clock >= saved[req[t].id].expiresAt
    BY <1>2 DEF LoadExpired, Expired
  <1>4. TypeOK'
    BY <1>1, <1>2, <1>3 DEF TypeOK, Refs, Entry, Requests, Answers, Labels
  <1>5. LocksHeld' /\ NoMapRace'
    BY <1>1, <1>2, <1>3 DEF LocksHeld, Reading, Writing, NoMapRace, TypeOK, Refs
  <1>6. CallsKnown' /\ OwnMaps'
    BY <1>1, <1>2, <1>3 DEF CallsKnown, InSave, InLoad, InDestroy, Requests, Answers, OwnMaps, TypeOK, Refs
  <1>7. StoredAsSaved' /\ GoneOnce'
    BY <1>1, <1>2, <1>3 DEF StoredAsSaved, GoneOnce, TypeOK, Refs
  <1>8. EntriesPending'
    BY <1>1, <1>2, <1>3 DEF EntriesPending, Saving, GoneOnce, TypeOK, Refs
  <1>9. EntriesTaken'
    BY <1>1, <1>2, <1>3 DEF EntriesTaken, EntriesPending, Saving, TypeOK, Refs
  <1>10. AnswersKept' /\ KeptWhileAlive'
    BY <1>1, <1>2, <1>3 DEF AnswersKept, KeptWhileAlive, TypeOK, Refs
  <1> QED
    BY <1>4, <1>5, <1>6, <1>7, <1>8, <1>9, <1>10

LEMMA LoadAliveIInv ==
  ASSUME IInv, NEW t \in Threads, LoadAlive(t)
  PROVE  IInv'
  <1> USE SessionStoreAssumption DEF IInv
  <1>1. /\ pc[t] = "read" /\ pc' = [pc EXCEPT ![t] = "clone"]
        /\ req[t].id \in DOMAIN sessions
        /\ entry' = [entry EXCEPT ![t] = [id        |-> req[t].id,
                                         ref       |-> sessions[req[t].id].ref,
                                         expiresAt |-> sessions[req[t].id].expiresAt]]
        /\ mu' = [mu EXCEPT !.readers = @ \ {t}]
        /\ UNCHANGED <<clock, sessions, heap, held, req, ans, since, saved, gone>>
    BY DEF LoadAlive, Take, RUnlock, Goto
  <1>2. /\ req[t].id \in Ids /\ req[t].id \in DOMAIN saved
        /\ sessions[req[t].id].ref = req[t].id
        /\ sessions[req[t].id].expiresAt = saved[req[t].id].expiresAt
        /\ sessions[req[t].id].expiresAt \in Nat
    BY <1>1 DEF CallsKnown, InLoad, StoredAsSaved, TypeOK, Entry
  <1>3. TypeOK'
    BY <1>1, <1>2 DEF TypeOK, Refs, Entry, Requests, Answers, Labels
  <1>4. LocksHeld' /\ NoMapRace'
    BY <1>1, <1>2 DEF LocksHeld, Reading, Writing, NoMapRace, TypeOK, Refs
  <1>5. CallsKnown' /\ OwnMaps'
    BY <1>1, <1>2 DEF CallsKnown, InSave, InLoad, InDestroy, Requests, Answers, OwnMaps, TypeOK, Refs
  <1>6. StoredAsSaved' /\ GoneOnce'
    BY <1>1, <1>2 DEF StoredAsSaved, GoneOnce, TypeOK, Refs
  <1>7. EntriesPending'
    BY <1>1, <1>2 DEF EntriesPending, Saving, GoneOnce, TypeOK, Refs
  <1>8. EntriesTaken'
    BY <1>1, <1>2 DEF EntriesTaken, EntriesPending, Saving, TypeOK, Refs
  <1>9. AnswersKept' /\ KeptWhileAlive'
    BY <1>1, <1>2 DEF AnswersKept, KeptWhileAlive, TypeOK, Refs
  <1> QED
    BY <1>3, <1>4, <1>5, <1>6, <1>7, <1>8, <1>9

LEMMA LoadCloneIInv ==
  ASSUME IInv, NEW t \in Threads, LoadClone(t)
  PROVE  IInv'
  <1> USE SessionStoreAssumption DEF IInv
  <1>1. /\ pc[t] = "clone" /\ pc' = [pc EXCEPT ![t] = "done"]
        /\ heap' = [heap EXCEPT ![t] = heap[entry[t].ref]]
        /\ held' = [held EXCEPT ![t] = t]
        /\ ans' = [ans EXCEPT ![t] = [kind |-> "loaded"]]
        /\ UNCHANGED <<clock, mu, sessions, req, entry, since, saved, gone>>
    BY DEF LoadClone, CloneMapping, Finish, Goto
  <1>2. /\ entry[t].ref = req[t].id /\ req[t].id \in DOMAIN saved
        /\ req[t] \in [op : {"load", "destroy"}, id : Ids]
    BY <1>1 DEF EntriesTaken, CallsKnown, InLoad
  <1>3. heap[req[t].id] \in Contents /\ heap[req[t].id] = saved[req[t].id].content
    BY <1>2 DEF TypeOK, Refs, StoredAsSaved
  <1>4. [kind |-> "loaded"] \in Answers
    BY DEF Answers
  <1>5. TypeOK'
    <2>1. heap' \in [Refs -> Contents]
      BY <1>1, <1>2, <1>3 DEF TypeOK, Refs
    <2> QED
      BY <2>1, <1>1, <1>4 DEF TypeOK, Labels, Refs
  <1>6. LocksHeld' /\ NoMapRace'
    BY <1>1, <1>2, <1>3, <1>4 DEF LocksHeld, Reading, Writing, NoMapRace, TypeOK, Refs
  <1>7. CallsKnown' /\ OwnMaps'
    BY <1>1, <1>2, <1>3, <1>4 DEF CallsKnown, InSave, InLoad, InDestroy, Requests, Answers, OwnMaps, TypeOK, Refs
  <1>8. StoredAsSaved' /\ GoneOnce'
    BY <1>1, <1>2, <1>3, <1>4 DEF StoredAsSaved, GoneOnce, TypeOK, Refs
  <1>9. EntriesPending'
    BY <1>1, <1>2, <1>3, <1>4 DEF EntriesPending, Saving, GoneOnce, TypeOK, Refs
  <1>10. EntriesTaken'
    BY <1>1, <1>2, <1>3, <1>4 DEF EntriesTaken, Saving, TypeOK, Refs
  <1>11. AnswersKept'
    BY <1>1, <1>2, <1>3 DEF AnswersKept, TypeOK, Refs
  <1>12. KeptWhileAlive'
    BY <1>1, <1>2, <1>3, <1>4 DEF KeptWhileAlive, TypeOK, Refs
  <1> QED
    BY <1>5, <1>6, <1>7, <1>8, <1>9, <1>10, <1>11, <1>12

LEMMA LoadRelockIInv ==
  ASSUME IInv, NEW t \in Threads, LoadRelock(t)
  PROVE  IInv'
  <1> USE SessionStoreAssumption DEF IInv
  <1>1. TypeOK'
    BY DEF LoadRelock, Lock, Goto, TypeOK, Refs, Entry, Requests, Answers, Labels
  <1>2. LocksHeld' /\ NoMapRace'
    BY DEF LoadRelock, Lock, Goto, LocksHeld, Reading, Writing, NoMapRace, TypeOK, Refs
  <1>3. CallsKnown' /\ OwnMaps'
    BY DEF LoadRelock, Lock, Goto, CallsKnown, InSave, InLoad, InDestroy, Requests, Answers, OwnMaps, TypeOK, Refs
  <1>4. StoredAsSaved' /\ GoneOnce'
    BY DEF LoadRelock, Lock, Goto, StoredAsSaved, GoneOnce, TypeOK, Refs
  <1>5. EntriesPending'
    BY DEF LoadRelock, Lock, Goto, EntriesPending, Saving, GoneOnce, TypeOK, Refs
  <1>6. EntriesTaken'
    BY DEF LoadRelock, Lock, Goto, EntriesTaken, Saving, TypeOK, Refs
  <1>7. AnswersKept' /\ KeptWhileAlive'
    BY DEF LoadRelock, Lock, Goto, AnswersKept, KeptWhileAlive, TypeOK, Refs
  <1> QED
    BY <1>1, <1>2, <1>3, <1>4, <1>5, <1>6, <1>7

LEMMA LoadDeleteIInv ==
  ASSUME IInv, NEW t \in Threads, LoadDelete(t)
  PROVE  IInv'
  <1> USE SessionStoreAssumption DEF IInv
  <1>1. /\ pc[t] = "delete" /\ pc' = [pc EXCEPT ![t] = "done"]
        /\ gone' = gone \cup {<<req[t].id, "expired">>}
        /\ mu' = [mu EXCEPT !.writers = @ \ {t}]
        /\ ans' = [ans EXCEPT ![t] = [kind |-> "expired"]]
        /\ UNCHANGED <<clock, heap, held, req, entry, since, saved>>
    BY DEF LoadDelete, Unlock, Finish, Goto
  <1>2. /\ req[t].id \in Ids /\ req[t].id \in DOMAIN saved
        /\ clock >= saved[req[t].id].expiresAt
    BY <1>1 DEF CallsKnown, InLoad, EntriesTaken
  <1>3. /\ DOMAIN sessions' = DOMAIN sessions \ {req[t].id}
        /\ \A i \in DOMAIN sessions' : sessions'[i] = sessions[i]
    <2>1. req[t].id \in DOMAIN sessions => Expired(sessions[req[t].id])
      BY <1>2 DEF StoredAsSaved, Expired
    <2> QED
      BY <2>1 DEF LoadDelete, Remove
  <1>4. \A u \in Threads : pc'[u] = IF u = t THEN "done" ELSE pc[u]
    BY <1>1 DEF TypeOK
  <1>5. TypeOK'
    <2>1. gone' \subseteq Ids \X {"expired", "destroyed"}
      BY <1>1, <1>2 DEF TypeOK
    <2>2. [kind |-> "expired"] \in Answers
      BY DEF Answers
    <2> QED
      BY <2>1, <2>2, <1>1, <1>3 DEF TypeOK, Labels
  <1>6. LocksHeld' /\ NoMapRace'
    BY <1>1, <1>2, <1>3, <1>4 DEF LocksHeld, Reading, Writing, NoMapRace, TypeOK, Refs
  <1>7. CallsKnown' /\ OwnMaps'
    BY <1>1, <1>2, <1>3, <1>4 DEF CallsKnown, InSave, InLoad, InDestroy, Requests, Answers, OwnMaps, TypeOK, Refs
  <1>8. GoneOnce'
    BY <1>1, <1>2, <1>3 DEF GoneOnce
  <1>9. StoredAsSaved'
    BY <1>1, <1>2, <1>3, <1>4 DEF StoredAsSaved, TypeOK, Refs
  <1>10. EntriesPending'
    <2>1. ASSUME NEW u \in Threads, Saving(u)
          PROVE  entry[u].id # req[t].id
      BY <1>1, <2>1 DEF EntriesTaken
    <2> QED
      BY <2>1, <1>1, <1>3, <1>4 DEF EntriesPending, Saving
  <1>11. EntriesTaken'
    BY <1>1, <1>2, <1>3, <1>4 DEF EntriesTaken, Saving, TypeOK, Refs
  <1>12. KeptWhileAlive'
    <2> SUFFICES ASSUME NEW i \in DOMAIN saved
                 PROVE  \/ i \in DOMAIN sessions'
                        \/ <<i, "destroyed">> \in gone'
                        \/ clock >= saved[i].expiresAt
                        \/ \E u \in Threads : /\ pc'[u] \in {"saving", "commit"}
                                              /\ entry[u].id = i
      BY <1>1 DEF KeptWhileAlive
    <2>1. CASE \E u \in Threads : pc[u] \in {"saving", "commit"} /\ entry[u].id = i
      <3>1. PICK u \in Threads : pc[u] \in {"saving", "commit"} /\ entry[u].id = i
        BY <2>1
      <3>2. u # t
        BY <3>1, <1>1
      <3> QED
        BY <3>1, <3>2, <1>4
    <2>2. CASE ~\E u \in Threads : pc[u] \in {"saving", "commit"} /\ entry[u].id = i
      BY <2>2, <1>1, <1>2, <1>3 DEF KeptWhileAlive
    <2> QED
      BY <2>1, <2>2
  <1>13. AnswersKept'
    BY <1>1, <1>2, <1>3, <1>4 DEF AnswersKept, TypeOK, Refs
  <1> QED
    BY <1>5, <1>6, <1>7, <1>8, <1>9, <1>10, <1>11, <1>12, <1>13

LEMMA DestroyLockIInv ==
  ASSUME IInv, NEW t \in Threads, DestroyLock(t)
  PROVE  IInv'
  <1> USE SessionStoreAssumption DEF IInv
  <1>1. TypeOK'
    BY DEF DestroyLock, Lock, Goto, TypeOK, Refs, Entry, Requests, Answers, Labels
  <1>2. LocksHeld' /\ NoMapRace'
    BY DEF DestroyLock, Lock, Goto, LocksHeld, Reading, Writing, NoMapRace, TypeOK, Refs
  <1>3. CallsKnown' /\ OwnMaps'
    BY DEF DestroyLock, Lock, Goto, CallsKnown, InSave, InLoad, InDestroy, Requests, Answers, OwnMaps, TypeOK, Refs
  <1>4. StoredAsSaved' /\ GoneOnce'
    BY DEF DestroyLock, Lock, Goto, StoredAsSaved, GoneOnce, TypeOK, Refs
  <1>5. EntriesPending'
    BY DEF DestroyLock, Lock, Goto, EntriesPending, Saving, GoneOnce, TypeOK, Refs
  <1>6. EntriesTaken'
    BY DEF DestroyLock, Lock, Goto, EntriesTaken, Saving, TypeOK, Refs
  <1>7. AnswersKept' /\ KeptWhileAlive'
    BY DEF DestroyLock, Lock, Goto, AnswersKept, KeptWhileAlive, TypeOK, Refs
  <1> QED
    BY <1>1, <1>2, <1>3, <1>4, <1>5, <1>6, <1>7

LEMMA DestroyMissingIInv ==
  ASSUME IInv, NEW t \in Threads, DestroyMissing(t)
  PROVE  IInv'
  <1> USE SessionStoreAssumption DEF IInv
  <1>1. TypeOK'
    BY DEF DestroyMissing, Unlock, Finish, Goto, TypeOK, Refs, Entry, Requests, Answers, Labels
  <1>2. LocksHeld' /\ NoMapRace'
    BY DEF DestroyMissing, Unlock, Finish, Goto, LocksHeld, Reading, Writing, NoMapRace, TypeOK, Refs
  <1>3. CallsKnown' /\ OwnMaps'
    BY DEF DestroyMissing, Unlock, Finish, Goto, CallsKnown, InSave, InLoad, InDestroy, Requests, Answers, OwnMaps, TypeOK, Refs
  <1>4. StoredAsSaved' /\ GoneOnce'
    BY DEF DestroyMissing, Unlock, Finish, Goto, StoredAsSaved, GoneOnce, TypeOK, Refs
  <1>5. EntriesPending'
    BY DEF DestroyMissing, Unlock, Finish, Goto, EntriesPending, Saving, GoneOnce, TypeOK, Refs
  <1>6. EntriesTaken'
    BY DEF DestroyMissing, Unlock, Finish, Goto, EntriesTaken, Saving, TypeOK, Refs
  <1>7. AnswersKept' /\ KeptWhileAlive'
    BY DEF DestroyMissing, Unlock, Finish, Goto, AnswersKept, KeptWhileAlive, TypeOK, Refs
  <1> QED
    BY <1>1, <1>2, <1>3, <1>4, <1>5, <1>6, <1>7

LEMMA DestroyFoundIInv ==
  ASSUME IInv, NEW t \in Threads, DestroyFound(t)
  PROVE  IInv'
  <1> USE SessionStoreAssumption DEF IInv
  <1>1. /\ pc[t] = "destroying" /\ pc' = [pc EXCEPT ![t] = "done"]
        /\ gone' = gone \cup {<<req[t].id, "destroyed">>}
        /\ mu' = [mu EXCEPT !.writers = @ \ {t}]
        /\ ans' = [ans EXCEPT ![t] = [kind |-> "destroyed"]]
        /\ DOMAIN sessions' = DOMAIN sessions \ {req[t].id}
        /\ \A i \in DOMAIN sessions' : sessions'[i] = sessions[i]
        /\ UNCHANGED <<clock, heap, held, req, entry, since, saved>>
    BY DEF DestroyFound, Unlock, Finish, Goto, Remove
  <1>2. /\ req[t].id \in Ids /\ req[t].id \in DOMAIN saved
        /\ req[t].id \in DOMAIN sessions
    BY <1>1 DEF DestroyFound, CallsKnown, InDestroy, StoredAsSaved
  <1>3. [kind |-> "destroyed"] \in Answers
    BY DEF Answers
  <1>4. TypeOK'
    BY <1>1, <1>2, <1>3 DEF TypeOK, Refs, Entry, Requests, Answers, Labels
  <1>5. LocksHeld' /\ NoMapRace'
    BY <1>1, <1>2, <1>3 DEF LocksHeld, Reading, Writing, NoMapRace, TypeOK, Refs
  <1>6. CallsKnown' /\ OwnMaps'
    BY <1>1, <1>2, <1>3 DEF CallsKnown, InSave, InLoad, InDestroy, Requests, Answers, OwnMaps, TypeOK, Refs
  <1>7. StoredAsSaved' /\ GoneOnce'
    BY <1>1, <1>2, <1>3 DEF StoredAsSaved, GoneOnce, TypeOK, Refs
  <1>8. EntriesPending'
    BY <1>1, <1>2, <1>3 DEF EntriesPending, Saving, GoneOnce, TypeOK, Refs
  <1>9. EntriesTaken'
    BY <1>1, <1>2, <1>3 DEF EntriesTaken, Saving, TypeOK, Refs
  <1>10. AnswersKept' /\ KeptWhileAlive'
    BY <1>1, <1>2, <1>3 DEF AnswersKept, KeptWhileAlive, TypeOK, Refs
  <1> QED
    BY <1>4, <1>5, <1>6, <1>7, <1>8, <1>9, <1>10

LEMMA ReturnIInv ==
  ASSUME IInv, NEW t \in Threads, Return(t)
  PROVE  IInv'
  <1> USE SessionStoreAssumption DEF IInv
  <1>1. TypeOK'
    BY DEF Return, Goto, TypeOK, Refs, Entry, Requests, Answers, Labels
  <1>2. LocksHeld' /\ NoMapRace'
    BY DEF Return, Goto, LocksHeld, Reading, Writing, NoMapRace, TypeOK, Refs
  <1>3. CallsKnown' /\ OwnMaps'
    BY DEF Return, Goto, CallsKnown, InSave, InLoad, InDestroy, Requests, Answers, OwnMaps, TypeOK, Refs
  <1>4. StoredAsSaved' /\ GoneOnce'
    BY DEF Return, Goto, StoredAsSaved, GoneOnce, TypeOK, Refs
  <1>5. EntriesPending'
    BY DEF Return, Goto, EntriesPending, Saving, GoneOnce, TypeOK, Refs
  <1>6. EntriesTaken'
    BY DEF Return, Goto, EntriesTaken, Saving, TypeOK, Refs
  <1>7. AnswersKept' /\ KeptWhileAlive'
    BY DEF Return, Goto, AnswersKept, KeptWhileAlive, TypeOK, Refs
  <1> QED
    BY <1>1, <1>2, <1>3, <1>4, <1>5, <1>6, <1>7

LEMMA MutateIInv ==
  ASSUME IInv, NEW t \in Threads, Mutate(t)
  PROVE  IInv'
  <1> USE SessionStoreAssumption DEF IInv
  <1>1. PICK c \in Contents : heap' = [heap EXCEPT ![held[t]] = c]
    BY DEF Mutate
  <1>2. /\ pc[t] = "idle" /\ held[t] = t
        /\ UNCHANGED <<clock, mu, sessions, held, pc, req, ans, entry, since, saved, gone>>
    BY DEF Mutate, OwnMaps
  <1>3. /\ heap' \in [Refs -> Contents]
        /\ \A r \in Refs \ {t} : heap'[r] = heap[r]
    BY <1>1, <1>2 DEF TypeOK, Refs
  <1>4. TypeOK'
    BY <1>1, <1>2, <1>3 DEF TypeOK, Refs, Entry, Requests, Answers, Labels
  <1>5. LocksHeld' /\ NoMapRace'
    BY <1>1, <1>2, <1>3 DEF LocksHeld, Reading, Writing, NoMapRace, TypeOK, Refs
  <1>6. CallsKnown' /\ OwnMaps'
    BY <1>1, <1>2, <1>3 DEF CallsKnown, InSave, InLoad, InDestroy, Requests, Answers, OwnMaps, TypeOK, Refs
  <1>7. StoredAsSaved' /\ GoneOnce'
    BY <1>1, <1>2, <1>3 DEF StoredAsSaved, GoneOnce, TypeOK, Refs
  <1>8. EntriesPending'
    BY <1>1, <1>2, <1>3 DEF EntriesPending, Saving, GoneOnce, TypeOK, Refs
  <1>9. EntriesTaken'
    BY <1>1, <1>2, <1>3 DEF EntriesTaken, Saving, TypeOK, Refs
  <1>10. AnswersKept' /\ KeptWhileAlive'
    BY <1>1, <1>2, <1>3 DEF AnswersKept, KeptWhileAlive, TypeOK, Refs
  <1> QED
    BY <1>4, <1>5, <1>6, <1>7, <1>8, <1>9, <1>10

LEMMA TickIInv ==
  ASSUME IInv, Tick
  PROVE  IInv'
  <1> USE DEF IInv, Tick
  <1>1. TypeOK'
    BY DEF TypeOK
  <1>2. LocksHeld' /\ NoMapRace' /\ CallsKnown' /\ OwnMaps'
    BY DEF LocksHeld, NoMapRace, Reading, Writing, CallsKnown, OwnMaps
  <1>3. StoredAsSaved' /\ GoneOnce' /\ EntriesPending' /\ AnswersKept'
    BY DEF StoredAsSaved, GoneOnce, EntriesPending, Saving, AnswersKept
  <1>4. EntriesTaken'
    BY DEF EntriesTaken, Saving, TypeOK
  <1>5. KeptWhileAlive'
    <2>1. \A id \in DOMAIN saved : clock >= saved[id].expiresAt => clock' >= saved[id].expiresAt
      BY DEF TypeOK
    <2> QED
      BY <2>1 DEF KeptWhileAlive
  <1> QED
    BY <1>1, <1>2, <1>3, <1>4, <1>5

LEMMA NextIInv == IInv /\ [Next]_vars => IInv'
  <1> SUFFICES ASSUME IInv, [Next]_vars PROVE IInv'
    OBVIOUS
  <1>1. CASE \E t \in Threads : Call(t) \/ LockStep(t) \/ Step(t) \/ Mutate(t)
    <2> PICK t \in Threads : Call(t) \/ LockStep(t) \/ Step(t) \/ Mutate(t)
      BY <1>1
    <2>1. CASE Call(t) \/ Mutate(t)
      BY <2>1, CallIInv, MutateIInv
    <2>2. CASE LockStep(t)
      BY <2>2, SaveLockIInv, LoadLockIInv, LoadRelockIInv, DestroyLockIInv DEF LockStep
    <2>3. CASE Step(t)
      BY <2>3, SaveFailsIInv, SavePrepareIInv, SaveCommitIInv, LoadMissingIInv,
         LoadExpiredIInv, LoadAliveIInv, LoadCloneIInv, LoadDeleteIInv,
         DestroyMissingIInv, DestroyFoundIInv, ReturnIInv DEF Step
    <2> QED
      BY <2>1, <2>2, <2>3
  <1>2. CASE Tick
    BY <1>2, TickIInv
  <1>3. CASE UNCHANGED vars
    BY <1>3 DEF vars, IInv, TypeOK, LocksHeld, NoMapRace, Reading, Writing, CallsKnown,
       OwnMaps, StoredAsSaved, EntriesPending, Saving, EntriesTaken, AnswersKept, GoneOnce,
       KeptWhileAlive
  <1> QED
    BY <1>1, <1>2, <1>3 DEF Next

(* The inductive invariant holds in every reachable state.                 *)
THEOREM Invariant == Spec => []IInv
  BY InitIInv, NextIInv, PTL DEF Spec

(* Every variable keeps its type.                                          *)
THEOREM TypeCorrect == Spec => []TypeOK
  <1>1. IInv => TypeOK
    BY DEF IInv
  <1> QED
    BY <1>1, Invariant, PTL

(* The critical sections of Save, Load and Destroy exclude one another,    *)
(* whatever the number of goroutines.                                      *)
THEOREM RaceFree == Spec => []NoMapRace
  <1>1. IInv => NoMapRace
    BY DEF IInv
  <1> QED
    BY <1>1, Invariant, PTL

(* No handler ever holds a map object of the store or of another handler.  *)
THEOREM OwnershipCorrect == Spec => []NoSharing
  <1>1. IInv => NoSharing
    BY SessionStoreAssumption DEF IInv, NoSharing, OwnMaps, StoredAsSaved, TypeOK
  <1> QED
    BY <1>1, Invariant, PTL

(* A load that succeeds gives what was saved, whatever callers do to their *)
(* maps and whatever happens to the session meanwhile.                     *)
THEOREM LoadCorrect == Spec => []LoadsWhatWasSaved
  <1>1. IInv => LoadsWhatWasSaved
    BY DEF IInv, LoadsWhatWasSaved, AnswersKept
  <1> QED
    BY <1>1, Invariant, PTL

(* A session that somebody was told is over never comes back.              *)
THEOREM GoneCorrect == Spec => []GoneForGood
  <1>1. IInv => GoneForGood
    BY DEF IInv, GoneForGood, GoneOnce
  <1> QED
    BY <1>1, Invariant, PTL

(* A saved session stays until its time is up or it is destroyed.          *)
THEOREM KeepCorrect == Spec => []KeptWhileAlive
  <1>1. IInv => KeptWhileAlive
    BY DEF IInv
  <1> QED
    BY <1>1, Invariant, PTL

-----------------------------------------------------------------------------
(* MemoryStore is the atomic store (SessionStoreAbs), for every set of     *)
(* goroutines, ids, contents and lifetimes: each step of the locked code   *)
(* is one step of the atomic store, or none that it could tell.            *)
(*                                                                         *)
(* A save happens when it commits, a load when it reads the entry, a       *)
(* destroy when it removes it, and the deletion of an expired entry is a   *)
(* collection.  The handlers' maps, the copies and the lock are not seen.  *)

(* The state of the atomic store that a state of the code stands for.      *)
Live ==
  [id \in DOMAIN sessions |-> [content |-> heap[sessions[id].ref],
                               until   |-> sessions[id].expiresAt]]

Used == {id \in DOMAIN saved : ~\E t \in Threads : Saving(t) /\ entry[t].id = id}

Phases == [t \in Threads |-> Phase(t)]

Told == [t \in Threads |-> AbsAnswer(t)]

-----------------------------------------------------------------------------
(* What the mapping needs beyond IInv.  No goroutine called later than     *)
(* now, or is in another handler than the one it called; the entry on its  *)
(* way into the store is the one the call asked for, with the end of its   *)
(* life counted from an instant of the call; who is told that a session    *)
(* expired is on record.                                                   *)
CalledBefore == \A t \in Threads : since[t] <= clock

HandlerCalled ==
  \A t \in Threads :
    /\ pc[t] \in InLoad => req[t].op = "load"
    /\ pc[t] \in InDestroy => req[t].op = "destroy"

SavePromised ==
  \A t \in Threads :
    Saving(t) =>
      /\ req[t].ttl > 0
      /\ saved[entry[t].id].content = req[t].content
      /\ \E at \in since[t] .. clock : entry[t].expiresAt = at + req[t].ttl

ToldExpired ==
  \A t \in Threads :
    pc[t] = "done" /\ ans[t].kind = "expired" => <<req[t].id, "expired">> \in gone

RInv == CalledBefore /\ HandlerCalled /\ SavePromised /\ ToldExpired

LEMMA InitRInv == Init => RInv
  BY DEF Init, RInv, CalledBefore, HandlerCalled, InLoad, InDestroy, SavePromised, ToldExpired,
     Saving

(* A step of goroutine t leaves the other goroutines where they are.       *)
OthersWait(t) ==
  \A u \in Threads \ {t} :
    /\ pc'[u] = pc[u] /\ req'[u] = req[u] /\ ans'[u] = ans[u]
    /\ entry'[u] = entry[u] /\ held'[u] = held[u] /\ since'[u] = since[u]

(* It writes to its own map object, or to one the store never had.         *)
MapsKept(t) == \A r \in DOMAIN saved \cup (Threads \ {t}) : heap'[r] = heap[r]

Acts(t) == Call(t) \/ LockStep(t) \/ Step(t) \/ Mutate(t)

LEMMA ActsAlone ==
  ASSUME IInv, NEW t \in Threads, Acts(t)
  PROVE  /\ OthersWait(t)
         /\ MapsKept(t)
         /\ clock' = clock
         /\ \A id \in DOMAIN saved : id \in DOMAIN saved' /\ saved'[id] = saved[id]
         /\ gone \subseteq gone'
  <1> USE SessionStoreAssumption DEF IInv, TypeOK, OthersWait, MapsKept
  <1>1. CASE Call(t)
    BY <1>1 DEF Call, Goto, Refs
  <1>2. CASE LockStep(t)
    BY <1>2 DEF LockStep, SaveLock, LoadLock, LoadRelock, DestroyLock, Goto
  <1>3. CASE SaveFails(t) \/ SaveCommit(t)
    BY <1>3 DEF SaveFails, SaveCommit, Finish, Goto
  <1>4. CASE SavePrepare(t)
    BY <1>4 DEF SavePrepare, CloneMapping, With, Goto, Refs, CallsKnown, InSave
  <1>5. CASE LoadMissing(t) \/ LoadExpired(t) \/ LoadAlive(t) \/ LoadDelete(t)
    BY <1>5 DEF LoadMissing, LoadExpired, LoadAlive, LoadDelete, Take, Finish, Goto
  <1>6. CASE LoadClone(t)
    BY <1>6 DEF LoadClone, CloneMapping, Finish, Goto, Refs
  <1>7. CASE DestroyMissing(t) \/ DestroyFound(t) \/ Return(t)
    BY <1>7 DEF DestroyMissing, DestroyFound, Return, Finish, Goto
  <1>8. CASE Mutate(t)
    BY <1>8 DEF Mutate, OwnMaps, Refs
  <1> QED
    BY <1>1, <1>2, <1>3, <1>4, <1>5, <1>6, <1>7, <1>8 DEF Acts, Step

LEMMA ActsRInv ==
  ASSUME IInv, RInv, NEW t \in Threads, Acts(t)
  PROVE  RInv'
  <1>1. /\ OthersWait(t) /\ clock' = clock /\ gone \subseteq gone'
        /\ \A id \in DOMAIN saved : id \in DOMAIN saved' /\ saved'[id] = saved[id]
    BY ActsAlone
  <1>2. clock \in Nat /\ since \in [Threads -> Nat] /\ pc \in [Threads -> Labels]
    BY DEF IInv, TypeOK
  <1>3. CalledBefore'
    <2>1. since'[t] = since[t] \/ since'[t] = clock
      BY <1>2 DEF Acts, Call, LockStep, SaveLock, LoadLock, LoadRelock, DestroyLock,
         Step, SaveFails, SavePrepare, SaveCommit, LoadMissing, LoadExpired, LoadAlive,
         Take, LoadClone, LoadDelete, DestroyMissing, DestroyFound, Return, Mutate
    <2> QED
      BY <2>1, <1>1, <1>2 DEF CalledBefore, OthersWait, RInv
  <1>4. SavePromised'
    <2>1. ASSUME NEW u \in Threads \ {t}, Saving(u)'
          PROVE  /\ req'[u].ttl > 0
                 /\ saved'[entry'[u].id].content = req'[u].content
                 /\ \E at \in since'[u] .. clock' : entry'[u].expiresAt = at + req'[u].ttl
      <3>1. /\ Saving(u) /\ req'[u] = req[u] /\ entry'[u] = entry[u] /\ since'[u] = since[u]
        BY <2>1, <1>1 DEF OthersWait, Saving
      <3>2. saved'[entry[u].id] = saved[entry[u].id]
        BY <3>1, <1>1 DEF IInv, EntriesPending
      <3> QED
        BY <3>1, <3>2, <1>1 DEF SavePromised, RInv
    <2>2. ASSUME Saving(t)'
          PROVE  /\ req'[t].ttl > 0
                 /\ saved'[entry'[t].id].content = req'[t].content
                 /\ \E at \in since'[t] .. clock' : entry'[t].expiresAt = at + req'[t].ttl
      <3>1. SavePrepare(t) \/ SaveLock(t)
        BY <2>2, <1>2 DEF Saving, Acts, Call, Requests, LockStep, SaveLock, LoadLock,
           LoadRelock, DestroyLock, Step, SaveFails, SavePrepare, SaveCommit, LoadMissing,
           LoadExpired, LoadAlive, Take, LoadClone, LoadDelete, DestroyMissing, DestroyFound,
           Return, Mutate, Goto, Finish
      <3>2. CASE SavePrepare(t)
        <4>1. PICK id \in Ids \ DOMAIN saved :
                 /\ entry' = [entry EXCEPT ![t] =
                                [id |-> id, ref |-> id, expiresAt |-> clock + req[t].ttl]]
                 /\ saved' = With(saved, id, [content   |-> req[t].content,
                                              expiresAt |-> clock + req[t].ttl])
          BY <3>2 DEF SavePrepare, CloneMapping, ExpiresAt
        <4>2. req' = req /\ since' = since /\ req[t].ttl > 0
          BY <3>2 DEF SavePrepare
        <4>3. entry'[t] = [id |-> id, ref |-> id, expiresAt |-> clock + req[t].ttl]
          BY <4>1 DEF IInv, TypeOK
        <4>4. saved'[id].content = req[t].content
          BY <4>1 DEF With
        <4>5. clock \in since[t] .. clock
          BY <1>2 DEF RInv, CalledBefore
        <4> QED
          BY <4>2, <4>3, <4>4, <4>5, <1>1
      <3>3. CASE SaveLock(t)
        BY <3>3 DEF SaveLock, RInv, SavePromised, Saving
      <3> QED
        BY <3>1, <3>2, <3>3
    <2> QED
      BY <2>1, <2>2 DEF SavePromised
  <1>5. ToldExpired'
    <2>1. ASSUME NEW u \in Threads \ {t}, pc'[u] = "done", ans'[u].kind = "expired"
          PROVE  <<req'[u].id, "expired">> \in gone'
      BY <2>1, <1>1 DEF OthersWait, RInv, ToldExpired
    <2>2. ASSUME pc'[t] = "done", ans'[t].kind = "expired"
          PROVE  <<req'[t].id, "expired">> \in gone'
      <3>1. LoadDelete(t)
        BY <2>2, <1>2 DEF IInv, TypeOK, Acts, Call, Requests, LockStep, SaveLock, LoadLock,
           LoadRelock, DestroyLock, Step, SaveFails, SavePrepare, SaveCommit, LoadMissing,
           LoadExpired, LoadAlive, Take, LoadClone, LoadDelete, DestroyMissing, DestroyFound,
           Return, Mutate, Goto, Finish
      <3> QED
        BY <3>1 DEF LoadDelete
    <2> QED
      BY <2>1, <2>2 DEF ToldExpired
  <1>6. HandlerCalled'
    <2>1. ASSUME NEW u \in Threads \ {t}
          PROVE  /\ pc'[u] \in InLoad => req'[u].op = "load"
                 /\ pc'[u] \in InDestroy => req'[u].op = "destroy"
      BY <1>1 DEF OthersWait, RInv, HandlerCalled
    <2>2. /\ pc'[t] \in InLoad => req'[t].op = "load"
          /\ pc'[t] \in InDestroy => req'[t].op = "destroy"
      BY <1>2 DEF RInv, HandlerCalled, InLoad, InDestroy, IInv, TypeOK, Acts, Call, Requests,
         LockStep, SaveLock, LoadLock, LoadRelock, DestroyLock, Step, SaveFails, SavePrepare,
         SaveCommit, LoadMissing, LoadExpired, LoadAlive, Take, LoadClone, LoadDelete,
         DestroyMissing, DestroyFound, Return, Mutate, Goto, Finish
    <2> QED
      BY <2>1, <2>2 DEF HandlerCalled
  <1> QED
    BY <1>3, <1>4, <1>5, <1>6 DEF RInv

LEMMA NextRInv == IInv /\ RInv /\ [Next]_vars => RInv'
  <1> SUFFICES ASSUME IInv, RInv, [Next]_vars PROVE RInv'
    OBVIOUS
  <1>1. CASE \E t \in Threads : Acts(t)
    BY <1>1, ActsRInv
  <1>2. CASE Tick
    <2>1. clock' = clock + 1 /\ clock \in Nat /\ since \in [Threads -> Nat]
      BY <1>2 DEF Tick, IInv, TypeOK
    <2>2. CalledBefore'
      BY <1>2, <2>1 DEF Tick, RInv, CalledBefore
    <2>3. \A t \in Threads : since[t] .. clock \subseteq since[t] .. clock'
      BY <2>1
    <2>4. SavePromised'
      BY <1>2, <2>3 DEF Tick, RInv, SavePromised, Saving
    <2>5. ToldExpired'
      BY <1>2 DEF Tick, RInv, ToldExpired
    <2>6. HandlerCalled'
      BY <1>2 DEF Tick, RInv, HandlerCalled
    <2> QED
      BY <2>2, <2>4, <2>5, <2>6 DEF RInv
  <1>3. CASE UNCHANGED vars
    BY <1>3 DEF vars, RInv, CalledBefore, HandlerCalled, SavePromised, ToldExpired, Saving
  <1> QED
    BY <1>1, <1>2, <1>3 DEF Next, Acts

-----------------------------------------------------------------------------
(* What the atomic store sees of a step of goroutine t: its own phase and  *)
(* answer at most.                                                         *)
LEMMA SeenOfOne ==
  ASSUME IInv, IInv', NEW t \in Threads, Acts(t)
  PROVE  /\ Phases' = [Phases EXCEPT ![t] = Phase(t)']
         /\ Told' = [Told EXCEPT ![t] = AbsAnswer(t)']
  <1>1. OthersWait(t) /\ MapsKept(t)
    BY ActsAlone
  <1>2. ASSUME NEW u \in Threads \ {t}
        PROVE  Phase(u)' = Phase(u) /\ AbsAnswer(u)' = AbsAnswer(u)
    <2>1. /\ pc'[u] = pc[u] /\ ans'[u] = ans[u] /\ entry'[u] = entry[u] /\ held'[u] = held[u]
      BY <1>1 DEF OthersWait
    <2>2. pc[u] = "clone" => heap'[entry[u].ref] = heap[entry[u].ref]
      BY <1>1 DEF MapsKept, IInv, EntriesTaken
    <2>3. pc[u] = "done" /\ ans[u].kind = "loaded" => heap'[held[u]] = heap[held[u]]
      BY <1>1 DEF MapsKept, IInv, AnswersKept
    <2> QED
      BY <2>1, <2>2, <2>3 DEF Phase, AbsAnswer
  <1> QED
    BY <1>2 DEF Phases, Told

LEMMA LiveKept ==
  ASSUME IInv, NEW t \in Threads, Acts(t), sessions' = sessions
  PROVE  Live' = Live
  <1>1. \A id \in DOMAIN sessions : heap'[sessions[id].ref] = heap[sessions[id].ref]
    BY ActsAlone DEF MapsKept, IInv, StoredAsSaved
  <1> QED
    BY <1>1 DEF Live

LEMMA LiveWithout ==
  ASSUME IInv, NEW t \in Threads, Acts(t), NEW id, Remove(id)
  PROVE  Live' = [i \in DOMAIN Live \ {id} |-> Live[i]]
  <1>1. \A i \in DOMAIN sessions : heap'[sessions[i].ref] = heap[sessions[i].ref]
    BY ActsAlone DEF MapsKept, IInv, StoredAsSaved
  <1>2. /\ DOMAIN sessions' = DOMAIN sessions \ {id}
        /\ \A i \in DOMAIN sessions' : sessions'[i] = sessions[i]
    BY DEF Remove
  <1> QED
    BY <1>1, <1>2 DEF Live

(* An id is in use from the commit on: drawing it is not seen.             *)
LEMMA UsedKept ==
  ASSUME IInv, NEW t \in Threads, Acts(t), ~SaveCommit(t)
  PROVE  Used' = Used
  <1>1. OthersWait(t)
    BY ActsAlone
  <1>2. \A u \in Threads \ {t} : (Saving(u)' <=> Saving(u)) /\ entry'[u] = entry[u]
    BY <1>1 DEF OthersWait, Saving
  <1>3. CASE SavePrepare(t)
    <2>1. PICK id \in Ids \ DOMAIN saved :
             /\ entry' = [entry EXCEPT ![t] =
                            [id |-> id, ref |-> id, expiresAt |-> clock + req[t].ttl]]
             /\ saved' = With(saved, id, [content   |-> req[t].content,
                                          expiresAt |-> clock + req[t].ttl])
      BY <1>3 DEF SavePrepare, CloneMapping, ExpiresAt
    <2>2. entry'[t].id = id /\ DOMAIN saved' = DOMAIN saved \cup {id}
      BY <2>1 DEF IInv, TypeOK, With
    <2>3. Saving(t)' /\ ~Saving(t)
      BY <1>3 DEF SavePrepare, Goto, Saving, IInv, TypeOK
    <2> QED
      BY <1>2, <2>2, <2>3 DEF Used
  <1>4. CASE ~SavePrepare(t)
    <2>1. saved' = saved
      BY <1>4 DEF Acts, Call, LockStep, SaveLock, LoadLock, LoadRelock, DestroyLock,
         Step, SaveFails, SaveCommit, LoadMissing, LoadExpired, LoadAlive,
         Take, LoadClone, LoadDelete, DestroyMissing, DestroyFound, Return, Mutate
    <2>2. (Saving(t)' <=> Saving(t)) /\ (Saving(t) => entry'[t] = entry[t])
      BY <1>4 DEF IInv, TypeOK, Saving, Acts, Call, Requests, LockStep, SaveLock, LoadLock,
         LoadRelock, DestroyLock, Step, SaveFails, LoadMissing, LoadExpired,
         LoadAlive, Take, LoadClone, LoadDelete, DestroyMissing, DestroyFound, Return,
         Mutate, Goto, Finish
    <2> QED
      BY <1>2, <2>1, <2>2 DEF Used
  <1> QED
    BY <1>3, <1>4

(* A step that changes neither the sessions nor what the goroutine can be  *)
(* told is no step of the atomic store.                                    *)
LEMMA Unseen ==
  ASSUME IInv, IInv', NEW t \in Threads, Acts(t), ~SaveCommit(t),
         sessions' = sessions, since' = since, req' = req,
         Phase(t)' = Phase(t), AbsAnswer(t)' = AbsAnswer(t)
  PROVE  UNCHANGED Atomic!vars
  <1>1. Live' = Live /\ Used' = Used /\ clock' = clock
    BY LiveKept, UsedKept, ActsAlone
  <1>2. Phases' = Phases /\ Told' = Told
    BY SeenOfOne DEF Phases, Told
  <1> QED
    BY <1>1, <1>2 DEF Atomic!vars, Live, Used, Saving, Phases, Told

-----------------------------------------------------------------------------
(* The other steps, one by one, as steps of the atomic store.              *)
LEMMA CallSeen ==
  ASSUME IInv, IInv', NEW t \in Threads, Call(t)
  PROVE  Atomic!Call(t)
  <1>1. Acts(t) /\ ~SaveCommit(t)
    BY DEF Acts, Call, SaveCommit
  <1>2. /\ pc[t] = "idle" /\ ans' = ans /\ clock' = clock
        /\ since' = [since EXCEPT ![t] = clock]
    BY DEF Call
  <1>3. PICK r \in Requests : req' = [req EXCEPT ![t] = r] /\ pc' = [pc EXCEPT ![t] = r.op]
    BY DEF Call, Goto
  <1>4. pc'[t] \in {"save", "load", "destroy"}
    BY <1>3 DEF IInv, TypeOK, Requests
  <1>5. Phases' = [Phases EXCEPT ![t] = "busy"] /\ Phases[t] = "idle"
    BY <1>1, <1>2, <1>4, SeenOfOne DEF Phase, Phases
  <1>6. AbsAnswer(t)' = AbsAnswer(t)
    BY <1>2, <1>4 DEF AbsAnswer
  <1>7. Told' = Told
    BY <1>1, <1>6, SeenOfOne DEF Told
  <1>8. Live' = Live /\ Used' = Used
    BY <1>1, LiveKept, UsedKept DEF Call
  <1> QED
    BY <1>2, <1>3, <1>5, <1>7, <1>8
    DEF Atomic!Call, Atomic!StoreCalls, Requests, Live, Used, Saving, Phases, Told

LEMMA SaveFailsSeen ==
  ASSUME IInv, IInv', NEW t \in Threads, SaveFails(t)
  PROVE  Atomic!SaveFails(t)
  <1>1. Acts(t) /\ ~SaveCommit(t)
    BY DEF Acts, Step, SaveFails, SaveCommit
  <1>2. /\ pc[t] = "save" /\ pc'[t] = "done" /\ ans'[t] = [kind |-> "failed"]
        /\ clock' = clock /\ since' = since /\ req' = req
    BY DEF SaveFails, Finish, Goto, IInv, TypeOK
  <1>3. Phases' = [Phases EXCEPT ![t] = "done"] /\ Phases[t] = "busy" /\ req[t].op = "save"
    BY <1>1, <1>2, SeenOfOne DEF Phase, Phases, IInv, CallsKnown, InSave
  <1>4. AbsAnswer(t)' = [kind |-> "failed"]
    BY <1>2 DEF AbsAnswer
  <1>5. Told' = [Told EXCEPT ![t] = [kind |-> "failed"]]
    BY <1>1, <1>4, SeenOfOne
  <1>6. Live' = Live /\ Used' = Used
    BY <1>1, LiveKept, UsedKept DEF SaveFails
  <1> QED
    BY <1>2, <1>3, <1>5, <1>6
    DEF Atomic!SaveFails, Atomic!Busy, Atomic!Answer, Atomic!Is, Live, Used, Saving, Phases, Told

(* The commit: the id becomes used, the session answers until ttl after an *)
(* instant of the call.                                                    *)
LEMMA SaveCommitSeen ==
  ASSUME IInv, IInv', RInv, NEW t \in Threads, SaveCommit(t)
  PROVE  Atomic!Save(t)
  <1> DEFINE id == entry[t].id
  <1>1. Acts(t)
    BY DEF Acts, Step
  <1>2. /\ pc[t] = "commit" /\ pc'[t] = "done" /\ ans'[t] = [kind |-> "saved", id |-> id]
        /\ clock' = clock /\ since' = since /\ req' = req /\ entry' = entry
        /\ saved' = saved /\ heap' = heap
        /\ sessions' = With(sessions, id, [ref |-> entry[t].ref, expiresAt |-> entry[t].expiresAt])
    BY DEF SaveCommit, Finish, Goto, IInv, TypeOK
  <1>3. /\ id \in Ids /\ id \in DOMAIN saved /\ entry[t].ref = id
        /\ \A u \in Threads \ {t} : Saving(u) => entry[u].id # id
        /\ heap[id] = saved[id].content
    BY <1>2 DEF Saving, IInv, EntriesPending, StoredAsSaved
  <1>4. /\ req[t].ttl > 0 /\ req[t].op = "save"
        /\ saved[id].content = req[t].content
    BY <1>2 DEF Saving, RInv, SavePromised, IInv, CallsKnown, InSave
  <1>5. PICK at \in since[t] .. clock : entry[t].expiresAt = at + req[t].ttl
    BY <1>2 DEF Saving, RInv, SavePromised
  <1>6. Phases' = [Phases EXCEPT ![t] = "done"] /\ Phases[t] = "busy"
    BY <1>1, <1>2, SeenOfOne DEF Phase, Phases
  <1>7. AbsAnswer(t)' = [kind |-> "saved", id |-> id]
    BY <1>2 DEF AbsAnswer
  <1>8. Told' = [Told EXCEPT ![t] = [kind |-> "saved", id |-> id]]
    BY <1>1, <1>7, SeenOfOne
  <1>9. /\ \A u \in Threads \ {t} : Saving(u)' <=> Saving(u)
        /\ Saving(t) /\ ~Saving(t)'
    BY <1>1, <1>2, ActsAlone DEF OthersWait, Saving
  <1>10. Used' = Used \cup {id} /\ id \notin Used
    BY <1>2, <1>3, <1>9 DEF Used
  <1>11. /\ DOMAIN sessions' = DOMAIN sessions \cup {id}
         /\ sessions'[id] = [ref |-> id, expiresAt |-> at + req[t].ttl]
         /\ \A i \in DOMAIN sessions \ {id} : sessions'[i] = sessions[i]
    BY <1>2, <1>3, <1>5 DEF With
  <1>12. Live' = [i \in DOMAIN Live \cup {id} |->
                    IF i = id
                    THEN [content |-> req[t].content, until |-> at + req[t].ttl]
                    ELSE Live[i]]
    BY <1>2, <1>3, <1>4, <1>11 DEF Live
  <1> HIDE DEF id
  <1>13. id \in Atomic!Fresh
    BY <1>3, <1>10 DEF Atomic!Fresh, Used, Saving
  <1>14. Atomic!Busy(t, "save") /\ Atomic!Answer(t, Atomic!Saved(id))
    BY <1>2, <1>4, <1>6, <1>8 DEF Atomic!Busy, Atomic!Answer, Atomic!Saved, Phases, Told
  <1>15. /\ Atomic!Busy(t, "save") /\ req[t].ttl > 0
         /\ id \in Atomic!Fresh /\ at \in since[t] .. clock
         /\ Live' = [i \in DOMAIN Live \cup {id} |->
                       IF i = id
                       THEN [content |-> req[t].content, until |-> at + req[t].ttl]
                       ELSE Live[i]]
         /\ Used' = Used \cup {id}
         /\ Atomic!Answer(t, Atomic!Saved(id))
    BY <1>4, <1>5, <1>10, <1>12, <1>13, <1>14
  <1> QED
    BY ONLY <1>15 DEF Atomic!Save, Live, Used, Saving

-----------------------------------------------------------------------------
(* A load answers when it reads the entry under the lock.                  *)
LEMMA LoadSeen ==
  ASSUME IInv, IInv', RInv, NEW t \in Threads,
         LoadMissing(t) \/ LoadExpired(t) \/ LoadAlive(t)
  PROVE  Atomic!Load(t)
  <1> DEFINE id == req[t].id
  <1>1. Acts(t) /\ ~SaveCommit(t)
    BY DEF Acts, Step, LoadMissing, LoadExpired, LoadAlive, Take, SaveCommit
  <1>2. /\ pc[t] = "read" /\ sessions' = sessions /\ heap' = heap
        /\ clock' = clock /\ since' = since /\ req' = req
    BY DEF LoadMissing, LoadExpired, LoadAlive, Take
  <1>3. pc'[t] \in {"done", "expired", "clone"}
    BY DEF LoadMissing, LoadExpired, LoadAlive, Finish, Goto, IInv, TypeOK
  <1>4. Phases' = [Phases EXCEPT ![t] = "done"] /\ Phases[t] = "busy"
    BY <1>1, <1>2, <1>3, SeenOfOne DEF Phase, Phases
  <1>5. req[t].op = "load"
    BY <1>2 DEF RInv, HandlerCalled, InLoad
  <1>6. Live' = Live /\ Used' = Used
    BY <1>1, <1>2, LiveKept, UsedKept
  <1>7. ASSUME NEW answer, AbsAnswer(t)' = answer
        PROVE  Atomic!Answer(t, answer)
    <2>1. Told' = [Told EXCEPT ![t] = answer]
      BY <1>1, <1>7, SeenOfOne
    <2> QED
      BY <1>2, <1>4, <2>1 DEF Atomic!Answer, Phases, Told
  <1>8. CASE LoadMissing(t)
    <2>1. /\ id \notin DOMAIN Live
          /\ pc'[t] = "done" /\ ans'[t] = [kind |-> "notFound"]
      BY <1>8 DEF LoadMissing, Finish, Goto, Live, IInv, TypeOK
    <2>2. AbsAnswer(t)' = Atomic!Is("notFound")
      BY <2>1 DEF AbsAnswer, Atomic!Is
    <2> QED
      BY <1>4, <1>5, <1>6, <1>7, <2>1, <2>2
      DEF Atomic!Load, Atomic!Busy, Live, Used, Saving, Phases
  <1>9. CASE LoadExpired(t)
    <2>1. /\ id \in DOMAIN Live /\ clock >= Live[id].until /\ pc'[t] = "expired"
      BY <1>9 DEF LoadExpired, Take, Expired, Goto, Live, IInv, TypeOK
    <2>2. AbsAnswer(t)' = Atomic!Is("expired")
      BY <2>1 DEF AbsAnswer, Atomic!Is
    <2> QED
      BY <1>4, <1>5, <1>6, <1>7, <2>1, <2>2
      DEF Atomic!Load, Atomic!Busy, Live, Used, Saving, Phases
  <1>10. CASE LoadAlive(t)
    <2>1. /\ id \in DOMAIN sessions /\ ~(clock >= sessions[id].expiresAt) /\ pc'[t] = "clone"
          /\ entry'[t].ref = sessions[id].ref
      BY <1>10 DEF LoadAlive, Take, Expired, Goto, IInv, TypeOK
    <2>2. id \in DOMAIN Live /\ clock < Live[id].until /\ Live[id].content = heap[entry'[t].ref]
      BY <2>1 DEF Live, IInv, TypeOK, Entry
    <2>3. AbsAnswer(t)' = Atomic!Loaded(Live[id].content)
      BY <1>2, <2>1, <2>2 DEF AbsAnswer, Atomic!Loaded
    <2> QED
      BY <1>4, <1>5, <1>6, <1>7, <2>2, <2>3
      DEF Atomic!Load, Atomic!Busy, Live, Used, Saving, Phases
  <1> QED
    BY <1>8, <1>9, <1>10

(* What was read under the lock is what is cloned after it.                *)
LEMMA LoadCloneUnseen ==
  ASSUME IInv, IInv', NEW t \in Threads, LoadClone(t)
  PROVE  UNCHANGED Atomic!vars
  <1>1. Acts(t) /\ ~SaveCommit(t)
    BY DEF Acts, Step, LoadClone, SaveCommit
  <1>2. /\ pc[t] = "clone" /\ pc'[t] = "done" /\ ans'[t] = [kind |-> "loaded"]
        /\ sessions' = sessions /\ since' = since /\ req' = req
        /\ held'[t] = t /\ heap'[t] = heap[entry[t].ref]
    BY DEF LoadClone, CloneMapping, Finish, Goto, IInv, TypeOK, Refs
  <1>3. Phase(t)' = Phase(t) /\ AbsAnswer(t)' = AbsAnswer(t)
    BY <1>2 DEF Phase, AbsAnswer
  <1> QED
    BY <1>1, <1>2, <1>3, Unseen

(* The deletion of an expired entry, unless it is gone already.            *)
LEMMA LoadDeleteSeen ==
  ASSUME IInv, IInv', NEW t \in Threads, LoadDelete(t)
  PROVE  Atomic!Collect \/ UNCHANGED Atomic!vars
  <1> DEFINE id == req[t].id
  <1>1. Acts(t) /\ ~SaveCommit(t)
    BY DEF Acts, Step, LoadDelete, SaveCommit
  <1>2. /\ pc[t] = "delete" /\ pc'[t] = "done" /\ ans'[t] = [kind |-> "expired"]
        /\ clock' = clock /\ since' = since /\ req' = req
    BY DEF LoadDelete, Finish, Goto, IInv, TypeOK
  <1>3. Phase(t)' = Phase(t) /\ AbsAnswer(t)' = AbsAnswer(t)
    BY <1>2 DEF Phase, AbsAnswer
  <1>4. CASE id \in DOMAIN sessions /\ Expired(sessions[id])
    <2>1. Remove(id)
      BY <1>4 DEF LoadDelete
    <2>2. Live' = [i \in DOMAIN Live \ {id} |-> Live[i]]
      BY <1>1, <2>1, LiveWithout
    <2>3. id \in DOMAIN Live /\ clock >= Live[id].until
      BY <1>4 DEF Live, Expired
    <2>4. Phases' = Phases /\ Told' = Told /\ Used' = Used
      BY <1>1, <1>3, SeenOfOne, UsedKept DEF Phases, Told
    <2> QED
      BY <1>2, <2>2, <2>3, <2>4
      DEF Atomic!Collect, Atomic!Without, Live, Used, Saving, Phases, Told
  <1>5. CASE ~(id \in DOMAIN sessions /\ Expired(sessions[id]))
    <2>1. sessions' = sessions
      BY <1>5 DEF LoadDelete
    <2> QED
      BY <1>1, <1>2, <1>3, <2>1, Unseen
  <1> QED
    BY <1>4, <1>5

-----------------------------------------------------------------------------
LEMMA DestroySeen ==
  ASSUME IInv, IInv', RInv, NEW t \in Threads, DestroyMissing(t) \/ DestroyFound(t)
  PROVE  Atomic!Destroy(t)
  <1> DEFINE id == req[t].id
  <1>1. Acts(t) /\ ~SaveCommit(t)
    BY DEF Acts, Step, DestroyMissing, DestroyFound, SaveCommit
  <1>2. /\ pc[t] = "destroying" /\ pc'[t] = "done"
        /\ clock' = clock /\ since' = since /\ req' = req
    BY DEF DestroyMissing, DestroyFound, Finish, Goto, IInv, TypeOK
  <1>3. Phases' = [Phases EXCEPT ![t] = "done"] /\ Phases[t] = "busy"
    BY <1>1, <1>2, SeenOfOne DEF Phase, Phases
  <1>4. req[t].op = "destroy" /\ Used' = Used
    BY <1>1, <1>2, UsedKept DEF RInv, HandlerCalled, InDestroy
  <1>5. ASSUME NEW answer, AbsAnswer(t)' = answer
        PROVE  Atomic!Answer(t, answer)
    <2>1. Told' = [Told EXCEPT ![t] = answer]
      BY <1>1, <1>5, SeenOfOne
    <2> QED
      BY <1>2, <1>3, <2>1 DEF Atomic!Answer, Phases, Told
  <1>6. CASE DestroyMissing(t)
    <2>1. /\ id \notin DOMAIN Live /\ ans'[t] = [kind |-> "notFound"]
          /\ Live' = Live
      BY <1>1, <1>6, LiveKept DEF DestroyMissing, Finish, Live, IInv, TypeOK
    <2>2. AbsAnswer(t)' = Atomic!Is("notFound")
      BY <1>2, <2>1 DEF AbsAnswer, Atomic!Is
    <2> QED
      BY <1>3, <1>4, <1>5, <2>1, <2>2
      DEF Atomic!Destroy, Atomic!Busy, Live, Used, Saving, Phases
  <1>7. CASE DestroyFound(t)
    <2>1. id \in DOMAIN Live /\ ans'[t] = [kind |-> "destroyed"] /\ Remove(id)
      BY <1>7 DEF DestroyFound, Finish, Live, IInv, TypeOK
    <2>2. Live' = [i \in DOMAIN Live \ {id} |-> Live[i]]
      BY <1>1, <2>1, LiveWithout
    <2>3. AbsAnswer(t)' = Atomic!Is("destroyed")
      BY <1>2, <2>1 DEF AbsAnswer, Atomic!Is
    <2> QED
      BY <1>3, <1>4, <1>5, <2>1, <2>2, <2>3
      DEF Atomic!Destroy, Atomic!Busy, Atomic!Without, Live, Used, Saving, Phases
  <1> QED
    BY <1>6, <1>7

(* Who is told that a session expired finds it gone.                       *)
LEMMA ReturnSeen ==
  ASSUME IInv, IInv', RInv, NEW t \in Threads, Return(t)
  PROVE  Atomic!Return(t)
  <1>1. Acts(t) /\ ~SaveCommit(t)
    BY DEF Acts, Step, Return, SaveCommit
  <1>2. /\ pc[t] = "done" /\ pc'[t] = "idle" /\ sessions' = sessions
        /\ clock' = clock /\ since' = since /\ req' = [req EXCEPT ![t] = Nothing]
    BY DEF Return, Goto, IInv, TypeOK
  <1>3. /\ Phases' = [Phases EXCEPT ![t] = "idle"] /\ Phases[t] = "done"
        /\ AbsAnswer(t)' = Nothing
    BY <1>1, <1>2, SeenOfOne DEF Phase, Phases, AbsAnswer
  <1>4. Told' = [Told EXCEPT ![t] = Nothing]
    BY <1>1, <1>3, SeenOfOne
  <1>5. Live' = Live /\ Used' = Used
    BY <1>1, <1>2, LiveKept, UsedKept
  <1>6. ASSUME Told[t] = [kind |-> "expired"]
        PROVE  req[t].id \notin DOMAIN Live
    <2>1. ans[t].kind = "expired"
      BY <1>2, <1>6 DEF Told, AbsAnswer
    <2>2. <<req[t].id, "expired">> \in gone
      BY <1>2, <2>1 DEF RInv, ToldExpired
    <2> QED
      BY <2>2 DEF IInv, GoneOnce, Live
  <1> QED
    BY <1>2, <1>3, <1>4, <1>5, <1>6
    DEF Atomic!Return, Atomic!Is, Live, Used, Saving, Phases, Told

(* Drawing an id, copying, waiting for the lock, and what a handler does   *)
(* to its own map are not seen.                                            *)
LEMMA OwnStepsUnseen ==
  ASSUME IInv, IInv', NEW t \in Threads, SavePrepare(t) \/ LockStep(t) \/ Mutate(t)
  PROVE  UNCHANGED Atomic!vars
  <1>1. Acts(t) /\ ~SaveCommit(t)
    BY DEF Acts, Step, SavePrepare, LockStep, SaveLock, LoadLock, LoadRelock, DestroyLock,
       Mutate, SaveCommit
  <1>2. sessions' = sessions /\ since' = since /\ req' = req
    BY DEF SavePrepare, LockStep, SaveLock, LoadLock, LoadRelock, DestroyLock, Mutate
  <1>3. Phase(t)' = Phase(t)
    BY DEF SavePrepare, LockStep, SaveLock, LoadLock, LoadRelock, DestroyLock, Mutate, Phase,
       Goto, IInv, TypeOK
  <1>4. AbsAnswer(t)' = AbsAnswer(t)
    BY DEF SavePrepare, LockStep, SaveLock, LoadLock, LoadRelock, DestroyLock, Mutate,
       AbsAnswer, Goto, IInv, TypeOK
  <1> QED
    BY <1>1, <1>2, <1>3, <1>4, Unseen

-----------------------------------------------------------------------------
LEMMA InitSeen == Init => Atomic!Init
  <1> SUFFICES ASSUME Init PROVE Atomic!Init
    OBVIOUS
  <1>1. DOMAIN sessions = {} /\ DOMAIN saved = {}
    BY DEF Init
  <1>2. Live = <<>> /\ Used = {}
    BY <1>1 DEF Live, Used
  <1>3. Phases = [t \in Threads |-> "idle"] /\ Told = [t \in Threads |-> Nothing]
    BY DEF Phases, Told, Phase, AbsAnswer, Init
  <1> QED
    BY <1>2, <1>3 DEF Init, Atomic!Init, Live, Used, Saving, Phases, Told

LEMMA NextSeen ==
  ASSUME IInv, IInv', RInv, [Next]_vars
  PROVE  [Atomic!Next]_(Atomic!vars)
  <1>1. CASE \E t \in Threads : Acts(t)
    <2> PICK t \in Threads : Acts(t)
      BY <1>1
    <2>1. CASE Call(t)
      BY <2>1, CallSeen DEF Atomic!Next
    <2>2. CASE SavePrepare(t) \/ LockStep(t) \/ Mutate(t)
      BY <2>2, OwnStepsUnseen
    <2>3. CASE SaveFails(t)
      BY <2>3, SaveFailsSeen DEF Atomic!Next
    <2>4. CASE SaveCommit(t)
      BY <2>4, SaveCommitSeen DEF Atomic!Next
    <2>5. CASE LoadMissing(t) \/ LoadExpired(t) \/ LoadAlive(t)
      BY <2>5, LoadSeen DEF Atomic!Next
    <2>6. CASE LoadClone(t)
      BY <2>6, LoadCloneUnseen
    <2>7. CASE LoadDelete(t)
      BY <2>7, LoadDeleteSeen DEF Atomic!Next
    <2>8. CASE DestroyMissing(t) \/ DestroyFound(t)
      BY <2>8, DestroySeen DEF Atomic!Next
    <2>9. CASE Return(t)
      BY <2>9, ReturnSeen DEF Atomic!Next
    <2> QED
      BY <2>1, <2>2, <2>3, <2>4, <2>5, <2>6, <2>7, <2>8, <2>9 DEF Acts, Step
  <1>2. CASE Tick
    <2>1. clock' = clock + 1 /\ since' = since /\ req' = req
      BY <1>2 DEF Tick
    <2>2. Live' = Live /\ Used' = Used
      BY <1>2 DEF Tick, Live, Used, Saving
    <2>3. Phases' = Phases /\ Told' = Told
      BY <1>2 DEF Tick, Phases, Told, Phase, AbsAnswer
    <2>4. Atomic!Tick
      BY <2>1, <2>2, <2>3 DEF Atomic!Tick, Live, Used, Saving, Phases, Told
    <2> QED
      BY <2>4 DEF Atomic!Next
  <1>3. CASE UNCHANGED vars
    BY <1>3 DEF vars, Atomic!vars, Phase, AbsAnswer
  <1> QED
    BY <1>1, <1>2, <1>3 DEF Next, Acts

(* MemoryStore implements the atomic store: every Save, Load and Destroy   *)
(* happens at one instant of its call, for any number of goroutines.       *)
THEOREM StoreIsAtomic == Spec => ImplementsAtomicStore
  <1>1. Init => Atomic!Init
    BY InitSeen
  <1>2. IInv /\ RInv /\ IInv' /\ [Next]_vars => [Atomic!Next]_(Atomic!vars)
    BY NextSeen
  <1>3. Spec => []RInv
    BY InitRInv, NextRInv, Invariant, PTL DEF Spec
  <1> QED
    BY <1>1, <1>2, <1>3, Invariant, PTL DEF Spec, ImplementsAtomicStore, Atomic!Spec

=============================================================================
