--------------------------- MODULE BypassSessions ---------------------------
(***************************************************************************)
(* The gateway's table of sessions that opted out of redaction             *)
(* (bypassSessions in internal/gateway/gateway.go): a session enters when  *)
(* one of its requests holds the marker, every request of it refreshes its *)
(* time, and when there are too many the ones not used for longest go.     *)
(* Every operation runs under the mutex from beginning to end and is one   *)
(* step here.                                                              *)
(***************************************************************************)
EXTENDS Naturals, FiniteSets

CONSTANTS
  Sessions,  \* session ids
  MaxSeen,   \* b.max
  MaxTime    \* bound on the clock

ASSUME BypassSessionsAssumption ==
  /\ MaxSeen \in Nat \ {0}
  /\ MaxTime \in Nat

VARIABLES
  now,   \* the time; two calls may see the same
  seen,  \* b.seen: the sessions in the table, with the time of their last use
  last   \* history: the sessions that were ever let in, with their last use

bypassVars == <<now, seen, last>>

BypassInit == now = 0 /\ seen = <<>> /\ last = <<>>

(* The function f extended (or overwritten) at x.                          *)
With(f, x, v) == [y \in DOMAIN f \cup {x} |-> IF y = x THEN v ELSE f[y]]

Only(f, S) == [y \in S |-> f[y]]

(* Mutated form of Survivors: the newest sessions go.                      *)
MutKeepOldest(table) ==
  {kept \in SUBSET DOMAIN table :
     /\ Cardinality(kept) = MaxSeen
     /\ \A k \in kept, gone \in DOMAIN table \ kept : table[k] <= table[gone]}

(* pruneLocked deletes in the order of last use until MaxSeen are left; it *)
(* sorts sessions of equal age in any order.                               *)
Survivors(table) ==
  {kept \in SUBSET DOMAIN table :
     /\ Cardinality(kept) = MaxSeen
     /\ \A k \in kept, gone \in DOMAIN table \ kept : table[gone] <= table[k]}

Mark(s) ==
  /\ LET table == With(seen, s, now)
     IN  IF Cardinality(DOMAIN table) > MaxSeen
         THEN \E kept \in Survivors(table) : seen' = Only(table, kept)
         ELSE seen' = table
  /\ last' = With(last, s, now)
  /\ UNCHANGED now

Refresh(s) == seen' = With(seen, s, now)

(* Mutated form of Use: an unknown session is entered.                     *)
MutUseUnknown(s) ==
  /\ Refresh(s)
  /\ last' = With(last, s, now)
  /\ UNCHANGED now

(* has(s), when it is: the session's time is refreshed.  When it is not,   *)
(* nothing changes.                                                        *)
Use(s) ==
  /\ s \in DOMAIN seen
  /\ Refresh(s)
  /\ last' = With(last, s, now)
  /\ UNCHANGED now

Tick == now < MaxTime /\ now' = now + 1 /\ UNCHANGED <<seen, last>>

BypassNext ==
  \/ \E s \in Sessions : Mark(s) \/ Use(s)
  \/ Tick

BypassSpec == BypassInit /\ [][BypassNext]_bypassVars

-----------------------------------------------------------------------------
(* Every variable has its type; the table never outgrows its limit between *)
(* two calls, and knows when each session was last used.                   *)
BypassTypeOK ==
  /\ now \in Nat
  /\ DOMAIN seen \subseteq DOMAIN last
  /\ DOMAIN last \subseteq Sessions
  /\ \A s \in DOMAIN last : last[s] \in 0 .. now
  /\ \A s \in DOMAIN seen : seen[s] = last[s]

SeenBounded == Cardinality(DOMAIN seen) <= MaxSeen

(* A session that was let in is gone only if MaxSeen others have been used *)
(* since its last use, or at the same time (the table is a cache of the    *)
(* most recently used sessions, whatever order pruneLocked sorts equal     *)
(* times in).                                                              *)
NewerThan(s) == {t \in DOMAIN last \ {s} : last[t] >= last[s]}

DroppedOnlyWhenCrowded ==
  \A s \in DOMAIN last \ DOMAIN seen : Cardinality(NewerThan(s)) >= MaxSeen

=============================================================================
