------------------------ MODULE BypassSessions_proof ------------------------
(* Proofs about BypassSessions, for any limit and any set of sessions.     *)
EXTENDS BypassSessions, FiniteSetTheorems, TLAPS

(* The inductive invariant: the three properties, and that only finitely   *)
(* many sessions were ever let in (so that the counts are numbers).        *)
IInv ==
  /\ BypassTypeOK
  /\ IsFiniteSet(DOMAIN last)
  /\ SeenBounded
  /\ DroppedOnlyWhenCrowded

(* Entering or refreshing a session takes nobody's place among the newer   *)
(* ones: whoever was used since t's last use still was.                    *)
LEMMA NewerGrows ==
  ASSUME IInv, NEW s \in Sessions, last' = With(last, s, now),
         NEW t \in DOMAIN last, t # s, NewerThan(t) \in SUBSET DOMAIN last,
         Cardinality(NewerThan(t)) >= MaxSeen
  PROVE  Cardinality(NewerThan(t)') >= MaxSeen
<1>1. /\ DOMAIN last' = DOMAIN last \cup {s} /\ last'[s] = now
      /\ \A y \in DOMAIN last \ {s} : last'[y] = last[y]
  BY DEF With
<1>2. NewerThan(t) \subseteq NewerThan(t)'
  BY <1>1 DEF IInv, BypassTypeOK, NewerThan
<1>3. IsFiniteSet(NewerThan(t)')
  <2>1. IsFiniteSet(DOMAIN last')
    BY <1>1, FS_AddElement DEF IInv
  <2> QED
    BY <2>1, FS_Subset DEF NewerThan
<1>4. /\ Cardinality(NewerThan(t)) <= Cardinality(NewerThan(t)')
      /\ Cardinality(NewerThan(t)) \in Nat /\ Cardinality(NewerThan(t)') \in Nat
  <2>1. IsFiniteSet(NewerThan(t))
    BY <1>2, <1>3, FS_Subset
  <2> QED
    BY <1>2, <1>3, <2>1, FS_Subset, FS_CardinalityType
<1> QED
  BY <1>4, BypassSessionsAssumption DEF BypassSessionsAssumption

(* Whoever pruneLocked deletes leaves MaxSeen newer ones behind.           *)
LEMMA PrunedIsOld ==
  ASSUME IInv, NEW s \in Sessions, last' = With(last, s, now),
         NEW kept \in Survivors(With(seen, s, now)),
         NEW t \in DOMAIN With(seen, s, now) \ kept
  PROVE  Cardinality(NewerThan(t)') >= MaxSeen
<1> DEFINE table == With(seen, s, now)
<1>1. /\ DOMAIN last' = DOMAIN last \cup {s} /\ last'[s] = now
      /\ \A y \in DOMAIN last \ {s} : last'[y] = last[y]
  BY DEF With
<1>2. /\ DOMAIN table = DOMAIN seen \cup {s} /\ table[s] = now
      /\ \A y \in DOMAIN seen \ {s} : table[y] = seen[y]
  BY DEF With
<1>3. \A y \in DOMAIN table : table[y] = last'[y]
  BY <1>1, <1>2 DEF IInv, BypassTypeOK
<1>4. /\ kept \subseteq DOMAIN table
      /\ \A k \in kept : table[t] <= table[k]
      /\ Cardinality(kept) = MaxSeen
  BY DEF Survivors
<1>5. \A y \in DOMAIN table : table[y] \in Nat
  BY <1>2 DEF IInv, BypassTypeOK
<1>6. kept \subseteq NewerThan(t)'
  <2> SUFFICES ASSUME NEW k \in kept PROVE k \in NewerThan(t)'
    OBVIOUS
  <2>1. k \in DOMAIN last' /\ k # t
    BY <1>1, <1>2, <1>4 DEF IInv, BypassTypeOK
  <2>2. last'[k] >= last'[t]
    BY <1>3, <1>4, <1>5
  <2> QED
    BY <2>1, <2>2 DEF NewerThan
<1>7. IsFiniteSet(NewerThan(t)')
  <2>1. IsFiniteSet(DOMAIN last')
    BY <1>1, FS_AddElement DEF IInv
  <2> QED
    BY <2>1, FS_Subset DEF NewerThan
<1>8. /\ Cardinality(kept) <= Cardinality(NewerThan(t)')
      /\ Cardinality(NewerThan(t)') \in Nat
  BY <1>6, <1>7, FS_Subset, FS_CardinalityType
<1> QED
  BY <1>4, <1>8, BypassSessionsAssumption DEF BypassSessionsAssumption

(* The table after a session was entered or refreshed, pruned or not.      *)
LEMMA Entered ==
  ASSUME IInv, NEW s \in Sessions, last' = With(last, s, now), now' = now,
         NEW kept \in SUBSET DOMAIN With(seen, s, now),
         seen' = Only(With(seen, s, now), kept),
         \/ kept = DOMAIN With(seen, s, now)
         \/ kept \in Survivors(With(seen, s, now)),
         Cardinality(kept) <= MaxSeen
  PROVE  IInv'
<1> DEFINE table == With(seen, s, now)
<1>1. /\ DOMAIN last' = DOMAIN last \cup {s} /\ last'[s] = now
      /\ \A y \in DOMAIN last \ {s} : last'[y] = last[y]
  BY DEF With
<1>2. /\ DOMAIN table = DOMAIN seen \cup {s} /\ table[s] = now
      /\ \A y \in DOMAIN seen \ {s} : table[y] = seen[y]
  BY DEF With
<1>3. DOMAIN seen' = kept /\ \A y \in kept : seen'[y] = table[y]
  BY DEF Only
<1>4. BypassTypeOK'
  BY <1>1, <1>2, <1>3 DEF IInv, BypassTypeOK
<1>5. IsFiniteSet(DOMAIN last)'
  BY <1>1, FS_AddElement DEF IInv
<1>6. SeenBounded'
  BY <1>3 DEF SeenBounded
<1>7. DroppedOnlyWhenCrowded'
  <2> SUFFICES ASSUME NEW t \in DOMAIN last', t \notin DOMAIN seen'
               PROVE  Cardinality(NewerThan(t)') >= MaxSeen
    BY DEF DroppedOnlyWhenCrowded
  <2>1. CASE t \in DOMAIN table
    <3>1. kept \in Survivors(table)
      BY <1>3, <2>1
    <3> QED
      BY <3>1, <2>1, <1>3, PrunedIsOld
  <2>2. CASE t \notin DOMAIN table
    <3>1. t \in DOMAIN last /\ t # s /\ t \notin DOMAIN seen
      BY <1>1, <1>2, <2>2
    <3>2. Cardinality(NewerThan(t)) >= MaxSeen /\ NewerThan(t) \in SUBSET DOMAIN last
      BY <3>1 DEF IInv, DroppedOnlyWhenCrowded, NewerThan
    <3> QED
      BY <3>1, <3>2, NewerGrows
  <2> QED
    BY <2>1, <2>2
<1> QED
  BY <1>4, <1>5, <1>6, <1>7 DEF IInv

LEMMA BypassInitInv == ASSUME BypassInit PROVE IInv
<1>1. DOMAIN seen = {} /\ DOMAIN last = {}
  BY DEF BypassInit
<1>2. IsFiniteSet({}) /\ Cardinality({}) = 0
  BY FS_EmptySet
<1> QED
  BY <1>1, <1>2, BypassSessionsAssumption
  DEF BypassInit, IInv, BypassTypeOK, SeenBounded, DroppedOnlyWhenCrowded,
      BypassSessionsAssumption

(* No operation of the table disturbs the invariant.                       *)
LEMMA BypassStepInv == ASSUME IInv, [BypassNext]_bypassVars PROVE IInv'
<1>1. ASSUME NEW s \in Sessions, Mark(s) PROVE IInv'
  <2> DEFINE table == With(seen, s, now)
  <2>1. DOMAIN table = DOMAIN seen \cup {s} /\ IsFiniteSet(DOMAIN table)
    <3>1. IsFiniteSet(DOMAIN seen)
      BY FS_Subset DEF IInv, BypassTypeOK
    <3> QED
      BY <3>1, FS_AddElement DEF With
  <2>2. Cardinality(DOMAIN table) \in Nat
    BY <2>1, FS_CardinalityType
  <2>3. CASE Cardinality(DOMAIN table) > MaxSeen
    <3>1. PICK kept \in Survivors(table) : seen' = Only(table, kept)
      BY <1>1, <2>3 DEF Mark
    <3>2. kept \in SUBSET DOMAIN table /\ Cardinality(kept) = MaxSeen
      BY DEF Survivors
    <3>3. Cardinality(kept) <= MaxSeen
      BY <3>2, BypassSessionsAssumption DEF BypassSessionsAssumption
    <3> QED
      BY <1>1, <3>1, <3>2, <3>3, Entered DEF Mark
  <2>4. CASE ~(Cardinality(DOMAIN table) > MaxSeen)
    <3>1. seen' = Only(table, DOMAIN table)
      BY <1>1, <2>4 DEF Mark, Only, With
    <3>2. Cardinality(DOMAIN table) <= MaxSeen
      BY <2>2, <2>4, BypassSessionsAssumption DEF BypassSessionsAssumption
    <3> QED
      BY <1>1, <3>1, <3>2, Entered DEF Mark
  <2> QED
    BY <2>3, <2>4
<1>2. ASSUME NEW s \in Sessions, Use(s) PROVE IInv'
  <2> DEFINE table == With(seen, s, now)
  <2>1. DOMAIN table = DOMAIN seen
    BY <1>2 DEF Use, With
  <2>2. seen' = Only(table, DOMAIN table)
    BY <1>2 DEF Use, Refresh, Only, With
  <2>3. Cardinality(DOMAIN table) <= MaxSeen
    BY <2>1 DEF IInv, SeenBounded
  <2> QED
    BY <1>2, <2>2, <2>3, Entered DEF Use
<1>3. CASE Tick
  BY <1>3 DEF Tick, IInv, BypassTypeOK, SeenBounded, DroppedOnlyWhenCrowded,
              NewerThan
<1>4. CASE UNCHANGED bypassVars
  BY <1>4 DEF bypassVars, IInv, BypassTypeOK, SeenBounded,
              DroppedOnlyWhenCrowded, NewerThan
<1> QED
  BY <1>1, <1>2, <1>3, <1>4 DEF BypassNext

THEOREM Inductive == BypassSpec => []IInv
BY BypassInitInv, BypassStepInv, PTL DEF BypassSpec

(* Every variable has its type.                                            *)
THEOREM TypeCorrect == BypassSpec => []BypassTypeOK
<1>1. IInv => BypassTypeOK
  BY DEF IInv
<1> QED
  BY <1>1, Inductive, PTL

(* The table never holds more than MaxSeen sessions.                       *)
THEOREM BoundCorrect == BypassSpec => []SeenBounded
<1>1. IInv => SeenBounded
  BY DEF IInv
<1> QED
  BY <1>1, Inductive, PTL

(* A session leaves the table only when MaxSeen others were used since.    *)
THEOREM DropCorrect == BypassSpec => []DroppedOnlyWhenCrowded
<1>1. IInv => DroppedOnlyWhenCrowded
  BY DEF IInv
<1> QED
  BY <1>1, Inductive, PTL
=============================================================================
