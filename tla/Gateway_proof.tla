---------------------------- MODULE Gateway_proof ----------------------------
(* Proofs about Gateway, for any requests, offers, values and settings.    *)
EXTENDS Gateway, BypassSessions_proof

-----------------------------------------------------------------------------
(* Placeholders and mappings.  A set of numbers has a least one.           *)
LEMMA Least ==
  ASSUME NEW S \in SUBSET Nat, S # {}
  PROVE  \E m \in S : \A n \in S : m <= n
<1> DEFINE R == OpToRel(<, Nat)
<1>1. IsWellFoundedOn(R, Nat)
  BY NatLessThanWellFounded
<1>2. \A x, y \in Nat : x < y => <<x, y>> \in R
  BY DEF OpToRel
<1> HIDE DEF R
<1>3. PICK m \in S : \A n \in S : ~(<<n, m>> \in R)
  BY <1>1, WFMin
<1>4. ASSUME NEW n \in S PROVE m <= n
  <2>1. m \in Nat /\ n \in Nat /\ ~(<<n, m>> \in R)
    BY <1>3
  <2>2. ~(n < m)
    BY <1>2, <2>1
  <2> QED
    BY <2>1, <2>2
<1> QED
  BY <1>4

LEMMA FieldFacts ==
  ASSUME NEW b \in Seq(Field), NEW i \in DOMAIN b
  PROVE  b[i] \in Field /\ b[i].value \in Values
<1>1. b[i] \in Field
  OBVIOUS
<1> QED
  BY <1>1 DEF Field

(* The first field of a body that holds a value.                           *)
LEMMA FirstAtFacts ==
  ASSUME NEW b \in Seq(Field), NEW k \in DOMAIN b
  PROVE  /\ FirstAt(b, b[k].value) \in DOMAIN b
         /\ b[FirstAt(b, b[k].value)].value = b[k].value
         /\ \A j \in DOMAIN b : b[j].value = b[k].value => FirstAt(b, b[k].value) <= j
<1> DEFINE S == {i \in DOMAIN b : b[i].value = b[k].value}
<1>1. S \in SUBSET Nat /\ k \in S
  OBVIOUS
<1>2. PICK m \in S : \A n \in S : m <= n
  BY <1>1, Least
<1> QED
  BY <1>2 DEF FirstAt

(* A placeholder's index is the number of values that appeared earlier.    *)
Earlier(b, i) == {b[j].value : j \in 1 .. i - 1}

LEMMA EarlierFinite ==
  ASSUME NEW b \in Seq(Field), NEW i \in DOMAIN b
  PROVE  IsFiniteSet(Earlier(b, i)) /\ Cardinality(Earlier(b, i)) \in Nat
<1>1. IsFiniteSet(1 .. i - 1)
  BY FS_Interval
<1>2. [j \in 1 .. i - 1 |-> b[j].value] \in Surjection(1 .. i - 1, Earlier(b, i))
  BY DEF Surjection, Earlier
<1> QED
  BY <1>1, <1>2, FS_Surjection, FS_CardinalityType

LEMMA PlaceholderType ==
  ASSUME NEW b \in Seq(Field), NEW k \in DOMAIN b
  PROVE  /\ PlaceholderOf(b, b[k].value) \in [index : Nat]
         /\ PlaceholderOf(b, b[k].value) \notin Values
<1> DEFINE i == FirstAt(b, b[k].value)
<1>1. Cardinality(Earlier(b, i)) \in Nat
  BY FirstAtFacts, EarlierFinite
<1>2. PlaceholderOf(b, b[k].value) = [index |-> Cardinality(Earlier(b, i))]
  BY DEF PlaceholderOf, Placeholder, Earlier
<1> HIDE DEF i
<1> QED
  BY <1>1, <1>2, GatewayAssumption DEF GatewayAssumption

(* A value that appears later has a larger index ...                       *)
LEMMA LaterIsLarger ==
  ASSUME NEW b \in Seq(Field), NEW k \in DOMAIN b, NEW l \in DOMAIN b,
         FirstAt(b, b[k].value) < FirstAt(b, b[l].value)
  PROVE  PlaceholderOf(b, b[k].value) # PlaceholderOf(b, b[l].value)
<1> DEFINE v == b[k].value
           i == FirstAt(b, b[k].value)
           j == FirstAt(b, b[l].value)
<1>1. /\ i \in DOMAIN b /\ j \in DOMAIN b /\ i < j /\ b[i].value = v
      /\ \A n \in DOMAIN b : b[n].value = v => i <= n
  BY FirstAtFacts
<1> HIDE DEF v, i, j
<1>2. Earlier(b, i) \subseteq Earlier(b, j) /\ v \in Earlier(b, j) /\ v \notin Earlier(b, i)
  <2>1. i \in Nat /\ j \in Nat /\ i \in 1 .. j - 1 /\ 1 .. i - 1 \subseteq 1 .. j - 1
    BY <1>1
  <2>2. v \in Earlier(b, j)
    BY <1>1, <2>1 DEF Earlier
  <2>3. \A n \in 1 .. i - 1 : n \in DOMAIN b /\ b[n].value # v
    BY <1>1, <2>1
  <2> QED
    BY <2>1, <2>2, <2>3 DEF Earlier
<1>3. /\ IsFiniteSet(Earlier(b, i)) /\ Cardinality(Earlier(b, i)) \in Nat
      /\ IsFiniteSet(Earlier(b, j)) /\ Cardinality(Earlier(b, j)) \in Nat
  BY <1>1, EarlierFinite
<1>4. Cardinality(Earlier(b, i)) # Cardinality(Earlier(b, j))
  BY <1>2, <1>3, FS_Subset
<1> QED
  BY <1>4 DEF PlaceholderOf, Placeholder, Earlier, i, j, v

(* ... so that a placeholder stands for one value.                         *)
LEMMA PlaceholderInjective ==
  ASSUME NEW b \in Seq(Field), NEW k \in DOMAIN b, NEW l \in DOMAIN b,
         PlaceholderOf(b, b[k].value) = PlaceholderOf(b, b[l].value)
  PROVE  b[k].value = b[l].value
<1>1. FirstAt(b, b[k].value) = FirstAt(b, b[l].value)
  BY FirstAtFacts, LaterIsLarger
<1> QED
  BY <1>1, FirstAtFacts

(* The mapping of a body: the placeholders of its open fields, each with   *)
(* its value.                                                              *)
LEMMA MappingFacts ==
  ASSUME NEW b \in Seq(Field), NEW p \in DOMAIN MappingOf(b)
  PROVE  /\ p \in [index : Nat]
         /\ \E i \in DOMAIN b :
              ~b[i].protected /\ b[i].value = MappingOf(b)[p]
              /\ PlaceholderOf(b, b[i].value) = p
<1> DEFINE open == {i \in DOMAIN b : ~b[i].protected}
<1>1. /\ \E i \in open : PlaceholderOf(b, b[i].value) = p
      /\ MappingOf(b)[p] = b[CHOOSE i \in open : PlaceholderOf(b, b[i].value) = p].value
  BY DEF MappingOf
<1>2. PICK i \in open : PlaceholderOf(b, b[i].value) = p /\ MappingOf(b)[p] = b[i].value
  BY <1>1
<1> QED
  BY <1>2, PlaceholderType

LEMMA MappingCovers ==
  ASSUME NEW b \in Seq(Field), NEW k \in DOMAIN b, ~b[k].protected
  PROVE  /\ PlaceholderOf(b, b[k].value) \in DOMAIN MappingOf(b)
         /\ MappingOf(b)[PlaceholderOf(b, b[k].value)] = b[k].value
<1>1. PlaceholderOf(b, b[k].value) \in DOMAIN MappingOf(b)
  BY DEF MappingOf
<1> QED
  BY <1>1, MappingFacts, PlaceholderInjective

-----------------------------------------------------------------------------
(* The inductive invariant, in parts.                                      *)
Places == {"idle", "arrived", "redacting", "ready", "waiting", "answered", "done"}
Paths  == {"none", "rejected", "skipped", "bypassed", "redacted"}

(* Every request has its part of each variable.                            *)
Typed ==
  /\ pc \in [Requests -> Places]
  /\ req \in [Requests -> Offers \cup {NoOffer}]
  /\ prev \in [Requests -> Requests \cup {None}]
  /\ path \in [Requests -> Paths]
  /\ session \in [Requests -> Sessions \cup {None}]
  /\ status \in [Requests -> {0, 200, 400, 502}]
  /\ logged \in [Requests -> SUBSET Values]
  /\ DOMAIN mapping = Requests /\ DOMAIN body = Requests
  /\ DOMAIN again = Requests /\ DOMAIN knows = Requests
  /\ DOMAIN reply = Requests /\ DOMAIN got = Requests

Undecided(r) == pc[r] \in {"idle", "arrived", "redacting"}

Forwarded(r) == path[r] \in {"skipped", "bypassed", "redacted"}

(* A request that is still to be decided has left no trace, and has no     *)
(* session before it is looked at; it ends with a status.                  *)
Fresh ==
  \A r \in Requests :
    /\ Undecided(r) <=> path[r] = "none"
    /\ pc[r] \in {"ready", "waiting", "answered"} => Forwarded(r)
    /\ Undecided(r) => knows[r] = {} /\ again[r] = <<>>
    /\ pc[r] \in {"idle", "arrived"} => session[r] = None
    /\ pc[r] # "done" => got[r] = <<>>
    /\ status[r] # 0 <=> pc[r] = "done"

(* What a decided request sends.                                           *)
Sent(r) ==
  IF path[r] = "redacted" THEN Redacted(r, req[r].body) ELSE Raw(r, req[r].body)

(* The body, the one a retry reads, and the mapping are those of the way   *)
(* the request was decided for.                                            *)
AsDecided ==
  \A r \in Requests :
    /\ Forwarded(r) =>
         body[r] = Sent(r) /\ again[r] \in {<<>>, Sent(r)}
    /\ mapping[r] = IF path[r] = "redacted" THEN MappingOf(req[r].body) ELSE <<>>

Told(c) == \E q \in Requests : Forwarded(q) /\ c \in Cells(Sent(q))

(* The upstream knows nothing but what requests sent.                      *)
KnowsTold == \A r \in Requests : \A c \in knows[r] : Told(c)

(* An answer repeats something the upstream knows.                         *)
Answered(r) == pc[r] = "answered" \/ got[r] # <<>>

AnswersKnown ==
  \A r \in Requests :
    Answered(r) => reply[r] \in [shape : ReplyShapes, cell : knows[r]]

(* The client gets the answer, restored or not.                            *)
Shown(r) ==
  IF Untouched(r) THEN reply[r].cell.shown
  ELSE Restored(mapping[r], reply[r].cell.shown)

GetsAnswer ==
  \A r \in Requests :
    got[r] # <<>> => got[r] = [reply[r].cell EXCEPT !.shown = Shown(r)]

(* A session in the table has a request that carried the marker.           *)
HasMarker(s) ==
  \E q \in Requests : req[q].marker /\ path[q] = "bypassed" /\ session[q] = s

SeenHasMarker == \A s \in DOMAIN seen : HasMarker(s)

GInv ==
  /\ IInv
  /\ Typed
  /\ Fresh
  /\ AsDecided
  /\ KnowsTold
  /\ AnswersKnown
  /\ GetsAnswer
  /\ SeenHasMarker
  /\ BypassNeedsMarker
  /\ LogHoldsReplaced

-----------------------------------------------------------------------------
(* What a request sends is known once it is decided: nothing that any step *)
(* does to a decided request changes what it said or how it was treated.   *)
LEMMA DecidedKept ==
  ASSUME Typed, Fresh, [Next]_vars, NEW q \in Requests, path[q] # "none"
  PROVE  req'[q] = req[q] /\ path'[q] = path[q] /\ session'[q] = session[q]
<1>1. pc[q] \notin {"idle", "arrived", "redacting"}
  BY DEF Fresh, Undecided
<1>2. ASSUME NEW r \in Requests, Arrive(r)
      PROVE  req'[q] = req[q] /\ path'[q] = path[q] /\ session'[q] = session[q]
  BY <1>1, <1>2 DEF Typed, Arrive, Goto
<1>3. ASSUME NEW r \in Requests, Handle(r)
      PROVE  req'[q] = req[q] /\ path'[q] = path[q] /\ session'[q] = session[q]
  <2>1. req' = req
    BY <1>3 DEF Handle, Reject, Skip, BypassByMarker, BypassBySession, Bypass, NoBypass,
                Redact, Send, PassThrough, Restore, ReadFails, Give
  <2>2. path'[q] = path[q] /\ session'[q] = session[q]
    BY <1>1, <1>3 DEF Typed, Handle, Reject, Skip, BypassByMarker, BypassBySession, Bypass,
                NoBypass, Redact, Send, PassThrough, Restore, ReadFails, Give, Goto, End
  <2> QED
    BY <2>1, <2>2
<1>4. ASSUME NEW r \in Requests, Upstream(r) \/ Resend(r)
      PROVE  req' = req /\ path' = path /\ session' = session
  BY <1>4 DEF Upstream, Answer, AnswerPlain, UpstreamFails, Resend
<1>5. CASE UNCHANGED vars \/ (Tick /\ UNCHANGED requestVars)
  BY <1>5 DEF vars, requestVars
<1> QED
  BY <1>2, <1>3, <1>4, <1>5 DEF Next

LEMMA ToldKept ==
  ASSUME Typed, Fresh, [Next]_vars, NEW c, Told(c)
  PROVE  Told(c)'
<1>1. PICK q \in Requests : Forwarded(q) /\ c \in Cells(Sent(q))
  BY DEF Told
<1>2. req'[q] = req[q] /\ path'[q] = path[q]
  BY <1>1, DecidedKept DEF Forwarded
<1>3. Forwarded(q)' /\ Sent(q)' = Sent(q)
  BY <1>1, <1>2 DEF Forwarded, Sent
<1> QED
  BY <1>1, <1>3 DEF Told

LEMMA MarkerKept ==
  ASSUME Typed, Fresh, [Next]_vars, NEW s, HasMarker(s)
  PROVE  HasMarker(s)'
<1>1. PICK q \in Requests : req[q].marker /\ path[q] = "bypassed" /\ session[q] = s
  BY DEF HasMarker
<1>2. req'[q] = req[q] /\ path'[q] = path[q] /\ session'[q] = session[q]
  BY <1>1, DecidedKept
<1> QED
  BY <1>1, <1>2 DEF HasMarker

-----------------------------------------------------------------------------
LEMMA OfferFacts ==
  ASSUME Typed, NEW r \in Requests
  PROVE  req[r].body \in Seq(Field) /\ SessionsOf(req[r]) \subseteq Sessions
<1>1. CASE req[r] = NoOffer
  BY <1>1 DEF NoOffer, SessionsOf
<1>2. CASE req[r] \in Offer
  BY <1>2 DEF Offer, SessionsOf
<1> QED
  BY <1>1, <1>2, GatewayAssumption DEF Typed, GatewayAssumption

(* Every step is a step of the table of sessions, or leaves it alone.      *)
LEMMA TableStep ==
  ASSUME Typed, [Next]_vars
  PROVE  [BypassNext]_bypassVars
<1>1. ASSUME NEW r \in Requests, BypassByMarker(r) \/ BypassBySession(r)
      PROVE  BypassNext
  BY <1>1, OfferFacts DEF BypassByMarker, BypassBySession, BypassNext
<1>2. ASSUME NEW r \in Requests, Arrive(r) \/ Upstream(r) \/ Resend(r)
      PROVE  UNCHANGED bypassVars
  BY <1>2 DEF Arrive, Upstream, Answer, AnswerPlain, UpstreamFails, Resend
<1>3. ASSUME NEW r \in Requests, Handle(r)
      PROVE  [BypassNext]_bypassVars
  BY <1>1, <1>3 DEF Handle, Reject, Skip, NoBypass, Redact, Send, PassThrough, Restore,
                    ReadFails, Give
<1>4. CASE UNCHANGED vars \/ (Tick /\ UNCHANGED requestVars)
  BY <1>4 DEF vars, BypassNext
<1> QED
  BY <1>2, <1>3, <1>4 DEF Next

LEMMA GatewayInit == Init => GInv
<1> SUFFICES ASSUME Init PROVE GInv
  OBVIOUS
<1> USE DEF Init, All
<1>1. IInv
  BY BypassInitInv
<1>2. Typed /\ Fresh
  BY DEF Typed, Fresh, Places, Paths, Undecided, Forwarded
<1>3. AsDecided /\ KnowsTold /\ AnswersKnown /\ GetsAnswer
  BY DEF AsDecided, Forwarded, KnowsTold, AnswersKnown, Answered, GetsAnswer
<1>4. SeenHasMarker
  BY DEF SeenHasMarker, BypassInit
<1>5. BypassNeedsMarker /\ LogHoldsReplaced
  BY DEF BypassNeedsMarker, LogHoldsReplaced
<1> QED
  BY <1>1, <1>2, <1>3, <1>4, <1>5 DEF GInv

(* One lemma per action.  What the upstream was told and what entered the  *)
(* table of sessions stays justified, whatever the step does.              *)
LEMMA ArriveInv == ASSUME GInv, NEW r \in Requests, Arrive(r) PROVE GInv'
<1> USE DEF GInv, Arrive, Goto
<1>1. [Next]_vars
  BY DEF Next
<1>2. IInv'
  BY <1>1, TableStep, BypassStepInv
<1>3. Typed'
  BY DEF Typed, Places
<1>4. Fresh'
  BY DEF Typed, Fresh, Undecided, Forwarded
<1>5. path[r] = "none" /\ knows[r] = {} /\ got[r] = <<>>
  BY DEF Fresh, Undecided
<1>6. AsDecided'
  BY <1>5 DEF AsDecided, Typed, Forwarded, Sent
<1>7. KnowsTold'
  BY <1>1, ToldKept DEF KnowsTold
<1>8. AnswersKnown' /\ GetsAnswer'
  BY DEF Typed, AnswersKnown, Answered, GetsAnswer, Shown, Untouched
<1>9. SeenHasMarker'
  BY <1>1, MarkerKept DEF SeenHasMarker, bypassVars
<1>10. BypassNeedsMarker'
  BY <1>5 DEF BypassNeedsMarker, Typed
<1>11. LogHoldsReplaced'
  BY <1>5 DEF LogHoldsReplaced, Typed
<1> QED
  BY <1>2, <1>3, <1>4, <1>6, <1>7, <1>8, <1>9, <1>10, <1>11

LEMMA RejectInv == ASSUME GInv, NEW r \in Requests, Reject(r) PROVE GInv'
<1> USE DEF GInv, Reject, End, Goto
<1>1. [Next]_vars
  BY DEF Next, Handle
<1>2. IInv'
  BY <1>1, TableStep, BypassStepInv
<1>3. Typed'
  BY DEF Typed, Places, Paths
<1>4. pc[r] = "arrived" /\ path[r] = "none" /\ knows[r] = {} /\ got[r] = <<>>
  BY DEF Fresh, Undecided
<1>5. Fresh'
  BY <1>4 DEF Typed, Fresh, Undecided, Forwarded
<1>6. AsDecided'
  BY <1>4 DEF AsDecided, Typed, Forwarded, Sent
<1>7. KnowsTold'
  BY <1>1, ToldKept DEF KnowsTold
<1>8. AnswersKnown' /\ GetsAnswer'
  BY <1>4 DEF Typed, AnswersKnown, Answered, GetsAnswer, Shown, Untouched
<1>9. SeenHasMarker'
  BY <1>1, MarkerKept DEF SeenHasMarker, bypassVars
<1>10. BypassNeedsMarker' /\ LogHoldsReplaced'
  BY <1>4 DEF BypassNeedsMarker, LogHoldsReplaced, Typed
<1> QED
  BY <1>2, <1>3, <1>5, <1>6, <1>7, <1>8, <1>9, <1>10

LEMMA SkipInv == ASSUME GInv, NEW r \in Requests, Skip(r) PROVE GInv'
<1> USE DEF GInv, Skip, Goto
<1>1. [Next]_vars
  BY DEF Next, Handle
<1>2. IInv'
  BY <1>1, TableStep, BypassStepInv
<1>3. Typed'
  BY DEF Typed, Places, Paths
<1>4. pc[r] = "arrived" /\ path[r] = "none" /\ again[r] = <<>> /\ got[r] = <<>>
  BY DEF Fresh, Undecided
<1>5. Fresh'
  BY <1>4 DEF Typed, Fresh, Undecided, Forwarded
<1>6. AsDecided'
  BY <1>4 DEF AsDecided, Typed, Forwarded, Sent
<1>7. KnowsTold'
  BY <1>1, ToldKept DEF KnowsTold
<1>8. AnswersKnown' /\ GetsAnswer'
  BY <1>4 DEF Typed, AnswersKnown, Answered, GetsAnswer, Shown, Untouched
<1>9. SeenHasMarker'
  BY <1>1, MarkerKept DEF SeenHasMarker, bypassVars
<1>10. BypassNeedsMarker' /\ LogHoldsReplaced'
  BY <1>4 DEF BypassNeedsMarker, LogHoldsReplaced, Typed
<1> QED
  BY <1>2, <1>3, <1>5, <1>6, <1>7, <1>8, <1>9, <1>10

(* A request is let through because of a session that has the marker now.  *)
LEMMA BypassInv ==
  ASSUME GInv, [Next]_vars, NEW r \in Requests, NEW s \in Sessions, Bypass(r, s),
         DOMAIN seen' \subseteq DOMAIN seen \cup {s},
         req[r].marker \/ HasMarker(s)
  PROVE  GInv'
<1> USE DEF GInv, Bypass, Goto, ReplaceBody
<1>1. IInv'
  BY TableStep, BypassStepInv
<1>2. Typed'
  BY DEF Typed, Places, Paths
<1>3. pc[r] = "arrived" /\ path[r] = "none" /\ got[r] = <<>>
  BY DEF Fresh, Undecided
<1>4. Fresh'
  BY <1>3 DEF Typed, Fresh, Undecided, Forwarded
<1>5. AsDecided'
  BY <1>3 DEF AsDecided, Typed, Forwarded, Sent
<1>6. KnowsTold'
  BY ToldKept DEF KnowsTold
<1>7. AnswersKnown' /\ GetsAnswer'
  BY <1>3 DEF Typed, AnswersKnown, Answered, GetsAnswer, Shown, Untouched
<1>8. HasMarker(s)'
  <2>1. CASE req[r].marker
    BY <2>1 DEF Typed, HasMarker
  <2>2. CASE HasMarker(s)
    BY <2>2, MarkerKept
  <2> QED
    BY <2>1, <2>2
<1>9. SeenHasMarker'
  BY <1>8, MarkerKept DEF SeenHasMarker
<1>10. BypassNeedsMarker'
  <2> SUFFICES ASSUME NEW q \in Requests, path'[q] = "bypassed"
               PROVE  \E p \in Requests : /\ req'[p].marker /\ path'[p] = "bypassed"
                                          /\ session'[p] = session'[q]
    BY DEF BypassNeedsMarker
  <2>1. CASE q = r
    BY <1>8, <2>1 DEF Typed, HasMarker
  <2>2. CASE q # r
    <3>1. path[q] = "bypassed" /\ session'[q] = session[q]
      BY <2>2 DEF Typed
    <3>2. PICK p \in Requests :
            req[p].marker /\ path[p] = "bypassed" /\ session[p] = session[q]
      BY <3>1 DEF BypassNeedsMarker
    <3> QED
      BY <3>1, <3>2, DecidedKept
  <2> QED
    BY <2>1, <2>2
<1>11. LogHoldsReplaced'
  BY <1>3 DEF LogHoldsReplaced, Typed
<1> QED
  BY <1>1, <1>2, <1>4, <1>5, <1>6, <1>7, <1>9, <1>10, <1>11

LEMMA BypassByMarkerInv == ASSUME GInv, NEW r \in Requests, BypassByMarker(r) PROVE GInv'
<1>1. [Next]_vars
  BY DEF Next, Handle
<1>2. PICK s \in SessionsOf(req[r]) : Bypass(r, s) /\ Mark(s) /\ req[r].marker
  BY DEF BypassByMarker
<1>3. s \in Sessions
  BY OfferFacts DEF GInv
<1>4. DOMAIN seen' \subseteq DOMAIN seen \cup {s}
  BY <1>2 DEF Mark, Survivors, Only, With
<1> QED
  BY <1>1, <1>2, <1>3, <1>4, BypassInv

LEMMA BypassBySessionInv == ASSUME GInv, NEW r \in Requests, BypassBySession(r) PROVE GInv'
<1>1. [Next]_vars
  BY DEF Next, Handle
<1>2. PICK s \in SessionsOf(req[r]) : Bypass(r, s) /\ Use(s)
  BY DEF BypassBySession
<1>3. s \in Sessions
  BY OfferFacts DEF GInv
<1>4. DOMAIN seen' \subseteq DOMAIN seen \cup {s}
  BY <1>2 DEF Use, Refresh, With
<1>5. HasMarker(s)
  BY <1>2 DEF Use, GInv, SeenHasMarker
<1> QED
  BY <1>1, <1>2, <1>3, <1>4, <1>5, BypassInv

LEMMA NoBypassInv == ASSUME GInv, NEW r \in Requests, NoBypass(r) PROVE GInv'
<1> USE DEF GInv, NoBypass, Goto
<1>1. [Next]_vars
  BY DEF Next, Handle
<1>2. IInv'
  BY <1>1, TableStep, BypassStepInv
<1>3. Typed'
  BY OfferFacts DEF Typed, Places
<1>4. pc[r] = "arrived" /\ path[r] = "none" /\ got[r] = <<>>
  BY DEF Fresh, Undecided
<1>5. Fresh'
  BY <1>4 DEF Typed, Fresh, Undecided, Forwarded
<1>6. AsDecided'
  BY DEF AsDecided, Forwarded, Sent
<1>7. KnowsTold'
  BY <1>1, ToldKept DEF KnowsTold
<1>8. AnswersKnown' /\ GetsAnswer'
  BY <1>4 DEF Typed, AnswersKnown, Answered, GetsAnswer, Shown, Untouched
<1>9. SeenHasMarker'
  BY <1>1, MarkerKept DEF SeenHasMarker, bypassVars
<1>10. BypassNeedsMarker' /\ LogHoldsReplaced'
  BY <1>4 DEF BypassNeedsMarker, LogHoldsReplaced, Typed
<1> QED
  BY <1>2, <1>3, <1>5, <1>6, <1>7, <1>8, <1>9, <1>10

LEMMA RedactInv == ASSUME GInv, NEW r \in Requests, Redact(r) PROVE GInv'
<1> USE DEF GInv, Redact, Goto, ReplaceBody, WithMapping
<1>1. [Next]_vars
  BY DEF Next, Handle
<1>2. IInv'
  BY <1>1, TableStep, BypassStepInv
<1>3. PICK originals \in SUBSET Values :
        /\ \A v \in originals : \E i \in DOMAIN req[r].body :
             req[r].body[i] = [value |-> v, protected |-> FALSE]
        /\ Log(r, originals, Redacted(r, req[r].body))
  <2> DEFINE b == req[r].body
             S == {f.value : f \in {g \in Cells(b) : ~g.protected}}
  <2>1. \A i \in DOMAIN b : b[i] \in Field
    BY OfferFacts
  <2>2. \A v \in S : v \in Values /\ \E i \in DOMAIN b : b[i] = [value |-> v, protected |-> FALSE]
    BY ZenonT(60), <2>1 DEF Cells, Field
  <2> QED
    BY <2>2
<1>4. pc[r] = "redacting" /\ path[r] = "none" /\ knows[r] = {} /\ got[r] = <<>>
  BY DEF Fresh, Undecided
<1>5. Typed'
  <2>1. logged' \in [Requests -> SUBSET Values]
    BY <1>3 DEF Log, Typed
  <2> QED
    BY <2>1 DEF Typed, Places, Paths
<1>6. Fresh'
  BY <1>4 DEF Typed, Fresh, Undecided, Forwarded
<1>7. AsDecided'
  BY <1>4 DEF AsDecided, Typed, Forwarded, Sent
<1>8. KnowsTold'
  BY <1>1, ToldKept DEF KnowsTold
<1>9. AnswersKnown' /\ GetsAnswer'
  BY <1>4 DEF Typed, AnswersKnown, Answered, GetsAnswer, Shown, Untouched
<1>10. SeenHasMarker'
  BY <1>1, MarkerKept DEF SeenHasMarker, bypassVars
<1>11. BypassNeedsMarker'
  BY <1>4 DEF BypassNeedsMarker, Typed
<1>12. LogHoldsReplaced'
  BY <1>3, <1>4 DEF LogHoldsReplaced, Typed, Log, LogsDetails, LogsBodies
<1> QED
  BY <1>2, <1>5, <1>6, <1>7, <1>8, <1>9, <1>10, <1>11, <1>12

LEMMA SendInv == ASSUME GInv, NEW r \in Requests, Send(r) PROVE GInv'
<1> USE DEF GInv, Send, Goto
<1>1. [Next]_vars
  BY DEF Next, Handle
<1>2. IInv'
  BY <1>1, TableStep, BypassStepInv
<1>3. Typed' /\ Fresh'
  BY DEF Typed, Places, Fresh, Undecided, Forwarded
<1>4. pc[r] = "ready" /\ got[r] = <<>> /\ Forwarded(r)
  BY DEF Fresh
<1>5. AsDecided'
  BY DEF AsDecided, Forwarded, Sent
<1>6. KnowsTold'
  <2>1. ASSUME NEW c \in Cells(body[r]) PROVE Told(c)
    BY <1>4, <2>1 DEF AsDecided, Told, Cells
  <2>2. \A q \in Requests : \A c \in knows'[q] : Told(c)
    BY <2>1 DEF KnowsTold, Typed
  <2> QED
    BY <1>1, <2>2, ToldKept DEF KnowsTold
<1>7. AnswersKnown' /\ GetsAnswer'
  BY <1>4 DEF Typed, AnswersKnown, Answered, GetsAnswer, Shown, Untouched
<1>8. SeenHasMarker'
  BY <1>1, MarkerKept DEF SeenHasMarker, bypassVars
<1>9. BypassNeedsMarker' /\ LogHoldsReplaced'
  BY DEF BypassNeedsMarker, LogHoldsReplaced
<1> QED
  BY <1>2, <1>3, <1>5, <1>6, <1>7, <1>8, <1>9

LEMMA ResendInv == ASSUME GInv, NEW r \in Requests, Resend(r) PROVE GInv'
<1> USE DEF GInv, Resend
<1>1. [Next]_vars
  BY DEF Next, Handle
<1>2. IInv'
  BY <1>1, TableStep, BypassStepInv
<1>3. Typed' /\ Fresh'
  BY DEF Typed, Places, Fresh, Undecided, Forwarded
<1>4. pc[r] = "waiting" /\ got[r] = <<>> /\ Forwarded(r)
  BY DEF Fresh
<1>5. AsDecided'
  BY DEF AsDecided, Forwarded, Sent
<1>6. KnowsTold'
  <2>1. ASSUME NEW c \in Cells(again[r]) PROVE Told(c)
    BY <1>4, <2>1 DEF AsDecided, Told, Cells
  <2>2. \A q \in Requests : \A c \in knows'[q] : Told(c)
    BY <2>1 DEF KnowsTold, Typed
  <2> QED
    BY <1>1, <2>2, ToldKept DEF KnowsTold
<1>7. AnswersKnown' /\ GetsAnswer'
  BY <1>4 DEF Typed, AnswersKnown, Answered, GetsAnswer, Shown, Untouched
<1>8. SeenHasMarker'
  BY <1>1, MarkerKept DEF SeenHasMarker, bypassVars
<1>9. BypassNeedsMarker' /\ LogHoldsReplaced'
  BY DEF BypassNeedsMarker, LogHoldsReplaced
<1> QED
  BY <1>2, <1>3, <1>5, <1>6, <1>7, <1>8, <1>9

LEMMA AnswerInv == ASSUME GInv, NEW r \in Requests, Answer(r) PROVE GInv'
<1> USE DEF GInv, Answer, Goto
<1>1. [Next]_vars
  BY DEF Next, Upstream
<1>2. IInv'
  BY <1>1, TableStep, BypassStepInv
<1>3. Typed' /\ Fresh'
  BY DEF Typed, Places, Fresh, Undecided, Forwarded
<1>4. AsDecided'
  BY DEF AsDecided, Forwarded, Sent
<1>5. KnowsTold'
  BY <1>1, ToldKept DEF KnowsTold
<1>6. AnswersKnown' /\ GetsAnswer'
  <2>1. got[r] = <<>>
    BY DEF Fresh
  <2> QED
    BY <2>1 DEF Typed, AnswersKnown, Answered, GetsAnswer, Shown, Untouched
<1>7. SeenHasMarker'
  BY <1>1, MarkerKept DEF SeenHasMarker, bypassVars
<1>8. BypassNeedsMarker' /\ LogHoldsReplaced'
  BY DEF BypassNeedsMarker, LogHoldsReplaced
<1> QED
  BY <1>2, <1>3, <1>4, <1>5, <1>6, <1>7, <1>8

(* The request ends, and the client gets nothing of an answer.             *)
LEMMA EndWithoutAnswerInv == ASSUME GInv, NEW r \in Requests, AnswerPlain(r) \/ UpstreamFails(r) \/ ReadFails(r) PROVE GInv'
<1> USE DEF GInv, AnswerPlain, UpstreamFails, ReadFails, End, Goto
<1>1. [Next]_vars
  BY DEF Next, Upstream, Handle
<1>2. IInv'
  BY <1>1, TableStep, BypassStepInv
<1>3. Typed' /\ Fresh'
  BY DEF Typed, Places, Fresh, Undecided, Forwarded
<1>4. AsDecided'
  BY DEF AsDecided, Forwarded, Sent
<1>5. KnowsTold'
  BY <1>1, ToldKept DEF KnowsTold
<1>6. AnswersKnown' /\ GetsAnswer'
  <2>1. got[r] = <<>>
    BY DEF Fresh
  <2> QED
    BY <2>1 DEF Typed, AnswersKnown, Answered, GetsAnswer, Shown, Untouched
<1>7. SeenHasMarker'
  BY <1>1, MarkerKept DEF SeenHasMarker, bypassVars
<1>8. BypassNeedsMarker' /\ LogHoldsReplaced'
  BY DEF BypassNeedsMarker, LogHoldsReplaced
<1> QED
  BY <1>2, <1>3, <1>4, <1>5, <1>6, <1>7, <1>8

LEMMA GiveInv == ASSUME GInv, NEW r \in Requests, PassThrough(r) \/ Restore(r) PROVE GInv'
<1> USE DEF GInv, Give, End, Goto
<1>1. [Next]_vars
  BY DEF Next, Handle
<1>2. IInv'
  BY <1>1, TableStep, BypassStepInv
<1>3. Give(r, Shown(r)) /\ pc[r] = "answered"
  BY DEF PassThrough, Restore, Shown
<1>4. PICK originals, shown :
        /\ originals # {} \/ shown # {} => mapping[r] # <<>>
        /\ \A v \in originals : \E p \in DOMAIN mapping[r] : v = mapping[r][p]
        /\ shown \subseteq Values
        /\ logged' = [logged EXCEPT ![r] = @ \cup (IF LogsDetails THEN originals ELSE {})
                                            \cup (IF LogsBodies THEN shown ELSE {})]
  <2>1. CASE PassThrough(r)
    <3>1. logged' = [logged EXCEPT ![r] = @ \cup (IF LogsDetails THEN {} ELSE {})
                                          \cup (IF LogsBodies THEN {} ELSE {})]
      BY <2>1 DEF PassThrough, Typed
    <3> QED
      BY <3>1
  <2>2. CASE Restore(r)
    <3> DEFINE seen0 == reply[r].cell.shown
               text  == IF reply[r].shape = "sse" THEN <<>>
                        ELSE <<[shown |-> Restored(mapping[r], seen0)]>>
               some  == {mapping[r][p] : p \in {seen0} \cap DOMAIN mapping[r]}
               all   == {c.shown : c \in Cells(text)} \cap Values
    <3>1. Log(r, some, text) /\ mapping[r] # <<>>
      BY <2>2 DEF Restore, Untouched
    <3>2. logged' = [logged EXCEPT ![r] = @ \cup (IF LogsDetails THEN some ELSE {})
                                          \cup (IF LogsBodies THEN all ELSE {})]
      BY <3>1 DEF Log
    <3>3. (\A v \in some : \E p \in DOMAIN mapping[r] : v = mapping[r][p]) /\ all \subseteq Values
      OBVIOUS
    <3> HIDE DEF some, all
    <3> QED
      BY <3>1, <3>2, <3>3
  <2> QED
    BY <2>1, <2>2
<1>5. \A v \in originals :
        v \in Values /\ \E i \in DOMAIN req[r].body :
                          req[r].body[i] = [value |-> v, protected |-> FALSE]
  <2>1. ASSUME NEW p \in DOMAIN mapping[r]
        PROVE  /\ mapping[r][p] \in Values
               /\ \E i \in DOMAIN req[r].body :
                    req[r].body[i] = [value |-> mapping[r][p], protected |-> FALSE]
    <3>1. mapping[r] = MappingOf(req[r].body)
      BY <2>1 DEF AsDecided
    <3>2. PICK i \in DOMAIN req[r].body :
            ~req[r].body[i].protected /\ req[r].body[i].value = mapping[r][p]
      BY <2>1, <3>1, OfferFacts, MappingFacts
    <3>3. req[r].body[i] \in Field
      BY OfferFacts
    <3> QED
      BY <3>2, <3>3 DEF Field
  <2> QED
    BY SMTT(30), <1>4, <2>1
<1>6. Typed'
  <2>1. logged' \in [Requests -> SUBSET Values]
    BY <1>4, <1>5 DEF Typed
  <2>2. /\ pc' \in [Requests -> Places] /\ status' \in [Requests -> {0, 200, 400, 502}]
        /\ DOMAIN got' = Requests
    BY <1>3 DEF Typed, Places
  <2>3. UNCHANGED <<req, prev, path, session, mapping, body, again, knows, reply>>
    BY <1>3
  <2> QED
    BY <2>1, <2>2, <2>3 DEF Typed
<1>7. Fresh'
  BY <1>3 DEF Typed, Fresh, Undecided, Forwarded
<1>8. AsDecided'
  BY <1>3 DEF AsDecided, Forwarded, Sent
<1>9. KnowsTold'
  BY <1>1, <1>3, ToldKept DEF KnowsTold
<1>10. AnswersKnown'
  BY <1>3 DEF Typed, AnswersKnown, Answered
<1>11. GetsAnswer'
  BY <1>3 DEF Typed, GetsAnswer, Shown, Untouched
<1>12. SeenHasMarker'
  BY <1>1, <1>3, MarkerKept DEF SeenHasMarker, bypassVars
<1>13. BypassNeedsMarker'
  BY <1>3 DEF BypassNeedsMarker
<1>14. LogHoldsReplaced'
  <2>1. mapping[r] # <<>> => path[r] = "redacted"
    BY DEF AsDecided
  <2> QED
    BY <1>3, <1>4, <1>5, <2>1, GatewayAssumption
    DEF LogHoldsReplaced, Typed, LogsDetails, LogsBodies, GatewayAssumption
<1> QED
  BY <1>2, <1>6, <1>7, <1>8, <1>9, <1>10, <1>11, <1>12, <1>13, <1>14

(* The clock, or nothing.                                                  *)
LEMMA TickInv ==
  ASSUME GInv, UNCHANGED requestVars, Tick \/ UNCHANGED bypassVars
  PROVE  GInv'
<1> USE DEF GInv, requestVars
<1>1. [Next]_vars
  BY DEF Next, vars
<1>2. IInv'
  BY <1>1, TableStep, BypassStepInv
<1>3. Typed' /\ Fresh' /\ AsDecided'
  BY DEF Typed, Fresh, Undecided, Forwarded, AsDecided, Sent
<1>4. KnowsTold'
  BY <1>1, ToldKept DEF KnowsTold
<1>5. AnswersKnown' /\ GetsAnswer'
  BY DEF AnswersKnown, Answered, GetsAnswer, Shown, Untouched
<1>6. SeenHasMarker'
  BY <1>1, MarkerKept DEF SeenHasMarker, Tick, bypassVars
<1>7. BypassNeedsMarker' /\ LogHoldsReplaced'
  BY DEF BypassNeedsMarker, LogHoldsReplaced
<1> QED
  BY <1>2, <1>3, <1>4, <1>5, <1>6, <1>7

LEMMA GatewayStep == GInv /\ [Next]_vars => GInv'
<1> SUFFICES ASSUME GInv, [Next]_vars PROVE GInv'
  OBVIOUS
<1>1. ASSUME NEW r \in Requests, Handle(r) PROVE GInv'
  BY <1>1, RejectInv, SkipInv, BypassByMarkerInv, BypassBySessionInv, NoBypassInv,
     RedactInv, SendInv, GiveInv, EndWithoutAnswerInv DEF Handle
<1>2. ASSUME NEW r \in Requests, Upstream(r) PROVE GInv'
  BY <1>2, AnswerInv, EndWithoutAnswerInv DEF Upstream
<1>3. CASE UNCHANGED requestVars /\ (Tick \/ UNCHANGED bypassVars)
  BY <1>3, TickInv
<1> QED
  BY <1>1, <1>2, <1>3, ArriveInv, ResendInv DEF Next, vars

THEOREM GatewayInductive == Spec => []GInv
BY GatewayInit, GatewayStep, PTL DEF Spec

-----------------------------------------------------------------------------
(* Every variable has its type, and the parts of a request agree.          *)
THEOREM GatewayTypeCorrect == Spec => []TypeOK
<1>1. GInv => TypeOK
  <2> SUFFICES ASSUME GInv, NEW r \in Requests
               PROVE  \A p \in DOMAIN mapping[r] :
                        p \in [index : Nat] /\ mapping[r][p] \in Values
    BY DEF GInv, IInv, Typed, Places, Paths, Fresh, TypeOK
  <2> SUFFICES ASSUME NEW p \in DOMAIN mapping[r]
               PROVE  p \in [index : Nat] /\ mapping[r][p] \in Values
    OBVIOUS
  <2>1. mapping[r] = MappingOf(req[r].body)
    BY DEF GInv, AsDecided
  <2>2. req[r].body \in Seq(Field)
    BY OfferFacts DEF GInv
  <2>3. p \in [index : Nat]
    BY <2>1, <2>2, MappingFacts
  <2>4. PICK i \in DOMAIN req[r].body : req[r].body[i].value = mapping[r][p]
    BY <2>1, <2>2, MappingFacts
  <2> QED
    BY <2>2, <2>3, <2>4, FieldFacts
<1> QED
  BY <1>1, GatewayInductive, PTL

(* The requests use the table of sessions as its own module says: what is  *)
(* proved there holds of the gateway.                                      *)
THEOREM GatewayUsesTable == Spec => BypassSpec
<1>1. Init => BypassInit
  BY DEF Init
<1>2. GInv /\ [Next]_vars => [BypassNext]_bypassVars
  BY TableStep DEF GInv
<1> QED
  BY <1>1, <1>2, GatewayInductive, PTL DEF Spec, BypassSpec

(* What the upstream knows was sent by a decided request.                  *)
LEMMA ToldFacts ==
  ASSUME GInv, NEW c, Told(c)
  PROVE  /\ c.from \in Requests /\ c.at \in DOMAIN req[c.from].body
         /\ Forwarded(c.from)
         /\ DOMAIN c = {"shown", "meant", "from", "at"}
         /\ c.meant = req[c.from].body[c.at].value
         /\ c.shown = IF path[c.from] = "redacted" /\ ~req[c.from].body[c.at].protected
                      THEN PlaceholderOf(req[c.from].body, c.meant)
                      ELSE c.meant
<1>1. PICK q \in Requests : Forwarded(q) /\ c \in Cells(Sent(q))
  BY DEF Told
<1>2. PICK i \in DOMAIN req[q].body : c = Sent(q)[i]
  BY <1>1 DEF Sent, Cells, Raw, Redacted
<1> QED
  BY <1>1, <1>2 DEF Sent, Raw, Redacted, Cell

(* A value reaches the upstream as it is only from what is protected or    *)
(* from a request that is not redacted.                                    *)
THEOREM RawOnlyByOptOutCorrect == Spec => []RawOnlyByOptOut
<1>1. GInv => RawOnlyByOptOut
  <2> SUFFICES ASSUME GInv, NEW r \in Requests, NEW c \in knows[r], c.shown = c.meant,
                      path[c.from] \notin {"skipped", "bypassed"},
                      ~req[c.from].body[c.at].protected
               PROVE  FALSE
    BY DEF RawOnlyByOptOut
  <2>1. Told(c)
    BY DEF GInv, KnowsTold
  <2>2. c.from \in Requests /\ req[c.from].body \in Seq(Field)
    BY <2>1, ToldFacts, OfferFacts DEF GInv
  <2>3. c.shown = PlaceholderOf(req[c.from].body, c.meant)
    BY <2>1, ToldFacts DEF Forwarded
  <2>4. c.at \in DOMAIN req[c.from].body /\ c.meant = req[c.from].body[c.at].value
    BY <2>1, ToldFacts
  <2>5. c.meant \in Values
    BY <2>2, <2>4, FieldFacts
  <2> QED
    BY <2>2, <2>3, <2>4, <2>5, PlaceholderType
<1> QED
  BY <1>1, GatewayInductive, PTL

(* Requests do not read each other's mapping.                              *)
THEOREM NobodyElsesValuesCorrect == Spec => []NobodyElsesValues
<1>1. GInv => NobodyElsesValues
  <2> SUFFICES ASSUME GInv, NEW r \in Requests, got[r] # <<>>,
                      got[r].shown # reply[r].cell.shown
               PROVE  \E i \in DOMAIN req[r].body : req[r].body[i].value = got[r].shown
    BY DEF NobodyElsesValues
  <2>1. Told(reply[r].cell)
    BY DEF GInv, AnswersKnown, Answered, KnowsTold
  <2>2. got[r] = [reply[r].cell EXCEPT !.shown = Shown(r)] /\ "shown" \in DOMAIN reply[r].cell
    BY <2>1, ToldFacts DEF GInv, GetsAnswer
  <2>3. got[r].shown = Shown(r)
    BY <2>2
  <2>4. reply[r].cell.shown \in DOMAIN mapping[r]
        /\ got[r].shown = mapping[r][reply[r].cell.shown]
    BY <2>3 DEF Shown, Restored
  <2>5. mapping[r] = MappingOf(req[r].body) /\ req[r].body \in Seq(Field)
    BY <2>4, OfferFacts DEF GInv, AsDecided
  <2> QED
    BY <2>4, <2>5, MappingFacts
<1> QED
  BY <1>1, GatewayInductive, PTL

(* What the upstream repeats of one request is what that client reads.     *)
THEOREM TransparentInOneTurnCorrect == Spec => []TransparentInOneTurn
<1>1. GInv => TransparentInOneTurn
  <2> SUFFICES ASSUME GInv, NEW r \in Requests, got[r] # <<>>,
                      reply[r].shape \in {"text", "sse"}, got[r].from = r
               PROVE  got[r].shown = got[r].meant
    BY DEF TransparentInOneTurn, Readable
  <2> DEFINE c == reply[r].cell
             b == req[r].body
  <2>1. Told(c)
    BY DEF GInv, AnswersKnown, Answered, KnowsTold
  <2>2. got[r] = [c EXCEPT !.shown = Shown(r)]
    BY DEF GInv, GetsAnswer
  <2>3. DOMAIN c = {"shown", "meant", "from", "at"}
    BY <2>1, ToldFacts
  <2>4. got[r].shown = Shown(r) /\ got[r].meant = c.meant /\ c.from = r
    BY <2>2, <2>3
  <2>5. /\ c.at \in DOMAIN b /\ Forwarded(r) /\ c.meant = b[c.at].value
        /\ c.shown = IF path[r] = "redacted" /\ ~b[c.at].protected
                     THEN PlaceholderOf(b, c.meant) ELSE c.meant
    BY <2>1, <2>4, ToldFacts
  <2>6. b \in Seq(Field) /\ c.meant \in Values
    BY <2>5, OfferFacts, FieldFacts DEF GInv
  <2>7. mapping[r] = IF path[r] = "redacted" THEN MappingOf(b) ELSE <<>>
    BY DEF GInv, AsDecided
  <2> HIDE DEF c, b
  <2>8. CASE path[r] # "redacted"
    BY <2>4, <2>5, <2>7, <2>8 DEF Shown, Untouched, c
  <2>9. CASE path[r] = "redacted" /\ b[c.at].protected
    <3>1. c.meant \notin DOMAIN mapping[r]
      BY <2>6, <2>7, <2>9, MappingFacts, GatewayAssumption DEF GatewayAssumption
    <3> QED
      BY <2>4, <2>5, <2>9, <3>1 DEF Shown, Restored, c
  <2>10. CASE path[r] = "redacted" /\ ~b[c.at].protected
    <3>1. c.shown \in DOMAIN mapping[r] /\ mapping[r][c.shown] = c.meant
      BY <2>5, <2>6, <2>7, <2>10, MappingCovers
    <3>2. ~Untouched(r)
      BY <3>1 DEF Untouched
    <3> QED
      BY <2>4, <3>1, <3>2 DEF Shown, Restored, c
  <2> QED
    BY <2>8, <2>9, <2>10
<1> QED
  BY <1>1, GatewayInductive, PTL

(* The log of a request holds only what the gateway replaced in it.        *)
THEOREM LogHoldsReplacedCorrect == Spec => []LogHoldsReplaced
<1>1. GInv => LogHoldsReplaced
  BY DEF GInv
<1> QED
  BY <1>1, GatewayInductive, PTL

(* Nobody is let through whose session never carried the marker.           *)
THEOREM BypassNeedsMarkerCorrect == Spec => []BypassNeedsMarker
<1>1. GInv => BypassNeedsMarker
  BY DEF GInv
<1> QED
  BY <1>1, GatewayInductive, PTL

(* A session that opted out is redacted again only when it was crowded out *)
(* of the table.                                                           *)
THEOREM OptOutCorrect == Spec => OptOutHolds
<1> DEFINE Held == \A r \in Requests, s \in Sessions :
                     DecidedRedacted(r, s) /\ s \in DOMAIN last =>
                       Cardinality(NewerThan(s)) >= MaxSeen
<1>1. GInv /\ [Next]_vars => [Held]_vars
  <2> SUFFICES ASSUME GInv, Next, NEW r \in Requests, NEW s \in Sessions,
                      DecidedRedacted(r, s), s \in DOMAIN last
               PROVE  Cardinality(NewerThan(s)) >= MaxSeen
    OBVIOUS
  <2>1. NoBypass(r)
    <3>1. ASSUME NEW q \in Requests, Arrive(q) \/ Handle(q) \/ Upstream(q) \/ Resend(q)
          PROVE  NoBypass(r)
      BY <3>1 DEF DecidedRedacted, GInv, Typed, Arrive, Handle, Upstream, Resend, Reject, Skip,
         BypassByMarker, BypassBySession, Bypass, NoBypass, Redact, Send, PassThrough,
         Restore, ReadFails, Give, Answer, AnswerPlain, UpstreamFails, End, Goto
    <3> QED
      BY <3>1 DEF Next, DecidedRedacted, requestVars
  <2>2. session[r] = None
    BY DEF DecidedRedacted, GInv, Fresh
  <2>3. s # None
    BY GatewayAssumption DEF GatewayAssumption
  <2>4. s \notin DOMAIN seen
    BY <2>1, <2>2, <2>3 DEF NoBypass, DecidedRedacted, GInv, Typed
  <2> QED
    BY <2>4 DEF GInv, IInv, DroppedOnlyWhenCrowded
<1> QED
  BY <1>1, GatewayInductive, PTL DEF Spec, OptOutHolds

=============================================================================
