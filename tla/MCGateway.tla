----------------------------- MODULE MCGateway -----------------------------
(* Finite instances of Gateway.                                            *)
EXTENDS Gateway, TLC

CONSTANTS v1, v2, s1, s2

Open(v) == [value |-> v, protected |-> FALSE]
Kept(v) == [value |-> v, protected |-> TRUE]

Text(b, m, h) == [shape |-> "text", body |-> b, marker |-> m,
                  header |-> h, top |-> None, nested |-> {}]

(* Texts: one value or the other, both, one of them protected; and every   *)
(* other shape of request.                                                 *)
Texts ==
  {Text(b, FALSE, None) : b \in {<<Open(v1)>>, <<Open(v2), Open(v1)>>,
                                <<Kept(v1), Open(v2)>>, <<Kept(v1), Open(v1)>>}}
TextOffers ==
  Texts \cup {[Text(<<Open(v1)>>, FALSE, None) EXCEPT !.shape = s] :
              s \in {"binary", "unreadable"}}
          \cup {[NoOffer EXCEPT !.shape = s] : s \in {"none", "empty"}}
          \cup {[Text(<<Open(v2)>>, TRUE, s1) EXCEPT !.shape = "encoded"],
               Text(<<Open(v2)>>, TRUE, s1), Text(<<Open(v1)>>, TRUE, None)}

(* Requests of sessions, named in the header, in the body, or deep down;   *)
(* what they hold does not matter to the table.                            *)
SessionOffers ==
  {Text(<<>>, m, s) : m \in BOOLEAN, s \in {s1, s2}}
    \cup {[Text(<<>>, m, h) EXCEPT !.nested = {s1, s2}] :
            m \in BOOLEAN, h \in {None, s1}}
    \cup {[Text(<<>>, FALSE, None) EXCEPT !.top = s2]}

ConversationOffers == {Text(<<Open(v)>>, FALSE, None) : v \in {v1, v2}}

Symmetry == Permutations(Requests)
=============================================================================
