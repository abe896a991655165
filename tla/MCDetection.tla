---------------------------- MODULE MCDetection ----------------------------
(* A finite instance of Detection.                                         *)
EXTENDS Detection

(* Numbers in full length, and what may stand around and between them.     *)
Phone  == <<"1", "3", "8", "1", "2", "3", "4", "5", "6", "7", "8">>
IDNumber == <<"1", "1", "0", "1", "0", "1", "1", "9", "9", "0", "0", "3", "0", "7", "7", "5", "1">>
Card   == <<"6", "2", "2", "2", "0", "2", "1", "2", "3", "4", "5", "6", "7", "8", "9", "4">>
IP     == <<"1", "0", ".", "2", "5", "5", ".", "3", ".", "2", "0">>

Joints == { <<>>, <<" ">>, <<"-">>, <<".">>, <<"1">>, <<"8", "6">>, <<"+", "8", "6", "-">>, <<"X">> }

Numbers ==
  {a \o m \o b \o n \o c : a \in Joints, b \in Joints, c \in {<<>>, <<"X">>, <<"7">>},
     m \in {<<>>, IDNumber, IP, <<"0">>}, n \in {Phone, IDNumber, Card, IP}}

(* Addresses, and what makes them none.                                    *)
Addresses ==
  {a \o b \o <<Email>> \o c : a \in {<<>>, <<SSH>>}, b \in {<<>>, <<Newline>>},
     c \in {<<>>, <<":">>, <<":", " ">>, <<":", Word>>}}

(* Assignments to a key word, with what may be before, around and in the   *)
(* value.                                                                  *)
SecretValues ==
  {<<v>> \o w : v \in {Word, Random, Middling, KnownKey, Email, Placeholder, Template, ControlID,
                       UUID, Hash, Dummy, "7", "!"},
                w \in {<<>>, <<"!", Random>>, <<Backtick, Word>>, <<"/", Word>>, <<Word, Word, Word, Word>>,
                       <<"=", Random>>}}

Openings ==
  {a \o <<k>> \o s :
     a \in {<<>>, <<Word, " ">>, <<IDName, "=">>, <<"/">>, <<Word, ".", Word, ":">>},
     k \in {Keyword, ContextWord},
     s \in {<<"=">>, <<":", " ">>, <<"\"", ":", "\"">>}}
  \cup {<<AuthHeader>>, <<AuthHeader, " ">>, <<URLPrefix, "!">>}

Assignments ==
  {o \o v \o z : o \in Openings, v \in SecretValues,
     z \in {<<>>, <<"\"">>, <<" ", Keyword, "=", Random, "!">>}}

AllTexts == Numbers \cup Addresses \cup Assignments
=============================================================================
