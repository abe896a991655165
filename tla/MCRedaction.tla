---------------------------- MODULE MCRedaction ----------------------------
(* Finite instances of Redaction: every body of up to MaxCells cells.       *)
EXTENDS Redaction

CONSTANTS MaxCells, MaxReply

(* The literals a user may type: placeholders that the run may also use.   *)
Literals == [label : Labels, idx : {0}]

Cells == [text : Texts \cup Literals, label : {NoLabel}, protected : BOOLEAN]
         \cup [text : Texts, label : Labels, protected : BOOLEAN]

MCBodies == UNION {[1 .. n -> Cells] : n \in 0 .. MaxCells}

MCReplies ==
  UNION {[1 .. n -> Texts \cup [label : Labels, idx : 0 .. 1]] : n \in 1 .. MaxReply}

=============================================================================
