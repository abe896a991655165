------------------------------ MODULE MCSpans ------------------------------
(* Finite instances of Spans: every list of spans and of protected ranges. *)
EXTENDS Spans, TLC

CONSTANTS
  MaxSpans,   \* spans when nothing is protected
  MaxWithTwo  \* spans when there may be two protected ranges

Places == {r \in [start : 0 .. TextLen - 1, end : 1 .. TextLen] : r.start < r.end}

Lists(S, n) == UNION {[1 .. k -> S] : k \in 0 .. n}

AnySpan ==
  {[start |-> r.start, end |-> r.end, label |-> l] : r \in Places, l \in Labels}

MCInputs ==
  [spans : Lists(AnySpan, MaxSpans), ranges : {<<>>}]
    \cup [spans : Lists(AnySpan, MaxWithTwo), ranges : Lists(Places, 2)]

Symmetry == Permutations(Labels)
=============================================================================
