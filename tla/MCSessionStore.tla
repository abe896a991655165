--------------------------- MODULE MCSessionStore ---------------------------
(* A finite instance of SessionStore.  No symmetry: EveryCallReturns is a  *)
(* liveness property.                                                      *)
EXTENDS SessionStore

=============================================================================
