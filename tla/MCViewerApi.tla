------------------------------ MODULE MCViewerApi ------------------------------
(* Two grants, one of which may see the event.                               *)
EXTENDS ViewerApi, TLC

CONSTANTS p1, p2, e

Scopes == [p \in {p1, p2} |-> IF p = p1 THEN {e} ELSE {}]
Alike == Permutations(Request)
=============================================================================
