---------------------------- MODULE MCActionRunner ----------------------------
(* One action of each policy.                                                *)
EXTENDS ActionRunner

CONSTANTS q, x, d

Policies == [a \in {q, x, d} |-> CASE a = q -> "enqueue" [] a = x -> "replace" [] a = d -> "drop"]
=============================================================================
