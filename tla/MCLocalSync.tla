----------------------------- MODULE MCLocalSync -----------------------------
(* Revisions over a two-letter alphabet of documents: a revision is the      *)
(* sequence of documents from the root of its chain, as its digest would be. *)
EXTENDS LocalSync, Sequences

CONSTANTS Document, Depth

Chains == UNION {[1..n -> Document] : n \in 1..Depth}
ParentOf == [c \in Chains |-> IF Len(c) = 1 THEN None ELSE SubSeq(c, 1, Len(c) - 1)]
=============================================================================
