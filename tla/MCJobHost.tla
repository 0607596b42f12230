------------------------------ MODULE MCJobHost ------------------------------
(* Instances of JobHost.  Jobs are alike, and so are session ids.            *)
EXTENDS JobHost, TLC

Alike == Permutations(Cell) \cup Permutations(Session)
=============================================================================
