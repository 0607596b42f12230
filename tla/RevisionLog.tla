----------------------------- MODULE RevisionLog -----------------------------
(* What a document cell promises: an append-only, linear log of revisions.   *)
(* Each one was prepared on top of the one it follows, none is replaced.     *)
EXTENDS Integers

CONSTANTS Revision, Parent, None

VARIABLES
  tip,  \* the newest entry: a revision and its version
  log   \* all the entries there ever were

Init == tip = [revisionId |-> None, version |-> 0] /\ log = {}

Extend(r) ==
  /\ Parent[r] = tip.revisionId
  /\ tip' = [revisionId |-> r, version |-> tip.version + 1]
  /\ log' = log \cup {tip'}

Next == \E r \in Revision : Extend(r)

Spec == Init /\ [][Next]_<<tip, log>>
=============================================================================
