------------------------------- MODULE LocalSync -------------------------------
(* One document cell under any sequence of publishLocalRevision requests:    *)
(* packages/model/src/internal/local-exchange-state.ts.  Requests come from  *)
(* writers that know an old head, a made-up head, or a mutation id that was  *)
(* used before; retries of an answered request leave the cell unchanged.     *)
EXTENDS SyncTransitions

VARIABLE sync

Init == sync = CreatedSync

Publish(m, e, r) == CanPublish(sync, m, e, r) /\ sync' = Published(sync, m, e, r)

Next == \E m \in Mutation, e \in LocalHead, r \in Revision : Publish(m, e, r)

Spec == Init /\ [][Next]_sync

-----------------------------------------------------------------------------
Adopted(s) == {x \in s.receipts : x.outcome = "published"}

\* The cell keeps its type, and never more receipts than the limit.
TypeOK ==
  /\ sync \in SyncState
  /\ IsFiniteSet(sync.receipts)
  /\ Cardinality(sync.receipts) <= ReceiptLimit

\* No update is lost and none is applied twice: the published receipts are one
\* chain, with one receipt per version from the empty head up to the head, each
\* published on exactly the head the previous one left.
LinearHistory ==
  /\ \A x \in Adopted(sync) : /\ Parent[x.revisionId] = x.expectedHead.revisionId
                              /\ x.observedHead.version <= sync.head.version
                              /\ x.observedHead.version = sync.head.version
                                   => x.observedHead = sync.head
  /\ \A x, y \in Adopted(sync) :
       /\ x.expectedHead.version = y.expectedHead.version => x = y
       /\ x.observedHead.version = y.expectedHead.version
            => x.observedHead = y.expectedHead
  /\ \A v \in 1..sync.head.version : \E x \in Adopted(sync) : x.observedHead.version = v

\* A conflict receipt tells the truth for ever: the head it observed is one the
\* cell really had, and not the one the writer expected; the stored receipts
\* stay readable by syncState.
ConflictsAreReal ==
  /\ ReadableSync(sync)
  /\ \A x \in sync.receipts : x.outcome = "conflict" =>
       x.observedHead \in {EmptyHead} \cup {y.observedHead : y \in Adopted(sync)}

Log == INSTANCE RevisionLog
         WITH tip <- sync.head, log <- {x.observedHead : x \in Adopted(sync)}

\* Compare-and-swap on the head with retained receipts implements an append-only
\* linear log of revisions.
KeepsLog == Log!Spec
=============================================================================
