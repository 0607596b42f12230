--------------------------- MODULE SyncTransitions ---------------------------
(* The pure publication function of one document cell:                       *)
(* packages/model/src/internal/local-exchange-state.ts.                      *)
(* A revision stands for the digest of (scope, document, parent revision,    *)
(* document bytes), so it determines its parent.  Receipts are kept as a     *)
(* set: the code only ever searches them by mutationId and counts them.      *)
EXTENDS Integers, FiniteSets

CONSTANTS
  Mutation,      \* mutation ids callers choose
  Revision,      \* revision digests
  Parent,        \* the parent revision each digest was computed from
  ReceiptLimit,  \* LOCAL_EXCHANGE_LIMITS.receipts
  CounterMax,    \* Number.MAX_SAFE_INTEGER
  None           \* JavaScript's null

ASSUME RevisionAssumption ==
  None \notin Revision /\ Parent \in [Revision -> Revision \cup {None}]
ASSUME LimitAssumption == ReceiptLimit \in Nat /\ CounterMax \in Nat

\* head(): there is no revision exactly when the version is 0.
LocalHead == {h \in [revisionId : Revision \cup {None}, version : 0..CounterMax] :
           h.revisionId = None <=> h.version = 0}

EmptyHead == [revisionId |-> None, version |-> 0]

Receipt == [mutationId : Mutation, expectedHead : LocalHead, revisionId : Revision,
            outcome : {"published", "conflict"}, observedHead : LocalHead]

SyncState == [head : LocalHead, receipts : SUBSET Receipt]

\* createLocalSyncState.
CreatedSync == [head |-> EmptyHead, receipts |-> {}]

\* syncState: the conditions on receipts under which a state is not SHAPE.
ReadableSync(s) ==
  /\ \A x, y \in s.receipts : x.mutationId = y.mutationId => x = y
  /\ \A x \in s.receipts :
       /\ x.outcome = "published" =>
            x.observedHead = [revisionId |-> x.revisionId,
                              version |-> x.expectedHead.version + 1]
       /\ x.outcome = "conflict" => x.expectedHead # x.observedHead

-----------------------------------------------------------------------------
(* publishLocalRevision of revision r under mutation m, expecting head e.    *)

\* Mutant of Bound: the base of the revision is not compared.
Unbound(e, r) == TRUE

\* BINDING: the revision was prepared on top of the expected head.
Bound(e, r) == Parent[r] = e.revisionId

\* Mutant of HasReceipt: answered mutations are not recognised.
NoReceipt(s, m) == FALSE

HasReceipt(s, m) == \E x \in s.receipts : x.mutationId = m
ReceiptOf(s, m) == CHOOSE x \in s.receipts : x.mutationId = m

\* A known mutation answers with its receipt, whatever the head is by now;
\* anything but the same request is IDEMPOTENCY_MISMATCH.
CanReplay(s, m, e, r) ==
  /\ Bound(e, r)
  /\ HasReceipt(s, m)
  /\ ReceiptOf(s, m).revisionId = r
  /\ ReceiptOf(s, m).expectedHead = e

\* Mutant of CanPublish: one receipt more than the limit.
CanPublishLate(s, m, e, r) ==
  /\ Bound(e, r)
  /\ ~HasReceipt(s, m)
  /\ Cardinality(s.receipts) <= ReceiptLimit
  /\ e = s.head => s.head.version < CounterMax

\* A new mutation needs room for a receipt, and a version to count with.
CanPublish(s, m, e, r) ==
  /\ Bound(e, r)
  /\ ~HasReceipt(s, m)
  /\ Cardinality(s.receipts) < ReceiptLimit
  /\ e = s.head => s.head.version < CounterMax

\* Mutant of NextHead: the last writer wins.
NextHeadBlind(s, e, r) == [revisionId |-> r, version |-> s.head.version + 1]

NextHead(s, e, r) ==
  IF e = s.head THEN [revisionId |-> r, version |-> s.head.version + 1] ELSE s.head

\* Mutant of NewReceipt: a conflict repeats the head the writer expected.
EchoReceipt(s, m, e, r) ==
  [mutationId |-> m, expectedHead |-> e, revisionId |-> r,
   outcome |-> IF e = s.head THEN "published" ELSE "conflict",
   observedHead |-> IF e = s.head THEN NextHead(s, e, r) ELSE e]

NewReceipt(s, m, e, r) ==
  [mutationId |-> m, expectedHead |-> e, revisionId |-> r,
   outcome |-> IF e = s.head THEN "published" ELSE "conflict",
   observedHead |-> NextHead(s, e, r)]

\* Mutants of Published: a conflict leaves no receipt; receipts of earlier
\* mutations are evicted.
PublishedQuietly(s, m, e, r) ==
  [head |-> NextHead(s, e, r),
   receipts |-> s.receipts \cup (IF e = s.head THEN {NewReceipt(s, m, e, r)} ELSE {})]
PublishedForgetful(s, m, e, r) ==
  [head |-> NextHead(s, e, r), receipts |-> {NewReceipt(s, m, e, r)}]

Published(s, m, e, r) ==
  [head |-> NextHead(s, e, r), receipts |-> s.receipts \cup {NewReceipt(s, m, e, r)}]
=============================================================================
