-------------------------- MODULE LocalSync_proofs --------------------------
(* What holds of a document cell for every set of mutations and revisions    *)
(* and every limit.  The inductive invariant SyncInv joins the type of the   *)
(* cell, the linearity of its history and the truth of its conflicts: a new  *)
(* conflict is truthful because the history accounts for the head it saw.    *)
EXTENDS LocalSync, FiniteSetTheorems, TLAPS

SyncInv == TypeOK /\ LinearHistory /\ ConflictsAreReal

USE RevisionAssumption, LimitAssumption

LEMMA InitHolds == Init => SyncInv
<1> SUFFICES ASSUME Init PROVE SyncInv
  OBVIOUS
<1>1. sync = [head |-> EmptyHead, receipts |-> {}]
  BY DEF Init, CreatedSync
<1>2. TypeOK
  <2>1. EmptyHead \in LocalHead
    BY DEF EmptyHead, LocalHead
  <2>2. IsFiniteSet({}) /\ Cardinality({}) = 0
    BY FS_EmptySet
  <2>3. QED
    BY <1>1, <2>1, <2>2 DEF TypeOK, SyncState
<1>3. LinearHistory
  <2>1. Adopted(sync) = {} /\ sync.head.version = 0
    BY <1>1 DEF Adopted, EmptyHead
  <2>2. QED
    BY <2>1 DEF LinearHistory
<1>4. ConflictsAreReal
  BY <1>1 DEF ConflictsAreReal, ReadableSync
<1>5. QED
  BY <1>2, <1>3, <1>4 DEF SyncInv

\* Every head of the cell but the empty one has a published receipt.
LEMMA HeadIsAccounted ==
  ASSUME SyncInv
  PROVE  sync.head \in {EmptyHead} \cup {y.observedHead : y \in Adopted(sync)}
<1>1. sync.head \in LocalHead
  BY DEF SyncInv, TypeOK, SyncState
<1>2. CASE sync.head.version = 0
  BY <1>1, <1>2 DEF LocalHead, EmptyHead
<1>3. CASE sync.head.version # 0
  <2>1. sync.head.version \in 1..sync.head.version
    BY <1>1, <1>3 DEF LocalHead
  <2>2. PICK x \in Adopted(sync) : x.observedHead.version = sync.head.version
    BY <2>1 DEF SyncInv, LinearHistory
  <2>3. x.observedHead = sync.head
    BY <2>2 DEF SyncInv, LinearHistory
  <2>4. QED
    BY <2>3
<1>4. QED
  BY <1>2, <1>3

-----------------------------------------------------------------------------
(* One publication.                                                          *)

LEMMA PublishTyped ==
  ASSUME TypeOK, NEW m \in Mutation, NEW e \in LocalHead, NEW r \in Revision,
         Publish(m, e, r)
  PROVE  /\ TypeOK'
         /\ NewReceipt(sync, m, e, r) \in Receipt
<1> DEFINE x == NewReceipt(sync, m, e, r)
<1> USE DEF Publish, CanPublish
<1>1. sync.head \in LocalHead /\ sync.receipts \in SUBSET Receipt
  BY DEF TypeOK, SyncState
<1>2. NextHead(sync, e, r) \in LocalHead
  BY <1>1 DEF NextHead, LocalHead
<1>3. x \in Receipt
  BY <1>2 DEF NewReceipt, Receipt
<1>4. sync' \in SyncState
  BY <1>1, <1>2, <1>3 DEF Published, SyncState
<1>5. /\ IsFiniteSet(sync'.receipts)
      /\ Cardinality(sync'.receipts) <= ReceiptLimit
  <2>1. sync'.receipts = sync.receipts \cup {x}
    BY DEF Published
  <2>2. /\ IsFiniteSet(sync.receipts \cup {x})
        /\ \/ Cardinality(sync.receipts \cup {x}) = Cardinality(sync.receipts)
           \/ Cardinality(sync.receipts \cup {x}) = Cardinality(sync.receipts) + 1
    BY FS_AddElement DEF TypeOK
  <2>3. Cardinality(sync.receipts) \in Nat
    BY FS_CardinalityType DEF TypeOK
  <2>4. QED
    BY <2>1, <2>2, <2>3
<1>6. QED
  BY <1>3, <1>4, <1>5 DEF TypeOK

\* What a publication does to the published receipts and to the head.
LEMMA PublishExtends ==
  ASSUME SyncInv, NEW m \in Mutation, NEW e \in LocalHead, NEW r \in Revision,
         Publish(m, e, r), e = sync.head
  PROVE  /\ sync.head \in LocalHead
         /\ sync'.head = [revisionId |-> r, version |-> sync.head.version + 1]
         /\ Parent[r] = sync.head.revisionId
         /\ Adopted(sync)' = Adopted(sync) \cup {NewReceipt(sync, m, e, r)}
         /\ NewReceipt(sync, m, e, r).revisionId = r
         /\ NewReceipt(sync, m, e, r).expectedHead = sync.head
         /\ NewReceipt(sync, m, e, r).observedHead = sync'.head
<1> DEFINE x == NewReceipt(sync, m, e, r)
<1> USE DEF Publish, CanPublish
<1>1. sync.head \in LocalHead
  BY DEF SyncInv, TypeOK, SyncState
<1>2. /\ sync'.head = [revisionId |-> r, version |-> sync.head.version + 1]
      /\ sync'.receipts = sync.receipts \cup {x}
  BY DEF Published, NextHead
<1>3. /\ x.outcome = "published" /\ x.revisionId = r
      /\ x.expectedHead = sync.head /\ x.observedHead = sync'.head
  BY <1>2 DEF NewReceipt, NextHead
<1>4. Adopted(sync)' = Adopted(sync) \cup {x}
  BY <1>2, <1>3 DEF Adopted
<1>5. Parent[r] = sync.head.revisionId
  BY DEF Bound
<1>6. QED
  BY <1>1, <1>2, <1>3, <1>4, <1>5

LEMMA ConflictKeeps ==
  ASSUME SyncInv, NEW m \in Mutation, NEW e \in LocalHead, NEW r \in Revision,
         Publish(m, e, r), e # sync.head
  PROVE  sync'.head = sync.head /\ Adopted(sync)' = Adopted(sync)
<1> DEFINE x == NewReceipt(sync, m, e, r)
<1>1. sync'.head = sync.head /\ sync'.receipts = sync.receipts \cup {x}
  BY DEF Publish, Published, NextHead
<1>2. x.outcome = "conflict"
  BY DEF NewReceipt
<1>3. QED
  BY <1>1, <1>2 DEF Adopted

\* The versions of a published receipt are those of consecutive heads.
LEMMA AdoptedVersions ==
  ASSUME SyncInv
  PROVE  \A x \in Adopted(sync) :
           /\ x.expectedHead.version \in Nat
           /\ x.observedHead.version = x.expectedHead.version + 1
<1> SUFFICES ASSUME NEW x \in Adopted(sync)
             PROVE  /\ x.expectedHead.version \in Nat
                    /\ x.observedHead.version = x.expectedHead.version + 1
  OBVIOUS
<1>1. x \in sync.receipts /\ x.outcome = "published"
  BY DEF Adopted
<1>2. x.expectedHead \in LocalHead
  BY <1>1 DEF SyncInv, TypeOK, SyncState, Receipt
<1>3. x.observedHead = [revisionId |-> x.revisionId, version |-> x.expectedHead.version + 1]
  BY <1>1 DEF SyncInv, ConflictsAreReal, ReadableSync
<1>4. QED
  BY <1>2, <1>3 DEF LocalHead

LEMMA PublishLinear ==
  ASSUME SyncInv, NEW m \in Mutation, NEW e \in LocalHead, NEW r \in Revision,
         Publish(m, e, r)
  PROVE  LinearHistory'
<1>1. CASE e # sync.head
  BY <1>1, ConflictKeeps DEF SyncInv, LinearHistory
<1>2. CASE e = sync.head
  <2> DEFINE x == NewReceipt(sync, m, e, r)
  <2>1. /\ Adopted(sync)' = Adopted(sync) \cup {x}
        /\ x.revisionId = r /\ Parent[r] = sync.head.revisionId
        /\ x.expectedHead = sync.head /\ x.observedHead = sync'.head
        /\ sync'.head = [revisionId |-> r, version |-> sync.head.version + 1]
    BY <1>2, PublishExtends
  <2>2. /\ sync.head.version \in Nat
        /\ sync'.head.version = sync.head.version + 1
        /\ sync'.head.revisionId = r
    <3>1. sync.head \in LocalHead
      BY DEF SyncInv, TypeOK, SyncState
    <3>2. QED
      BY <2>1, <3>1 DEF LocalHead
  <2> HIDE DEF x
  <2>3. \A y \in Adopted(sync)' :
          /\ Parent[y.revisionId] = y.expectedHead.revisionId
          /\ y.observedHead.version <= sync'.head.version
          /\ y.observedHead.version = sync'.head.version => y.observedHead = sync'.head
    BY <2>1, <2>2, AdoptedVersions DEF SyncInv, LinearHistory
  <2>4. \A y, z \in Adopted(sync)' :
          /\ y.expectedHead.version = z.expectedHead.version => y = z
          /\ y.observedHead.version = z.expectedHead.version
               => y.observedHead = z.expectedHead
    BY <2>1, <2>2, AdoptedVersions DEF SyncInv, LinearHistory
  <2>5. \A v \in 1..sync'.head.version :
          \E y \in Adopted(sync)' : y.observedHead.version = v
    <3> TAKE v \in 1..sync'.head.version
    <3>1. CASE v = sync.head.version + 1
      BY <3>1, <2>1, <2>2
    <3>2. CASE v # sync.head.version + 1
      <4>1. v \in 1..sync.head.version
        BY <3>2, <2>2
      <4>2. QED
        BY <4>1, <2>1 DEF SyncInv, LinearHistory
    <3>3. QED
      BY <3>1, <3>2
  <2>6. QED
    BY <2>3, <2>4, <2>5 DEF LinearHistory
<1>3. QED
  BY <1>1, <1>2

LEMMA PublishTruthful ==
  ASSUME SyncInv, NEW m \in Mutation, NEW e \in LocalHead, NEW r \in Revision,
         Publish(m, e, r)
  PROVE  ConflictsAreReal'
<1> DEFINE x == NewReceipt(sync, m, e, r)
<1>1. sync'.receipts = sync.receipts \cup {x}
  BY DEF Publish, Published
<1>2. x.mutationId = m /\ \A y \in sync.receipts : y.mutationId # m
  BY DEF Publish, CanPublish, HasReceipt, NewReceipt
<1>3. /\ x.outcome = "published" =>
           x.observedHead = [revisionId |-> x.revisionId,
                             version |-> x.expectedHead.version + 1]
      /\ x.outcome = "conflict" =>
           x.expectedHead # x.observedHead /\ x.observedHead = sync.head
  BY DEF NewReceipt, NextHead
<1>4. ReadableSync(sync)'
  BY <1>1, <1>2, <1>3 DEF SyncInv, ConflictsAreReal, ReadableSync
<1>5. \A y \in sync'.receipts : y.outcome = "conflict" =>
        y.observedHead \in {EmptyHead} \cup {z.observedHead : z \in Adopted(sync)}
  BY <1>1, <1>3, HeadIsAccounted DEF SyncInv, ConflictsAreReal
<1>6. Adopted(sync) \subseteq Adopted(sync)'
  BY <1>1 DEF Adopted
<1>7. QED
  BY <1>4, <1>5, <1>6 DEF ConflictsAreReal

LEMMA StepHolds == SyncInv /\ [Next]_sync => SyncInv'
<1> SUFFICES ASSUME SyncInv, [Next]_sync
             PROVE  SyncInv'
  OBVIOUS
<1>1. CASE Next
  <2>1. PICK m \in Mutation, e \in LocalHead, r \in Revision : Publish(m, e, r)
    BY <1>1 DEF Next
  <2>2. QED
    BY <2>1, PublishTyped, PublishLinear, PublishTruthful DEF SyncInv
<1>2. CASE UNCHANGED sync
  BY <1>2 DEF SyncInv, TypeOK, LinearHistory, ConflictsAreReal, Adopted
<1>3. QED
  BY <1>1, <1>2

LEMMA SyncInvariant == Spec => []SyncInv
BY InitHolds, StepHolds, PTL DEF Spec

\* The cell keeps its type and never holds more receipts than the limit.
THEOREM TypeCorrect == Spec => []TypeOK
BY SyncInvariant, PTL DEF SyncInv

\* For any writers and any retries, published revisions form one chain, with
\* one receipt per version: no lost update, none applied twice.
THEOREM HistoryIsLinear == Spec => []LinearHistory
BY SyncInvariant, PTL DEF SyncInv

\* Every conflict receipt names a head the cell had, and stays readable.
THEOREM ConflictsTruthful == Spec => []ConflictsAreReal
BY SyncInvariant, PTL DEF SyncInv

-----------------------------------------------------------------------------
(* The cell implements RevisionLog: a publication that meets its expected    *)
(* head extends the log, a conflict leaves it alone.                         *)

LEMMA LogInit == Init => Log!Init
BY DEF Init, CreatedSync, EmptyHead, Adopted, Log!Init

LEMMA LogStep ==
  SyncInv /\ [Next]_sync
    => [Log!Next]_<<sync.head, {x.observedHead : x \in Adopted(sync)}>>
<1> DEFINE log == {x.observedHead : x \in Adopted(sync)}
<1> SUFFICES ASSUME SyncInv, [Next]_sync
             PROVE  [Log!Next]_<<sync.head, log>>
  OBVIOUS
<1>1. CASE Next
  <2>1. PICK m \in Mutation, e \in LocalHead, r \in Revision : Publish(m, e, r)
    BY <1>1 DEF Next
  <2>2. CASE e = sync.head
    <3>1. /\ sync'.head = [revisionId |-> r, version |-> sync.head.version + 1]
          /\ Parent[r] = sync.head.revisionId
          /\ log' = log \cup {sync'.head}
      BY <2>1, <2>2, PublishExtends
    <3>2. Log!Extend(r)
      BY <3>1 DEF Log!Extend
    <3>3. QED
      BY <3>2 DEF Log!Next
  <2>3. CASE e # sync.head
    BY <2>1, <2>3, ConflictKeeps
  <2>4. QED
    BY <2>2, <2>3
<1>2. CASE UNCHANGED sync
  BY <1>2 DEF Adopted
<1>3. QED
  BY <1>1, <1>2

\* For every number of writers and mutations, compare-and-swap with retained
\* receipts implements the append-only log.
THEOREM SyncKeepsLog == Spec => KeepsLog
<1>1. Init /\ [][Next]_sync /\ []SyncInv => Log!Spec
  BY LogInit, LogStep, PTL DEF Log!Spec
<1>2. QED
  BY <1>1, SyncInvariant, PTL DEF Spec, KeepsLog
=============================================================================
