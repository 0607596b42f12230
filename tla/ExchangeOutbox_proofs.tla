------------------------ MODULE ExchangeOutbox_proofs ------------------------
(* What holds of the document and job cells of any number of hosts.  The     *)
(* inductive invariant OutboxInv has four parts besides the types: every     *)
(* cell on disk is good, a cell that is not frozen is in memory what it is   *)
(* on disk, an acknowledged intent has the receipt its receiver still holds, *)
(* and so has a delivery that comes back to a cell that still has its intent.*)
EXTENDS ExchangeOutbox, FiniteSetTheorems, TLAPS

Acked(outbox) == {i \in outbox : i.receipt # None}

\* A cell that a start of its host accepts, with room left for every receipt its
\* intents may still bring; a job's cell has nothing but its candidate.
GoodCell(c, x, stored) ==
  /\ IsFiniteSet(x.revisions) /\ IsFiniteSet(x.outbox) /\ IsFiniteSet(x.sync.receipts)
  /\ Cardinality(x.sync.receipts) <= ReceiptLimit
  /\ Cardinality(x.revisions) <=
       Cardinality(x.sync.receipts) + Cardinality(x.outbox) + Cardinality(Acked(x.outbox))
  /\ ReadableCell(x, stored)
  /\ c \in Jobs => x.sync = CreatedSync /\ (x.outbox = {} => x.revisions = {})
  /\ \A i \in x.outbox : i.target \notin Jobs

CellsGood ==
  \A c \in Replica : disk[c] # None => GoodCell(c, disk[c], objects[HostOf[c]])

Coherent == \A c \in Replica \ frozen : memory[c] = disk[c]

\* Receipt x decides the request of intent i.
Decides(x, i) ==
  x.mutationId = i.mutationId /\ x.revisionId = i.revisionId /\ x.expectedHead = i.expectedHead

SameRequest(i, j) ==
  /\ i.target = j.target /\ i.mutationId = j.mutationId
  /\ i.expectedHead = j.expectedHead /\ i.revisionId = j.revisionId

\* The receiver on disk holds receipt x.
Holds(t, x) == disk[t] # None /\ x \in disk[t].sync.receipts

\* An acknowledged intent has a receipt that its receiver holds.
AcksHeld ==
  \A c \in Replica : disk[c] # None =>
    \A i \in disk[c].outbox : i.receipt # None => Holds(i.target, i.receipt)

DeliveryGood(k) ==
  /\ k.intent.receipt = None /\ k.intent.target \notin Jobs
  /\ k.source # None =>
       /\ disk[k.source] # None
       /\ \E i \in disk[k.source].outbox : SameRequest(i, k.intent)
  /\ k.receipt # None =>
       k.source # None /\ Holds(k.intent.target, k.receipt) /\ Decides(k.receipt, k.intent)

DeliveriesGood == \A k \in deliveries : DeliveryGood(k)

OutboxInv == TypeOK /\ CellsGood /\ Coherent /\ AcksHeld /\ DeliveriesGood

-----------------------------------------------------------------------------
(* Publication.                                                              *)

LEMMA Limits ==
  /\ ReceiptLimit \in Nat /\ OutboxLimit \in Nat \ {0} /\ RevisionLimit \in Nat
  /\ RevisionLimit >= ReceiptLimit + 2 * OutboxLimit
BY LimitAssumption, OutboxAssumption

LEMMA PublishedTyped ==
  ASSUME NEW s \in SyncState, NEW m \in Mutation, NEW e \in LocalHead, NEW r \in Revision,
         CanPublish(s, m, e, r)
  PROVE  /\ NextHead(s, e, r) \in LocalHead
         /\ NewReceipt(s, m, e, r) \in Receipt
         /\ Published(s, m, e, r) \in SyncState
<1>1. s.head \in LocalHead /\ s.receipts \in SUBSET Receipt
  BY DEF SyncState
<1>2. NextHead(s, e, r) \in LocalHead
  BY <1>1, RevisionAssumption, LimitAssumption DEF NextHead, LocalHead, CanPublish
<1>3. NewReceipt(s, m, e, r) \in Receipt
  BY <1>2 DEF NewReceipt, Receipt
<1>4. Published(s, m, e, r) \in SyncState
  BY <1>1, <1>2, <1>3 DEF Published, SyncState
<1>5. QED
  BY <1>2, <1>3, <1>4

\* The new receipt answers the request, and no other receipt does.
LEMMA NewReceiptDecides ==
  ASSUME NEW s, NEW m, NEW e, NEW r
  PROVE  /\ NewReceipt(s, m, e, r).mutationId = m
         /\ NewReceipt(s, m, e, r).revisionId = r
         /\ NewReceipt(s, m, e, r).expectedHead = e
         /\ NewReceipt(s, m, e, r).observedHead = NextHead(s, e, r)
         /\ Published(s, m, e, r).head = NextHead(s, e, r)
         /\ Published(s, m, e, r).receipts = s.receipts \cup {NewReceipt(s, m, e, r)}
         /\ CanPublish(s, m, e, r) =>
              NewReceipt(s, m, e, r) \notin s.receipts /\ \A x \in s.receipts : x.mutationId # m
BY DEF NewReceipt, Published, CanPublish, HasReceipt

LEMMA PublishedReadable ==
  ASSUME NEW s, NEW m, NEW e, NEW r, ReadableSync(s), CanPublish(s, m, e, r)
  PROVE  ReadableSync(Published(s, m, e, r))
<1> DEFINE x == NewReceipt(s, m, e, r)
           p == Published(s, m, e, r)
<1>1. p.receipts = s.receipts \cup {x} /\ x.mutationId = m /\ \A y \in s.receipts : y.mutationId # m
  BY NewReceiptDecides
<1>2. /\ x.outcome = "published" =>
           x.observedHead = [revisionId |-> x.revisionId, version |-> x.expectedHead.version + 1]
      /\ x.outcome = "conflict" => x.expectedHead # x.observedHead
  BY DEF NewReceipt, NextHead
<1> HIDE DEF x, p
<1>3. QED
  BY <1>1, <1>2 DEF ReadableSync, p

-----------------------------------------------------------------------------
(* Good cells.                                                               *)

\* The fields of an updated cell.
LEMMA CellFields ==
  ASSUME NEW x \in SyncCell
  PROVE  x.sync \in SyncState /\ x.revisions \in SUBSET Revision /\ x.outbox \in SUBSET Intent
BY DEF SyncCell

\* The revisions a good cell may have to hold fit the limit.
LEMMA AccountedFits ==
  ASSUME NEW S, NEW Q, NEW T,
         IsFiniteSet(S), IsFiniteSet(Q), IsFiniteSet(T),
         Cardinality(S) <= ReceiptLimit, Cardinality(Q) <= OutboxLimit,
         Cardinality(T) <= Cardinality(S) + Cardinality(Q) + Cardinality(Acked(Q))
  PROVE  Cardinality(T) <= RevisionLimit
<1>1. Acked(Q) \in SUBSET Q
  BY DEF Acked
<1>2. Cardinality(Acked(Q)) <= Cardinality(Q) /\ IsFiniteSet(Acked(Q))
  BY <1>1, FS_Subset
<1>3. /\ Cardinality(S) \in Nat /\ Cardinality(Q) \in Nat /\ Cardinality(T) \in Nat
      /\ Cardinality(Acked(Q)) \in Nat
  BY <1>2, FS_CardinalityType
<1>4. QED
  BY <1>2, <1>3, Limits

\* T has one element more than S.
LEMMA OneMore ==
  ASSUME NEW S, NEW x, NEW T, T = S \cup {x}, IsFiniteSet(S)
  PROVE  /\ IsFiniteSet(T) /\ Cardinality(S) \in Nat /\ Cardinality(T) \in Nat
         /\ Cardinality(T) <= Cardinality(S) + 1
         /\ Cardinality(S) <= Cardinality(T)
         /\ x \notin S => Cardinality(T) = Cardinality(S) + 1
<1>1. Cardinality(S) \in Nat
  BY FS_CardinalityType
<1>2. /\ IsFiniteSet(S \cup {x})
      /\ \/ x \in S /\ Cardinality(S \cup {x}) = Cardinality(S)
         \/ x \notin S /\ Cardinality(S \cup {x}) = Cardinality(S) + 1
  BY FS_AddElement
<1>3. /\ IsFiniteSet(T)
      /\ \/ x \in S /\ Cardinality(T) = Cardinality(S)
         \/ x \notin S /\ Cardinality(T) = Cardinality(S) + 1
  BY <1>2, Zenon
<1>4. QED
  BY <1>1, <1>3

\* Objects are never deleted, so what was found is found again.
LEMMA GoodStays ==
  ASSUME NEW c, NEW x, NEW stored, NEW more, GoodCell(c, x, stored), stored \subseteq more
  PROVE  GoodCell(c, x, more)
BY DEF GoodCell, ReadableCell

LEMMA CreatedGood ==
  ASSUME NEW c, NEW stored
  PROVE  CreatedCell \in SyncCell /\ GoodCell(c, CreatedCell, stored)
<1>1. EmptyHead \in LocalHead /\ EmptyHead.revisionId = None
  BY LimitAssumption DEF EmptyHead, LocalHead
<1>2. /\ CreatedCell.sync = CreatedSync /\ CreatedCell.revisions = {} /\ CreatedCell.outbox = {}
      /\ CreatedSync.head = EmptyHead /\ CreatedSync.receipts = {}
  BY DEF CreatedCell, CreatedSync
<1>3. CreatedCell \in SyncCell
  BY <1>1 DEF CreatedCell, CreatedSync, SyncCell, SyncState
<1>4. IsFiniteSet({}) /\ Cardinality({}) = 0 /\ Acked({}) = {}
  BY FS_EmptySet DEF Acked
<1>5. ReadableCell(CreatedCell, stored)
  <2>1. ReadableSync(CreatedCell.sync)
    BY <1>2 DEF ReadableSync
  <2>2. QED
    BY <1>1, <1>2, <1>4, <2>1, Limits DEF ReadableCell
<1>6. GoodCell(c, CreatedCell, stored)
  BY <1>2, <1>4, <1>5, Limits DEF GoodCell
<1>7. QED
  BY <1>3, <1>6

\* A publication leaves a good cell.
LEMMA PublicationGood ==
  ASSUME NEW c \in Replica \ Jobs, NEW x \in SyncCell, NEW stored \in SUBSET Revision,
         GoodCell(c, x, stored),
         NEW m \in Mutation, NEW e \in LocalHead, NEW r \in Revision,
         CanPublish(x.sync, m, e, r), Cardinality(x.revisions \cup {r}) <= RevisionLimit,
         NEW new \in SyncCell, new.sync = Published(x.sync, m, e, r),
         new.revisions = x.revisions \cup {r}, new.outbox = x.outbox
  PROVE  GoodCell(c, new, stored \cup {r})
<1> DEFINE p == Published(x.sync, m, e, r)
           y == NewReceipt(x.sync, m, e, r)
<1>4. new.sync = p /\ new.revisions = x.revisions \cup {r} /\ new.outbox = x.outbox
  OBVIOUS
<1>5. ReadableSync(p)
  BY PublishedReadable DEF GoodCell, ReadableCell
<1>6. /\ p.receipts = x.sync.receipts \cup {y} /\ y \notin x.sync.receipts
      /\ p.head = NextHead(x.sync, e, r)
      /\ y.revisionId = r /\ y.observedHead = NextHead(x.sync, e, r)
  BY NewReceiptDecides
<1>7. /\ p.head.revisionId \in x.revisions \cup {r} \cup {None}
      /\ y.observedHead.revisionId \in x.revisions \cup {r} \cup {None}
  <2>1. x.sync.head.revisionId \in x.revisions \cup {None}
    BY DEF GoodCell, ReadableCell
  <2>2. NextHead(x.sync, e, r).revisionId \in {r, x.sync.head.revisionId}
    BY DEF NextHead
  <2>3. QED
    BY <1>6, <2>1, <2>2
<1> HIDE DEF p, y
<1>8. ReadableCell(new, stored \cup {r})
  BY <1>4, <1>5, <1>6, <1>7 DEF GoodCell, ReadableCell
<1>9. /\ IsFiniteSet(new.revisions) /\ IsFiniteSet(new.sync.receipts)
      /\ Cardinality(new.revisions) <= Cardinality(x.revisions) + 1
      /\ Cardinality(new.sync.receipts) = Cardinality(x.sync.receipts) + 1
      /\ Cardinality(x.revisions) \in Nat /\ Cardinality(x.sync.receipts) \in Nat
      /\ Cardinality(new.revisions) \in Nat
  <2>1. IsFiniteSet(x.revisions) /\ IsFiniteSet(x.sync.receipts)
    BY DEF GoodCell
  <2>2. new.revisions = x.revisions \cup {r} /\ new.sync.receipts = x.sync.receipts \cup {y}
    BY <1>4, <1>6
  <2>3. /\ IsFiniteSet(new.revisions) /\ Cardinality(new.revisions) \in Nat
        /\ Cardinality(x.revisions) \in Nat
        /\ Cardinality(new.revisions) <= Cardinality(x.revisions) + 1
    BY <2>1, <2>2, OneMore, Zenon
  <2>4. /\ IsFiniteSet(new.sync.receipts) /\ Cardinality(x.sync.receipts) \in Nat
        /\ Cardinality(new.sync.receipts) = Cardinality(x.sync.receipts) + 1
    <3>1. y \notin x.sync.receipts
      BY <1>6
    <3>2. new.sync.receipts = x.sync.receipts \cup {y} /\ IsFiniteSet(x.sync.receipts)
      BY <2>1, <2>2
    <3> DEFINE S == x.sync.receipts
               T == new.sync.receipts
    <3>3. T = S \cup {y} /\ IsFiniteSet(S) /\ y \notin S
      BY <3>1, <3>2
    <3> HIDE DEF S, T
    <3>4. IsFiniteSet(T) /\ Cardinality(S) \in Nat /\ Cardinality(T) = Cardinality(S) + 1
      BY <3>3, OneMore
    <3>5. QED
      BY <3>4 DEF S, T
  <2>5. QED
    BY <2>3, <2>4
<1>10. Cardinality(x.outbox) \in Nat /\ Cardinality(Acked(x.outbox)) \in Nat
  <2>1. Acked(x.outbox) \in SUBSET x.outbox
    BY DEF Acked
  <2>2. QED
    BY <2>1, FS_Subset, FS_CardinalityType DEF GoodCell
<1>11. Cardinality(x.sync.receipts) < ReceiptLimit
  BY DEF CanPublish
<1>12. /\ Cardinality(new.sync.receipts) <= ReceiptLimit
       /\ Cardinality(new.revisions) <=
            Cardinality(new.sync.receipts) + Cardinality(x.outbox) + Cardinality(Acked(x.outbox))
  <2>1. Cardinality(x.revisions) <=
          Cardinality(x.sync.receipts) + Cardinality(x.outbox) + Cardinality(Acked(x.outbox))
    BY DEF GoodCell
  <2>2. QED
    BY <1>9, <1>10, <1>11, <2>1, Limits
<1>13. QED
  BY <1>4, <1>8, <1>9, <1>12 DEF GoodCell

LEMMA AckedFinite ==
  ASSUME NEW Q, IsFiniteSet(Q)
  PROVE  IsFiniteSet(Acked(Q)) /\ Cardinality(Acked(Q)) \in Nat /\ Cardinality(Q) \in Nat
<1>1. Acked(Q) \in SUBSET Q
  BY DEF Acked
<1>2. QED
  BY <1>1, FS_Subset, FS_CardinalityType

\* A queued publication, or the candidate of a job, leaves a good cell.
LEMMA QueuedGood ==
  ASSUME NEW c, NEW x \in SyncCell, NEW stored \in SUBSET Revision, GoodCell(c, x, stored),
         NEW i \in Intent, i.receipt = None, i.target \notin Jobs,
         Bound(i.expectedHead, i.revisionId),
         \A j \in x.outbox : j.mutationId # i.mutationId,
         Cardinality(x.outbox) < OutboxLimit,
         Cardinality(x.revisions \cup {i.revisionId}) <= RevisionLimit,
         NEW new \in SyncCell, new.sync = x.sync,
         new.revisions = x.revisions \cup {i.revisionId}, new.outbox = x.outbox \cup {i}
  PROVE  GoodCell(c, new, stored \cup {i.revisionId})
<1> DEFINE R == x.revisions
           R2 == new.revisions
           r == i.revisionId
           Q == x.outbox
           Q2 == new.outbox
<1>1. /\ IsFiniteSet(R) /\ IsFiniteSet(Q) /\ R2 = R \cup {r} /\ Q2 = Q \cup {i}
      /\ i \notin Q
      /\ Cardinality(R) <= Cardinality(x.sync.receipts) + Cardinality(Q) + Cardinality(Acked(Q))
      /\ Cardinality(Q) < OutboxLimit
      /\ IsFiniteSet(x.sync.receipts) /\ Cardinality(x.sync.receipts) <= ReceiptLimit
  BY DEF GoodCell
<1>2. Acked(Q2) = Acked(Q)
  BY DEF Acked
<1>3. ReadableSync(x.sync)
  BY DEF GoodCell, ReadableCell
<1>4. Cardinality(R2) <= RevisionLimit
  OBVIOUS
<1>5. /\ IsFiniteSet(R2) /\ IsFiniteSet(Q2)
      /\ Cardinality(R2) <= Cardinality(x.sync.receipts) + Cardinality(Q2) + Cardinality(Acked(Q2))
      /\ Cardinality(Q2) <= OutboxLimit
  <2> HIDE DEF R, R2, r, Q, Q2
  <2>1. /\ IsFiniteSet(R2) /\ Cardinality(R) \in Nat /\ Cardinality(R2) \in Nat
        /\ Cardinality(R2) <= Cardinality(R) + 1
    BY <1>1, OneMore
  <2>2. /\ IsFiniteSet(Q2) /\ Cardinality(Q) \in Nat /\ Cardinality(Q2) = Cardinality(Q) + 1
    BY <1>1, OneMore
  <2>3. Cardinality(x.sync.receipts) \in Nat /\ Cardinality(Acked(Q)) \in Nat
    BY <1>1, AckedFinite, FS_CardinalityType
  <2>4. Cardinality(Acked(Q2)) = Cardinality(Acked(Q))
    BY <1>2, Zenon
  <2>5. QED
    BY <1>1, <2>1, <2>2, <2>3, <2>4, Limits
<1>6. ReadableCell(new, stored \cup {i.revisionId})
  <2>1. Cardinality(new.revisions) <= RevisionLimit /\ Cardinality(new.outbox) <= OutboxLimit
    BY <1>4, <1>5
  <2>2. QED
    BY <1>3, <2>1 DEF GoodCell, ReadableCell
<1>7. i \in new.outbox
  OBVIOUS
<1>8. /\ new.sync = x.sync /\ IsFiniteSet(new.revisions) /\ IsFiniteSet(new.outbox)
      /\ Cardinality(new.revisions) <=
           Cardinality(x.sync.receipts) + Cardinality(new.outbox) + Cardinality(Acked(new.outbox))
  BY <1>5
<1>9. /\ \A j \in new.outbox : j.target \notin Jobs
      /\ c \in Jobs => new.sync = CreatedSync /\ new.outbox # {}
  BY <1>7 DEF GoodCell
<1>10. QED
  BY <1>1, <1>6, <1>8, <1>9 DEF GoodCell

\* Intent i of Q is replaced by j, the same request with its receipt.
Answers(Q, Q2, i, j) ==
  /\ IsFiniteSet(Q) /\ i \in Q /\ Q2 = (Q \ {i}) \cup {j}
  /\ i.receipt = None /\ j.receipt # None /\ j.mutationId = i.mutationId
  /\ \A a, b \in Q : a.mutationId = b.mutationId => a = b

LEMMA AckedOneMore ==
  ASSUME NEW Q, NEW Q2, NEW i, NEW j, Answers(Q, Q2, i, j)
  PROVE  /\ IsFiniteSet(Q2) /\ Cardinality(Q2) = Cardinality(Q)
         /\ Cardinality(Acked(Q2)) = Cardinality(Acked(Q)) + 1
<1> DEFINE P == Q \ {i}
           A == Acked(Q)
           A2 == Acked(Q2)
<1>1. i \in Q /\ j \notin Q /\ IsFiniteSet(Q)
  BY DEF Answers
<1>2. IsFiniteSet(P) /\ Cardinality(P) = Cardinality(Q) - 1 /\ Cardinality(Q) \in Nat
  BY <1>1, FS_RemoveElement, FS_CardinalityType
<1>3. Q2 = P \cup {j} /\ j \notin P
  BY <1>1 DEF Answers
<1>4. A2 = A \cup {j} /\ j \notin A
  BY <1>1 DEF Acked, Answers
<1>5. IsFiniteSet(A) /\ Cardinality(A) \in Nat
  BY <1>1, AckedFinite
<1> HIDE DEF P, A, A2
<1>6. IsFiniteSet(Q2) /\ Cardinality(Q2) = Cardinality(P) + 1 /\ Cardinality(P) \in Nat
  BY <1>2, <1>3, OneMore
<1>7. Cardinality(A2) = Cardinality(A) + 1
  BY <1>4, <1>5, OneMore
<1>8. QED
  BY <1>2, <1>6, <1>7 DEF A, A2

\* So does recording a receipt, and there is always room for it.
LEMMA RecordedGood ==
  ASSUME NEW c, NEW x \in SyncCell, NEW stored \in SUBSET Revision, GoodCell(c, x, stored),
         NEW i \in x.outbox, NEW j \in Intent, i.receipt = None, SameRequest(i, j),
         j.receipt # None, Decides(j.receipt, j),
         NEW new \in SyncCell, new.sync = x.sync,
         new.revisions = x.revisions \cup ObservedRevisions(j.receipt),
         new.outbox = (x.outbox \ {i}) \cup {j}
  PROVE  GoodCell(c, new, stored \cup ObservedRevisions(j.receipt))
<1> DEFINE R == x.revisions
           R2 == new.revisions
           r == j.receipt.observedHead.revisionId
           S == x.sync.receipts
           Q == x.outbox
           Q2 == new.outbox
<1>1. /\ IsFiniteSet(R) /\ IsFiniteSet(Q) /\ IsFiniteSet(S)
      /\ Cardinality(R) <= Cardinality(S) + Cardinality(Q) + Cardinality(Acked(Q))
      /\ Cardinality(S) <= ReceiptLimit
  BY DEF GoodCell
<1>2. /\ Cardinality(Q) <= OutboxLimit /\ ReadableSync(x.sync)
      /\ \A a, b \in Q : a.mutationId = b.mutationId => a = b
  BY DEF GoodCell, ReadableCell
<1>3. Q2 = (Q \ {i}) \cup {j} /\ j.mutationId = i.mutationId
  BY DEF SameRequest
<1>4. R2 = R \/ R2 = R \cup {r}
  BY DEF ObservedRevisions
<1> HIDE DEF R, R2, r, S, Q, Q2
<1>5. i \in Q
  BY DEF Q
<1>6. /\ IsFiniteSet(Q2) /\ Cardinality(Q2) = Cardinality(Q)
      /\ Cardinality(Acked(Q2)) = Cardinality(Acked(Q)) + 1
  <2>1. \A a, b \in Q : a.mutationId = b.mutationId => a = b
    BY <1>2
  <2>2. IsFiniteSet(Q)
    BY <1>1
  <2>3. Q2 = (Q \ {i}) \cup {j} /\ j.mutationId = i.mutationId
    BY <1>3
  <2>4. Answers(Q, Q2, i, j)
    BY <1>5, <2>1, <2>2, <2>3 DEF Answers
  <2>5. QED
    BY <2>4, AckedOneMore
<1>7. /\ IsFiniteSet(R2) /\ Cardinality(R) \in Nat /\ Cardinality(R2) \in Nat
      /\ Cardinality(R2) <= Cardinality(R) + 1
  <2>1. CASE R2 = R
    <3>1. Cardinality(R) \in Nat
      BY <1>1, FS_CardinalityType
    <3>2. QED
      BY <1>1, <2>1, <3>1
  <2>2. CASE R2 = R \cup {r}
    BY <1>1, <2>2, OneMore
  <2>3. QED
    BY <1>4, <2>1, <2>2
<1>8. /\ Cardinality(Q) \in Nat /\ Cardinality(Acked(Q)) \in Nat /\ Cardinality(S) \in Nat
  BY <1>1, AckedFinite, FS_CardinalityType
<1>9. Cardinality(R2) <= Cardinality(S) + Cardinality(Q2) + Cardinality(Acked(Q2))
  BY <1>1, <1>6, <1>7, <1>8
<1>10. Cardinality(R2) <= RevisionLimit /\ Cardinality(Q2) <= OutboxLimit
  BY <1>1, <1>2, <1>6, <1>7, <1>9, AccountedFits
<1> USE DEF R, R2, S, Q, Q2
<1>11. ReadableCell(new, stored \cup ObservedRevisions(j.receipt))
  <2> DEFINE O == ObservedRevisions(j.receipt)
  <2>1. /\ ReadableSync(new.sync)
        /\ new.revisions \subseteq stored \cup O
        /\ new.sync.head.revisionId \in new.revisions \cup {None}
        /\ \A y \in new.sync.receipts :
             /\ y.revisionId \in new.revisions
             /\ y.observedHead.revisionId \in new.revisions \cup {None}
    BY <1>2 DEF GoodCell, ReadableCell
  <2>2. \A a, b \in new.outbox : a.mutationId = b.mutationId => a = b
    BY <1>2, <1>3, <1>5
  <2>3. Bound(i.expectedHead, i.revisionId) /\ i.revisionId \in x.revisions
    BY DEF GoodCell, ReadableCell
  <2>4. /\ Bound(j.expectedHead, j.revisionId) /\ j.revisionId \in new.revisions
        /\ j.receipt.mutationId = j.mutationId /\ j.receipt.revisionId = j.revisionId
        /\ j.receipt.expectedHead = j.expectedHead
        /\ j.receipt.observedHead.revisionId \in new.revisions \cup {None}
    BY <2>3 DEF SameRequest, Decides, ObservedRevisions
  <2>5. \A a \in x.outbox :
          /\ Bound(a.expectedHead, a.revisionId) /\ a.revisionId \in new.revisions
          /\ a.receipt # None =>
               /\ a.receipt.mutationId = a.mutationId
               /\ a.receipt.revisionId = a.revisionId
               /\ a.receipt.expectedHead = a.expectedHead
               /\ a.receipt.observedHead.revisionId \in new.revisions \cup {None}
    BY DEF GoodCell, ReadableCell
  <2>6. QED
    BY <1>10, <2>1, <2>2, <2>4, <2>5 DEF ReadableCell
<1>12. /\ new.sync = x.sync /\ IsFiniteSet(new.revisions) /\ IsFiniteSet(new.outbox)
       /\ Cardinality(new.revisions) <=
            Cardinality(x.sync.receipts) + Cardinality(new.outbox) + Cardinality(Acked(new.outbox))
  BY <1>6, <1>7, <1>9
<1>13. /\ \A a \in new.outbox : a.target \notin Jobs
       /\ c \in Jobs => new.sync = CreatedSync /\ new.outbox # {}
  BY DEF GoodCell, SameRequest
<1>14. QED
  BY <1>1, <1>11, <1>12, <1>13 DEF GoodCell

-----------------------------------------------------------------------------
(* Writing.                                                                  *)

CellTypes ==
  /\ disk \in [Replica -> SyncCell \cup {None}]
  /\ memory \in [Replica -> SyncCell \cup {None}]
  /\ frozen \subseteq Replica
  /\ objects \in [Host -> SUBSET Revision]

\* new is a good cell for c once the objects it needs are written.
Storable(c, new, bytes) ==
  /\ c \in Replica \ frozen /\ new \in SyncCell /\ bytes \in SUBSET Revision
  /\ GoodCell(c, new, objects[HostOf[c]] \cup bytes)

LEMMA HostTyped == ASSUME NEW c \in Replica PROVE HostOf[c] \in Host
BY OutboxAssumption

LEMMA StoreTyped ==
  ASSUME CellTypes, NEW c, NEW new, NEW bytes, NEW o \in WriteOutcome,
         Storable(c, new, bytes), Store(c, new, bytes, o)
  PROVE  /\ CellTypes'
         /\ \A h \in Host : objects[h] \subseteq objects'[h]
         /\ o # "unwritten" => objects'[HostOf[c]] = objects[HostOf[c]] \cup bytes
<1>1. c \in Replica /\ new \in SyncCell /\ bytes \in SUBSET Revision /\ HostOf[c] \in Host
  BY HostTyped DEF Storable
<1>2. disk' \in [Replica -> SyncCell \cup {None}]
  BY <1>1 DEF CellTypes, Store
<1>3. memory' \in [Replica -> SyncCell \cup {None}]
  BY <1>1 DEF CellTypes, Store
<1>4. frozen' \subseteq Replica
  BY <1>1 DEF CellTypes, Store
<1>5. /\ objects' \in [Host -> SUBSET Revision]
      /\ \A h \in Host : objects[h] \subseteq objects'[h]
      /\ o # "unwritten" => objects'[HostOf[c]] = objects[HostOf[c]] \cup bytes
  <2>1. objects \in [Host -> SUBSET Revision]
    BY DEF CellTypes
  <2>2. CASE o = "unwritten"
    <3>1. objects' = objects
      BY <2>2 DEF Store
    <3>2. QED
      BY <2>1, <2>2, <3>1
  <2>3. CASE o # "unwritten"
    <3>1. objects' = [objects EXCEPT ![HostOf[c]] = objects[HostOf[c]] \cup bytes]
      BY <2>3 DEF Store
    <3> DEFINE g == HostOf[c]
    <3> HIDE DEF g
    <3>2. objects' = [objects EXCEPT ![g] = objects[g] \cup bytes] /\ g \in Host
      BY <1>1, <3>1 DEF g
    <3>3. /\ objects' \in [Host -> SUBSET Revision] /\ objects'[g] = objects[g] \cup bytes
          /\ \A h \in Host : h # g => objects'[h] = objects[h]
      BY <1>1, <2>1, <3>2
    <3>4. QED
      BY <3>3 DEF g
  <2>4. QED
    BY <2>2, <2>3
<1>6. QED
  BY <1>2, <1>3, <1>4, <1>5 DEF CellTypes

LEMMA StoreKeeps ==
  ASSUME CellTypes, CellsGood, Coherent,
         NEW c, NEW new, NEW bytes, NEW o \in WriteOutcome,
         Storable(c, new, bytes), Store(c, new, bytes, o)
  PROVE  /\ CellTypes' /\ CellsGood' /\ Coherent'
         /\ disk' = disk \/ disk' = [disk EXCEPT ![c] = new]
         /\ o = "ok" => disk' = [disk EXCEPT ![c] = new]
<1>1. /\ CellTypes'
      /\ \A h \in Host : objects[h] \subseteq objects'[h]
      /\ o # "unwritten" => objects'[HostOf[c]] = objects[HostOf[c]] \cup bytes
  BY StoreTyped
<1>2. /\ disk \in [Replica -> SyncCell \cup {None}]
      /\ memory \in [Replica -> SyncCell \cup {None}]
  BY DEF CellTypes
<1>3. disk' = IF o \in {"ok", "unacked"} THEN [disk EXCEPT ![c] = new] ELSE disk
  BY DEF Store
<1>4. CellsGood'
  <2>1. SUFFICES ASSUME NEW d \in Replica, disk'[d] # None
                 PROVE  GoodCell(d, disk'[d], objects'[HostOf[d]])
    BY DEF CellsGood
  <2>2. objects[HostOf[d]] \subseteq objects'[HostOf[d]]
    BY <1>1, HostTyped
  <2>3. CASE disk'[d] = disk[d]
    <3>1. GoodCell(d, disk[d], objects[HostOf[d]])
      BY <2>1, <2>3 DEF CellsGood
    <3>2. GoodCell(d, disk[d], objects'[HostOf[d]])
      BY <2>2, <3>1, GoodStays
    <3>3. QED
      BY <2>3, <3>2, Zenon
  <2>4. CASE disk'[d] # disk[d]
    <3>1. d = c /\ o \in {"ok", "unacked"} /\ disk'[d] = new
      BY <1>2, <1>3, <2>4
    <3>2. objects'[HostOf[d]] = objects[HostOf[c]] \cup bytes
      BY <1>1, <3>1
    <3>3. GoodCell(c, new, objects[HostOf[c]] \cup bytes)
      BY DEF Storable
    <3>4. QED
      BY <3>1, <3>2, <3>3, Zenon
  <2>5. QED
    BY <2>3, <2>4
<1>5. Coherent'
  <2>1. SUFFICES ASSUME NEW d \in Replica, d \notin frozen'
                 PROVE  memory'[d] = disk'[d]
    BY DEF Coherent
  <2>2. c \in Replica /\ d \notin frozen /\ memory[d] = disk[d]
    BY <2>1 DEF Store, Coherent, Storable
  <2>3. memory' = IF o = "ok" THEN [memory EXCEPT ![c] = new] ELSE memory
    BY DEF Store
  <2>4. CASE o = "ok"
    BY <1>2, <1>3, <2>2, <2>3, <2>4
  <2>5. CASE o # "ok"
    <3>1. d # c \/ o = "unwritten"
      BY <2>1, <2>5 DEF Store, WriteOutcome
    <3>2. QED
      BY <1>2, <1>3, <2>2, <2>3, <2>5, <3>1
  <2>6. QED
    BY <2>4, <2>5
<1>6. QED
  BY <1>1, <1>3, <1>4, <1>5

-----------------------------------------------------------------------------
(* What a step may do to the files: nothing, or one of four changes of one   *)
(* cell.                                                                     *)

WrittenAt(c, new) == c \in Replica /\ new \in SyncCell /\ disk' = [disk EXCEPT ![c] = new]

MadeAt(c) == disk[c] = None /\ WrittenAt(c, CreatedCell)

PublishedAt(c, m, e, r, new) ==
  /\ disk[c] # None /\ WrittenAt(c, new)
  /\ CanPublish(disk[c].sync, m, e, r)
  /\ new.sync = Published(disk[c].sync, m, e, r) /\ new.outbox = disk[c].outbox

QueuedAt(c, i, new) ==
  /\ disk[c] # None /\ WrittenAt(c, new)
  /\ i.receipt = None /\ \A j \in disk[c].outbox : j.mutationId # i.mutationId
  /\ new.sync = disk[c].sync /\ new.outbox = disk[c].outbox \cup {i}

RecordedAt(c, i, j, new) ==
  /\ disk[c] # None /\ WrittenAt(c, new)
  /\ i \in disk[c].outbox /\ i.receipt = None
  /\ SameRequest(i, j) /\ j.receipt # None
  /\ Holds(i.target, j.receipt) /\ Decides(j.receipt, j)
  /\ new.sync = disk[c].sync /\ new.outbox = (disk[c].outbox \ {i}) \cup {j}

DiskStep ==
  \/ disk' = disk
  \/ \E c \in Replica : MadeAt(c)
  \/ \E c \in Replica, m \in Mutation, e \in LocalHead, r \in Revision, new \in SyncCell :
       PublishedAt(c, m, e, r, new)
  \/ \E c \in Replica, i \in Intent, new \in SyncCell : QueuedAt(c, i, new)
  \/ \E c \in Replica, i, j \in Intent, new \in SyncCell : RecordedAt(c, i, j, new)

\* The cell of d keeps its receipts and its requests.
Grown(d) ==
  disk[d] # None =>
    /\ disk'[d] # None
    /\ disk[d].sync.receipts \subseteq disk'[d].sync.receipts
    /\ \A i \in disk[d].outbox : \E j \in disk'[d].outbox : SameRequest(i, j)

CellBasics == CellTypes /\ CellsGood /\ Coherent

LEMMA WrittenCells ==
  ASSUME CellTypes, NEW c, NEW new, WrittenAt(c, new)
  PROVE  /\ c \in Replica /\ new \in SyncCell /\ new # None /\ disk'[c] = new
         /\ \A d \in Replica : d # c => disk'[d] = disk[d]
<1>1. new # None
  BY OutboxNoneAssumption DEF WrittenAt
<1>2. QED
  BY <1>1 DEF WrittenAt, CellTypes

LEMMA WrittenGrown ==
  ASSUME CellTypes, NEW c, NEW new, WrittenAt(c, new),
         disk[c] # None =>
           /\ disk[c].sync.receipts \subseteq new.sync.receipts
           /\ \A i \in disk[c].outbox : \E j \in new.outbox : SameRequest(i, j)
  PROVE  \A d \in Replica : Grown(d)
<1>1. SUFFICES ASSUME NEW d \in Replica PROVE Grown(d)
  OBVIOUS
<1>2. /\ c \in Replica /\ new # None /\ disk'[c] = new
      /\ \A b \in Replica : b # c => disk'[b] = disk[b]
  BY WrittenCells
<1>3. CASE d = c
  BY <1>2, <1>3 DEF Grown
<1>4. CASE d # c
  <2>1. disk'[d] = disk[d]
    BY <1>2, <1>4
  <2>2. \A i : SameRequest(i, i)
    BY DEF SameRequest
  <2>3. QED
    BY <2>1, <2>2 DEF Grown
<1>5. QED
  BY <1>3, <1>4

LEMMA StepGrows ==
  ASSUME CellTypes, DiskStep
  PROVE  \A d \in Replica : Grown(d)
<1>1. \A i : SameRequest(i, i)
  BY DEF SameRequest
<1>2. CASE disk' = disk
  BY <1>1, <1>2 DEF Grown
<1>3. CASE \E c \in Replica : MadeAt(c)
  BY <1>3, WrittenGrown DEF MadeAt
<1>4. ASSUME NEW c \in Replica, NEW m \in Mutation, NEW e \in LocalHead, NEW r \in Revision,
             NEW new \in SyncCell, PublishedAt(c, m, e, r, new)
      PROVE  \A d \in Replica : Grown(d)
  <2>1. /\ WrittenAt(c, new) /\ new.outbox = disk[c].outbox
        /\ disk[c].sync.receipts \subseteq new.sync.receipts
    BY <1>4 DEF PublishedAt, Published
  <2>2. QED
    BY <1>1, <2>1, WrittenGrown
<1>5. ASSUME NEW c \in Replica, NEW i \in Intent, NEW new \in SyncCell, QueuedAt(c, i, new)
      PROVE  \A d \in Replica : Grown(d)
  <2>1. /\ WrittenAt(c, new) /\ new.outbox = disk[c].outbox \cup {i} /\ new.sync = disk[c].sync
    BY <1>5 DEF QueuedAt
  <2>2. QED
    BY <1>1, <2>1, WrittenGrown
<1>6. ASSUME NEW c \in Replica, NEW i \in Intent, NEW j \in Intent, NEW new \in SyncCell,
             RecordedAt(c, i, j, new)
      PROVE  \A d \in Replica : Grown(d)
  <2>1. /\ WrittenAt(c, new) /\ new.sync = disk[c].sync
        /\ new.outbox = (disk[c].outbox \ {i}) \cup {j} /\ SameRequest(i, j)
    BY <1>6 DEF RecordedAt
  <2>2. \A a \in disk[c].outbox : \E b \in new.outbox : SameRequest(a, b)
    BY <1>1, <2>1
  <2>3. QED
    BY <2>1, <2>2, WrittenGrown
<1>7. QED
  BY <1>2, <1>3, <1>4, <1>5, <1>6 DEF DiskStep

LEMMA GrownHolds ==
  ASSUME NEW t \in Replica, NEW x, Grown(t), Holds(t, x)
  PROVE  Holds(t, x)'
BY DEF Grown, Holds

LEMMA AcksKept ==
  ASSUME CellTypes, CellTypes', AcksHeld, DiskStep
  PROVE  AcksHeld'
<1>1. SUFFICES ASSUME NEW c \in Replica, disk'[c] # None,
                      NEW a \in disk'[c].outbox, a.receipt # None
               PROVE  Holds(a.target, a.receipt)'
  BY DEF AcksHeld
<1>2. a.target \in Replica
  <2>1. disk'[c] \in SyncCell
    BY <1>1 DEF CellTypes
  <2>2. a \in Intent
    BY <2>1, CellFields
  <2>3. QED
    BY <2>2 DEF Intent
<1>3. SUFFICES Holds(a.target, a.receipt)
  BY <1>2, StepGrows, GrownHolds
<1>4. ASSUME disk[c] # None, a \in disk[c].outbox PROVE Holds(a.target, a.receipt)
  BY <1>1, <1>4 DEF AcksHeld
<1>5. CASE disk'[c] = disk[c]
  BY <1>1, <1>4, <1>5
<1>6. CASE disk'[c] # disk[c]
  <2>1. ASSUME NEW d \in Replica, MadeAt(d) PROVE Holds(a.target, a.receipt)
    BY <1>1, <1>6, <2>1, WrittenCells DEF MadeAt, CreatedCell
  <2>2. ASSUME NEW d \in Replica, NEW m \in Mutation, NEW e \in LocalHead, NEW r \in Revision,
               NEW new \in SyncCell, PublishedAt(d, m, e, r, new)
        PROVE  Holds(a.target, a.receipt)
    BY <1>1, <1>4, <1>6, <2>2, WrittenCells DEF PublishedAt
  <2>3. ASSUME NEW d \in Replica, NEW i \in Intent, NEW new \in SyncCell, QueuedAt(d, i, new)
        PROVE  Holds(a.target, a.receipt)
    BY <1>1, <1>4, <1>6, <2>3, WrittenCells DEF QueuedAt
  <2>4. ASSUME NEW d \in Replica, NEW i \in Intent, NEW j \in Intent, NEW new \in SyncCell,
               RecordedAt(d, i, j, new)
        PROVE  Holds(a.target, a.receipt)
    <3>1. c = d /\ disk[c] # None /\ a \in (disk[c].outbox \ {i}) \cup {j}
      BY <1>1, <1>6, <2>4, WrittenCells DEF RecordedAt
    <3>2. CASE a = j
      BY <2>4, <3>2 DEF RecordedAt, SameRequest
    <3>3. QED
      BY <1>4, <3>1, <3>2
  <2>5. QED
    BY <1>6, <2>1, <2>2, <2>3, <2>4 DEF DiskStep
<1>7. QED
  BY <1>5, <1>6

-----------------------------------------------------------------------------
(* The steps that write a cell.                                              *)

LEMMA UsableCell ==
  ASSUME CellBasics, NEW c \in Replica, Usable(c)
  PROVE  /\ c \in Replica \ frozen /\ memory[c] = disk[c] /\ disk[c] # None
         /\ memory[c] \in SyncCell /\ objects[HostOf[c]] \in SUBSET Revision
         /\ GoodCell(c, memory[c], objects[HostOf[c]])
<1>1. c \in Replica \ frozen /\ memory[c] = disk[c] /\ disk[c] # None
  BY DEF Usable, CellBasics, Coherent
<1>2. disk[c] \in SyncCell
  BY <1>1 DEF CellBasics, CellTypes
<1>3. objects[HostOf[c]] \in SUBSET Revision
  BY HostTyped DEF CellBasics, CellTypes
<1>4. GoodCell(c, disk[c], objects[HostOf[c]])
  BY <1>1 DEF CellBasics, CellsGood
<1>5. GoodCell(c, memory[c], objects[HostOf[c]])
  BY <1>1, <1>4, Zenon
<1>6. QED
  BY <1>1, <1>2, <1>3, <1>5

LEMMA CreateStep ==
  ASSUME CellBasics, NEW c \in Replica, NEW o \in WriteOutcome, Create(c, o)
  PROVE  CellBasics' /\ DiskStep
<1>1. c \notin frozen /\ disk[c] = None /\ Store(c, CreatedCell, {}, o)
  BY DEF Create, CellBasics, Coherent
<1>2. CreatedCell \in SyncCell /\ GoodCell(c, CreatedCell, objects[HostOf[c]] \cup {})
  BY CreatedGood
<1>3. Storable(c, CreatedCell, {})
  BY <1>1, <1>2 DEF Storable
<1>4. CellBasics' /\ (disk' = disk \/ disk' = [disk EXCEPT ![c] = CreatedCell])
  BY <1>1, <1>3, StoreKeeps DEF CellBasics
<1>5. QED
  BY <1>1, <1>2, <1>4 DEF DiskStep, MadeAt, WrittenAt

LEMMA PublicationStep ==
  ASSUME CellBasics, NEW c \in Replica \ Jobs, Usable(c), NEW o \in WriteOutcome,
         NEW m \in Mutation, NEW e \in LocalHead, NEW r \in Revision,
         CanPublish(memory[c].sync, m, e, r), StorePublication(c, m, e, r, o)
  PROVE  /\ CellBasics' /\ DiskStep
         /\ o = "ok" => \E new \in SyncCell : PublishedAt(c, m, e, r, new)
<1> DEFINE x == memory[c]
           p == Published(x.sync, m, e, r)
           new == [x EXCEPT !.sync = p, !.revisions = x.revisions \cup {r}]
<1>1. /\ c \in Replica \ frozen /\ x = disk[c] /\ disk[c] # None
      /\ x \in SyncCell /\ objects[HostOf[c]] \in SUBSET Revision
      /\ GoodCell(c, x, objects[HostOf[c]])
  BY UsableCell
<1>2. p \in SyncState /\ x.revisions \cup {r} \in SUBSET Revision
  BY <1>1, CellFields, PublishedTyped
<1>3. Store(c, new, {r}, o) /\ Cardinality(x.revisions \cup {r}) <= RevisionLimit
  BY DEF StorePublication, HasRoom
<1>4. /\ new \in SyncCell /\ new.sync = p /\ new.revisions = x.revisions \cup {r}
      /\ new.outbox = x.outbox
  <2> DEFINE R == x.revisions \cup {r}
  <2>1. new = [x EXCEPT !.sync = p, !.revisions = R]
    OBVIOUS
  <2>2. R \in SUBSET Revision
    BY <1>2
  <2> HIDE DEF x, p, new, R
  <2>3. new \in SyncCell /\ new.sync = p /\ new.revisions = R /\ new.outbox = x.outbox
    <3>1. x \in SyncCell
      BY <1>1
    <3>2. QED
      BY <1>2, <2>1, <2>2, <3>1 DEF SyncCell
  <2>4. QED
    BY <2>3 DEF R
<1> HIDE DEF x, new
<1>5. GoodCell(c, new, objects[HostOf[c]] \cup {r})
  <2>1. CanPublish(x.sync, m, e, r)
    BY DEF x
  <2>2. QED
    BY <1>1, <1>3, <1>4, <2>1, PublicationGood
<1>6. Storable(c, new, {r})
  BY <1>1, <1>4, <1>5 DEF Storable
<1>7. /\ CellBasics' /\ (disk' = disk \/ disk' = [disk EXCEPT ![c] = new])
      /\ o = "ok" => disk' = [disk EXCEPT ![c] = new]
  BY <1>3, <1>6, StoreKeeps DEF CellBasics
<1>8. ASSUME disk' = [disk EXCEPT ![c] = new] PROVE PublishedAt(c, m, e, r, new)
  <2>1. CanPublish(disk[c].sync, m, e, r) /\ new.sync = Published(disk[c].sync, m, e, r)
    BY <1>1, <1>4 DEF x
  <2>2. QED
    BY <1>1, <1>4, <1>8, <2>1 DEF PublishedAt, WrittenAt
<1>9. QED
  BY <1>4, <1>7, <1>8 DEF DiskStep

LEMMA IntentStored ==
  ASSUME CellBasics, NEW c \in Replica, Usable(c), NEW o \in WriteOutcome,
         NEW i \in Intent, i.receipt = None, i.target \notin Jobs,
         Bound(i.expectedHead, i.revisionId),
         \A j \in memory[c].outbox : j.mutationId # i.mutationId,
         Cardinality(memory[c].outbox) < OutboxLimit,
         Cardinality(memory[c].revisions \cup {i.revisionId}) <= RevisionLimit,
         NEW new \in SyncCell, new.sync = memory[c].sync,
         new.revisions = memory[c].revisions \cup {i.revisionId},
         new.outbox = memory[c].outbox \cup {i}, Store(c, new, {i.revisionId}, o)
  PROVE  CellBasics' /\ DiskStep
<1> DEFINE x == memory[c]
<1>1. /\ c \in Replica \ frozen /\ x = disk[c] /\ disk[c] # None
      /\ x \in SyncCell /\ objects[HostOf[c]] \in SUBSET Revision
      /\ GoodCell(c, x, objects[HostOf[c]])
  BY UsableCell
<1>2. i.revisionId \in Revision
  BY DEF Intent
<1>3. /\ \A j \in x.outbox : j.mutationId # i.mutationId
      /\ Cardinality(x.outbox) < OutboxLimit
      /\ Cardinality(x.revisions \cup {i.revisionId}) <= RevisionLimit
      /\ new.sync = x.sync /\ new.revisions = x.revisions \cup {i.revisionId}
      /\ new.outbox = x.outbox \cup {i}
  OBVIOUS
<1> HIDE DEF x
<1>4. GoodCell(c, new, objects[HostOf[c]] \cup {i.revisionId})
  BY <1>1, <1>3, QueuedGood
<1>5. Storable(c, new, {i.revisionId})
  BY <1>1, <1>2, <1>4 DEF Storable
<1>6. CellBasics' /\ (disk' = disk \/ disk' = [disk EXCEPT ![c] = new])
  BY <1>5, StoreKeeps DEF CellBasics
<1>7. ASSUME disk' = [disk EXCEPT ![c] = new] PROVE QueuedAt(c, i, new)
  <2>1. /\ \A j \in disk[c].outbox : j.mutationId # i.mutationId
        /\ new.sync = disk[c].sync /\ new.outbox = disk[c].outbox \cup {i}
    BY <1>1, <1>3
  <2>2. QED
    BY <1>1, <1>7, <2>1 DEF QueuedAt, WrittenAt
<1>8. QED
  BY <1>6, <1>7 DEF DiskStep

NewIntent(t, m, e, r) ==
  [target |-> t, mutationId |-> m, expectedHead |-> e, revisionId |-> r, receipt |-> None]

LEMMA NewIntentTyped ==
  ASSUME NEW t \in Replica, NEW m \in Mutation, NEW e \in LocalHead, NEW r \in Revision
  PROVE  /\ NewIntent(t, m, e, r) \in Intent
         /\ NewIntent(t, m, e, r).target = t /\ NewIntent(t, m, e, r).mutationId = m
         /\ NewIntent(t, m, e, r).expectedHead = e /\ NewIntent(t, m, e, r).revisionId = r
         /\ NewIntent(t, m, e, r).receipt = None
BY DEF NewIntent, Intent

LEMMA QueueStep ==
  ASSUME CellBasics, NEW c \in Replica, NEW t \in Replica \ Jobs, NEW m \in Mutation,
         NEW e \in LocalHead, NEW r \in Revision, NEW o \in WriteOutcome,
         Queue(c, t, m, e, r, o)
  PROVE  CellBasics' /\ DiskStep
<1> DEFINE x == memory[c]
           i == NewIntent(t, m, e, r)
           R == x.revisions \cup {r}
           Q == x.outbox \cup {i}
           new == [x EXCEPT !.revisions = R, !.outbox = Q]
<1>1. /\ Usable(c) /\ Bound(e, r) /\ \A j \in x.outbox : j.mutationId # m
      /\ Cardinality(x.outbox) < OutboxLimit /\ Cardinality(R) <= RevisionLimit
      /\ Store(c, new, {r}, o)
  BY DEF Queue, HasRoom, NewIntent
<1>2. /\ i \in Intent /\ i.target = t /\ i.mutationId = m /\ i.expectedHead = e
      /\ i.revisionId = r /\ i.receipt = None
  BY NewIntentTyped
<1>3. x \in SyncCell
  BY <1>1, UsableCell
<1>4. R \in SUBSET Revision /\ Q \in SUBSET Intent
  BY <1>2, <1>3, CellFields
<1>5. new = [x EXCEPT !.revisions = R, !.outbox = Q]
  OBVIOUS
<1> HIDE DEF new, i, R, Q, x
<1>6. new \in SyncCell /\ new.sync = x.sync /\ new.revisions = R /\ new.outbox = Q
  BY <1>3, <1>4, <1>5 DEF SyncCell
<1>7. /\ Bound(i.expectedHead, i.revisionId) /\ i.target \notin Jobs
      /\ \A j \in memory[c].outbox : j.mutationId # i.mutationId
      /\ Cardinality(memory[c].outbox) < OutboxLimit
      /\ Cardinality(memory[c].revisions \cup {i.revisionId}) <= RevisionLimit
  BY <1>1, <1>2 DEF x, R
<1>8. /\ new.sync = memory[c].sync /\ new.revisions = memory[c].revisions \cup {i.revisionId}
      /\ new.outbox = memory[c].outbox \cup {i} /\ Store(c, new, {i.revisionId}, o)
  BY <1>1, <1>2, <1>6 DEF x, R, Q
<1>9. QED
  BY <1>1, <1>2, <1>6, <1>7, <1>8, IntentStored

LEMMA ApproveStep ==
  ASSUME CellBasics, NEW c \in Jobs, NEW t \in Replica \ Jobs, NEW m \in Mutation,
         NEW e \in LocalHead, NEW r \in Revision, NEW o \in WriteOutcome,
         Approve(c, t, m, e, r, o)
  PROVE  CellBasics' /\ DiskStep
<1> DEFINE x == memory[c]
           i == NewIntent(t, m, e, r)
           R == {r}
           Q == {i}
           new == [x EXCEPT !.revisions = R, !.outbox = Q]
<1>1. /\ Usable(c) /\ Bound(e, r) /\ x.outbox = {} /\ Store(c, new, {r}, o)
  BY DEF Approve, NewIntent
<1>2. /\ i \in Intent /\ i.target = t /\ i.mutationId = m /\ i.expectedHead = e
      /\ i.revisionId = r /\ i.receipt = None
  BY NewIntentTyped
<1>3. c \in Replica
  BY OutboxAssumption
<1>4. x \in SyncCell /\ x.revisions = {}
  <2>1. x \in SyncCell /\ GoodCell(c, x, objects[HostOf[c]])
    BY <1>1, <1>3, UsableCell
  <2>2. QED
    BY <1>1, <2>1 DEF GoodCell
<1>5. R \in SUBSET Revision /\ Q \in SUBSET Intent
  BY <1>2
<1>6. new = [x EXCEPT !.revisions = R, !.outbox = Q]
  OBVIOUS
<1>7. Cardinality({}) = 0 /\ Cardinality({r}) = 1
  BY FS_EmptySet, FS_Singleton
<1>8. Cardinality(x.outbox) < OutboxLimit /\ Cardinality(x.revisions \cup {r}) <= RevisionLimit
  <2>1. Cardinality(x.outbox) = 0
    BY <1>1, <1>7, Zenon
  <2>2. x.revisions \cup {r} = {r}
    BY <1>4
  <2>3. Cardinality(x.revisions \cup {r}) = 1
    BY <1>7, <2>2, Zenon
  <2>4. QED
    BY <2>1, <2>3, Limits
<1> HIDE DEF new, i, R, Q, x
<1>9. new \in SyncCell /\ new.sync = x.sync /\ new.revisions = R /\ new.outbox = Q
  BY <1>4, <1>5, <1>6 DEF SyncCell
<1>10. /\ Bound(i.expectedHead, i.revisionId) /\ i.target \notin Jobs
       /\ \A j \in memory[c].outbox : j.mutationId # i.mutationId
       /\ Cardinality(memory[c].outbox) < OutboxLimit
       /\ Cardinality(memory[c].revisions \cup {i.revisionId}) <= RevisionLimit
  BY <1>1, <1>2, <1>8 DEF x
<1>11. /\ new.sync = memory[c].sync /\ new.revisions = memory[c].revisions \cup {i.revisionId}
       /\ new.outbox = memory[c].outbox \cup {i} /\ Store(c, new, {i.revisionId}, o)
  BY <1>1, <1>2, <1>4, <1>9 DEF x, R, Q
<1>12. QED
  BY <1>1, <1>2, <1>3, <1>9, <1>10, <1>11, IntentStored

\* Recording needs no room beyond what AccountedFits finds.
LEMMA RecordStep ==
  ASSUME OutboxInv, NEW k \in deliveries, NEW o \in WriteOutcome, Record(k, o)
  PROVE  CellBasics' /\ DiskStep
<1> DEFINE c == k.source
           x == memory[c]
           i == k.intent
           j == [i EXCEPT !.receipt = k.receipt]
           refs == ObservedRevisions(k.receipt)
           R == x.revisions \cup refs
           Q == (x.outbox \ {i}) \cup {j}
           new == [x EXCEPT !.revisions = R, !.outbox = Q]
<1>1. /\ k.receipt # None /\ Usable(c) /\ i \in x.outbox /\ Store(c, new, refs, o)
  BY DEF Record
<1>2. /\ CellBasics /\ k \in Delivery /\ DeliveryGood(k)
  BY DEF OutboxInv, TypeOK, CellBasics, CellTypes, DeliveriesGood
<1>3. /\ c \in Replica /\ i \in Intent /\ k.receipt \in Receipt /\ i.receipt = None
      /\ Holds(i.target, k.receipt) /\ Decides(k.receipt, i)
  BY <1>1, <1>2 DEF Delivery, DeliveryGood
<1>4. j \in Intent /\ SameRequest(i, j) /\ j.receipt = k.receipt
  BY <1>3 DEF Intent, SameRequest
<1>5. Decides(j.receipt, j)
  BY <1>3, <1>4 DEF Decides, SameRequest
<1>6. /\ c \in Replica \ frozen /\ x = disk[c] /\ disk[c] # None
      /\ x \in SyncCell /\ objects[HostOf[c]] \in SUBSET Revision
      /\ GoodCell(c, x, objects[HostOf[c]])
  BY <1>1, <1>2, <1>3, UsableCell
<1>7. refs \in SUBSET Revision
  BY <1>3 DEF ObservedRevisions, Receipt, LocalHead
<1>8. R \in SUBSET Revision /\ Q \in SUBSET Intent
  BY <1>4, <1>6, <1>7, CellFields
<1>9. new = [x EXCEPT !.revisions = R, !.outbox = Q]
  OBVIOUS
<1>10. R = x.revisions \cup ObservedRevisions(j.receipt) /\ refs = ObservedRevisions(j.receipt)
  BY <1>4, Zenon
<1>11. Q = (x.outbox \ {i}) \cup {j}
  OBVIOUS
<1> HIDE DEF new, i, j, c, R, Q, x, refs
<1>12. new \in SyncCell /\ new.sync = x.sync /\ new.revisions = R /\ new.outbox = Q
  BY <1>6, <1>8, <1>9 DEF SyncCell
<1>13. GoodCell(c, new, objects[HostOf[c]] \cup refs)
  <2>1. /\ new.revisions = x.revisions \cup ObservedRevisions(j.receipt)
        /\ new.outbox = (x.outbox \ {i}) \cup {j} /\ new.sync = x.sync
    BY <1>10, <1>11, <1>12
  <2>2. j.receipt # None /\ i \in x.outbox
    BY <1>1, <1>4
  <2>3. GoodCell(c, new, objects[HostOf[c]] \cup ObservedRevisions(j.receipt))
    BY <1>3, <1>4, <1>5, <1>6, <1>12, <2>1, <2>2, RecordedGood
  <2>4. QED
    BY <1>10, <2>3, Zenon
<1>14. Storable(c, new, refs)
  BY <1>6, <1>7, <1>12, <1>13 DEF Storable
<1>15. CellBasics' /\ (disk' = disk \/ disk' = [disk EXCEPT ![c] = new])
  BY <1>1, <1>2, <1>14, StoreKeeps DEF CellBasics
<1>16. ASSUME disk' = [disk EXCEPT ![c] = new] PROVE RecordedAt(c, i, j, new)
  <2>1. Holds(i.target, j.receipt) /\ j.receipt # None
    BY <1>1, <1>3, <1>4
  <2>2. new.sync = disk[c].sync /\ new.outbox = (disk[c].outbox \ {i}) \cup {j} /\ i \in disk[c].outbox
    BY <1>1, <1>6, <1>11, <1>12
  <2>3. QED
    BY <1>3, <1>4, <1>5, <1>6, <1>12, <1>16, <2>1, <2>2 DEF RecordedAt, WrittenAt
<1>17. QED
  BY <1>3, <1>4, <1>12, <1>15, <1>16 DEF DiskStep

-----------------------------------------------------------------------------
(* Deliveries.                                                               *)

LEMMA DeliveryStays ==
  ASSUME CellTypes, DiskStep, NEW k \in Delivery, DeliveryGood(k)
  PROVE  DeliveryGood(k)'
<1>1. k.intent.target \in Replica /\ k.source \in Replica \cup {None}
  BY DEF Delivery, Intent
<1>2. k.source # None => Grown(k.source)
  BY <1>1, StepGrows
<1>3. \A i, j, l : SameRequest(i, j) /\ SameRequest(j, l) => SameRequest(i, l)
  BY DEF SameRequest
<1>4. \A i, j : SameRequest(i, j) => SameRequest(j, i)
  BY DEF SameRequest
<1>5. ASSUME k.source # None
      PROVE  disk'[k.source] # None /\ \E j \in disk'[k.source].outbox : SameRequest(j, k.intent)
  <2>1. PICK i \in disk[k.source].outbox : disk[k.source] # None /\ SameRequest(i, k.intent)
    BY <1>5 DEF DeliveryGood
  <2>2. disk'[k.source] # None /\ \E j \in disk'[k.source].outbox : SameRequest(i, j)
    BY <1>2, <1>5, <2>1 DEF Grown
  <2>3. QED
    BY <1>3, <1>4, <2>1, <2>2
<1>6. ASSUME k.receipt # None PROVE Holds(k.intent.target, k.receipt)'
  <2>1. Holds(k.intent.target, k.receipt) /\ Grown(k.intent.target)
    BY <1>1, <1>6, StepGrows DEF DeliveryGood
  <2>2. QED
    BY <1>1, <2>1, GrownHolds
<1>7. QED
  BY <1>5, <1>6 DEF DeliveryGood

\* All deliveries but those that are new in a step.
Added(new) ==
  /\ new \subseteq Delivery /\ deliveries' \subseteq deliveries \cup new
  /\ \A k \in new : DeliveryGood(k)'

LEMMA DeliveriesStay ==
  ASSUME OutboxInv, DiskStep, NEW new, Added(new)
  PROVE  deliveries' \subseteq Delivery /\ DeliveriesGood'
<1>1. \A k \in deliveries : k \in Delivery /\ DeliveryGood(k)
  BY DEF OutboxInv, TypeOK, DeliveriesGood
<1>2. CellTypes
  BY DEF OutboxInv, TypeOK, CellTypes
<1>3. \A k \in deliveries : DeliveryGood(k)'
  BY <1>1, <1>2, DeliveryStays
<1>4. QED
  BY <1>1, <1>3 DEF DeliveriesGood, Added

LEMMA BeginStep ==
  ASSUME OutboxInv, NEW c \in Replica, NEW i, BeginDelivery(c, i)
  PROVE  CellBasics' /\ DiskStep /\ deliveries' \subseteq Delivery /\ DeliveriesGood'
<1> DEFINE k == [source |-> c, intent |-> i, receipt |-> None]
<1>1. /\ Usable(c) /\ i \in memory[c].outbox /\ i.receipt = None
      /\ deliveries' = deliveries \cup {k} /\ UNCHANGED <<disk, memory, frozen, objects>>
  BY DEF BeginDelivery
<1>2. CellBasics
  BY DEF OutboxInv, TypeOK, CellBasics, CellTypes
<1>3. /\ memory[c] = disk[c] /\ disk[c] # None /\ memory[c] \in SyncCell
      /\ GoodCell(c, memory[c], objects[HostOf[c]])
  BY <1>1, <1>2, UsableCell
<1>4. i \in Intent /\ i.target \notin Jobs
  BY <1>1, <1>3, CellFields DEF GoodCell
<1>5. c # None
  BY OutboxNoneAssumption
<1>6. k \in Delivery /\ k.source = c /\ k.intent = i /\ k.receipt = None
  BY <1>4 DEF Delivery
<1> HIDE DEF k
<1>7. DeliveryGood(k)'
  <2>1. SameRequest(i, i)
    BY DEF SameRequest
  <2>2. DeliveryGood(k)
    BY <1>1, <1>3, <1>4, <1>6, <2>1 DEF DeliveryGood
  <2>3. QED
    BY <1>1, <2>2 DEF DeliveryGood, Holds
<1>8. DiskStep
  BY <1>1 DEF DiskStep
<1>9. deliveries' \subseteq Delivery /\ DeliveriesGood'
  <2>1. Added({k})
    BY <1>1, <1>6, <1>7 DEF Added
  <2>2. QED
    BY <1>8, <2>1, DeliveriesStay
<1>10. CellBasics'
  BY <1>1, <1>2 DEF CellBasics, CellTypes, CellsGood, Coherent
<1>11. QED
  BY <1>8, <1>9, <1>10

\* What an answer adds to the deliveries, once the receiver holds the receipt.
LEMMA AnswerGood ==
  ASSUME OutboxInv, DiskStep, NEW k \in deliveries, NEW x \in Receipt,
         Decides(x, k.intent), Holds(k.intent.target, x)', deliveries' = Answered(k, x)
  PROVE  deliveries' \subseteq Delivery /\ DeliveriesGood'
<1> DEFINE a == [k EXCEPT !.receipt = x]
<1>1. k \in Delivery /\ DeliveryGood(k) /\ CellTypes
  BY DEF OutboxInv, TypeOK, CellTypes, DeliveriesGood
<1>2. CASE k.source = None
  <2>1. Added({})
    BY <1>2 DEF Answered, Added
  <2>2. QED
    BY <2>1, DeliveriesStay
<1>3. CASE k.source # None
  <2>1. deliveries' \subseteq deliveries \cup {a}
    BY <1>3 DEF Answered
  <2>2. a \in Delivery /\ a.source = k.source /\ a.intent = k.intent /\ a.receipt = x
    BY <1>1 DEF Delivery
  <2> HIDE DEF a
  <2>3. DeliveryGood(k)'
    BY <1>1, DeliveryStays
  <2>4. DeliveryGood(a)'
    BY <1>3, <2>2, <2>3 DEF DeliveryGood
  <2>5. Added({a})
    BY <2>1, <2>2, <2>4 DEF Added
  <2>6. QED
    BY <2>5, DeliveriesStay
<1>4. QED
  BY <1>2, <1>3

LEMMA Fewer ==
  ASSUME OutboxInv, DiskStep, deliveries' \subseteq deliveries
  PROVE  deliveries' \subseteq Delivery /\ DeliveriesGood'
<1>1. Added({})
  BY DEF Added
<1>2. QED
  BY <1>1, DeliveriesStay

LEMMA Quiet ==
  ASSUME CellBasics, UNCHANGED <<disk, memory, frozen, objects>>
  PROVE  CellBasics' /\ DiskStep
BY DEF CellBasics, CellTypes, CellsGood, Coherent, DiskStep

LEMMA ReceiveStep ==
  ASSUME OutboxInv, NEW k \in deliveries, NEW o \in WriteOutcome, Receive(k, o)
  PROVE  CellBasics' /\ DiskStep /\ deliveries' \subseteq Delivery /\ DeliveriesGood'
<1> DEFINE i == k.intent
           t == i.target
           s == memory[t].sync
           m == i.mutationId
           e == i.expectedHead
           r == i.revisionId
<1>1. CellBasics /\ k \in Delivery /\ DeliveryGood(k)
  BY DEF OutboxInv, TypeOK, CellBasics, CellTypes, DeliveriesGood
<1>2. /\ i \in Intent /\ t \in Replica \ Jobs /\ m \in Mutation /\ e \in LocalHead /\ r \in Revision
  BY <1>1 DEF Delivery, DeliveryGood, Intent
<1>3. Usable(t)
  BY DEF Receive
<1>4. /\ memory[t] = disk[t] /\ disk[t] # None /\ memory[t] \in SyncCell
  BY <1>1, <1>2, <1>3, UsableCell
<1>5. s \in SyncState
  BY <1>4, CellFields
<1>6. CASE /\ CanReplay(s, m, e, r) /\ deliveries' = Answered(k, ReceiptOf(s, m))
           /\ UNCHANGED <<disk, memory, frozen, objects>>
  <2>1. CellBasics' /\ DiskStep
    BY <1>1, <1>6, Quiet
  <2>2. PICK x : /\ x = ReceiptOf(s, m) /\ x \in s.receipts
                 /\ x.mutationId = m /\ x.revisionId = r /\ x.expectedHead = e
    BY <1>6 DEF CanReplay, HasReceipt, ReceiptOf
  <2>3. x \in Receipt
    BY <1>5, <2>2 DEF SyncState
  <2>4. Decides(x, k.intent)
    BY <2>2 DEF Decides
  <2>5. Holds(k.intent.target, x)'
    BY <1>4, <1>6, <2>2 DEF Holds
  <2>6. deliveries' = Answered(k, x)
    BY <1>6, <2>2
  <2>7. QED
    BY <2>1, <2>3, <2>4, <2>5, <2>6, AnswerGood
<1>7. CASE /\ CanPublish(s, m, e, r) /\ StorePublication(t, m, e, r, o)
           /\ deliveries' = IF o = "ok" THEN Answered(k, NewReceipt(s, m, e, r))
                            ELSE deliveries \ {k}
  <2>1. /\ CellBasics' /\ DiskStep
        /\ o = "ok" => \E new \in SyncCell : PublishedAt(t, m, e, r, new)
    BY <1>1, <1>2, <1>3, <1>7, PublicationStep
  <2>2. CASE o # "ok"
    <3>1. deliveries' \subseteq deliveries
      BY <1>7, <2>2
    <3>2. QED
      BY <2>1, <3>1, Fewer
  <2>3. CASE o = "ok"
    <3>1. PICK new \in SyncCell : PublishedAt(t, m, e, r, new)
      BY <2>1, <2>3
    <3>2. PICK x \in Receipt : x = NewReceipt(s, m, e, r)
      BY <1>2, <1>5, <1>7, PublishedTyped
    <3>3. Decides(x, k.intent)
      BY <3>2, NewReceiptDecides DEF Decides
    <3>4. disk'[t] # None /\ x \in disk'[t].sync.receipts
      <4>1. disk'[t] = new /\ new # None
        BY <1>1, <3>1, WrittenCells DEF PublishedAt, CellBasics
      <4>2. new.sync = Published(s, m, e, r)
        BY <1>4, <3>1 DEF PublishedAt
      <4>3. x \in new.sync.receipts
        BY <3>2, <4>2, NewReceiptDecides
      <4>4. QED
        BY <4>1, <4>3
    <3>5. Holds(k.intent.target, x)'
      BY <3>4 DEF Holds
    <3>6. deliveries' = Answered(k, x)
      BY <1>7, <2>3, <3>2
    <3>7. QED
      BY <2>1, <3>2, <3>3, <3>5, <3>6, AnswerGood
  <2>4. QED
    BY <2>2, <2>3
<1>8. QED
  BY <1>6, <1>7 DEF Receive

LEMMA RestartStep ==
  ASSUME OutboxInv, NEW h \in Host, Restart(h)
  PROVE  CellBasics' /\ DiskStep /\ deliveries' \subseteq Delivery /\ DeliveriesGood'
<1> DEFINE cells == {c \in Replica : HostOf[c] = h}
           mine == {k \in deliveries : k.source \in cells}
           asking == {k \in deliveries : k.receipt = None /\ k.intent.target \in cells}
           orphans == {[k EXCEPT !.source = None] : k \in {j \in mine \ asking : j.receipt = None}}
<1>1. /\ memory' = [c \in Replica |-> IF c \in cells THEN disk[c] ELSE memory[c]]
      /\ frozen' = (frozen \ cells) \cup
           {c \in cells : disk[c] # None /\ ~ReadableCell(disk[c], objects[h])}
      /\ deliveries' = (deliveries \ (mine \cup asking)) \cup orphans
      /\ disk' = disk /\ objects' = objects
  BY DEF Restart
<1>2. CellTypes /\ CellsGood /\ Coherent /\ deliveries \subseteq Delivery /\ DeliveriesGood
  BY DEF OutboxInv, TypeOK, CellTypes
<1>3. DiskStep
  BY <1>1 DEF DiskStep
<1>4. \A c \in cells : disk[c] # None => ReadableCell(disk[c], objects[h])
  BY <1>2 DEF CellsGood, GoodCell
<1>5. frozen' = frozen \ cells
  BY <1>1, <1>4
<1>6. CellTypes'
  <2>1. memory' \in [Replica -> SyncCell \cup {None}]
    BY <1>1, <1>2 DEF CellTypes
  <2>2. frozen' \subseteq Replica
    BY <1>2, <1>5 DEF CellTypes
  <2>3. QED
    BY <1>1, <1>2, <2>1, <2>2 DEF CellTypes
<1>7. CellsGood'
  BY <1>1, <1>2 DEF CellsGood
<1>8. Coherent'
  BY <1>1, <1>2, <1>5 DEF Coherent
<1>9. Added(orphans)
  <2>1. deliveries' \subseteq deliveries \cup orphans
    BY <1>1
  <2>2. ASSUME NEW k \in mine, k.receipt = None
        PROVE  [k EXCEPT !.source = None] \in Delivery /\ DeliveryGood([k EXCEPT !.source = None])'
    <3> DEFINE a == [k EXCEPT !.source = None]
    <3>1. k \in Delivery /\ DeliveryGood(k)
      BY <1>2 DEF DeliveriesGood
    <3>2. a \in Delivery /\ a.source = None /\ a.intent = k.intent /\ a.receipt = None
      BY <2>2, <3>1 DEF Delivery
    <3>3. k.intent.receipt = None /\ k.intent.target \notin Jobs
      BY <3>1 DEF DeliveryGood
    <3> HIDE DEF a
    <3>4. a.intent.receipt = None /\ a.intent.target \notin Jobs
      BY <3>2, <3>3, Zenon
    <3>5. DeliveryGood(a)'
      BY <3>2, <3>4 DEF DeliveryGood
    <3>6. a \in Delivery /\ DeliveryGood(a)'
      BY <3>2, <3>5
    <3>7. QED
      BY <3>6 DEF a
  <2>3. \A a \in orphans : a \in Delivery /\ DeliveryGood(a)'
    BY <2>2
  <2> HIDE DEF orphans
  <2>4. QED
    BY <2>1, <2>3 DEF Added
<1>10. deliveries' \subseteq Delivery /\ DeliveriesGood'
  BY <1>3, <1>9, DeliveriesStay
<1>11. QED
  BY <1>3, <1>6, <1>7, <1>8, <1>10 DEF CellBasics

-----------------------------------------------------------------------------
(* The invariant.                                                            *)

LEMMA OutboxInit == Init => OutboxInv
<1>1. SUFFICES ASSUME Init PROVE OutboxInv
  OBVIOUS
<1>2. /\ disk = [c \in Replica |-> None] /\ memory = disk /\ frozen = {}
      /\ objects = [h \in Host |-> {}] /\ deliveries = {}
  BY <1>1 DEF Init
<1>3. TypeOK
  BY <1>2 DEF TypeOK
<1>4. CellsGood /\ Coherent /\ AcksHeld /\ DeliveriesGood
  BY <1>2 DEF CellsGood, Coherent, AcksHeld, DeliveriesGood
<1>5. QED
  BY <1>3, <1>4 DEF OutboxInv

LEMMA SeenHeadsTyped ==
  ASSUME CellTypes, NEW t \in Replica, memory[t] # None
  PROVE  SeenHeads(t) \subseteq LocalHead
<1>1. memory[t] \in SyncCell
  BY DEF CellTypes
<1>2. memory[t].sync.receipts \subseteq Receipt
  BY <1>1, CellFields DEF SyncState
<1>3. EmptyHead \in LocalHead
  BY LimitAssumption DEF EmptyHead, LocalHead
<1>4. QED
  BY <1>2, <1>3 DEF SeenHeads, Receipt

LEMMA WriteStep ==
  ASSUME OutboxInv, NEW c \in Replica, NEW o \in WriteOutcome, Write(c, o)
  PROVE  CellBasics' /\ DiskStep /\ deliveries' \subseteq Delivery /\ DeliveriesGood'
<1>1. CellBasics
  BY DEF OutboxInv, TypeOK, CellBasics, CellTypes
<1>2. SUFFICES CellBasics' /\ DiskStep /\ deliveries' = deliveries
  BY Fewer
<1>3. CASE Create(c, o)
  BY <1>1, <1>3, CreateStep DEF Create
<1>4. ASSUME NEW t \in Replica, NEW m \in Mutation, NEW r \in Revision, memory[t] # None,
             NEW e \in SeenHeads(t),
             \/ t = c /\ t \in Editors /\ Publish(c, m, e, r, o)
             \/ t \in Targets[c] /\ c \notin Jobs /\ Queue(c, t, m, e, r, o)
             \/ t \in Targets[c] /\ c \in Jobs /\ Approve(c, t, m, e, r, o)
      PROVE  CellBasics' /\ DiskStep /\ deliveries' = deliveries
  <2>1. e \in LocalHead
    BY <1>1, <1>4, SeenHeadsTyped DEF CellBasics
  <2>2. CASE t = c /\ t \in Editors /\ Publish(c, m, e, r, o)
    <3>1. c \in Replica \ Jobs
      BY <2>2, OutboxAssumption
    <3>2. QED
      BY <1>1, <2>1, <2>2, <3>1, PublicationStep DEF Publish
  <2>3. CASE t \in Targets[c] /\ c \notin Jobs /\ Queue(c, t, m, e, r, o)
    <3>1. t \in Replica \ Jobs
      BY <2>3, OutboxAssumption
    <3>2. QED
      BY <1>1, <2>1, <2>3, <3>1, QueueStep DEF Queue
  <2>4. CASE t \in Targets[c] /\ c \in Jobs /\ Approve(c, t, m, e, r, o)
    <3>1. t \in Replica \ Jobs
      BY <2>4, OutboxAssumption
    <3>2. QED
      BY <1>1, <2>1, <2>4, <3>1, ApproveStep DEF Approve
  <2>5. QED
    BY <1>4, <2>2, <2>3, <2>4
<1>5. QED
  BY <1>3, <1>4 DEF Write

LEMMA OutboxStep == OutboxInv /\ [Next]_vars => OutboxInv' /\ DiskStep
<1>1. SUFFICES ASSUME OutboxInv, [Next]_vars PROVE OutboxInv' /\ DiskStep
  OBVIOUS
<1>2. SUFFICES CellBasics' /\ DiskStep /\ deliveries' \subseteq Delivery /\ DeliveriesGood'
  <2>1. CellTypes /\ AcksHeld
    BY <1>1 DEF OutboxInv, TypeOK, CellTypes
  <2>2. CellTypes' /\ DiskStep => AcksHeld'
    BY <2>1, AcksKept
  <2>3. QED
    BY <2>2 DEF OutboxInv, TypeOK, CellBasics, CellTypes
<1>3. CellBasics
  BY <1>1 DEF OutboxInv, TypeOK, CellBasics, CellTypes
<1>4. ASSUME NEW c \in Replica, NEW o \in WriteOutcome, Write(c, o)
      PROVE  CellBasics' /\ DiskStep /\ deliveries' \subseteq Delivery /\ DeliveriesGood'
  BY <1>1, <1>4, WriteStep
<1>5. ASSUME NEW c \in Replica, NEW i, BeginDelivery(c, i)
      PROVE  CellBasics' /\ DiskStep /\ deliveries' \subseteq Delivery /\ DeliveriesGood'
  BY <1>1, <1>5, BeginStep
<1>6. ASSUME NEW k \in deliveries, EndDelivery(k)
      PROVE  CellBasics' /\ DiskStep /\ deliveries' \subseteq Delivery /\ DeliveriesGood'
  <2>1. deliveries' \subseteq deliveries /\ UNCHANGED <<disk, memory, frozen, objects>>
    BY <1>6 DEF EndDelivery
  <2>2. QED
    BY <1>1, <1>3, <2>1, Quiet, Fewer
<1>7. ASSUME NEW k \in deliveries, NEW o \in WriteOutcome, Receive(k, o)
      PROVE  CellBasics' /\ DiskStep /\ deliveries' \subseteq Delivery /\ DeliveriesGood'
  BY <1>1, <1>7, ReceiveStep
<1>8. ASSUME NEW k \in deliveries, NEW o \in WriteOutcome, Record(k, o)
      PROVE  CellBasics' /\ DiskStep /\ deliveries' \subseteq Delivery /\ DeliveriesGood'
  <2>1. deliveries' \subseteq deliveries
    BY <1>8 DEF Record
  <2>2. QED
    BY <1>1, <1>8, <2>1, RecordStep, Fewer
<1>9. ASSUME NEW h \in Host, Restart(h)
      PROVE  CellBasics' /\ DiskStep /\ deliveries' \subseteq Delivery /\ DeliveriesGood'
  BY <1>1, <1>9, RestartStep
<1>10. CASE UNCHANGED vars
  <2>1. deliveries' \subseteq deliveries /\ UNCHANGED <<disk, memory, frozen, objects>>
    BY <1>10 DEF vars
  <2>2. QED
    BY <1>1, <1>3, <2>1, Quiet, Fewer
<1>11. QED
  BY <1>1, <1>4, <1>5, <1>6, <1>7, <1>8, <1>9, <1>10 DEF Next

LEMMA OutboxInvariant == Spec => []OutboxInv
<1>1. OutboxInv /\ [Next]_vars => OutboxInv'
  BY OutboxStep
<1>2. QED
  BY OutboxInit, <1>1, PTL DEF Spec

-----------------------------------------------------------------------------
\* Every variable keeps its type.
THEOREM OutboxTyped == Spec => []TypeOK
<1>1. OutboxInv => TypeOK
  BY DEF OutboxInv
<1>2. QED
  BY <1>1, OutboxInvariant, PTL

\* CellsRestorable, for any hosts and limits: whichever write of a cell or of its
\* objects fails, the file that is left passes checkCell and verifyCellObjects.
THEOREM CellsRestore == Spec => []CellsRestorable
<1>1. OutboxInv => CellsRestorable
  BY DEF OutboxInv, CellsGood, GoodCell, CellsRestorable
<1>2. QED
  BY <1>1, OutboxInvariant, PTL

\* RevisionsAccounted: receipts and intents account for all revisions of a cell,
\* so that recording a receipt never meets the revision limit (AccountedFits).
THEOREM RevisionsFit == Spec => []RevisionsAccounted
<1>1. OutboxInv => RevisionsAccounted
  BY DEF OutboxInv, CellsGood, GoodCell, Acked, RevisionsAccounted
<1>2. QED
  BY <1>1, OutboxInvariant, PTL

\* ReceiptsAgree: however many deliveries of an intent race, are lost or are
\* repeated, they never come back with two different receipts.
THEOREM ReceiptsNeverDiffer == Spec => []ReceiptsAgree
<1>1. OutboxInv => ReceiptsAgree
  <2>1. SUFFICES ASSUME OutboxInv, NEW k \in deliveries, k.receipt # None,
                        NEW c \in Replica \ frozen, k.source = c,
                        NEW i \in memory[c].outbox,
                        i.mutationId = k.intent.mutationId, i.receipt # None
                 PROVE  i.receipt = k.receipt
    BY DEF ReceiptsAgree
  <2>2. /\ DeliveryGood(k) /\ memory[c] = disk[c] /\ CellsGood /\ AcksHeld
        /\ c # None /\ disk \in [Replica -> SyncCell \cup {None}]
    <3>1. c # None
      BY OutboxNoneAssumption
    <3>2. DeliveryGood(k) /\ memory[c] = disk[c]
      BY <2>1 DEF OutboxInv, DeliveriesGood, Coherent
    <3>3. CellsGood /\ AcksHeld /\ disk \in [Replica -> SyncCell \cup {None}]
      BY <2>1 DEF OutboxInv, TypeOK
    <3>4. QED
      BY <3>1, <3>2, <3>3
  <2>3. /\ disk[c] # None /\ \E j \in disk[c].outbox : SameRequest(j, k.intent)
        /\ Holds(k.intent.target, k.receipt) /\ Decides(k.receipt, k.intent)
    BY <2>1, <2>2 DEF DeliveryGood
  <2>4. disk[c] \in SyncCell /\ ReadableCell(disk[c], objects[HostOf[c]])
    BY <2>2, <2>3 DEF CellsGood, GoodCell
  <2>5. SameRequest(i, k.intent) /\ i \in Intent
    <3>1. \A a, b \in disk[c].outbox : a.mutationId = b.mutationId => a = b
      BY <2>4 DEF ReadableCell
    <3>2. QED
      BY <2>1, <2>2, <2>3, <2>4, <3>1, CellFields DEF SameRequest
  <2>6. Holds(i.target, i.receipt) /\ Holds(i.target, k.receipt)
    BY <2>1, <2>2, <2>3, <2>5 DEF AcksHeld, SameRequest
  <2>7. i.receipt.mutationId = k.receipt.mutationId
    BY <2>1, <2>2, <2>3, <2>4 DEF ReadableCell, Decides
  <2>8. i.target \in Replica /\ disk[i.target] # None
    BY <2>5, <2>6 DEF Intent, Holds
  <2>9. ReadableSync(disk[i.target].sync)
    BY <2>2, <2>8 DEF CellsGood, GoodCell, ReadableCell
  <2>10. QED
    BY <2>6, <2>7, <2>9 DEF Holds, ReadableSync
<1>2. QED
  BY <1>1, OutboxInvariant, PTL

-----------------------------------------------------------------------------
(* One step of a cell and of an intent.                                      *)

SyncMoves ==
  \A c \in Replica : SyncOf(c)' # SyncOf(c) =>
    \E x \in SyncOf(c)'.receipts \ SyncOf(c).receipts :
      /\ CanPublish(SyncOf(c), x.mutationId, x.expectedHead, x.revisionId)
      /\ SyncOf(c)' = Published(SyncOf(c), x.mutationId, x.expectedHead, x.revisionId)

LEMMA StepSync ==
  ASSUME CellTypes, DiskStep
  PROVE  SyncMoves
<1>1. SUFFICES ASSUME NEW c \in Replica, SyncOf(c)' # SyncOf(c)
               PROVE  \E x \in SyncOf(c)'.receipts \ SyncOf(c).receipts :
                        /\ CanPublish(SyncOf(c), x.mutationId, x.expectedHead, x.revisionId)
                        /\ SyncOf(c)' = Published(SyncOf(c), x.mutationId, x.expectedHead, x.revisionId)
  BY DEF SyncMoves
<1>2. ASSUME disk[c] # None, disk'[c] # None PROVE disk'[c].sync # disk[c].sync
  BY <1>1, <1>2 DEF SyncOf
<1>3. disk'[c] # disk[c]
  BY <1>1 DEF SyncOf
<1>4. ASSUME NEW d \in Replica, MadeAt(d) PROVE FALSE
  <2>1. d = c /\ disk[c] = None /\ disk'[c] = CreatedCell
    BY <1>3, <1>4, WrittenCells DEF MadeAt
  <2>2. QED
    BY <1>1, <2>1 DEF SyncOf, CreatedCell
<1>5. ASSUME NEW d \in Replica, NEW i \in Intent, NEW new \in SyncCell, QueuedAt(d, i, new)
      PROVE  FALSE
  BY <1>2, <1>3, <1>5, WrittenCells DEF QueuedAt
<1>6. ASSUME NEW d \in Replica, NEW i \in Intent, NEW j \in Intent, NEW new \in SyncCell,
             RecordedAt(d, i, j, new)
      PROVE  FALSE
  BY <1>2, <1>3, <1>6, WrittenCells DEF RecordedAt
<1>7. PICK d \in Replica, m \in Mutation, e \in LocalHead, r \in Revision, new \in SyncCell :
        PublishedAt(d, m, e, r, new)
  BY <1>3, <1>4, <1>5, <1>6 DEF DiskStep
<1>8. /\ d = c /\ disk[c] # None /\ disk'[c] # None /\ CanPublish(disk[c].sync, m, e, r)
      /\ disk'[c].sync = Published(disk[c].sync, m, e, r)
  BY <1>3, <1>7, WrittenCells DEF PublishedAt
<1>9. SyncOf(c) = disk[c].sync /\ SyncOf(c)' = disk'[c].sync
  BY <1>8 DEF SyncOf
<1> DEFINE s == disk[c].sync
           x == NewReceipt(s, m, e, r)
<1>10. /\ x.mutationId = m /\ x.revisionId = r /\ x.expectedHead = e
       /\ x \in Published(s, m, e, r).receipts /\ x \notin s.receipts
  BY <1>8, NewReceiptDecides
<1> HIDE DEF x
<1>11. QED
  BY <1>8, <1>9, <1>10

\* What a step does to the intents of one mutation.
QueueMoves(c, m) ==
  \/ Queued(c, m)' = Queued(c, m)
  \/ /\ Queued(c, m) = {}
     /\ \E i \in Intent : i.receipt = None /\ Queued(c, m)' = {i}
  \/ \E i \in Queued(c, m), j \in Queued(c, m)' :
       /\ SameRequest(i, j) /\ i.receipt = None /\ j.receipt # None
       /\ Holds(i.target, j.receipt) /\ Decides(j.receipt, j)

LEMMA StepQueue ==
  ASSUME CellTypes, DiskStep, NEW c \in Replica, NEW m \in Mutation
  PROVE  QueueMoves(c, m)
<1>1. CASE disk'[c] = disk[c]
  BY <1>1 DEF QueueMoves, Queued
<1>2. CASE disk'[c] # disk[c]
  <2>1. ASSUME NEW d \in Replica, MadeAt(d) PROVE QueueMoves(c, m)
    <3>1. d = c /\ disk[c] = None /\ disk'[c] = CreatedCell
      BY <1>2, <2>1, WrittenCells DEF MadeAt
    <3>2. Queued(c, m) = {} /\ Queued(c, m)' = {}
      BY <3>1 DEF Queued, CreatedCell
    <3>3. QED
      BY <3>2 DEF QueueMoves
  <2>2. ASSUME NEW d \in Replica, NEW n \in Mutation, NEW e \in LocalHead, NEW r \in Revision,
               NEW new \in SyncCell, PublishedAt(d, n, e, r, new)
        PROVE  QueueMoves(c, m)
    <3>1. disk[c] # None /\ disk'[c] # None /\ disk'[c].outbox = disk[c].outbox
      BY <1>2, <2>2, WrittenCells DEF PublishedAt
    <3>2. QED
      BY <3>1 DEF QueueMoves, Queued
  <2>3. ASSUME NEW d \in Replica, NEW i \in Intent, NEW new \in SyncCell, QueuedAt(d, i, new)
        PROVE  QueueMoves(c, m)
    <3>1. /\ disk[c] # None /\ disk'[c] # None /\ disk'[c].outbox = disk[c].outbox \cup {i}
          /\ i.receipt = None /\ \A j \in disk[c].outbox : j.mutationId # i.mutationId
      BY <1>2, <2>3, WrittenCells DEF QueuedAt
    <3>2. /\ Queued(c, m) = {j \in disk[c].outbox : j.mutationId = m}
          /\ Queued(c, m)' = {j \in disk[c].outbox \cup {i} : j.mutationId = m}
      BY <3>1 DEF Queued
    <3>3. CASE i.mutationId = m
      BY <3>1, <3>2, <3>3 DEF QueueMoves
    <3>4. CASE i.mutationId # m
      BY <3>1, <3>2, <3>4 DEF QueueMoves
    <3>5. QED
      BY <3>3, <3>4
  <2>4. ASSUME NEW d \in Replica, NEW i \in Intent, NEW j \in Intent, NEW new \in SyncCell,
               RecordedAt(d, i, j, new)
        PROVE  QueueMoves(c, m)
    <3>1. /\ disk[c] # None /\ disk'[c] # None
          /\ disk'[c].outbox = (disk[c].outbox \ {i}) \cup {j} /\ i \in disk[c].outbox
          /\ SameRequest(i, j) /\ i.receipt = None /\ j.receipt # None
          /\ Holds(i.target, j.receipt) /\ Decides(j.receipt, j)
      BY <1>2, <2>4, WrittenCells DEF RecordedAt
    <3>2. /\ Queued(c, m) = {a \in disk[c].outbox : a.mutationId = m}
          /\ Queued(c, m)' = {a \in (disk[c].outbox \ {i}) \cup {j} : a.mutationId = m}
          /\ j.mutationId = i.mutationId
      BY <3>1 DEF Queued, SameRequest
    <3>3. CASE i.mutationId = m
      <4>1. i \in Queued(c, m) /\ j \in Queued(c, m)'
        BY <3>1, <3>2, <3>3
      <4>2. QED
        BY <3>1, <4>1 DEF QueueMoves
    <3>4. CASE i.mutationId # m
      <4>1. Queued(c, m)' = Queued(c, m)
        BY <3>1, <3>2, <3>4
      <4>2. QED
        BY <4>1 DEF QueueMoves
    <3>5. QED
      BY <3>3, <3>4
  <2>5. QED
    BY <1>2, <2>1, <2>2, <2>3, <2>4 DEF DiskStep
<1>3. QED
  BY <1>1, <1>2

\* What the author of mutation m of cell c can be told, by the intent that is
\* queued and the receipts its receiver holds.
StatusKnown(c, m) ==
  /\ Queued(c, m) = {} => StatusOf(c, m) = "absent" /\ DecisionOf(c, m) = None
  /\ \A i \in Queued(c, m) :
       /\ i \in Intent /\ Queued(c, m) = {i}
       /\ \A x, y \in DecidedBy(i) : x = y
       /\ \A x \in SyncOf(i.target).receipts : x \in Receipt
       /\ i.receipt # None =>
            StatusOf(c, m) = "acknowledged" /\ DecisionOf(c, m) = i.receipt
       /\ i.receipt = None /\ DecidedBy(i) = {} =>
            StatusOf(c, m) = "pending" /\ DecisionOf(c, m) = None
       /\ \A x \in DecidedBy(i) : i.receipt = None =>
            StatusOf(c, m) = "decided" /\ DecisionOf(c, m) = x

LEMMA SyncReadable ==
  ASSUME CellTypes, CellsGood, NEW t \in Replica
  PROVE  ReadableSync(SyncOf(t)) /\ SyncOf(t).receipts \subseteq Receipt
<1>1. CASE disk[t] = None
  BY <1>1 DEF SyncOf, CreatedSync, ReadableSync
<1>2. CASE disk[t] # None
  <2>1. SyncOf(t) = disk[t].sync /\ disk[t] \in SyncCell
    BY <1>2 DEF SyncOf, CellTypes
  <2>2. ReadableSync(disk[t].sync)
    BY <1>2 DEF CellsGood, GoodCell, ReadableCell
  <2>3. disk[t].sync.receipts \subseteq Receipt
    BY <2>1, CellFields DEF SyncState
  <2>4. QED
    BY <2>1, <2>2, <2>3, Zenon
<1>3. QED
  BY <1>1, <1>2

LEMMA StatusIsKnown ==
  ASSUME CellTypes, CellsGood, NEW c \in Replica, NEW m \in Mutation
  PROVE  StatusKnown(c, m)
<1>1. Queued(c, m) = {} => StatusOf(c, m) = "absent" /\ DecisionOf(c, m) = None
  BY DEF StatusOf, DecisionOf
<1>2. SUFFICES ASSUME NEW i \in Queued(c, m)
      PROVE  /\ i \in Intent /\ Queued(c, m) = {i}
             /\ \A x, y \in DecidedBy(i) : x = y
             /\ \A x \in SyncOf(i.target).receipts : x \in Receipt
             /\ i.receipt # None =>
                  StatusOf(c, m) = "acknowledged" /\ DecisionOf(c, m) = i.receipt
             /\ i.receipt = None /\ DecidedBy(i) = {} =>
                  StatusOf(c, m) = "pending" /\ DecisionOf(c, m) = None
             /\ \A x \in DecidedBy(i) : i.receipt = None =>
                  StatusOf(c, m) = "decided" /\ DecisionOf(c, m) = x
  BY <1>1 DEF StatusKnown
<1>3. disk[c] # None /\ i \in disk[c].outbox /\ i.mutationId = m
  BY <1>2 DEF Queued
<1>4. disk[c] \in SyncCell /\ ReadableCell(disk[c], objects[HostOf[c]])
  BY <1>3 DEF CellTypes, CellsGood, GoodCell
<1>5. i \in Intent
  BY <1>3, <1>4, CellFields
<1>6. Queued(c, m) = {i}
  BY <1>3, <1>4 DEF Queued, ReadableCell
<1>7. ReadableSync(SyncOf(i.target)) /\ SyncOf(i.target).receipts \subseteq Receipt
  BY <1>5, SyncReadable DEF Intent
<1>8. \A x, y \in DecidedBy(i) : x = y
  BY <1>7 DEF DecidedBy, ReadableSync
<1>9. (CHOOSE j \in Queued(c, m) : TRUE) = i
  BY <1>6
<1>10. CASE i.receipt # None
  <2>1. StatusOf(c, m) = "acknowledged"
    BY <1>6, <1>10 DEF StatusOf
  <2>2. DecisionOf(c, m) = i.receipt
    BY <1>9, <2>1 DEF DecisionOf
  <2>3. QED
    BY <1>5, <1>6, <1>7, <1>8, <1>10, <2>1, <2>2
<1>11. CASE i.receipt = None /\ DecidedBy(i) = {}
  <2>1. StatusOf(c, m) = "pending"
    BY <1>6, <1>11 DEF StatusOf
  <2>2. DecisionOf(c, m) = None
    BY <2>1 DEF DecisionOf
  <2>3. QED
    BY <1>5, <1>6, <1>7, <1>8, <1>11, <2>1, <2>2
<1>12. CASE i.receipt = None /\ DecidedBy(i) # {}
  <2>1. StatusOf(c, m) = "decided"
    BY <1>6, <1>12 DEF StatusOf
  <2>2. DecisionOf(c, m) = CHOOSE x \in DecidedBy(i) : TRUE
    BY <1>9, <2>1 DEF DecisionOf
  <2>3. \A x \in DecidedBy(i) : DecisionOf(c, m) = x
    BY <1>8, <1>12, <2>2
  <2>4. QED
    BY <1>5, <1>6, <1>7, <1>8, <1>12, <2>1, <2>3
<1>13. QED
  BY <1>10, <1>11, <1>12

AllKnown == \A c \in Replica, m \in Mutation : StatusKnown(c, m)

LEMMA KnownNow == OutboxInv => AllKnown
BY StatusIsKnown DEF OutboxInv, TypeOK, CellTypes, AllKnown

LEMMA KnownNext == OutboxInv' => AllKnown'
BY KnownNow, PTL

LEMMA ContractStep ==
  ASSUME CellTypes, DiskStep, AllKnown, AllKnown', NEW c \in Replica, NEW m \in Mutation
  PROVE  [Contract(c, m)!Next]_<<StatusOf(c, m), DecisionOf(c, m)>>
<1>1. StatusKnown(c, m) /\ StatusKnown(c, m)' /\ QueueMoves(c, m)
  BY StepQueue DEF AllKnown
<1>2. ASSUME NEW i \in Intent PROVE DecidedBy(i) \subseteq DecidedBy(i)'
  <2>1. i.target \in Replica
    BY DEF Intent
  <2>2. Grown(i.target)
    BY <2>1, StepGrows
  <2>3. SyncOf(i.target).receipts \subseteq SyncOf(i.target)'.receipts
    BY <2>2 DEF Grown, SyncOf, CreatedSync
  <2>4. QED
    BY <2>3 DEF DecidedBy
<1>3. CASE Queued(c, m) = {} /\ Queued(c, m)' = {}
  BY <1>1, <1>3 DEF StatusKnown
<1>4. ASSUME NEW i \in Queued(c, m), i \in Queued(c, m)'
      PROVE  [Contract(c, m)!Next]_<<StatusOf(c, m), DecisionOf(c, m)>>
  <2>1. i \in Intent
    BY <1>1 DEF StatusKnown
  <2>2. CASE i.receipt # None
    <3>1. /\ StatusOf(c, m) = "acknowledged" /\ DecisionOf(c, m) = i.receipt
          /\ StatusOf(c, m)' = "acknowledged" /\ DecisionOf(c, m)' = i.receipt
      BY <1>1, <1>4, <2>2 DEF StatusKnown
    <3>2. QED
      BY <3>1
  <2>3. CASE i.receipt = None /\ DecidedBy(i) # {}
    <3>1. PICK x \in DecidedBy(i) : TRUE
      BY <2>3
    <3>2. x \in DecidedBy(i)'
      BY <1>2, <2>1, <3>1
    <3>3. StatusOf(c, m) = "decided" /\ DecisionOf(c, m) = x
      BY <1>1, <1>4, <2>3, <3>1 DEF StatusKnown
    <3>4. StatusOf(c, m)' = "decided" /\ DecisionOf(c, m)' = x
      BY <1>1, <1>4, <2>3, <3>2 DEF StatusKnown
    <3>5. QED
      BY <3>3, <3>4
  <2>4. CASE i.receipt = None /\ DecidedBy(i) = {} /\ DecidedBy(i)' = {}
    <3>1. /\ StatusOf(c, m) = "pending" /\ DecisionOf(c, m) = None
          /\ StatusOf(c, m)' = "pending" /\ DecisionOf(c, m)' = None
      BY <1>1, <1>4, <2>4 DEF StatusKnown
    <3>2. QED
      BY <3>1
  <2>5. CASE i.receipt = None /\ DecidedBy(i) = {} /\ DecidedBy(i)' # {}
    <3>1. PICK x \in DecidedBy(i)' : TRUE
      BY <2>5
    <3>2. StatusOf(c, m) = "pending"
      BY <1>1, <1>4, <2>5 DEF StatusKnown
    <3>3. StatusOf(c, m)' = "decided" /\ DecisionOf(c, m)' = x
      BY <1>1, <1>4, <2>5, <3>1 DEF StatusKnown
    <3>4. x \in Receipt
      BY <1>1, <1>4, <3>1 DEF StatusKnown, DecidedBy
    <3>5. Contract(c, m)!Decide
      BY <3>2, <3>3, <3>4 DEF Contract!Decide
    <3>6. QED
      BY <3>5 DEF Contract!Next
  <2>6. QED
    BY <2>2, <2>3, <2>4, <2>5
<1>5. ASSUME Queued(c, m) = {}, NEW i \in Intent, i.receipt = None, Queued(c, m)' = {i}
      PROVE  [Contract(c, m)!Next]_<<StatusOf(c, m), DecisionOf(c, m)>>
  <2>1. StatusOf(c, m) = "absent" /\ i \in Queued(c, m)'
    BY <1>1, <1>5 DEF StatusKnown
  <2>2. CASE DecidedBy(i)' = {}
    <3>1. StatusOf(c, m)' = "pending" /\ DecisionOf(c, m)' = None
      BY <1>1, <1>5, <2>1, <2>2 DEF StatusKnown
    <3>2. Contract(c, m)!Queue
      BY <2>1, <3>1 DEF Contract!Queue
    <3>3. QED
      BY <3>2 DEF Contract!Next
  <2>3. CASE DecidedBy(i)' # {}
    <3>1. PICK x \in DecidedBy(i)' : TRUE
      BY <2>3
    <3>2. StatusOf(c, m)' = "decided" /\ DecisionOf(c, m)' = x
      BY <1>1, <1>5, <2>1, <3>1 DEF StatusKnown
    <3>3. x \in Receipt
      BY <1>1, <2>1, <3>1 DEF StatusKnown, DecidedBy
    <3>4. Contract(c, m)!Decide
      BY <2>1, <3>2, <3>3 DEF Contract!Decide
    <3>5. QED
      BY <3>4 DEF Contract!Next
  <2>4. QED
    BY <2>2, <2>3
<1>6. ASSUME NEW i \in Queued(c, m), NEW j \in Queued(c, m)',
             SameRequest(i, j), i.receipt = None, j.receipt # None,
             Holds(i.target, j.receipt), Decides(j.receipt, j)
      PROVE  [Contract(c, m)!Next]_<<StatusOf(c, m), DecisionOf(c, m)>>
  <2>1. j.receipt \in DecidedBy(i)
    BY <1>6 DEF Holds, Decides, SameRequest, DecidedBy, SyncOf
  <2>2. StatusOf(c, m) = "decided" /\ DecisionOf(c, m) = j.receipt
    BY <1>1, <1>6, <2>1 DEF StatusKnown
  <2>3. StatusOf(c, m)' = "acknowledged" /\ DecisionOf(c, m)' = j.receipt
    BY <1>1, <1>6 DEF StatusKnown
  <2>4. Contract(c, m)!Acknowledge
    BY <2>2, <2>3 DEF Contract!Acknowledge
  <2>5. QED
    BY <2>4 DEF Contract!Next
<1>7. QED
  BY <1>1, <1>3, <1>4, <1>5, <1>6 DEF QueueMoves

-----------------------------------------------------------------------------
\* MovesLikeSync: on disk, whoever publishes and whatever fails or restarts, the
\* head and the receipts of a cell change by legal publications only.
THEOREM CellsMoveLikeSync == Spec => MovesLikeSync
<1>1. OutboxInv /\ [Next]_vars => [SyncMoves]_vars
  BY OutboxStep, StepSync DEF OutboxInv, TypeOK, CellTypes
<1>2. OutboxInv /\ [Next]_vars =>
        [\A c \in Replica : SyncOf(c)' # SyncOf(c) =>
           \E x \in SyncOf(c)'.receipts \ SyncOf(c).receipts :
             /\ CanPublish(SyncOf(c), x.mutationId, x.expectedHead, x.revisionId)
             /\ SyncOf(c)' = Published(SyncOf(c), x.mutationId, x.expectedHead, x.revisionId)]_vars
  BY <1>1 DEF SyncMoves
<1>3. QED
  BY <1>2, OutboxInvariant, PTL DEF Spec, MovesLikeSync

\* DeliversOnce: each cell, for each mutation, implements DeliveryContract.  The
\* receiver decides an intent once, and the source records that decision.
THEOREM OutboxDeliversOnce == Spec => DeliversOnce
<1>1. Init => \A c \in Replica, m \in Mutation : Contract(c, m)!Init
  <2>1. SUFFICES ASSUME Init, NEW c \in Replica, NEW m \in Mutation PROVE Contract(c, m)!Init
    OBVIOUS
  <2>2. Queued(c, m) = {}
    BY <2>1 DEF Init, Queued
  <2>3. StatusOf(c, m) = "absent" /\ DecisionOf(c, m) = None
    BY <2>2 DEF StatusOf, DecisionOf
  <2>4. QED
    BY <2>3 DEF Contract!Init
<1>2. OutboxInv /\ [Next]_vars =>
        [\A c \in Replica, m \in Mutation :
           [Contract(c, m)!Next]_<<StatusOf(c, m), DecisionOf(c, m)>>]_vars
  <2>1. SUFFICES ASSUME OutboxInv, [Next]_vars, NEW c \in Replica, NEW m \in Mutation
                 PROVE  [Contract(c, m)!Next]_<<StatusOf(c, m), DecisionOf(c, m)>>
    OBVIOUS
  <2>2. OutboxInv' /\ DiskStep /\ CellTypes
    BY <2>1, OutboxStep DEF OutboxInv, TypeOK, CellTypes
  <2>3. AllKnown /\ AllKnown'
    BY <2>1, <2>2, KnownNow, KnownNext
  <2>4. QED
    BY <2>2, <2>3, ContractStep
<1>3. QED
  BY <1>1, <1>2, OutboxInvariant, PTL DEF Spec, DeliversOnce
=============================================================================
