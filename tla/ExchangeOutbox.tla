---------------------------- MODULE ExchangeOutbox ----------------------------
(* Publication, queueing and delivery between the document cells of Local    *)
(* Exchange hosts: electron/local-exchange-host.ts.  Every host writes its   *)
(* own files, one at a time; a delivery awaits the receiver between reading  *)
(* the intent and recording the receipt.  One scope and one document.        *)
(* An approved job queues its candidate in its own cell; of a job this       *)
(* module has what follows the result, JobHost what precedes it.             *)
EXTENDS SyncTransitions

CONSTANTS
  Host,           \* hosts, each with its own root directory
  Replica,        \* document cells, and cells of jobs that have succeeded
  Jobs,           \* the latter
  HostOf,         \* the host each cell lives on
  Editors,        \* cells somebody publishes to directly
  Targets,        \* the documents each cell's author queues publications for
  OutboxLimit,    \* LOCAL_HOST_LIMITS.outbox
  RevisionLimit,  \* LOCAL_HOST_LIMITS.revisions
  MaxCells        \* bound: cells of all hosts together (the code bounds those
                  \* of one, LOCAL_HOST_LIMITS.cells)

ASSUME OutboxAssumption ==
  /\ HostOf \in [Replica -> Host]
  /\ Jobs \subseteq Replica
  /\ Editors \subseteq Replica \ Jobs
  /\ Targets \in [Replica -> SUBSET (Replica \ Jobs)]
  /\ OutboxLimit \in Nat \ {0}
  /\ RevisionLimit \in Nat
  /\ MaxCells \in Nat
  /\ RevisionLimit >= ReceiptLimit + 2 * OutboxLimit

VARIABLES
  disk,       \* the cell files of every host
  memory,     \* LocalExchangeHost.cells of every host
  frozen,     \* cells whose last write failed
  objects,    \* document bytes stored by each host, by the revision they make
  deliveries  \* deliver calls in progress

vars == <<disk, memory, frozen, objects, deliveries>>

Intent == [target : Replica, mutationId : Mutation, expectedHead : LocalHead,
           revisionId : Revision, receipt : Receipt \cup {None}]

\* In the cell of a job, revisions holds its approved candidate and the
\* observedRevision of its outbox, and nothing is ever published to sync.
SyncCell == [sync : SyncState, revisions : SUBSET Revision, outbox : SUBSET Intent]

\* A call holds the intent it read; it outlives a source host that was closed
\* (source None), and learns its receipt from the receiver.
Delivery == [source : Replica \cup {None}, intent : Intent, receipt : Receipt \cup {None}]

ASSUME OutboxNoneAssumption == None \notin SyncCell \cup Receipt \cup Replica

\* Mutant of CreatedCell: the empty head is listed as a revision.
SeededCell == [sync |-> CreatedSync, revisions |-> {None}, outbox |-> {}]

CreatedCell == [sync |-> CreatedSync, revisions |-> {}, outbox |-> {}]

\* checkCell and verifyCellObjects: what the start of a host demands of a cell.
ReadableCell(c, stored) ==
  /\ ReadableSync(c.sync)
  /\ c.revisions \subseteq stored
  /\ Cardinality(c.revisions) <= RevisionLimit
  /\ Cardinality(c.outbox) <= OutboxLimit
  /\ \A i, j \in c.outbox : i.mutationId = j.mutationId => i = j
  /\ \A i \in c.outbox :
       /\ Bound(i.expectedHead, i.revisionId)
       /\ i.revisionId \in c.revisions
       /\ i.receipt # None =>
            /\ i.receipt.mutationId = i.mutationId
            /\ i.receipt.revisionId = i.revisionId
            /\ i.receipt.expectedHead = i.expectedHead
            /\ i.receipt.observedHead.revisionId \in c.revisions \cup {None}
  /\ c.sync.head.revisionId \in c.revisions \cup {None}
  /\ \A x \in c.sync.receipts :
       /\ x.revisionId \in c.revisions
       /\ x.observedHead.revisionId \in c.revisions \cup {None}

-----------------------------------------------------------------------------
(* Writing: objects first, then the cell.                                    *)

Usable(c) == c \notin frozen /\ memory[c] # None

\* "unwritten": an object could not be written, and the cell is left alone.
WriteOutcome == {"ok", "failed", "unacked", "unwritten"}

\* Mutant of Store: the cell is written before its objects.
StoreCellFirst(c, new, bytes, o) ==
  /\ objects' = IF o = "unwritten" THEN objects
                ELSE [objects EXCEPT ![HostOf[c]] = @ \cup bytes]
  /\ disk' = IF o = "failed" THEN disk ELSE [disk EXCEPT ![c] = new]
  /\ memory' = IF o = "ok" THEN [memory EXCEPT ![c] = new] ELSE memory
  /\ frozen' = IF o = "ok" THEN frozen ELSE frozen \cup {c}

Store(c, new, bytes, o) ==
  /\ objects' = IF o = "unwritten" THEN objects
                ELSE [objects EXCEPT ![HostOf[c]] = @ \cup bytes]
  /\ disk' = IF o \in {"ok", "unacked"} THEN [disk EXCEPT ![c] = new] ELSE disk
  /\ memory' = IF o = "ok" THEN [memory EXCEPT ![c] = new] ELSE memory
  /\ frozen' = IF o \in {"failed", "unacked"} THEN frozen \cup {c} ELSE frozen

\* addRevision.
HasRoom(c, revisions) == Cardinality(memory[c].revisions \cup revisions) <= RevisionLimit

-----------------------------------------------------------------------------
\* createWorkspace, createReplica and createMatchingReplica; the commits that
\* have brought a job as far as its result are one such step here.
Create(c, o) ==
  /\ memory[c] = None /\ c \notin frozen
  /\ Cardinality({d \in Replica : memory[d] # None} \cup frozen) < MaxCells
  /\ Store(c, CreatedCell, {}, o)
  /\ UNCHANGED deliveries

\* Mutant of StorePublication: the head moves without leaving a receipt.
StoreHeadOnly(c, m, e, r, o) ==
  /\ HasRoom(c, {r})
  /\ Store(c, [memory[c] EXCEPT !.sync.head = NextHead(memory[c].sync, e, r),
                                !.revisions = @ \cup {r}], {r}, o)

\* The commit of a publication that is not a replay.
StorePublication(c, m, e, r, o) ==
  /\ HasRoom(c, {r})
  /\ Store(c, [memory[c] EXCEPT !.sync = Published(@, m, e, r),
                                !.revisions = @ \cup {r}], {r}, o)

\* publish by an editor that read the cell some time ago.  A replay of an
\* earlier request changes nothing.
Publish(c, m, e, r, o) ==
  /\ Usable(c)
  /\ CanPublish(memory[c].sync, m, e, r)
  /\ StorePublication(c, m, e, r, o)
  /\ UNCHANGED deliveries

\* queuePublication for target t, on the head its author saw there.
Queue(c, t, m, e, r, o) ==
  /\ Usable(c)
  /\ Bound(e, r)
  /\ \A i \in memory[c].outbox : i.mutationId # m
  /\ Cardinality(memory[c].outbox) < OutboxLimit
  /\ HasRoom(c, {r})
  /\ LET intent == [target |-> t, mutationId |-> m, expectedHead |-> e,
                    revisionId |-> r, receipt |-> None]
     IN Store(c, [memory[c] EXCEPT !.revisions = @ \cup {r},
                                   !.outbox = @ \cup {intent}], {r}, o)
  /\ UNCHANGED deliveries

\* approve of a job whose candidate is meant for document t of the same host.
\* The candidate is decided once: a later approval repeats it or is refused.
Approve(c, t, m, e, r, o) ==
  /\ Usable(c) /\ Usable(t) /\ HostOf[t] = HostOf[c]
  /\ Bound(e, r)
  /\ memory[c].outbox = {}
  /\ LET intent == [target |-> t, mutationId |-> m, expectedHead |-> e,
                    revisionId |-> r, receipt |-> None]
     IN Store(c, [memory[c] EXCEPT !.revisions = {r}, !.outbox = {intent}], {r}, o)
  /\ UNCHANGED deliveries

-----------------------------------------------------------------------------
(* deliver and deliverApproved.                                              *)

BeginDelivery(c, i) ==
  /\ Usable(c)
  /\ i \in memory[c].outbox /\ i.receipt = None
  /\ Usable(i.target)
  /\ deliveries' = deliveries \cup {[source |-> c, intent |-> i, receipt |-> None]}
  /\ UNCHANGED <<disk, memory, frozen, objects>>

\* The receiver publishes the intent, or replays the receipt it kept of it.  An
\* answer goes back only if the write succeeded and somebody waits for it.
Answered(k, receipt) ==
  (deliveries \ {k}) \cup
    (IF k.source = None THEN {} ELSE {[k EXCEPT !.receipt = receipt]})

Receive(k, o) ==
  LET i == k.intent
      s == memory[i.target].sync
  IN /\ k.receipt = None
     /\ Usable(i.target)
     /\ \/ /\ CanReplay(s, i.mutationId, i.expectedHead, i.revisionId)
           /\ deliveries' = Answered(k, ReceiptOf(s, i.mutationId))
           /\ UNCHANGED <<disk, memory, frozen, objects>>
        \/ /\ CanPublish(s, i.mutationId, i.expectedHead, i.revisionId)
           /\ StorePublication(i.target, i.mutationId, i.expectedHead, i.revisionId, o)
           /\ deliveries' =
                IF o = "ok"
                THEN Answered(k, NewReceipt(s, i.mutationId, i.expectedHead, i.revisionId))
                ELSE deliveries \ {k}

\* The receipt is kept together with the revision it observed; in a document,
\* that is one more entry of a bounded list.
ObservedRevisions(receipt) == {receipt.observedHead.revisionId} \ {None}

Record(k, o) ==
  LET c == k.source
      i == k.intent
      refs == ObservedRevisions(k.receipt)
  IN /\ k.receipt # None
     /\ Usable(c)
     /\ i \in memory[c].outbox
     /\ c \in Jobs \/ HasRoom(c, refs)
     /\ Store(c, [memory[c] EXCEPT
                    !.revisions = @ \cup refs,
                    !.outbox = (@ \ {i}) \cup {[i EXCEPT !.receipt = k.receipt]}],
              refs, o)
     /\ deliveries' = deliveries \ {k}

\* A call may fail at any of its steps: a frozen cell, a full receiver, a
\* mutation id used for something else, a host that closed; or it finds that
\* another delivery recorded the same receipt.
EndDelivery(k) ==
  deliveries' = deliveries \ {k} /\ UNCHANGED <<disk, memory, frozen, objects>>

\* A host is closed and opened again.  Calls that wait for it fail; calls of its
\* own that have reached the receiver go on with nobody to answer to.
Restart(h) ==
  LET cells == {c \in Replica : HostOf[c] = h}
      mine == {k \in deliveries : k.source \in cells}
      asking == {k \in deliveries : k.receipt = None /\ k.intent.target \in cells}
  IN /\ memory' = [c \in Replica |-> IF c \in cells THEN disk[c] ELSE memory[c]]
     /\ frozen' = (frozen \ cells) \cup
          {c \in cells : disk[c] # None /\ ~ReadableCell(disk[c], objects[h])}
     /\ deliveries' = (deliveries \ (mine \cup asking)) \cup
          {[k EXCEPT !.source = None] : k \in {j \in mine \ asking : j.receipt = None}}
     /\ UNCHANGED <<disk, objects>>

-----------------------------------------------------------------------------
\* The heads an author can have seen on a cell.
SeenHeads(c) == {EmptyHead} \cup {x.observedHead : x \in memory[c].sync.receipts}

Init ==
  /\ disk = [c \in Replica |-> None]
  /\ memory = disk
  /\ frozen = {}
  /\ objects = [h \in Host |-> {}]
  /\ deliveries = {}

Write(c, o) ==
  \/ Create(c, o)
  \/ \E t \in Replica, m \in Mutation, r \in Revision :
       /\ memory[t] # None
       /\ \E e \in SeenHeads(t) :
            \/ t = c /\ t \in Editors /\ Publish(c, m, e, r, o)
            \/ t \in Targets[c] /\ c \notin Jobs /\ Queue(c, t, m, e, r, o)
            \/ t \in Targets[c] /\ c \in Jobs /\ Approve(c, t, m, e, r, o)

Next ==
  \/ \E c \in Replica, o \in WriteOutcome : Write(c, o)
  \/ \E c \in Replica : Usable(c) /\ \E i \in memory[c].outbox : BeginDelivery(c, i)
  \/ \E k \in deliveries :
       EndDelivery(k) \/ \E o \in WriteOutcome : Receive(k, o) \/ Record(k, o)
  \/ \E h \in Host : Restart(h)

Spec == Init /\ [][Next]_vars

-----------------------------------------------------------------------------
\* Every variable keeps its type.
TypeOK ==
  /\ disk \in [Replica -> SyncCell \cup {None}]
  /\ memory \in [Replica -> SyncCell \cup {None}]
  /\ frozen \subseteq Replica
  /\ objects \in [Host -> SUBSET Revision]
  /\ deliveries \subseteq Delivery

\* Every cell file a host can leave behind passes checkCell and finds all the
\* revisions it needs, whatever write failed: head, receipts of both sides,
\* queued candidates, observed conflicts.
CellsRestorable ==
  \A c \in Replica : disk[c] # None => ReadableCell(disk[c], objects[HostOf[c]])

\* A cell keeps one revision for each receipt and for each queued intent, and one
\* more for each acknowledged intent.  With RevisionLimit >= ReceiptLimit +
\* 2 * OutboxLimit, LIMIT never refuses to record what a receiver has already
\* decided, which would leave the source asking for ever.
RevisionsAccounted ==
  \A c \in Replica : disk[c] # None =>
    Cardinality(disk[c].revisions) <=
      Cardinality(disk[c].sync.receipts) + Cardinality(disk[c].outbox)
        + Cardinality({i \in disk[c].outbox : i.receipt # None})

\* However many deliveries of one intent race, are lost, or are repeated after
\* a restart, they never come back with two different receipts: the INTEGRITY
\* check of a second recording never fails.
ReceiptsAgree ==
  \A k \in deliveries : k.receipt # None =>
    \A c \in Replica \ frozen : k.source = c =>
      \A i \in memory[c].outbox :
        i.mutationId = k.intent.mutationId /\ i.receipt # None => i.receipt = k.receipt

SyncOf(c) == IF disk[c] = None THEN CreatedSync ELSE disk[c].sync

\* On disk, each cell moves like a LocalSync: whoever publishes, and whatever
\* fails or restarts, its head and receipts change by one legal publication of
\* the receipt that is new, and by nothing else.
MovesLikeSync ==
  [][\A c \in Replica : SyncOf(c)' # SyncOf(c) =>
       \E x \in SyncOf(c)'.receipts \ SyncOf(c).receipts :
         /\ CanPublish(SyncOf(c), x.mutationId, x.expectedHead, x.revisionId)
         /\ SyncOf(c)' = Published(SyncOf(c), x.mutationId, x.expectedHead, x.revisionId)
    ]_vars

Queued(c, m) ==
  IF disk[c] = None THEN {} ELSE {i \in disk[c].outbox : i.mutationId = m}

\* The receipt the receiver holds of exactly this request.
DecidedBy(i) ==
  {x \in SyncOf(i.target).receipts :
     x.mutationId = i.mutationId /\ x.revisionId = i.revisionId
       /\ x.expectedHead = i.expectedHead}

StatusOf(c, m) ==
  IF Queued(c, m) = {} THEN "absent"
  ELSE IF \E i \in Queued(c, m) : i.receipt # None THEN "acknowledged"
  ELSE IF \E i \in Queued(c, m) : DecidedBy(i) # {} THEN "decided" ELSE "pending"

DecisionOf(c, m) ==
  CASE StatusOf(c, m) = "acknowledged" -> (CHOOSE i \in Queued(c, m) : TRUE).receipt
    [] StatusOf(c, m) = "decided" ->
         CHOOSE x \in DecidedBy(CHOOSE i \in Queued(c, m) : TRUE) : TRUE
    [] OTHER -> None

Contract(c, m) == INSTANCE DeliveryContract
                    WITH status <- StatusOf(c, m), decision <- DecisionOf(c, m)

\* Exactly once: between lost answers, repeated deliveries and restarts of
\* either side, the receiver decides each intent once and the source records
\* that very decision.
DeliversOnce ==
  /\ \A c \in Replica, m \in Mutation : Contract(c, m)!Init
  /\ [][\A c \in Replica, m \in Mutation :
          [Contract(c, m)!Next]_<<StatusOf(c, m), DecisionOf(c, m)>>]_vars
=============================================================================
