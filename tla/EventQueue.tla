------------------------------ MODULE EventQueue ------------------------------
(* The bounded event queue of one Viewer API client:                         *)
(* viewer-api-event-queue.cjs.  An event is its size in units of bytes; the  *)
(* notices of dropped events wait in a lane of their own, one a category.    *)
EXTENDS Naturals, Sequences, FiniteSets

CONSTANTS
  QueueCount,     \* MAX_EVENT_QUEUE_COUNT
  QueueBytes,     \* MAX_EVENT_QUEUE_BYTES
  PayloadBytes,   \* MAX_EVENT_PAYLOAD_BYTES
  FlushBytes,     \* MAX_EVENT_FLUSH_BYTES
  NoticeBytes     \* the size of a viewer.events.dropped message

Category == {"queue_overflow", "payload_too_large"}

\* 128 events, 256 KiB, 16 KiB and 64 KiB in the code; a notice is below 1 KiB.
\* Both notices and one event always fit in one flush.
ASSUME EventQueueAssumption ==
  /\ QueueCount \in Nat \ {0}
  /\ {QueueBytes, PayloadBytes, FlushBytes, NoticeBytes} \subseteq Nat
  /\ PayloadBytes <= QueueBytes
  /\ 2 * NoticeBytes + PayloadBytes <= FlushBytes

Queue == [events : Seq(1..PayloadBytes), bytes : Nat,
          owed : [Category -> Nat], scheduled : BOOLEAN]

EmptyQueue == [events |-> <<>>, bytes |-> 0,
               owed |-> [k \in Category |-> 0], scheduled |-> FALSE]

\* clearClientState: a timer that is set stays set.
Cleared(q) == [EmptyQueue EXCEPT !.scheduled = q.scheduled]

\* What the first n events take, for each n.
Sums(sizes) ==
  LET sum[n \in 0..Len(sizes)] == IF n = 0 THEN 0 ELSE sum[n - 1] + sizes[n]
  IN sum

Total(sizes) == Sums(sizes)[Len(sizes)]

Rest(q, n) == SubSeq(q.events, n + 1, Len(q.events))

HeadBytes(q, n) == Sums(q.events)[n]

\* evictEventQueueHead: how many events go so that one of this size fits.
Fits(q, n, size) ==
  /\ Len(q.events) - n + 1 <= QueueCount
  /\ q.bytes - HeadBytes(q, n) + size <= QueueBytes

Evicted(q, size) ==
  LET enough == {n \in 0..Len(q.events) : n = Len(q.events) \/ Fits(q, n, size)}
  IN CHOOSE n \in enough : \A m \in enough : n <= m

\* Mutant of Owing: a new overflow replaces the count that is still owed.
OwingLatest(q, category, n) == [q.owed EXCEPT ![category] = IF n > 0 THEN n ELSE @]

\* enqueueDroppedEvent: one notice a category, whose count grows.
Owing(q, category, n) == [q.owed EXCEPT ![category] = @ + n]

TooLarge(size) == size > PayloadBytes

\* enqueueEvent
Enqueued(q, size) ==
  IF TooLarge(size)
  THEN [q EXCEPT !.owed = Owing(q, "payload_too_large", 1), !.scheduled = TRUE]
  ELSE LET n == Evicted(q, size)
       IN [q EXCEPT !.events = Append(Rest(q, n), size),
                    !.bytes = @ - HeadBytes(q, n) + size,
                    !.owed = Owing(q, "queue_overflow", n),
                    !.scheduled = TRUE]

\* flushEventQueue: the notices go first, then the events that still fit.
Notices(q) == {k \in Category : q.owed[k] > 0}

Flushed(q) ==
  LET fitting == {n \in 0..Len(q.events) :
                    NoticeBytes * Cardinality(Notices(q)) + HeadBytes(q, n) <= FlushBytes}
  IN CHOOSE n \in fitting : \A m \in fitting : m <= n

\* Mutant of Left: what did not fit waits for the next event.
LeftUnscheduled(q, n) ==
  [events |-> Rest(q, n), bytes |-> q.bytes - HeadBytes(q, n),
   owed |-> [k \in Category |-> 0], scheduled |-> FALSE]

\* What is left after n events were sent: the timer is set again for it.
Left(q, n) ==
  [events |-> Rest(q, n), bytes |-> q.bytes - HeadBytes(q, n),
   owed |-> [k \in Category |-> 0], scheduled |-> n < Len(q.events)]
=============================================================================
