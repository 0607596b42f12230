---------------------------- MODULE ViewerApi_proofs ----------------------------
(* What holds of the Viewer API server for any number of sockets, grants,    *)
(* requests and handles.  The sums over an event queue are taken first: they *)
(* need induction over the length of the queue, which is done here with the  *)
(* least element of a set of numbers.                                        *)
EXTENDS ViewerApi, FiniteSetTheorems, WellFoundedInduction, SequenceTheorems, TLAPS

-----------------------------------------------------------------------------
(* Least and greatest numbers.                                               *)

LEMMA LeastNumber ==
  ASSUME NEW T, T \subseteq Nat, T # {}
  PROVE  \E x \in T : \A y \in T : x <= y
<1>1. PICK x \in T : \A y \in T : ~ (<<y, x>> \in OpToRel(<, Nat))
  BY NatLessThanWellFounded, WFMin
<1>2. \A y \in T : ~ (y < x)
  BY <1>1 DEF OpToRel
<1>3. QED
  BY <1>2

LEMMA GreatestNumber ==
  ASSUME NEW k \in Nat, NEW T, T \subseteq 0..k, T # {}
  PROVE  \E x \in T : \A y \in T : y <= x
<1> DEFINE U == {k - x : x \in T}
<1>1. U \subseteq Nat /\ U # {}
  OBVIOUS
<1> HIDE DEF U
<1>2. PICK u \in U : \A v \in U : u <= v
  BY <1>1, LeastNumber
<1>3. PICK x \in T : u = k - x
  BY DEF U
<1>4. \A y \in T : u <= k - y
  BY <1>2 DEF U
<1>5. QED
  BY <1>3, <1>4

-----------------------------------------------------------------------------
(* Sums.                                                                     *)

\* f holds the sums of the first k sizes.
SumsUpTo(f, k, sizes) ==
  /\ f \in [0..k -> Nat]
  /\ f[0] = 0
  /\ \A n \in 1..k : f[n] = f[n - 1] + sizes[n]

LEMMA SumsExist ==
  ASSUME NEW sizes \in Seq(Nat), NEW k \in 0..Len(sizes)
  PROVE  \E f : SumsUpTo(f, k, sizes)
<1> DEFINE Bad == {j \in 0..Len(sizes) : ~ \E f : SumsUpTo(f, j, sizes)}
<1>1. SUFFICES Bad = {}
  OBVIOUS
<1>2. SUFFICES ASSUME Bad # {} PROVE FALSE
  OBVIOUS
<1>3. Len(sizes) \in Nat
  OBVIOUS
<1>4. PICK j \in Bad : \A i \in Bad : j <= i
  <2>1. Bad \subseteq Nat
    BY <1>3
  <2> HIDE DEF Bad
  <2>2. QED
    BY <1>2, <2>1, LeastNumber
<1>5. j \in 0..Len(sizes) /\ ~ \E f : SumsUpTo(f, j, sizes)
  OBVIOUS
<1>6. CASE j = 0
  <2>1. SumsUpTo([n \in 0..0 |-> 0], 0, sizes)
    BY DEF SumsUpTo
  <2>2. QED
    BY <1>5, <1>6, <2>1
<1>7. CASE j # 0
  <2>1. j - 1 \in 0..Len(sizes) /\ j - 1 \notin Bad
    BY <1>3, <1>4, <1>5, <1>7
  <2>2. PICK f : SumsUpTo(f, j - 1, sizes)
    BY <2>1
  <2> DEFINE g == [n \in 0..j |-> IF n = j THEN f[j - 1] + sizes[j] ELSE f[n]]
  <2>3. sizes[j] \in Nat
    BY <1>5, <1>7
  <2>4. SumsUpTo(g, j, sizes)
    <3>1. j \in Nat \ {0} /\ f \in [0..(j - 1) -> Nat] /\ f[0] = 0 /\ f[j - 1] \in Nat
      BY <1>5, <1>7, <2>2 DEF SumsUpTo
    <3>2. g \in [0..j -> Nat] /\ g[0] = 0
      BY <2>3, <3>1
    <3>3. ASSUME NEW n \in 1..j PROVE g[n] = g[n - 1] + sizes[n]
      BY <2>2, <3>1 DEF SumsUpTo
    <3>4. QED
      BY <3>2, <3>3 DEF SumsUpTo
  <2>5. QED
    BY <1>5, <2>4
<1>8. QED
  BY <1>6, <1>7

LEMMA SumsUnfold ==
  ASSUME NEW sizes \in Seq(Nat)
  PROVE  Sums(sizes) = [n \in 0..Len(sizes) |->
                          IF n = 0 THEN 0 ELSE Sums(sizes)[n - 1] + sizes[n]]
<1> DEFINE Holds(f) == f = [n \in 0..Len(sizes) |-> IF n = 0 THEN 0 ELSE f[n - 1] + sizes[n]]
<1>1. Len(sizes) \in Nat
  OBVIOUS
<1>2. PICK f : SumsUpTo(f, Len(sizes), sizes)
  BY <1>1, SumsExist
<1>3. Holds(f)
  BY <1>1, <1>2 DEF SumsUpTo
<1>4. Sums(sizes) = CHOOSE g : Holds(g)
  BY DEF Sums
<1> HIDE DEF Holds
<1>5. Holds(Sums(sizes))
  BY <1>3, <1>4
<1>6. QED
  BY <1>5 DEF Holds

LEMMA SumsProperties ==
  ASSUME NEW sizes \in Seq(Nat)
  PROVE  SumsUpTo(Sums(sizes), Len(sizes), sizes)
<1> DEFINE k == Len(sizes)
           g == Sums(sizes)
           Bad == {n \in 0..k : g[n] \notin Nat}
<1>1. k \in Nat /\ \A n \in 1..k : sizes[n] \in Nat
  OBVIOUS
<1>2. g = [n \in 0..k |-> IF n = 0 THEN 0 ELSE g[n - 1] + sizes[n]]
  BY SumsUnfold
<1> HIDE DEF k, g
<1>3. DOMAIN g = 0..k /\ g[0] = 0 /\ \A n \in 1..k : g[n] = g[n - 1] + sizes[n]
  <2>1. 0 \in 0..k
    BY <1>1
  <2>2. DOMAIN g = 0..k /\ \A n \in 0..k : g[n] = IF n = 0 THEN 0 ELSE g[n - 1] + sizes[n]
    BY <1>2
  <2>3. QED
    BY <1>1, <2>1, <2>2
<1>4. Bad = {}
  <2>1. SUFFICES ASSUME Bad # {} PROVE FALSE
    OBVIOUS
  <2>2. Bad \subseteq Nat
    BY <1>1
  <2>3. PICK n \in Bad : \A i \in Bad : n <= i
    <3> HIDE DEF Bad
    <3>1. QED
      BY <2>1, <2>2, LeastNumber
  <2>4. n \in 0..k /\ g[n] \notin Nat
    OBVIOUS
  <2>5. n # 0
    BY <1>3, <2>4
  <2>6. n - 1 \in 0..k /\ g[n - 1] \in Nat /\ sizes[n] \in Nat /\ g[n] = g[n - 1] + sizes[n]
    BY <1>1, <1>3, <2>3, <2>4, <2>5
  <2>7. QED
    BY <2>4, <2>6
<1>5. g \in [0..k -> Nat]
  BY <1>2, <1>3, <1>4
<1>6. QED
  BY <1>3, <1>5 DEF SumsUpTo, k, g

\* The first k elements of t are those of s after the first n.
PartOf(t, k, s, n) ==
  n + k <= Len(s) /\ k <= Len(t) /\ \A i \in 1..k : t[i] = s[n + i]

LEMMA SumsShift ==
  ASSUME NEW s \in Seq(Nat), NEW t \in Seq(Nat), NEW n \in Nat, NEW k \in Nat,
         PartOf(t, k, s, n)
  PROVE  \A i \in 0..k : Sums(t)[i] = Sums(s)[n + i] - Sums(s)[n]
<1> DEFINE f == Sums(s)
           g == Sums(t)
           Bad == {i \in 0..k : g[i] # f[n + i] - f[n]}
<1>1. SumsUpTo(f, Len(s), s) /\ SumsUpTo(g, Len(t), t)
  BY SumsProperties
<1>2. /\ Len(s) \in Nat /\ Len(t) \in Nat /\ n + k <= Len(s) /\ k <= Len(t)
      /\ \A i \in 1..k : t[i] = s[n + i]
  BY DEF PartOf
<1> HIDE DEF f, g
<1>3. \A i \in 0..Len(s) : f[i] \in Nat
  BY <1>1 DEF SumsUpTo
<1>4. Bad = {}
  <2>1. SUFFICES ASSUME Bad # {} PROVE FALSE
    OBVIOUS
  <2>2. Bad \subseteq Nat
    OBVIOUS
  <2>3. PICK i \in Bad : \A j \in Bad : i <= j
    <3> HIDE DEF Bad
    <3>1. QED
      BY <2>1, <2>2, LeastNumber
  <2>4. i \in 0..k /\ g[i] # f[n + i] - f[n]
    OBVIOUS
  <2>5. i # 0
    <3>1. g[0] = 0 /\ f[n] \in Nat /\ n + 0 = n
      BY <1>1, <1>2, <1>3 DEF SumsUpTo
    <3>2. QED
      BY <2>4, <3>1
  <2>6. i - 1 \in 0..k /\ i - 1 \notin Bad
    BY <2>3, <2>4, <2>5
  <2>7. g[i - 1] = f[n + (i - 1)] - f[n]
    BY <2>6
  <2>8. i \in 1..Len(t) /\ n + i \in 1..Len(s) /\ n \in 0..Len(s) /\ (n + i) - 1 = n + (i - 1)
    <3>1. Len(s) \in Nat /\ Len(t) \in Nat /\ n + k <= Len(s) /\ k <= Len(t)
      BY <1>2
    <3>2. i \in Nat /\ i <= k /\ 1 <= i
      BY <2>4, <2>5
    <3>3. QED
      BY <3>1, <3>2
  <2>9. g[i] = g[i - 1] + t[i] /\ f[n + i] = f[n + (i - 1)] + s[n + i] /\ t[i] = s[n + i]
    <3>1. g[i] = g[i - 1] + t[i]
      BY <1>1, <2>8 DEF SumsUpTo
    <3>2. f[n + i] = f[(n + i) - 1] + s[n + i]
      BY <1>1, <2>8 DEF SumsUpTo
    <3>3. t[i] = s[n + i]
      BY <1>2, <2>4, <2>5
    <3>4. QED
      BY <2>8, <3>1, <3>2, <3>3
  <2>10. f[n + (i - 1)] \in Nat /\ f[n] \in Nat /\ s[n + i] \in Nat
    <3>1. n + (i - 1) \in 0..Len(s)
      BY <1>2, <2>4, <2>5
    <3>2. f[n + (i - 1)] \in Nat
      BY <1>3, <3>1
    <3>3. f[n] \in Nat
      BY <1>3, <2>8
    <3>4. s[n + i] \in Nat
      BY <2>8
    <3>5. QED
      BY <3>2, <3>3, <3>4
  <2>11. QED
    BY <2>4, <2>7, <2>9, <2>10
<1>5. QED
  BY <1>4 DEF f, g

LEMMA RestTyped ==
  ASSUME NEW S, NEW s \in Seq(S), NEW n \in 0..Len(s)
  PROVE  /\ SubSeq(s, n + 1, Len(s)) \in Seq(S)
         /\ Len(SubSeq(s, n + 1, Len(s))) = Len(s) - n
         /\ \A i \in 1..Len(s) - n : SubSeq(s, n + 1, Len(s))[i] = s[n + i]
<1> DEFINE k == Len(s)
           m == n + 1
<1>1. k \in Nat /\ n \in 0..k /\ m \in Int /\ k \in Int /\ \A i \in m..k : s[i] \in S
  OBVIOUS
<1> HIDE DEF k
<1>2. /\ SubSeq(s, m, k) \in Seq(S)
      /\ Len(SubSeq(s, m, k)) = IF m <= k THEN k - m + 1 ELSE 0
      /\ \A i \in 1..k - m + 1 : SubSeq(s, m, k)[i] = s[m + i - 1]
  <2> HIDE DEF m
  <2>1. QED
    BY <1>1, SubSeqProperties
<1> DEFINE t == SubSeq(s, m, k)
<1>3. Len(t) = k - n
  BY <1>1, <1>2
<1>4. \A i \in 1..k - n : t[i] = s[n + i]
  <2>1. SUFFICES ASSUME NEW i \in 1..k - n PROVE t[i] = s[n + i]
    OBVIOUS
  <2>2. i \in 1..k - m + 1 /\ m + i - 1 = n + i
    BY <1>1
  <2>3. QED
    BY <1>2, <2>2
<1>5. QED
  BY <1>2, <1>3, <1>4 DEF k

LEMMA TotalOfRest ==
  ASSUME NEW s \in Seq(Nat), NEW t \in Seq(Nat), NEW n \in 0..Len(s), Len(t) = Len(s) - n,
         \A i \in 1..Len(s) - n : t[i] = s[n + i]
  PROVE  /\ Total(t) = Total(s) - Sums(s)[n]
         /\ Total(s) \in Nat /\ Total(t) \in Nat /\ Sums(s)[n] \in Nat
<1> DEFINE k == Len(s) - n
           f == Sums(s)
           g == Sums(t)
<1>1. Len(s) \in Nat /\ n \in Nat /\ k \in Nat /\ n + k = Len(s) /\ Len(t) = k
  OBVIOUS
<1>2. PartOf(t, k, s, n)
  BY <1>1 DEF PartOf
<1> HIDE DEF k
<1>3. \A i \in 0..k : g[i] = f[n + i] - f[n]
  BY <1>1, <1>2, SumsShift
<1>4. SumsUpTo(f, Len(s), s) /\ SumsUpTo(g, k, t)
  <2>1. SumsUpTo(f, Len(s), s) /\ SumsUpTo(g, Len(t), t)
    BY SumsProperties
  <2>2. QED
    BY <1>1, <2>1, Zenon
<1> HIDE DEF f, g
<1>5. g[k] = f[n + k] - f[n]
  BY <1>1, <1>3
<1>6. f[Len(s)] \in Nat /\ f[n] \in Nat /\ g[k] \in Nat
  <2>1. f \in [0..Len(s) -> Nat] /\ g \in [0..k -> Nat]
    BY <1>4 DEF SumsUpTo
  <2>2. Len(s) \in 0..Len(s) /\ n \in 0..Len(s) /\ k \in 0..k
    BY <1>1
  <2>3. QED
    BY <2>1, <2>2
<1>7. Total(s) = f[Len(s)] /\ Total(t) = g[k]
  BY <1>1 DEF Total, f, g
<1>8. QED
  BY <1>1, <1>5, <1>6, <1>7 DEF f

LEMMA TotalOfAppend ==
  ASSUME NEW t \in Seq(Nat), NEW x \in Nat
  PROVE  Total(Append(t, x)) = Total(t) + x /\ Total(t) \in Nat
<1> DEFINE u == Append(t, x)
           k == Len(t)
<1>1. /\ u \in Seq(Nat) /\ Len(u) = k + 1 /\ k \in Nat
      /\ (\A i \in 1..k : u[i] = t[i]) /\ u[k + 1] = x
  BY AppendProperties
<1> HIDE DEF u, k
<1>2. SumsUpTo(Sums(u), k + 1, u) /\ SumsUpTo(Sums(t), k, t)
  BY <1>1, SumsProperties DEF k
<1>3. k = Len(t)
  BY DEF k
<1>4. PartOf(t, k, u, 0)
  BY <1>1, <1>3 DEF PartOf
<1>5. \A i \in 0..k : Sums(t)[i] = Sums(u)[0 + i] - Sums(u)[0]
  BY <1>1, <1>4, SumsShift
<1>6. Sums(t)[k] = Sums(u)[k] - Sums(u)[0]
  BY <1>1, <1>5
<1>7. /\ Sums(u)[0] = 0 /\ Sums(u)[k + 1] = Sums(u)[k] + x
      /\ Sums(u)[k] \in Nat /\ Sums(t)[k] \in Nat
  <2>1. k + 1 \in 1..k + 1 /\ (k + 1) - 1 = k /\ k \in 0..k + 1 /\ k \in 0..k
    BY <1>1
  <2>2. Sums(u)[k + 1] = Sums(u)[(k + 1) - 1] + u[k + 1]
    BY <1>2, <2>1 DEF SumsUpTo
  <2>3. QED
    BY <1>1, <1>2, <2>1, <2>2 DEF SumsUpTo
<1>8. Sums(u)[Len(u)] = Sums(t)[Len(t)] + x
  BY <1>1, <1>6, <1>7 DEF k
<1>9. QED
  BY <1>7, <1>8 DEF Total, u, k

LEMMA TotalOfNothing == Total(<<>>) = 0
<1>1. <<>> \in Seq(Nat) /\ Len(<<>>) = 0
  OBVIOUS
<1>2. SumsUpTo(Sums(<<>>), 0, <<>>)
  BY <1>1, SumsProperties
<1>3. QED
  BY <1>1, <1>2 DEF SumsUpTo, Total

-----------------------------------------------------------------------------
(* Event queues.                                                             *)

QueueGood(q) == q \in Queue /\ q.bytes = Total(q.events)

LEMMA BudgetsTyped ==
  /\ QueueCount \in Nat /\ QueueBytes \in Nat /\ PayloadBytes \in Nat
  /\ FlushBytes \in Nat /\ NoticeBytes \in Nat
  /\ 2 * NoticeBytes + PayloadBytes <= FlushBytes
BY EventQueueAssumption

LEMMA QueueFields ==
  ASSUME NEW q \in Queue
  PROVE  /\ q.events \in Seq(1..PayloadBytes) /\ q.events \in Seq(Nat) /\ Len(q.events) \in Nat
         /\ q.owed \in [Category -> Nat] /\ q.bytes \in Nat /\ q.scheduled \in BOOLEAN
<1>1. /\ q.events \in Seq(1..PayloadBytes) /\ q.owed \in [Category -> Nat]
      /\ q.bytes \in Nat /\ q.scheduled \in BOOLEAN
  BY DEF Queue
<1>2. Len(q.events) \in Nat /\ q.events \in Seq(Nat)
  BY <1>1, BudgetsTyped
<1>3. QED
  BY <1>1, <1>2

LEMMA EvictedTyped ==
  ASSUME NEW q \in Queue, NEW size
  PROVE  Evicted(q, size) \in 0..Len(q.events)
<1> DEFINE k == Len(q.events)
           enough == {n \in 0..k : n = k \/ Fits(q, n, size)}
<1>1. k \in Nat
  BY QueueFields
<1>2. enough \subseteq Nat /\ enough # {}
  BY <1>1
<1>3. \E n \in enough : \A m \in enough : n <= m
  <2> HIDE DEF enough
  <2>1. QED
    BY <1>2, LeastNumber
<1>4. Evicted(q, size) = CHOOSE n \in enough : \A m \in enough : n <= m
  BY DEF Evicted
<1> HIDE DEF enough
<1>5. Evicted(q, size) \in enough
  BY <1>3, <1>4
<1>6. QED
  BY <1>5 DEF enough

LEMMA NoticesFew ==
  ASSUME NEW q
  PROVE  Cardinality(Notices(q)) \in 0..2
<1>1. Notices(q) \in SUBSET Category
  BY DEF Notices
<1>2. IsFiniteSet(Category) /\ Cardinality(Category) = 2
  <2>1. IsFiniteSet({"queue_overflow"}) /\ Cardinality({"queue_overflow"}) = 1
    BY FS_Singleton
  <2>2. "payload_too_large" \notin {"queue_overflow"}
    OBVIOUS
  <2>3. /\ IsFiniteSet({"queue_overflow"} \cup {"payload_too_large"})
        /\ Cardinality({"queue_overflow"} \cup {"payload_too_large"}) = 1 + 1
    BY <2>1, <2>2, FS_AddElement
  <2>4. Category = {"queue_overflow"} \cup {"payload_too_large"}
    BY DEF Category
  <2>5. 1 + 1 = 2
    OBVIOUS
  <2>6. QED
    BY <2>3, <2>4, <2>5, Zenon
<1>3. Cardinality(Notices(q)) <= Cardinality(Category) /\ Cardinality(Notices(q)) \in Nat
  BY <1>1, <1>2, FS_Subset, FS_CardinalityType
<1>4. QED
  BY <1>2, <1>3

\* A flush has always room for its notices.
LEMMA FlushedTyped ==
  ASSUME NEW q \in Queue
  PROVE  Flushed(q) \in 0..Len(q.events)
<1> DEFINE k == Len(q.events)
           c == Cardinality(Notices(q))
           fitting == {n \in 0..k : NoticeBytes * c + HeadBytes(q, n) <= FlushBytes}
<1>1. k \in Nat /\ q.events \in Seq(Nat)
  BY QueueFields
<1>2. HeadBytes(q, 0) = 0
  BY <1>1, SumsProperties DEF HeadBytes, SumsUpTo
<1>3. NoticeBytes * c <= FlushBytes
  <2>1. c \in 0..2
    BY NoticesFew
  <2> HIDE DEF c
  <2>2. c = 0 \/ c = 1 \/ c = 2
    BY <2>1
  <2>3. QED
    BY <2>2, BudgetsTyped
<1>4. NoticeBytes * c \in Nat
  <2>1. c \in Nat
    BY NoticesFew
  <2> HIDE DEF c
  <2>2. QED
    BY <2>1, BudgetsTyped
<1>5. 0 \in fitting
  <2>1. NoticeBytes * c + HeadBytes(q, 0) <= FlushBytes
    <3> HIDE DEF c
    <3>1. QED
      BY <1>2, <1>3, <1>4, BudgetsTyped
  <2>2. QED
    BY <1>1, <2>1
<1>6. fitting \subseteq 0..k
  OBVIOUS
<1>7. \E n \in fitting : \A m \in fitting : m <= n
  <2> HIDE DEF fitting, k
  <2>1. QED
    BY <1>1, <1>5, <1>6, GreatestNumber
<1>8. Flushed(q) = CHOOSE n \in fitting : \A m \in fitting : m <= n
  BY DEF Flushed
<1> HIDE DEF fitting
<1>9. Flushed(q) \in fitting
  BY <1>7, <1>8
<1>10. QED
  BY <1>6, <1>9 DEF k

LEMMA EmptyQueueGood == QueueGood(EmptyQueue)
BY TotalOfNothing DEF QueueGood, EmptyQueue, Queue, Category

LEMMA ClearedGood ==
  ASSUME NEW q \in Queue
  PROVE  QueueGood(Cleared(q))
<1> DEFINE new == Cleared(q)
           x == EmptyQueue
           R == q.scheduled
<1>1. x \in Queue /\ x.bytes = Total(x.events)
  BY EmptyQueueGood DEF QueueGood
<1>2. R \in BOOLEAN
  BY QueueFields
<1>3. new = [x EXCEPT !.scheduled = R]
  BY DEF Cleared
<1> HIDE DEF new, x, R
<1>4. new \in Queue /\ new.bytes = x.bytes /\ new.events = x.events
  BY <1>1, <1>2, <1>3 DEF Queue
<1>5. QED
  BY <1>1, <1>4 DEF QueueGood, new

\* The events a queue keeps after its first n: they are typed, and their sum is
\* what the byte count of the queue becomes.
LEMMA RestCounted ==
  ASSUME NEW q \in Queue, q.bytes = Total(q.events), NEW n \in 0..Len(q.events)
  PROVE  /\ Rest(q, n) \in Seq(1..PayloadBytes)
         /\ Rest(q, n) \in Seq(Nat)
         /\ Len(Rest(q, n)) = Len(q.events) - n
         /\ Total(Rest(q, n)) = q.bytes - HeadBytes(q, n)
         /\ Total(Rest(q, n)) \in Nat
<1>1. q.events \in Seq(1..PayloadBytes) /\ q.events \in Seq(Nat)
  BY QueueFields
<1> DEFINE s == q.events
           t == Rest(q, n)
<1>2. /\ t \in Seq(1..PayloadBytes)
      /\ Len(t) = Len(s) - n /\ \A i \in 1..Len(s) - n : t[i] = s[n + i]
  BY <1>1, RestTyped DEF Rest
<1>3. t \in Seq(Nat)
  BY <1>1, RestTyped DEF Rest
<1>4. s \in Seq(Nat) /\ n \in 0..Len(s) /\ q.bytes = Total(s) /\ HeadBytes(q, n) = Sums(s)[n]
  BY <1>1 DEF HeadBytes
<1> HIDE DEF s, t
<1>5. Total(t) = Total(s) - Sums(s)[n] /\ Total(t) \in Nat
  BY <1>2, <1>3, <1>4, TotalOfRest
<1>6. QED
  BY <1>2, <1>3, <1>4, <1>5 DEF s, t

\* What an event does to a queue: it is counted in its category, or queued in
\* place of the events that are now counted as dropped.
LEMMA EnqueuedGood ==
  ASSUME NEW q, QueueGood(q), NEW size \in 1..PayloadBytes + 1
  PROVE  LET n == Enqueued(q, size)
         IN /\ QueueGood(n)
            /\ n.scheduled = TRUE
            /\ TooLarge(size) =>
                 /\ n.owed["payload_too_large"] = q.owed["payload_too_large"] + 1
                 /\ n.owed["queue_overflow"] = q.owed["queue_overflow"]
                 /\ Len(n.events) = Len(q.events)
            /\ ~ TooLarge(size) =>
                 /\ n.owed["payload_too_large"] = q.owed["payload_too_large"]
                 /\ Len(n.events) + n.owed["queue_overflow"]
                      = Len(q.events) + q.owed["queue_overflow"] + 1
<1> DEFINE new == Enqueued(q, size)
<1>1. /\ q \in Queue /\ q.bytes = Total(q.events) /\ q.events \in Seq(1..PayloadBytes)
      /\ Len(q.events) \in Nat /\ q.owed \in [Category -> Nat] /\ q.bytes \in Nat
  BY QueueFields DEF QueueGood
<1>2. q.owed["payload_too_large"] \in Nat /\ q.owed["queue_overflow"] \in Nat
  BY <1>1 DEF Category
<1>3. CASE TooLarge(size)
  <2> DEFINE R == Owing(q, "payload_too_large", 1)
  <2>1. /\ R \in [Category -> Nat]
        /\ R["payload_too_large"] = q.owed["payload_too_large"] + 1
        /\ R["queue_overflow"] = q.owed["queue_overflow"]
    BY <1>1, <1>2 DEF Owing, Category
  <2>2. new = [q EXCEPT !.owed = R, !.scheduled = TRUE]
    BY <1>3 DEF Enqueued
  <2> HIDE DEF new, R
  <2>3. /\ new \in Queue /\ new.events = q.events /\ new.bytes = q.bytes /\ new.owed = R
        /\ new.scheduled = TRUE
    BY <1>1, <2>1, <2>2 DEF Queue
  <2>4. QueueGood(new)
    BY <1>1, <2>3 DEF QueueGood
  <2>5. QED
    BY <1>3, <2>1, <2>3, <2>4 DEF new
<1>4. CASE ~ TooLarge(size)
  <2> DEFINE k == Evicted(q, size)
             R == Owing(q, "queue_overflow", k)
             t == Rest(q, k)
             E == Append(t, size)
             B == q.bytes - HeadBytes(q, k) + size
  <2>1. k \in 0..Len(q.events)
    BY <1>1, EvictedTyped
  <2>2. new = [q EXCEPT !.events = E, !.bytes = B, !.owed = R, !.scheduled = TRUE]
    BY <1>4 DEF Enqueued
  <2>3. size \in 1..PayloadBytes
    BY <1>4, BudgetsTyped DEF TooLarge
  <2> HIDE DEF new, k
  <2>4. /\ R \in [Category -> Nat]
        /\ R["payload_too_large"] = q.owed["payload_too_large"]
        /\ R["queue_overflow"] = q.owed["queue_overflow"] + k
    BY <1>1, <1>2, <2>1 DEF Owing, Category
  <2>5. /\ t \in Seq(1..PayloadBytes) /\ t \in Seq(Nat) /\ Len(t) = Len(q.events) - k
        /\ Total(t) = q.bytes - HeadBytes(q, k) /\ Total(t) \in Nat
    BY <1>1, <2>1, RestCounted
  <2> HIDE DEF R, t
  <2>6. /\ E \in Seq(1..PayloadBytes) /\ Len(E) = Len(t) + 1
    BY <2>3, <2>5
  <2>7. Total(E) = Total(t) + size
    BY <2>3, <2>5, TotalOfAppend
  <2>8. B = Total(E) /\ B \in Nat
    BY <2>3, <2>5, <2>7
  <2> HIDE DEF E, B
  <2>9. /\ new \in Queue /\ new.events = E /\ new.bytes = B /\ new.owed = R
        /\ new.scheduled = TRUE
    BY <1>1, <2>2, <2>4, <2>6, <2>8 DEF Queue
  <2>10. QueueGood(new)
    BY <2>8, <2>9 DEF QueueGood
  <2>11. /\ new.owed["payload_too_large"] = q.owed["payload_too_large"]
         /\ Len(new.events) + new.owed["queue_overflow"]
              = Len(q.events) + q.owed["queue_overflow"] + 1
    <3>1. Len(new.events) = Len(q.events) - k + 1
      BY <1>1, <2>1, <2>5, <2>6, <2>9
    <3>2. /\ new.owed["payload_too_large"] = q.owed["payload_too_large"]
          /\ new.owed["queue_overflow"] = q.owed["queue_overflow"] + k
      BY <2>4, <2>9
    <3>3. Len(q.events) \in Nat /\ k \in Nat /\ q.owed["queue_overflow"] \in Nat
      BY <1>1, <1>2, <2>1
    <3>4. QED
      BY <3>1, <3>2, <3>3
  <2>12. QED
    BY <1>4, <2>9, <2>10, <2>11 DEF new
<1>5. QED
  BY <1>3, <1>4

\* What a flush leaves: the events that did not fit, no notice, and a timer
\* exactly if there are such events.
LEMMA LeftGood ==
  ASSUME NEW q, QueueGood(q), NEW n \in 0..Len(q.events)
  PROVE  /\ QueueGood(Left(q, n))
         /\ Len(Left(q, n).events) = Len(q.events) - n
         /\ \A k \in Category : Left(q, n).owed[k] = 0
         /\ Left(q, n).events # <<>> => Left(q, n).scheduled = TRUE
<1> DEFINE new == Left(q, n)
           t == Rest(q, n)
           B == q.bytes - HeadBytes(q, n)
           O == [k \in Category |-> 0]
           Z == (n < Len(q.events))
<1>1. q \in Queue /\ q.bytes = Total(q.events) /\ Len(q.events) \in Nat
  BY QueueFields DEF QueueGood
<1>2. /\ t \in Seq(1..PayloadBytes) /\ Len(t) = Len(q.events) - n
      /\ Total(t) = B /\ B \in Nat
  BY <1>1, RestCounted
<1>3. new = [events |-> t, bytes |-> B, owed |-> O, scheduled |-> Z]
  BY DEF Left
<1>4. O \in [Category -> Nat] /\ Z \in BOOLEAN /\ \A k \in Category : O[k] = 0
  OBVIOUS
<1>5. t # <<>> => Z = TRUE
  <2> HIDE DEF t
  <2>1. t # <<>> => Len(t) > 0
    BY <1>2
  <2>2. QED
    BY <1>1, <1>2, <2>1
<1> HIDE DEF new, t, B, O, Z
<1>6. new \in Queue /\ new.events = t /\ new.bytes = B /\ new.owed = O /\ new.scheduled = Z
  BY <1>2, <1>3, <1>4 DEF Queue
<1>7. QueueGood(new)
  BY <1>2, <1>6 DEF QueueGood
<1>8. QED
  BY <1>2, <1>4, <1>5, <1>6, <1>7 DEF new

-----------------------------------------------------------------------------
(* The inductive invariant, in four parts that own their variables: grants   *)
(* and challenges, sockets, requests and handles, and queues.                *)

ChallengeGood(x) ==
  /\ x \in Challenge
  /\ x.told <= 1
  /\ x.stage = "pending" <=> x.sock # None
  /\ x.stage \in {"unused", "pending"} => x.bad < MaxBadCodes /\ x.told = 0
  /\ x.stage = "granted" => x.told = 1

\* Only a challenge that was granted gave a grant: a name is granted once.  A save
\* is due only where there is a store to write to.
GrantsInv ==
  /\ grants \subseteq Pairing /\ saved \subseteq Pairing /\ revoked \subseteq Pairing
  /\ missed \subseteq Pairing
  /\ window \in BOOLEAN /\ saveDue \in BOOLEAN /\ store \in BOOLEAN
  /\ saveDue => store
  /\ pairs \in [Pairing -> Challenge]
  /\ \A p \in Pairing : ChallengeGood(pairs[p])
  /\ \A p \in grants \cup saved \cup revoked : pairs[p].stage = "granted"
  /\ GrantsDurable

SocksInv == socks \in [Socket -> Sock]

\* At most one request has a handle, and it has it unspent: reserved, or taken
\* away from it, and then nobody gets the handle any more.
LoadsInv ==
  /\ reqs \in [Request -> Req]
  /\ assets \in [Asset -> Handle]
  /\ HandleSpentOnce
  /\ \A r \in Request : reqs[r].asset # None =>
       /\ assets[reqs[r].asset].uses = 0
       /\ \/ assets[reqs[r].asset].stage = "gone"
          \/ assets[reqs[r].asset].stage = "held" /\ assets[reqs[r].asset].holder = r
       /\ \A s \in Request : reqs[s].asset = reqs[r].asset => s = r

QueuesInv ==
  /\ queues \in [Socket -> Queue]
  /\ tally \in [Socket -> Tally]
  /\ BytesCounted
  /\ DropsCounted
  /\ NothingStranded

\* No step changes leaks once the grants are right.
ViewerInv == GrantsInv /\ SocksInv /\ LoadsInv /\ QueuesInv /\ leaks = {}

LEMMA NoneApart ==
  /\ \A c \in Socket : c # None
  /\ \A p \in Pairing : p # None
  /\ \A r \in Request : r # None
  /\ \A a \in Asset : a # None
  /\ None \notin Pairing
BY ViewerApiAssumption

LEMMA LimitsTyped ==
  /\ MaxPending \in Nat \ {0} /\ MaxGrants \in Nat \ {0} /\ MaxBadCodes \in Nat \ {0}
BY ViewerApiAssumption

-----------------------------------------------------------------------------
(* Challenges.                                                               *)

LEMMA NoChallengeFields ==
  /\ NoChallenge \in Challenge /\ NoChallenge.stage = "unused" /\ NoChallenge.sock = None
  /\ NoChallenge.late = FALSE /\ NoChallenge.bad = 0 /\ NoChallenge.told = 0
BY LimitsTyped DEF NoChallenge, Challenge

LEMMA NoChallengeGood ==
  /\ ChallengeGood(NoChallenge)
  /\ ChallengeGood([NoChallenge EXCEPT !.stage = "ended"])
  /\ [NoChallenge EXCEPT !.stage = "ended"].stage = "ended"
<1> DEFINE x == NoChallenge
           y == [NoChallenge EXCEPT !.stage = "ended"]
<1>1. /\ x.stage = "unused" /\ x.sock = None /\ x.late = FALSE /\ x.bad = 0 /\ x.told = 0
      /\ x \in Challenge
  BY NoChallengeFields
<1>2. y = [x EXCEPT !.stage = "ended"]
  OBVIOUS
<1> HIDE DEF x, y
<1>3. y \in Challenge /\ y.stage = "ended" /\ y.sock = None /\ y.told = 0
  BY <1>1, <1>2 DEF Challenge
<1>4. QED
  BY <1>1, <1>3, LimitsTyped DEF ChallengeGood, x, y

\* A pending challenge is concluded with one answer if its client is there, and
\* every other challenge stays as it is.
LEMMA ConcludedGood ==
  ASSUME GrantsInv, NEW ps, ps \subseteq Pending, NEW p \in Pairing
  PROVE  LET x == Concluded(ps)[p]
         IN /\ ChallengeGood(x)
            /\ p \in ps => /\ x.stage = "ended" /\ x.bad = 0 /\ x.sock = None
                           /\ Open(pairs[p].sock) => x.told = 1
            /\ p \notin ps => x = pairs[p]
<1> DEFINE x == Concluded(ps)[p]
           k == pairs[p].told + IF Open(pairs[p].sock) THEN 1 ELSE 0
<1>1. CASE p \in ps
  <2>1. pairs[p].told = 0 /\ pairs[p].stage = "pending"
    BY <1>1 DEF GrantsInv, ChallengeGood, Pending
  <2>2. k \in {0, 1} /\ (Open(pairs[p].sock) => k = 1)
    BY <2>1
  <2> DEFINE y == NoChallenge
  <2>3. x = [y EXCEPT !.stage = "ended", !.told = k]
    BY <1>1 DEF Concluded
  <2>4. y \in Challenge /\ y.sock = None /\ y.bad = 0
    BY NoChallengeFields
  <2> HIDE DEF x, k, y
  <2>5. /\ x \in Challenge /\ x.stage = "ended" /\ x.told = k /\ x.sock = None /\ x.bad = 0
    <3>1. k \in Nat
      BY <2>2
    <3>2. x \in Challenge
      BY <2>3, <2>4, <3>1 DEF Challenge
    <3>3. x.stage = "ended" /\ x.told = k /\ x.sock = y.sock /\ x.bad = y.bad
      BY <2>3, <2>4, <3>1 DEF Challenge
    <3>4. QED
      BY <2>4, <3>2, <3>3
  <2>6. QED
    BY <1>1, <2>2, <2>5 DEF ChallengeGood, x
<1>2. CASE p \notin ps
  <2>1. x = pairs[p]
    BY <1>2 DEF Concluded
  <2>2. QED
    BY <1>2, <2>1 DEF GrantsInv
<1>3. QED
  BY <1>1, <1>2

\* The challenge p gets its answer if it ends and its client stays.
Answered(p) ==
  LET c == pairs[p].sock
  IN p \in Pending /\ pairs'[p].stage = "ended" /\ Open(c) =>
       pairs'[p].told = 1 \/ socks'[c].phase # "open"

Moved(p) ==
  /\ ChallengeGood(pairs'[p])
  /\ pairs'[p].stage = "granted" <=> pairs[p].stage = "granted"
  /\ Answered(p)

ChallengesMove == pairs' \in [Pairing -> Challenge] /\ \A p \in Pairing : Moved(p)

LEMMA ChallengeOf ==
  ASSUME GrantsInv, NEW p \in Pairing
  PROVE  /\ pairs[p] \in Challenge /\ ChallengeGood(pairs[p])
         /\ pairs[p].stage \in {"unused", "pending", "granted", "ended"}
         /\ pairs[p].sock \in Socket \cup {None}
         /\ pairs[p].late \in BOOLEAN /\ pairs[p].bad \in 0..MaxBadCodes /\ pairs[p].told \in Nat
         /\ p \in Pending <=> pairs[p].stage = "pending"
<1>1. pairs[p] \in Challenge /\ ChallengeGood(pairs[p])
  BY DEF GrantsInv
<1>2. p \in Pending <=> pairs[p].stage = "pending"
  BY DEF Pending
<1>3. QED
  BY <1>1, <1>2 DEF Challenge

LEMMA ChallengesStay ==
  ASSUME GrantsInv, UNCHANGED pairs
  PROVE  ChallengesMove
<1>1. ASSUME NEW p \in Pairing PROVE Moved(p)
  <2>1. pairs'[p] = pairs[p] /\ ChallengeGood(pairs[p])
    BY ChallengeOf
  <2>2. p \in Pending => pairs'[p].stage = "pending"
    BY <2>1 DEF Pending
  <2>3. QED
    BY <2>1, <2>2 DEF Moved, Answered
<1>2. QED
  BY <1>1 DEF ChallengesMove, GrantsInv

LEMMA ConcludedMoves ==
  ASSUME GrantsInv, NEW ps, ps \subseteq Pending, pairs' = Concluded(ps)
  PROVE  ChallengesMove
<1>1. ASSUME NEW p \in Pairing PROVE Moved(p) /\ pairs'[p] \in Challenge
  <2>1. CASE p \in ps
    <3>1. /\ ChallengeGood(pairs'[p]) /\ pairs'[p].stage = "ended"
          /\ Open(pairs[p].sock) => pairs'[p].told = 1
      BY <2>1, ConcludedGood
    <3>2. pairs[p].stage = "pending"
      BY <2>1 DEF Pending
    <3>3. QED
      BY <3>1, <3>2 DEF Moved, Answered, ChallengeGood
  <2>2. CASE p \notin ps
    <3>1. pairs'[p] = pairs[p] /\ ChallengeGood(pairs[p])
      BY <2>2, ConcludedGood, ChallengeOf
    <3>2. p \in Pending => pairs'[p].stage = "pending"
      BY <3>1 DEF Pending
    <3>3. QED
      BY <3>1, <3>2 DEF Moved, Answered, ChallengeGood
  <2>3. QED
    BY <2>1, <2>2
<1>2. pairs' = [p \in Pairing |-> pairs'[p]]
  BY DEF Concluded
<1>3. pairs' \in [Pairing -> Challenge]
  BY <1>1, <1>2
<1>4. QED
  BY <1>1, <1>3 DEF ChallengesMove

LEMMA MovesKeepGrants ==
  ASSUME GrantsInv, ChallengesMove, UNCHANGED <<grants, saved, store, revoked, missed>>,
         window' \in BOOLEAN, saveDue' \in BOOLEAN, saveDue' => store
  PROVE  GrantsInv'
<1>1. \A p \in Pairing : ChallengeGood(pairs'[p])
                      /\ (pairs'[p].stage = "granted" <=> pairs[p].stage = "granted")
  BY DEF ChallengesMove, Moved
<1>2. \A p \in grants \cup saved \cup revoked : pairs'[p].stage = "granted"
  BY <1>1 DEF GrantsInv
<1>3. \A p \in Pairing : pairs'[p].stage = "granted" => p \in grants \cup revoked \cup missed
  BY <1>1 DEF GrantsInv, GrantsDurable
<1>4. GrantsDurable'
  BY <1>3 DEF GrantsInv, GrantsDurable
<1>5. \A p \in Pairing : ChallengeGood(pairs[p])'
  BY <1>1
<1>6. QED
  BY <1>2, <1>4, <1>5 DEF GrantsInv, ChallengesMove

LEMMA LateGood ==
  ASSUME NEW x, ChallengeGood(x), NEW b \in BOOLEAN, NEW y, y = [x EXCEPT !.late = b]
  PROVE  ChallengeGood(y) /\ y.stage = x.stage /\ y \in Challenge
<1>1. x \in Challenge
  BY DEF ChallengeGood
<1>2. /\ y \in Challenge /\ y.stage = x.stage /\ y.told = x.told /\ y.sock = x.sock
      /\ y.bad = x.bad
  BY <1>1 DEF Challenge
<1>3. QED
  BY <1>2 DEF ChallengeGood

LEMMA BadGood ==
  ASSUME NEW x, ChallengeGood(x), NEW b \in 0..MaxBadCodes, NEW y, y = [x EXCEPT !.bad = b],
         x.stage = "ended" \/ b < MaxBadCodes
  PROVE  /\ ChallengeGood(y) /\ y \in Challenge
         /\ y.stage = x.stage /\ y.told = x.told
<1>1. x \in Challenge
  BY DEF ChallengeGood
<1>2. /\ y \in Challenge /\ y.stage = x.stage /\ y.told = x.told /\ y.sock = x.sock
      /\ y.bad = b
  BY <1>1 DEF Challenge
<1>3. QED
  BY <1>2 DEF ChallengeGood

\* A challenge that did not end need not be answered.
LEMMA MovesOpen ==
  ASSUME GrantsInv, NEW p \in Pairing, ChallengeGood(pairs'[p]),
         pairs'[p].stage = "granted" <=> pairs[p].stage = "granted",
         pairs'[p].stage # "ended" \/ pairs[p].stage # "pending"
  PROVE  Moved(p)
<1>1. p \in Pending => pairs[p].stage = "pending"
  BY DEF Pending
<1>2. QED
  BY <1>1 DEF Moved, Answered

LEMMA WindowLapsesMoves ==
  ASSUME GrantsInv, WindowLapses
  PROVE  ChallengesMove
<1>1. pairs' = [p \in Pairing |-> [pairs[p] EXCEPT !.late = @ \/ p \in Pending]]
  BY DEF WindowLapses
<1>2. ASSUME NEW p \in Pairing PROVE Moved(p) /\ pairs'[p] \in Challenge
  <2> DEFINE x == pairs[p]
             y == pairs'[p]
             b == (x.late \/ p \in Pending)
  <2>1. ChallengeGood(x) /\ b \in BOOLEAN /\ y = [x EXCEPT !.late = b]
    BY <1>1, ChallengeOf
  <2>2. ChallengeGood(y) /\ y.stage = x.stage /\ y \in Challenge
    <3> HIDE DEF x, y, b
    <3>1. QED
      BY <2>1, LateGood
  <2>3. QED
    BY <2>2, MovesOpen
<1>3. pairs' \in [Pairing -> Challenge]
  BY <1>1, <1>2
<1>4. QED
  BY <1>2, <1>3 DEF ChallengesMove

LEMMA ChallengeLapsesMoves ==
  ASSUME GrantsInv, NEW k \in Pairing, ChallengeLapses(k)
  PROVE  ChallengesMove
<1>1. pairs' = [pairs EXCEPT ![k].late = TRUE] /\ pairs \in [Pairing -> Challenge]
  BY DEF ChallengeLapses, GrantsInv
<1>2. ASSUME NEW p \in Pairing PROVE Moved(p) /\ pairs'[p] \in Challenge
  <2> DEFINE x == pairs[p]
             y == pairs'[p]
  <2>1. ChallengeGood(x) /\ x \in Challenge
    BY ChallengeOf
  <2>2. y = x \/ y = [x EXCEPT !.late = TRUE]
    BY <1>1
  <2>3. ChallengeGood(y) /\ y.stage = x.stage /\ y \in Challenge
    <3> HIDE DEF x, y
    <3>1. QED
      BY <2>1, <2>2, LateGood
  <2>4. QED
    BY <2>3, MovesOpen
<1>3. pairs' \in [Pairing -> Challenge]
  BY <1>1, <1>2
<1>4. QED
  BY <1>2, <1>3 DEF ChallengesMove

LEMMA ConcludedTyped ==
  ASSUME GrantsInv, NEW ps, ps \subseteq Pending
  PROVE  Concluded(ps) \in [Pairing -> Challenge]
<1>1. \A p \in Pairing : Concluded(ps)[p] \in Challenge
  BY ConcludedGood DEF ChallengeGood
<1>2. Concluded(ps) = [p \in Pairing |-> Concluded(ps)[p]]
  BY DEF Concluded
<1>3. QED
  BY <1>1, <1>2

LEMMA OthersConcluded ==
  ASSUME GrantsInv, NEW ps, ps \subseteq Pending, NEW p \in Pairing,
         pairs'[p] = Concluded(ps)[p]
  PROVE  Moved(p) /\ pairs'[p] \in Challenge
<1>1. CASE p \in ps
  <2>1. /\ ChallengeGood(pairs'[p]) /\ pairs'[p].stage = "ended"
        /\ Open(pairs[p].sock) => pairs'[p].told = 1
    BY <1>1, ConcludedGood
  <2>2. pairs[p].stage = "pending"
    BY <1>1 DEF Pending
  <2>3. QED
    BY <2>1, <2>2 DEF Moved, Answered, ChallengeGood
<1>2. CASE p \notin ps
  <2>1. pairs'[p] = pairs[p] /\ ChallengeGood(pairs[p])
    BY <1>2, ConcludedGood, ChallengeOf
  <2>2. QED
    BY <2>1, MovesOpen DEF ChallengeGood
<1>3. QED
  BY <1>1, <1>2

LEMMA AskPairingMoves ==
  ASSUME GrantsInv, NEW c \in Socket, NEW k \in Pairing, AskPairing(c, k)
  PROVE  ChallengesMove
<1>1. Expired \subseteq Pending
  BY DEF Expired
<1>2. CASE pairs' = Concluded(Expired)
  BY <1>1, <1>2, ConcludedMoves
<1>3. CASE pairs' = [Concluded(Expired) EXCEPT ![k].stage = "pending", ![k].sock = c]
  <2> DEFINE C == Concluded(Expired)
  <2>1. C \in [Pairing -> Challenge]
    BY <1>1, ConcludedTyped
  <2>2. pairs[k].stage = "unused" /\ k \notin Expired
    BY DEF AskPairing, Expired, Pending
  <2>3. \A p \in Pairing : /\ p \in Expired => ChallengeGood(C[p]) /\ C[p].stage = "ended"
                                            /\ (Open(pairs[p].sock) => C[p].told = 1)
                           /\ p \notin Expired => C[p] = pairs[p]
    BY <1>1, ConcludedGood
  <2> HIDE DEF C
  <2>4. pairs' = [C EXCEPT ![k] = [C[k] EXCEPT !.stage = "pending", !.sock = c]]
    BY <1>3, <2>1 DEF C
  <2>5. pairs'[k] = [C[k] EXCEPT !.stage = "pending", !.sock = c] /\ C[k] = pairs[k]
    BY <2>1, <2>2, <2>3, <2>4
  <2>6. ChallengeGood(pairs'[k]) /\ pairs'[k].stage = "pending" /\ pairs'[k] \in Challenge
    <3> DEFINE x == pairs[k]
               y == pairs'[k]
    <3>1. x \in Challenge /\ x.bad < MaxBadCodes /\ x.told = 0
      BY <2>2, ChallengeOf DEF ChallengeGood
    <3>2. y = [x EXCEPT !.stage = "pending", !.sock = c]
      BY <2>5
    <3> HIDE DEF x, y
    <3>3. y \in Challenge
      BY <3>1, <3>2 DEF Challenge
    <3>4. y.stage = "pending" /\ y.sock = c /\ y.bad = x.bad /\ y.told = x.told
      BY <3>1, <3>2 DEF Challenge
    <3>5. QED
      BY <3>1, <3>3, <3>4, NoneApart DEF ChallengeGood, y
  <2>7. ASSUME NEW p \in Pairing, p # k PROVE Moved(p) /\ pairs'[p] \in Challenge
    <3>1. pairs'[p] = C[p] /\ pairs'[p] \in Challenge
      BY <2>1, <2>4, <2>7
    <3>2. QED
      BY <1>1, <3>1, OthersConcluded DEF C
  <2>8. Moved(k)
    BY <2>2, <2>6, MovesOpen
  <2>9. pairs' \in [Pairing -> Challenge]
    BY <2>1, <2>4, <2>5, <2>6
  <2>10. QED
    BY <2>7, <2>8, <2>9 DEF ChallengesMove
<1>4. QED
  BY <1>2, <1>3 DEF AskPairing

LEMMA ApproveBadCodeMoves ==
  ASSUME GrantsInv, NEW k \in Pairing, ApproveBadCode(k)
  PROVE  ChallengesMove
<1> DEFINE bad == pairs[k].bad + 1
           ended == IF bad >= MaxBadCodes THEN {k} ELSE {}
           C == Concluded(ended)
           y == [C[k] EXCEPT !.bad = bad]
<1>1. k \in Pending /\ Open(pairs[k].sock)
  BY DEF ApproveBadCode, Approvable
<1>2. ended \subseteq Pending
  BY <1>1
<1>3. C \in [Pairing -> Challenge]
  BY <1>2, ConcludedTyped
<1>4. pairs[k].bad < MaxBadCodes /\ pairs[k].bad \in Nat /\ pairs[k].stage = "pending"
  BY <1>1, ChallengeOf DEF ChallengeGood
<1>5. bad \in 0..MaxBadCodes
  BY <1>4, LimitsTyped
<1>6. pairs' = [C EXCEPT ![k].bad = bad]
  BY DEF ApproveBadCode
<1>7. pairs' = [C EXCEPT ![k] = y]
  BY <1>6
<1>8. /\ ChallengeGood(C[k])
      /\ bad >= MaxBadCodes => C[k].stage = "ended" /\ C[k].told = 1
      /\ bad < MaxBadCodes => C[k] = pairs[k]
  <2>1. /\ ChallengeGood(C[k])
        /\ k \in ended => C[k].stage = "ended" /\ C[k].told = 1
        /\ k \notin ended => C[k] = pairs[k]
    BY <1>1, <1>2, ConcludedGood
  <2>2. (bad >= MaxBadCodes => k \in ended) /\ (bad < MaxBadCodes => k \notin ended)
    BY <1>5, LimitsTyped
  <2>3. QED
    BY <2>1, <2>2
<1>9. Moved(k) /\ pairs'[k] \in Challenge
  <2>1. pairs'[k] = y
    BY <1>3, <1>7
  <2>2. C[k].stage = "ended" \/ bad < MaxBadCodes
    BY <1>5, <1>8, LimitsTyped
  <2>3. ChallengeGood(y) /\ y \in Challenge /\ y.stage = C[k].stage /\ y.told = C[k].told
    <3> DEFINE x == C[k]
               b == bad
               z == y
    <3>1. ChallengeGood(x) /\ b \in 0..MaxBadCodes /\ z = [x EXCEPT !.bad = b]
      BY <1>5, <1>8
    <3>2. x.stage = "ended" \/ b < MaxBadCodes
      BY <2>2
    <3> HIDE DEF x, b, z
    <3>3. ChallengeGood(z) /\ z \in Challenge /\ z.stage = x.stage /\ z.told = x.told
      BY <3>1, <3>2, BadGood
    <3>4. QED
      BY <3>3 DEF x, z
  <2> HIDE DEF C, y, bad
  <2>4. CASE bad < MaxBadCodes
    <3>1. y.stage = pairs[k].stage
      BY <1>8, <2>3, <2>4
    <3>2. QED
      BY <1>4, <2>1, <2>3, <3>1, MovesOpen
  <2>5. CASE ~ (bad < MaxBadCodes)
    <3>1. y.stage = "ended" /\ y.told = 1
      BY <1>5, <1>8, <2>3, <2>5, LimitsTyped
    <3>2. QED
      BY <1>4, <2>1, <2>3, <3>1 DEF Moved, Answered
  <2>6. QED
    BY <2>4, <2>5
<1>10. ASSUME NEW p \in Pairing, p # k PROVE Moved(p) /\ pairs'[p] \in Challenge
  <2>1. pairs'[p] = C[p]
    <3> HIDE DEF C, y
    <3>1. QED
      BY <1>3, <1>7, <1>10
  <2>2. QED
    BY <1>2, <2>1, OthersConcluded
<1>11. pairs' \in [Pairing -> Challenge]
  <2> HIDE DEF C, y
  <2>1. \A p \in Pairing : pairs'[p] \in Challenge
    BY <1>9, <1>10
  <2>2. pairs' = [p \in Pairing |-> pairs'[p]]
    BY <1>3, <1>7
  <2>3. QED
    BY <2>1, <2>2
<1>12. QED
  BY <1>9, <1>10, <1>11 DEF ChallengesMove

LEMMA DisconnectMoves ==
  ASSUME GrantsInv, SocksInv, NEW c \in Socket, Disconnect(c)
  PROVE  ChallengesMove
<1> DEFINE y == [NoChallenge EXCEPT !.stage = "ended"]
<1>1. pairs' = [p \in Pairing |-> IF pairs[p].sock # c THEN pairs[p] ELSE y]
  BY DEF Disconnect
<1>2. ChallengeGood(y) /\ y.stage = "ended"
  BY NoChallengeGood
<1>3. socks'[c].phase = "absent"
  BY DEF Disconnect, NoSock, SocksInv
<1> HIDE DEF y
<1>4. ASSUME NEW p \in Pairing PROVE Moved(p) /\ pairs'[p] \in Challenge
  <2>1. CASE pairs[p].sock # c
    <3>1. pairs'[p] = pairs[p] /\ ChallengeGood(pairs[p])
      BY <1>1, <2>1, ChallengeOf
    <3>2. QED
      BY <3>1, MovesOpen DEF ChallengeGood
  <2>2. CASE pairs[p].sock = c
    <3>1. pairs'[p] = y
      BY <1>1, <2>2
    <3>2. pairs[p].stage = "pending"
      BY <2>2, ChallengeOf, NoneApart DEF ChallengeGood
    <3>3. QED
      BY <1>2, <1>3, <2>2, <3>1, <3>2 DEF Moved, Answered, ChallengeGood
  <2>3. QED
    BY <2>1, <2>2
<1>5. pairs' \in [Pairing -> Challenge]
  BY <1>1, <1>4
<1>6. QED
  BY <1>4, <1>5 DEF ChallengesMove

LEMMA RestartMoves ==
  ASSUME GrantsInv, SocksInv, Restart
  PROVE  ChallengesMove
<1> DEFINE y == [NoChallenge EXCEPT !.stage = "ended"]
<1>1. pairs' = [p \in Pairing |-> IF p \in Pending THEN y ELSE pairs[p]]
  BY DEF Restart
<1>2. ChallengeGood(y) /\ y.stage = "ended"
  BY NoChallengeGood
<1>3. \A c \in Socket : socks'[c].phase = "absent"
  BY DEF Restart, NoSock
<1> HIDE DEF y
<1>4. ASSUME NEW p \in Pairing PROVE Moved(p) /\ pairs'[p] \in Challenge
  <2>1. CASE p \notin Pending
    <3>1. pairs'[p] = pairs[p] /\ ChallengeGood(pairs[p])
      BY <1>1, <2>1, ChallengeOf
    <3>2. QED
      BY <3>1, MovesOpen DEF ChallengeGood
  <2>2. CASE p \in Pending
    <3>1. pairs'[p] = y
      BY <1>1, <2>2
    <3>2. pairs[p].stage = "pending" /\ pairs[p].sock \in Socket
      BY <2>2, ChallengeOf DEF ChallengeGood
    <3>3. QED
      BY <1>2, <1>3, <3>1, <3>2 DEF Moved, Answered, ChallengeGood
  <2>3. QED
    BY <2>1, <2>2
<1>5. pairs' \in [Pairing -> Challenge]
  BY <1>1, <1>4
<1>6. QED
  BY <1>4, <1>5 DEF ChallengesMove

\* A grant is given to a challenge that was pending, so its name was never
\* granted or revoked before.
LEMMA ApproveStep ==
  ASSUME GrantsInv, NEW k \in Pairing, Approve(k)
  PROVE  GrantsInv' /\ \A p \in Pairing : Answered(p)
<1> DEFINE ps == Expired \cup {k}
           C == Concluded(ps)
           y == [C[k] EXCEPT !.stage = "granted"]
<1>1. k \in Pending /\ Open(pairs[k].sock) /\ ps \subseteq Pending
  BY DEF Approve, Approvable, Expired
<1>2. C \in [Pairing -> Challenge]
  BY <1>1, ConcludedTyped
<1>3. ChallengeGood(C[k]) /\ C[k].sock = None /\ C[k].told = 1 /\ C[k].stage = "ended"
  BY <1>1, ConcludedGood
<1>4. /\ pairs' = [C EXCEPT ![k] = y] /\ grants' = grants \cup {k}
      /\ saved' = IF store THEN grants' ELSE saved
  BY DEF Approve, SavedNow
<1>5. UNCHANGED <<window, saveDue, store, revoked, missed>>
  BY DEF Approve, history
<1>6. ChallengeGood(y) /\ y.stage = "granted" /\ y \in Challenge
  <2> DEFINE x == C[k]
  <2>1. x \in Challenge /\ x.sock = None /\ x.told = 1
    BY <1>3 DEF ChallengeGood
  <2>2. y = [x EXCEPT !.stage = "granted"]
    OBVIOUS
  <2> HIDE DEF x, y
  <2>3. y \in Challenge /\ y.stage = "granted" /\ y.told = x.told /\ y.sock = x.sock
    BY <2>1, <2>2 DEF Challenge
  <2>4. QED
    BY <2>1, <2>3 DEF ChallengeGood
<1> HIDE DEF C, y
<1>7. pairs'[k] = y /\ \A p \in Pairing : p # k => pairs'[p] = C[p]
  BY <1>2, <1>4
<1>8. ASSUME NEW p \in Pairing, p # k PROVE Moved(p) /\ pairs'[p] \in Challenge
  <2>1. pairs'[p] = C[p]
    BY <1>7, <1>8
  <2>2. QED
    BY <1>1, <2>1, OthersConcluded DEF C
<1>9. pairs[k].stage = "pending"
  BY <1>1 DEF Pending
<1>10. pairs' \in [Pairing -> Challenge]
  BY <1>2, <1>4, <1>6, <1>7, <1>8
<1>11. \A p \in Pairing : ChallengeGood(pairs'[p])
  BY <1>6, <1>7, <1>8 DEF Moved
<1>12. \A p \in Pairing : pairs'[p].stage = "granted" <=> pairs[p].stage = "granted" \/ p = k
  BY <1>6, <1>7, <1>8 DEF Moved
<1>13. k \notin revoked /\ k \notin saved
  BY <1>9 DEF GrantsInv
<1>14. GrantsDurable'
  <2>1. IF store THEN grants' = saved' ELSE grants' \cap saved' = {}
    BY <1>4, <1>13 DEF GrantsInv, GrantsDurable
  <2>2. revoked' \cap (grants' \cup saved') = {}
    BY <1>4, <1>5, <1>13 DEF GrantsInv, GrantsDurable
  <2>3. \A p \in Pairing : pairs'[p].stage = "granted" => p \in grants' \cup revoked' \cup missed'
    BY <1>4, <1>5, <1>12 DEF GrantsInv, GrantsDurable
  <2>4. QED
    BY <1>5, <2>1, <2>2, <2>3 DEF GrantsInv, GrantsDurable
<1>15. \A p \in grants' \cup saved' \cup revoked' : pairs'[p].stage = "granted"
  BY <1>4, <1>5, <1>12 DEF GrantsInv, GrantsDurable
<1>16. GrantsInv'
  <2>1. /\ grants' \subseteq Pairing /\ saved' \subseteq Pairing /\ revoked' \subseteq Pairing
        /\ missed' \subseteq Pairing
        /\ window' \in BOOLEAN /\ saveDue' \in BOOLEAN /\ store' \in BOOLEAN
        /\ saveDue' => store'
    BY <1>4, <1>5 DEF GrantsInv
  <2>2. \A p \in Pairing : ChallengeGood(pairs[p])'
    BY <1>11
  <2>3. QED
    BY <1>10, <1>14, <1>15, <2>1, <2>2 DEF GrantsInv
<1>17. Answered(k)
  BY <1>6, <1>7 DEF Answered
<1>18. QED
  BY <1>8, <1>16, <1>17 DEF Moved

LEMMA MovesAnswer ==
  ASSUME ChallengesMove
  PROVE  \A p \in Pairing : Answered(p)
BY DEF ChallengesMove, Moved

LEMMA RevokeStep ==
  ASSUME GrantsInv, NEW g \in Pairing, Revoke(g)
  PROVE  GrantsInv' /\ \A p \in Pairing : Answered(p)
<1>1. /\ g \in grants /\ grants' = grants \ {g} /\ revoked' = revoked \cup {g}
      /\ saved' = IF store THEN grants' ELSE saved
      /\ UNCHANGED <<saveDue, store, missed, window, pairs>>
  BY DEF Revoke, SavedNow
<1>2. GrantsDurable'
  <2>1. IF store THEN grants' = saved' ELSE grants' \cap saved' = {}
    BY <1>1 DEF GrantsInv, GrantsDurable
  <2>2. g \notin saved'
    BY <1>1 DEF GrantsInv, GrantsDurable
  <2>3. revoked' \cap (grants' \cup saved') = {}
    BY <1>1, <2>2 DEF GrantsInv, GrantsDurable
  <2>4. \A p \in Pairing : pairs'[p].stage = "granted" => p \in grants' \cup revoked' \cup missed'
    BY <1>1 DEF GrantsInv, GrantsDurable
  <2>5. QED
    BY <1>1, <2>1, <2>3, <2>4 DEF GrantsInv, GrantsDurable
<1>3. \A p \in grants' \cup saved' \cup revoked' : pairs'[p].stage = "granted"
  BY <1>1 DEF GrantsInv, GrantsDurable
<1>4. \A p \in Pairing : ChallengeGood(pairs[p])'
  BY <1>1 DEF GrantsInv
<1>5. GrantsInv'
  BY <1>1, <1>2, <1>3, <1>4 DEF GrantsInv
<1>6. QED
  BY <1>1, <1>5, ChallengesStay, MovesAnswer

\* The timer of a delayed save writes what the memory holds.
LEMMA SaveStep ==
  ASSUME GrantsInv, ScheduledSave
  PROVE  GrantsInv' /\ \A p \in Pairing : Answered(p)
<1>1. /\ store /\ saveDue' = FALSE /\ saved' \in {grants, saved}
      /\ UNCHANGED <<grants, store, missed, window, pairs, revoked>>
  BY DEF ScheduledSave, GrantsInv, history
<1>2. GrantsDurable'
  <2>1. grants' = saved' \/ (grants' = {} /\ saved' \subseteq missed')
    BY <1>1 DEF GrantsInv, GrantsDurable
  <2>2. revoked' \cap (grants' \cup saved') = {}
    BY <1>1 DEF GrantsInv, GrantsDurable
  <2>3. \A p \in Pairing : pairs'[p].stage = "granted" => p \in grants' \cup revoked' \cup missed'
    BY <1>1 DEF GrantsInv, GrantsDurable
  <2>4. QED
    BY <1>1, <2>1, <2>2, <2>3 DEF GrantsDurable
<1>3. \A p \in grants' \cup saved' \cup revoked' : pairs'[p].stage = "granted"
  BY <1>1 DEF GrantsInv
<1>4. \A p \in Pairing : ChallengeGood(pairs[p])'
  BY <1>1 DEF GrantsInv
<1>5. GrantsInv'
  BY <1>1, <1>2, <1>3, <1>4 DEF GrantsInv
<1>6. QED
  BY <1>1, <1>5, ChallengesStay, MovesAnswer

\* A start has the grants of the file or none, and those it has not are missed.
LEMMA RestartGrants ==
  ASSUME GrantsInv, SocksInv, Restart
  PROVE  GrantsInv' /\ \A p \in Pairing : Answered(p)
<1>1. /\ store' \in BOOLEAN /\ saveDue' = FALSE /\ window' = FALSE
      /\ missed' = (missed \cup grants \cup saved) \ grants'
      /\ UNCHANGED <<saved, revoked>>
  BY DEF Restart, history
<1>2. grants' = {} \/ (store' /\ grants' = saved)
  BY <1>1 DEF Restart, Loadable
<1>3. ChallengesMove
  BY RestartMoves
<1>4. \A p \in Pairing : ChallengeGood(pairs'[p])
                       /\ (pairs'[p].stage = "granted" <=> pairs[p].stage = "granted")
  BY <1>3 DEF ChallengesMove, Moved
<1>5. GrantsDurable'
  <2>1. IF store' THEN grants' = saved' \/ (grants' = {} /\ saved' \subseteq missed')
                  ELSE grants' \cap saved' = {}
    BY <1>1, <1>2
  <2>2. revoked' \cap (grants' \cup saved') = {}
    BY <1>1, <1>2 DEF GrantsInv, GrantsDurable
  <2>3. \A p \in Pairing : pairs'[p].stage = "granted" => p \in grants' \cup revoked' \cup missed'
    BY <1>1, <1>4 DEF GrantsInv, GrantsDurable
  <2>4. QED
    BY <2>1, <2>2, <2>3 DEF GrantsDurable
<1>6. \A p \in grants' \cup saved' \cup revoked' : pairs'[p].stage = "granted"
  BY <1>1, <1>2, <1>4 DEF GrantsInv
<1>7. \A p \in Pairing : ChallengeGood(pairs[p])'
  BY <1>4
<1>8. grants' \subseteq Pairing /\ missed' \subseteq Pairing /\ saved' \subseteq Pairing
  BY <1>1, <1>2 DEF GrantsInv
<1>9. GrantsInv'
  BY <1>1, <1>3, <1>5, <1>6, <1>7, <1>8 DEF GrantsInv, ChallengesMove
<1>10. QED
  BY <1>3, <1>9, MovesAnswer

LEMMA GrantsStep ==
  ASSUME GrantsInv, SocksInv, [Next]_vars
  PROVE  GrantsInv' /\ \A p \in Pairing : Answered(p)
<1> DEFINE Goal == GrantsInv' /\ \A p \in Pairing : Answered(p)
           Kept == /\ UNCHANGED <<grants, saved, store, revoked, missed>>
                   /\ window' \in BOOLEAN /\ saveDue' \in BOOLEAN /\ (saveDue' => store)
<1>1. ASSUME ChallengesMove, Kept PROVE Goal
  BY <1>1, MovesKeepGrants, MovesAnswer
<1>2. /\ window \in BOOLEAN /\ saveDue \in BOOLEAN /\ store \in BOOLEAN
      /\ saveDue => store
  BY DEF GrantsInv
<1>3. Expired \subseteq Pending
  BY DEF Expired
<1> SUFFICES Goal
  OBVIOUS
<1> HIDE DEF Goal
<1>4. CASE UNCHANGED vars
  <2>1. UNCHANGED pairs /\ Kept
    BY <1>2, <1>4 DEF vars
  <2>2. QED
    BY <1>1, <2>1, ChallengesStay
<1>5. ASSUME NEW c \in Socket, Connect(c) \/ PeerCloses(c) \/ NoticeWritten(c)
                                \/ RefuseRevoked(c) \/ Flush(c) PROVE Goal
  <2>1. UNCHANGED pairs /\ Kept
    BY <1>2, <1>5 DEF Connect, PeerCloses, NoticeWritten, RefuseRevoked, Flush, grantVars, history
  <2>2. QED
    BY <1>1, <2>1, ChallengesStay
<1>6. ASSUME NEW c \in Socket, Disconnect(c) PROVE Goal
  <2>1. Kept
    BY <1>2, <1>6 DEF Disconnect, grantVars, history
  <2>2. ChallengesMove
    BY <1>6, DisconnectMoves
  <2>3. QED
    BY <1>1, <2>1, <2>2
<1>7. ASSUME NEW c \in Socket, NEW p \in Pairing, AskPairing(c, p) PROVE Goal
  <2>1. Kept
    BY <1>2, <1>7 DEF AskPairing, grantVars, history
  <2>2. ChallengesMove
    BY <1>7, AskPairingMoves
  <2>3. QED
    BY <1>1, <2>1, <2>2
<1>8. ASSUME NEW c \in Socket, NEW p \in Pairing, Authenticate(c, p) PROVE Goal
  <2>1. UNCHANGED pairs /\ Kept
    BY <1>2, <1>8 DEF Authenticate, history
  <2>2. QED
    BY <1>1, <2>1, ChallengesStay
<1>9. ASSUME NEW c \in Socket, NEW r \in Request, Begin(c, r) PROVE Goal
  <2>1. UNCHANGED pairs /\ Kept
    BY <1>2, <1>9 DEF Begin, grantVars, history
  <2>2. QED
    BY <1>1, <2>1, ChallengesStay
<1>10. ASSUME NEW c \in Socket, NEW r \in Request, NEW a \in Asset, BeginLoad(c, r, a) PROVE Goal
  <2>1. UNCHANGED pairs /\ Kept
    BY <1>2, <1>10 DEF BeginLoad, grantVars, history
  <2>2. QED
    BY <1>1, <2>1, ChallengesStay
<1>11. ASSUME NEW c \in Socket, NEW names, NEW kept,
              Subscribe(c, names, kept) \/ Unsubscribe(c, names) PROVE Goal
  <2>1. UNCHANGED pairs /\ Kept
    BY <1>2, <1>11 DEF Subscribe, Unsubscribe, grantVars, history
  <2>2. QED
    BY <1>1, <2>1, ChallengesStay
<1>12. CASE OpenWindow \/ CloseWindow
  <2>1. /\ pairs' = Concluded(Pending) /\ window' \in BOOLEAN
        /\ UNCHANGED <<grantVars, history>>
    BY <1>12 DEF OpenWindow, CloseWindow
  <2>2. Kept
    BY <1>2, <2>1 DEF grantVars, history
  <2>3. QED
    BY <1>1, <2>1, <2>2, ConcludedMoves
<1>13. CASE WindowLapses
  <2>1. Kept
    BY <1>2, <1>13 DEF WindowLapses, grantVars, history
  <2>2. ChallengesMove
    BY <1>13, WindowLapsesMoves
  <2>3. QED
    BY <1>1, <2>1, <2>2
<1>14. CASE ScheduledSave
  BY <1>14, SaveStep DEF Goal
<1>15. CASE Restart
  BY <1>15, RestartGrants DEF Goal
<1>16. ASSUME NEW p \in Pairing, ChallengeLapses(p) PROVE Goal
  <2>1. Kept
    BY <1>2, <1>16 DEF ChallengeLapses, grantVars, history
  <2>2. ChallengesMove
    BY <1>16, ChallengeLapsesMoves
  <2>3. QED
    BY <1>1, <2>1, <2>2
<1>17. ASSUME NEW p \in Pairing, ApproveLate(p) \/ ApproveRefused(p) \/ GrantUnsaved(p) PROVE Goal
  <2>1. Kept
    BY <1>2, <1>17 DEF ApproveLate, ApproveRefused, GrantUnsaved, grantVars, history
  <2>2. p \in Pending
    BY <1>17 DEF ApproveLate, ApproveRefused, GrantUnsaved, Approvable
  <2>3. pairs' = Concluded({p}) \/ pairs' = Concluded(Expired \cup {p})
    BY <1>17 DEF ApproveLate, ApproveRefused, GrantUnsaved
  <2>4. {p} \subseteq Pending /\ Expired \cup {p} \subseteq Pending
    BY <1>3, <2>2
  <2>5. ChallengesMove
    BY <2>3, <2>4, ConcludedMoves
  <2>6. QED
    BY <1>1, <2>1, <2>5
<1>18. ASSUME NEW p \in Pairing, ApproveBadCode(p) PROVE Goal
  <2>1. Kept
    BY <1>2, <1>18 DEF ApproveBadCode, grantVars, history
  <2>2. ChallengesMove
    BY <1>18, ApproveBadCodeMoves
  <2>3. QED
    BY <1>1, <2>1, <2>2
<1>19. ASSUME NEW p \in Pairing, Approve(p) PROVE Goal
  BY <1>19, ApproveStep DEF Goal
<1>20. ASSUME NEW p \in Pairing, Revoke(p) PROVE Goal
  BY <1>20, RevokeStep DEF Goal
<1>21. ASSUME NEW r \in Request, NEW accepted, Finish(r, accepted) PROVE Goal
  <2>1. UNCHANGED pairs /\ Kept
    BY <1>2, <1>21 DEF Finish, grantVars
  <2>2. QED
    BY <1>1, <2>1, ChallengesStay
<1>22. ASSUME NEW a \in Asset, NEW g \in Pairing, Issue(a, g) PROVE Goal
  <2>1. UNCHANGED pairs /\ Kept
    BY <1>2, <1>22 DEF Issue, grantVars, history
  <2>2. QED
    BY <1>1, <2>1, ChallengesStay
<1>23. ASSUME NEW a \in Asset, Withdraw(a) PROVE Goal
  <2>1. UNCHANGED pairs /\ Kept
    BY <1>2, <1>23 DEF Withdraw, grantVars, history
  <2>2. QED
    BY <1>1, <2>1, ChallengesStay
<1>24. ASSUME NEW name, NEW size, NEW passed, Publish(name, size, passed) PROVE Goal
  <2>1. UNCHANGED pairs /\ Kept
    BY <1>2, <1>24 DEF Publish, grantVars
  <2>2. QED
    BY <1>1, <2>1, ChallengesStay
<1>25. ASSUME NEW c \in Socket, ClientStep(c) PROVE Goal
  BY <1>5, <1>6, <1>7, <1>8, <1>9, <1>10, <1>11, <1>25 DEF ClientStep
<1>26. ASSUME NEW p \in Pairing, UserStep(p) PROVE Goal
  BY <1>16, <1>17, <1>18, <1>19, <1>20, <1>26 DEF UserStep
<1>27. CASE ServerStep
  BY <1>12, <1>13, <1>14, <1>15, <1>27 DEF ServerStep
<1>28. QED
  BY <1>4, <1>21, <1>22, <1>23, <1>24, <1>25, <1>26, <1>27 DEF Next

-----------------------------------------------------------------------------
(* Sockets.                                                                  *)

\* What a socket may do: it opens only by connecting, and is bound only to a
\* grant whose revocation was not confirmed.
SockMoves(c) ==
  /\ socks'[c] \in Sock
  /\ socks'[c].phase = "open" => socks[c].phase = "open"
  /\ socks'[c].phase # "absent" => socks[c].phase # "absent"
  /\ socks'[c].bound # socks[c].bound => socks'[c].bound \notin revoked

SocksMove == socks' \in [Socket -> Sock] /\ \A c \in Socket : SockMoves(c)

LEMMA SockOf ==
  ASSUME SocksInv, NEW c \in Socket
  PROVE  /\ socks[c] \in Sock /\ socks[c].phase \in {"absent", "open", "closing"}
         /\ socks[c].grant \in Pairing \cup {None} /\ socks[c].bound \in Pairing \cup {None}
         /\ socks[c].subs \in SUBSET Event /\ socks[c].notice \in BOOLEAN
<1>1. socks[c] \in Sock
  BY DEF SocksInv
<1>2. QED
  BY <1>1 DEF Sock

LEMMA NoSockFields ==
  NoSock \in Sock /\ NoSock.phase = "absent" /\ NoSock.bound = None
BY DEF NoSock, Sock

LEMMA SocksStay ==
  ASSUME SocksInv, UNCHANGED socks
  PROVE  SocksMove
BY DEF SocksInv, SocksMove, SockMoves

LEMMA SocksEach ==
  ASSUME \A c \in Socket : SockMoves(c), NEW f, f = socks', f = [c \in Socket |-> f[c]]
  PROVE  SocksMove
<1>1. \A c \in Socket : f[c] \in Sock
  BY DEF SockMoves
<1>2. f \in [Socket -> Sock]
  BY <1>1
<1>3. QED
  BY <1>2 DEF SocksMove

LEMMA OneSockMoves ==
  ASSUME SocksInv, NEW c \in Socket, NEW y \in Sock, socks' = [socks EXCEPT ![c] = y],
         y.phase = "open" => socks[c].phase = "open",
         y.phase # "absent" => socks[c].phase # "absent",
         y.bound # socks[c].bound => y.bound \notin revoked
  PROVE  SocksMove
<1>1. socks'[c] = y /\ \A d \in Socket : d # c => socks'[d] = socks[d]
  BY DEF SocksInv
<1>2. socks' \in [Socket -> Sock]
  BY DEF SocksInv
<1>3. SockMoves(c)
  BY <1>1 DEF SockMoves
<1>4. \A d \in Socket : d # c => SockMoves(d)
  BY <1>1, SockOf DEF SockMoves
<1>5. QED
  BY <1>2, <1>3, <1>4 DEF SocksMove

LEMMA ClosingSocksMove ==
  ASSUME SocksInv, GrantsInv, NEW c \in Socket,
         PeerCloses(c) \/ NoticeWritten(c) \/ Disconnect(c) \/ RefuseRevoked(c)
  PROVE  SocksMove
<1> DEFINE x == socks[c]
<1>1. /\ x \in Sock /\ x.phase \in {"absent", "open", "closing"} /\ x.subs \in SUBSET Event
  BY SockOf
<1>2. CASE PeerCloses(c)
  <2> DEFINE y == [x EXCEPT !.phase = "closing"]
  <2>1. socks' = [socks EXCEPT ![c] = y] /\ x.phase = "open"
    BY <1>2 DEF PeerCloses, Open
  <2> HIDE DEF x
  <2>2. y \in Sock /\ y.phase = "closing" /\ y.bound = x.bound
    BY <1>1 DEF Sock
  <2> HIDE DEF y
  <2>3. QED
    BY <2>1, <2>2, OneSockMoves DEF x
<1>3. CASE NoticeWritten(c)
  <2> DEFINE k == IF Open(c) THEN "closing" ELSE x.phase
             y == [x EXCEPT !.notice = FALSE, !.phase = k]
  <2>1. socks' = [socks EXCEPT ![c] = y]
    BY <1>3 DEF NoticeWritten
  <2>2. k \in {"absent", "open", "closing"} /\ k # "open" /\ (k = "closing" => x.phase # "absent")
    BY <1>1, NoneApart DEF Open
  <2> HIDE DEF x, k
  <2>3. y \in Sock /\ y.phase = k /\ y.bound = x.bound
    BY <1>1, <2>2 DEF Sock
  <2> HIDE DEF y
  <2>4. QED
    BY <2>1, <2>2, <2>3, OneSockMoves DEF x
<1>4. CASE Disconnect(c)
  <2>1. socks' = [socks EXCEPT ![c] = NoSock]
    BY <1>4 DEF Disconnect
  <2>2. None \notin revoked
    BY NoneApart DEF GrantsInv
  <2>3. QED
    BY <2>1, <2>2, NoSockFields, OneSockMoves
<1>5. CASE RefuseRevoked(c)
  <2> DEFINE y == [x EXCEPT !.grant = None]
  <2>1. socks' = [socks EXCEPT ![c] = y]
    BY <1>5 DEF RefuseRevoked
  <2> HIDE DEF x
  <2>2. y \in Sock /\ y.phase = x.phase /\ y.bound = x.bound
    BY <1>1 DEF Sock
  <2> HIDE DEF y
  <2>3. QED
    BY <2>1, <2>2, OneSockMoves DEF x
<1>6. QED
  BY <1>2, <1>3, <1>4, <1>5

LEMMA AuthenticateSocksMove ==
  ASSUME SocksInv, GrantsInv, NEW c \in Socket, NEW p \in Pairing, Authenticate(c, p)
  PROVE  SocksMove
<1> DEFINE x == socks[c]
           y == [x EXCEPT !.grant = p, !.bound = p]
<1>1. x \in Sock
  BY SockOf
<1>2. socks' = [socks EXCEPT ![c] = y] /\ p \in grants
  BY DEF Authenticate
<1>3. p \notin revoked
  BY <1>2 DEF GrantsInv, GrantsDurable
<1> HIDE DEF x
<1>4. y \in Sock /\ y.phase = x.phase /\ y.bound = p
  BY <1>1 DEF Sock
<1> HIDE DEF y
<1>5. QED
  BY <1>2, <1>3, <1>4, OneSockMoves DEF x

LEMMA SubscribeSocksMove ==
  ASSUME SocksInv, NEW c \in Socket, NEW names \in SUBSET Event, NEW kept \in {{}, socks[c].subs},
         Subscribe(c, names, kept) \/ Unsubscribe(c, names)
  PROVE  SocksMove
<1> DEFINE x == socks[c]
<1>1. x \in Sock /\ x.subs \in SUBSET Event
  BY SockOf
<1>2. PICK S \in SUBSET Event : socks' = [socks EXCEPT ![c] = [x EXCEPT !.subs = S]]
  <2>1. CASE Subscribe(c, names, kept)
    <3>1. kept \cup names \in SUBSET Event
      BY <1>1
    <3>2. socks' = [socks EXCEPT ![c] = [x EXCEPT !.subs = kept \cup names]]
      BY <2>1 DEF Subscribe
    <3>3. QED
      BY <3>1, <3>2
  <2>2. CASE Unsubscribe(c, names)
    <3>1. x.subs \ names \in SUBSET Event
      BY <1>1
    <3>2. socks' = [socks EXCEPT ![c] = [x EXCEPT !.subs = x.subs \ names]]
      BY <2>2 DEF Unsubscribe
    <3>3. QED
      BY <3>1, <3>2
  <2>3. QED
    BY <2>1, <2>2
<1> DEFINE y == [x EXCEPT !.subs = S]
<1>3. socks' = [socks EXCEPT ![c] = y]
  BY <1>2
<1> HIDE DEF x
<1>4. y \in Sock /\ y.phase = x.phase /\ y.bound = x.bound
  BY <1>1 DEF Sock
<1> HIDE DEF y
<1>5. QED
  BY <1>3, <1>4, OneSockMoves DEF x

\* An answer drops the session's own grant and leaves the rest of the socket.
LEMMA DroppingKeeps ==
  ASSUME SocksInv, NEW rs, NEW c \in Socket
  PROVE  LET y == Dropping(rs)[c]
         IN y \in Sock /\ y.phase = socks[c].phase /\ y.bound = socks[c].bound
                       /\ y.notice = socks[c].notice
<1> DEFINE x == socks[c]
           y == Dropping(rs)[c]
<1>1. x \in Sock
  BY SockOf
<1>2. y = x \/ y = [x EXCEPT !.grant = None]
  BY DEF Dropping
<1> HIDE DEF x, y
<1>3. y \in Sock /\ y.phase = x.phase /\ y.bound = x.bound /\ y.notice = x.notice
  BY <1>1, <1>2 DEF Sock
<1>4. QED
  BY <1>3 DEF x, y

LEMMA RevokeSocksMove ==
  ASSUME SocksInv, NEW g \in Pairing, Revoke(g)
  PROVE  SocksMove
<1> DEFINE D == Dropping(Loads(g))
<1>1. socks' = [c \in Socket |->
                  [D[c] EXCEPT !.notice = @ \/ (socks[c].bound = g /\ Open(c))]]
  BY DEF Revoke
<1>2. ASSUME NEW c \in Socket PROVE SockMoves(c)
  <2> DEFINE x == D[c]
             b == (x.notice \/ (socks[c].bound = g /\ Open(c)))
             y == socks'[c]
  <2>1. x \in Sock /\ x.phase = socks[c].phase /\ x.bound = socks[c].bound
    BY DroppingKeeps
  <2>2. y = [x EXCEPT !.notice = b] /\ b \in BOOLEAN
    BY <1>1
  <2> HIDE DEF x, y, b
  <2>3. y \in Sock /\ y.phase = x.phase /\ y.bound = x.bound
    BY <2>1, <2>2 DEF Sock
  <2>4. QED
    BY <2>1, <2>3 DEF SockMoves, y
<1>3. socks' = [c \in Socket |-> socks'[c]]
  BY <1>1
<1>4. QED
  BY <1>2, <1>3, SocksEach

LEMMA FinishSocksMove ==
  ASSUME SocksInv, NEW r \in Request, NEW accepted, Finish(r, accepted)
  PROVE  SocksMove
<1>1. CASE UNCHANGED socks
  BY <1>1, SocksStay
<1>2. CASE socks' = Dropping({r})
  <2>1. ASSUME NEW c \in Socket PROVE SockMoves(c)
    <3>1. /\ socks'[c] \in Sock /\ socks'[c].phase = socks[c].phase
          /\ socks'[c].bound = socks[c].bound
      BY <1>2, DroppingKeeps
    <3>2. QED
      BY <3>1 DEF SockMoves
  <2>2. socks' = [c \in Socket |-> socks'[c]]
    BY <1>2 DEF Dropping
  <2>3. QED
    BY <2>1, <2>2, SocksEach
<1>3. QED
  BY <1>1, <1>2 DEF Finish

LEMMA RestartSocksMove ==
  ASSUME GrantsInv, Restart
  PROVE  SocksMove
<1>1. socks' = [c \in Socket |-> NoSock] /\ None \notin revoked
  BY NoneApart DEF Restart, GrantsInv
<1>2. \A c \in Socket : SockMoves(c)
  BY <1>1, NoSockFields DEF SockMoves
<1>3. QED
  BY <1>1, <1>2, NoSockFields DEF SocksMove

LEMMA ConnectStep ==
  ASSUME SocksInv, GrantsInv, NEW c \in Socket, Connect(c)
  PROVE  /\ SocksInv'
         /\ \A d \in Socket : d # c => socks'[d] = socks[d]
         /\ socks'[c].bound \notin revoked
<1> DEFINE x == NoSock
           y == [NoSock EXCEPT !.phase = "open"]
<1>1. socks' = [socks EXCEPT ![c] = y] /\ socks \in [Socket -> Sock]
  BY DEF Connect, SocksInv
<1>2. y = [x EXCEPT !.phase = "open"] /\ x \in Sock /\ x.bound = None
  BY NoSockFields
<1> HIDE DEF x, y
<1>3. y \in Sock /\ y.bound = None
  BY <1>2 DEF Sock
<1>4. QED
  BY <1>1, <1>3, NoneApart DEF SocksInv, GrantsInv

LEMMA SocksStep ==
  ASSUME SocksInv, GrantsInv, [Next]_vars
  PROVE  SocksMove \/ \E c \in Socket : Connect(c)
<1> DEFINE Goal == SocksMove \/ \E c \in Socket : Connect(c)
<1> SUFFICES Goal
  OBVIOUS
<1>1. ASSUME SocksMove PROVE Goal
  BY <1>1
<1>2. ASSUME UNCHANGED socks PROVE Goal
  BY <1>1, <1>2, SocksStay
<1>3. ASSUME NEW c \in Socket, Connect(c) PROVE Goal
  BY <1>3
<1> HIDE DEF Goal
<1>4. ASSUME NEW c \in Socket, ClientStep(c) PROVE Goal
  <2>1. CASE PeerCloses(c) \/ NoticeWritten(c) \/ Disconnect(c) \/ RefuseRevoked(c)
    BY <1>1, <2>1, ClosingSocksMove
  <2>2. ASSUME NEW p \in Pairing, Authenticate(c, p) PROVE Goal
    BY <1>1, <2>2, AuthenticateSocksMove
  <2>3. ASSUME NEW names \in SUBSET Event, NEW kept \in {{}, socks[c].subs},
               Subscribe(c, names, kept) PROVE Goal
    BY <1>1, <2>3, SubscribeSocksMove
  <2>4. ASSUME NEW names \in SUBSET Event, Unsubscribe(c, names) PROVE Goal
    <3>1. {} \in {{}, socks[c].subs}
      OBVIOUS
    <3>2. QED
      BY <1>1, <2>4, <3>1, SubscribeSocksMove
  <2>5. ASSUME NEW p \in Pairing, AskPairing(c, p) PROVE Goal
    BY <1>2, <2>5 DEF AskPairing
  <2>6. ASSUME NEW r \in Request, Begin(c, r) PROVE Goal
    BY <1>2, <2>6 DEF Begin
  <2>7. ASSUME NEW r \in Request, NEW a \in Asset, BeginLoad(c, r, a) PROVE Goal
    BY <1>2, <2>7 DEF BeginLoad
  <2>8. CASE Flush(c)
    BY <1>2, <2>8 DEF Flush
  <2>9. QED
    BY <1>3, <1>4, <2>1, <2>2, <2>3, <2>4, <2>5, <2>6, <2>7, <2>8 DEF ClientStep
<1>5. ASSUME NEW p \in Pairing, UserStep(p) PROVE Goal
  <2>1. CASE Revoke(p)
    BY <1>1, <2>1, RevokeSocksMove
  <2>2. CASE ChallengeLapses(p) \/ ApproveLate(p) \/ ApproveBadCode(p) \/ ApproveRefused(p)
               \/ GrantUnsaved(p) \/ Approve(p)
    BY <1>2, <2>2
       DEF ChallengeLapses, ApproveLate, ApproveBadCode, ApproveRefused, GrantUnsaved, Approve
  <2>3. QED
    BY <1>5, <2>1, <2>2 DEF UserStep
<1>6. CASE ServerStep
  <2>1. CASE Restart
    BY <1>1, <2>1, RestartSocksMove
  <2>2. CASE OpenWindow \/ CloseWindow \/ WindowLapses \/ ScheduledSave
    BY <1>2, <2>2 DEF OpenWindow, CloseWindow, WindowLapses, ScheduledSave
  <2>3. QED
    BY <1>6, <2>1, <2>2 DEF ServerStep
<1>7. ASSUME NEW r \in Request, NEW accepted, Finish(r, accepted) PROVE Goal
  BY <1>1, <1>7, FinishSocksMove
<1>8. ASSUME NEW a \in Asset, NEW g \in Pairing, Issue(a, g) PROVE Goal
  BY <1>2, <1>8 DEF Issue
<1>9. ASSUME NEW a \in Asset, Withdraw(a) PROVE Goal
  BY <1>2, <1>9 DEF Withdraw
<1>10. ASSUME NEW name, NEW size, NEW passed, Publish(name, size, passed) PROVE Goal
  BY <1>2, <1>10 DEF Publish
<1>11. CASE UNCHANGED vars
  BY <1>2, <1>11 DEF vars
<1>12. QED
  BY <1>4, <1>5, <1>6, <1>7, <1>8, <1>9, <1>10, <1>11 DEF Next

-----------------------------------------------------------------------------
(* Queues.                                                                   *)

\* What must hold of a socket s, its queue q and the events t it has no account of.
ClientSound(s, q, t) ==
  /\ QueueGood(q)
  /\ t \in Tally
  /\ s.phase # "absent" =>
       /\ t.large = q.owed["payload_too_large"]
       /\ t.fit = Len(q.events) + q.owed["queue_overflow"]
  /\ s.phase = "open" /\ (q.events # <<>> \/ Notices(q) # {}) => q.scheduled

Sound(c) == ClientSound(socks[c], queues[c], tally[c])

\* What the step leaves of the client c.
Served(c) ==
  /\ ClientSound(socks'[c], queues'[c], tally'[c])
  /\ Unaccounted(tally'[c]) > Unaccounted(tally[c]) => socks[c].bound \notin revoked

QueuesMove ==
  /\ queues' = [c \in Socket |-> queues'[c]] /\ tally' = [c \in Socket |-> tally'[c]]
  /\ \A c \in Socket : Served(c)

LEMMA SoundQueues ==
  QueuesInv <=> /\ queues = [c \in Socket |-> queues[c]] /\ tally = [c \in Socket |-> tally[c]]
                /\ \A c \in Socket : Sound(c)
<1>1. ASSUME QueuesInv
      PROVE  /\ queues = [c \in Socket |-> queues[c]] /\ tally = [c \in Socket |-> tally[c]]
             /\ \A c \in Socket : Sound(c)
  <2>1. queues = [c \in Socket |-> queues[c]] /\ tally = [c \in Socket |-> tally[c]]
    BY <1>1 DEF QueuesInv
  <2>2. ASSUME NEW c \in Socket PROVE Sound(c)
    <3>1. queues[c] \in Queue /\ tally[c] \in Tally /\ queues[c].bytes = Total(queues[c].events)
      BY <1>1 DEF QueuesInv, BytesCounted
    <3>2. socks[c].phase # "absent" =>
            /\ tally[c].large = queues[c].owed["payload_too_large"]
            /\ tally[c].fit = Len(queues[c].events) + queues[c].owed["queue_overflow"]
      BY <1>1 DEF QueuesInv, DropsCounted, Attached
    <3>3. socks[c].phase = "open" /\ (queues[c].events # <<>> \/ Notices(queues[c]) # {})
            => queues[c].scheduled
      BY <1>1, NoneApart DEF QueuesInv, NothingStranded, Open
    <3>4. QED
      BY <3>1, <3>2, <3>3 DEF Sound, ClientSound, QueueGood
  <2>3. QED
    BY <2>1, <2>2
<1>2. ASSUME queues = [c \in Socket |-> queues[c]], tally = [c \in Socket |-> tally[c]],
             \A c \in Socket : Sound(c)
      PROVE  QueuesInv
  <2>1. \A c \in Socket : ClientSound(socks[c], queues[c], tally[c])
    BY <1>2 DEF Sound
  <2>2. \A c \in Socket : queues[c] \in Queue /\ tally[c] \in Tally
    BY <2>1 DEF ClientSound, QueueGood
  <2>3. queues \in [Socket -> Queue] /\ tally \in [Socket -> Tally]
    BY <1>2, <2>2
  <2>4. BytesCounted
    BY <2>1 DEF ClientSound, QueueGood, BytesCounted
  <2>5. DropsCounted
    BY <2>1 DEF ClientSound, DropsCounted, Attached
  <2>6. NothingStranded
    BY <2>1 DEF ClientSound, NothingStranded, Open
  <2>7. QED
    BY <2>3, <2>4, <2>5, <2>6 DEF QueuesInv
<1>3. QED
  BY <1>1, <1>2

LEMMA MovedQueues ==
  ASSUME QueuesMove
  PROVE  QueuesInv'
<1>1. \A c \in Socket : Sound(c)'
  BY DEF QueuesMove, Served, Sound
<1>2. QueuesInv' <=> ( /\ queues = [c \in Socket |-> queues[c]]
                       /\ tally = [c \in Socket |-> tally[c]]
                       /\ \A c \in Socket : Sound(c) )'
  BY SoundQueues, PTL
<1>3. QED
  BY <1>1, <1>2 DEF QueuesMove

LEMMA SoundOf ==
  ASSUME QueuesInv, NEW c \in Socket
  PROVE  ClientSound(socks[c], queues[c], tally[c])
BY SoundQueues DEF Sound

LEMMA TallyFields ==
  ASSUME NEW t \in Tally
  PROVE  t.large \in Nat /\ t.fit \in Nat /\ Unaccounted(t) = t.large + t.fit
BY DEF Tally, Unaccounted

LEMMA SameServed ==
  ASSUME QueuesInv, NEW c \in Socket, queues'[c] = queues[c], tally'[c] = tally[c],
         socks'[c].phase = "open" => socks[c].phase = "open",
         socks'[c].phase # "absent" => socks[c].phase # "absent"
  PROVE  Served(c)
<1>1. ClientSound(socks[c], queues[c], tally[c])
  BY SoundOf
<1>2. ClientSound(socks'[c], queues'[c], tally'[c])
  BY <1>1 DEF ClientSound
<1>3. ~ (Unaccounted(tally'[c]) > Unaccounted(tally[c]))
  BY <1>1, TallyFields DEF ClientSound
<1>4. QED
  BY <1>2, <1>3 DEF Served

LEMMA QueuesStay ==
  ASSUME QueuesInv, SocksMove, UNCHANGED <<queues, tally>>
  PROVE  QueuesMove
<1>1. \A c \in Socket : Served(c)
  BY SameServed DEF SocksMove, SockMoves
<1>2. QED
  BY <1>1, SoundQueues DEF QueuesMove

\* A client that is not there has nothing to be counted.
LEMMA AbsentServed ==
  ASSUME NEW c \in Socket, QueueGood(queues'[c]), socks'[c].phase = "absent",
         tally[c] \in Tally, tally'[c] = tally[c]
  PROVE  Served(c)
<1>1. ~ (Unaccounted(tally'[c]) > Unaccounted(tally[c]))
  BY TallyFields
<1>2. QED
  BY <1>1 DEF Served, ClientSound

LEMMA ConnectQueuesMove ==
  ASSUME QueuesInv, SocksInv, GrantsInv, NEW c \in Socket, Connect(c)
  PROVE  QueuesMove
<1>1. /\ queues' = [queues EXCEPT ![c] = EmptyQueue]
      /\ tally' = [tally EXCEPT ![c] = NoTally]
  BY DEF Connect
<1>2. queues \in [Socket -> Queue] /\ tally \in [Socket -> Tally]
  BY DEF QueuesInv
<1>3. queues'[c] = EmptyQueue /\ tally'[c] = NoTally
  BY <1>1, <1>2
<1>4. /\ EmptyQueue.events = <<>> /\ Len(EmptyQueue.events) = 0
      /\ \A k \in Category : EmptyQueue.owed[k] = 0
  BY DEF EmptyQueue
<1>5. NoTally \in Tally /\ NoTally.large = 0 /\ NoTally.fit = 0
  BY DEF NoTally, Tally
<1>6. Notices(EmptyQueue) = {}
  BY <1>4 DEF Notices
<1>7. Served(c)
  <2>1. EmptyQueue.owed["payload_too_large"] = 0 /\ EmptyQueue.owed["queue_overflow"] = 0
    BY <1>4 DEF Category
  <2>2. ClientSound(socks'[c], queues'[c], tally'[c])
    BY <1>3, <1>4, <1>5, <1>6, <2>1, EmptyQueueGood DEF ClientSound
  <2>3. ~ (Unaccounted(tally'[c]) > Unaccounted(tally[c]))
    BY <1>2, <1>3, <1>5, TallyFields
  <2>4. QED
    BY <2>2, <2>3 DEF Served
<1>8. ASSUME NEW d \in Socket, d # c PROVE Served(d)
  <2>1. queues'[d] = queues[d] /\ tally'[d] = tally[d] /\ socks'[d] = socks[d]
    BY <1>1, <1>2, <1>8, ConnectStep
  <2>2. QED
    BY <2>1, SameServed
<1>9. queues' = [d \in Socket |-> queues'[d]] /\ tally' = [d \in Socket |-> tally'[d]]
  BY <1>1, <1>2
<1>10. QED
  BY <1>7, <1>8, <1>9 DEF QueuesMove

LEMMA DisconnectQueuesMove ==
  ASSUME QueuesInv, SocksInv, NEW c \in Socket, Disconnect(c)
  PROVE  QueuesMove
<1>1. /\ queues' = [queues EXCEPT ![c] = Cleared(queues[c])] /\ UNCHANGED tally
      /\ socks' = [socks EXCEPT ![c] = NoSock]
  BY DEF Disconnect, history
<1>2. queues \in [Socket -> Queue] /\ tally \in [Socket -> Tally] /\ socks \in [Socket -> Sock]
  BY DEF QueuesInv, SocksInv
<1>3. queues'[c] = Cleared(queues[c]) /\ socks'[c].phase = "absent" /\ tally'[c] = tally[c]
  BY <1>1, <1>2, NoSockFields
<1>4. QueueGood(queues'[c])
  BY <1>2, <1>3, ClearedGood
<1>5. Served(c)
  BY <1>2, <1>3, <1>4, AbsentServed
<1>6. ASSUME NEW d \in Socket, d # c PROVE Served(d)
  <2>1. queues'[d] = queues[d] /\ tally'[d] = tally[d] /\ socks'[d] = socks[d]
    BY <1>1, <1>2, <1>6
  <2>2. QED
    BY <2>1, SameServed
<1>7. queues' = [d \in Socket |-> queues'[d]] /\ tally' = [d \in Socket |-> tally'[d]]
  BY <1>1, <1>2
<1>8. QED
  BY <1>5, <1>6, <1>7 DEF QueuesMove

LEMMA RestartQueuesMove ==
  ASSUME QueuesInv, Restart
  PROVE  QueuesMove
<1>1. /\ queues' = [c \in Socket |-> EmptyQueue] /\ UNCHANGED tally
      /\ socks' = [c \in Socket |-> NoSock]
  BY DEF Restart, history
<1>2. tally \in [Socket -> Tally]
  BY DEF QueuesInv
<1>3. ASSUME NEW c \in Socket PROVE Served(c)
  <2>1. QueueGood(queues'[c]) /\ socks'[c].phase = "absent"
    BY <1>1, EmptyQueueGood, NoSockFields
  <2>2. tally[c] \in Tally /\ tally'[c] = tally[c]
    BY <1>1, <1>2
  <2>3. QED
    BY <2>1, <2>2, AbsentServed
<1>4. queues' = [d \in Socket |-> queues'[d]] /\ tally' = [d \in Socket |-> tally'[d]]
  BY <1>1, <1>2
<1>5. QED
  BY <1>3, <1>4 DEF QueuesMove

\* An event raises the tally of a client exactly by what its queue now holds or owes.
LEMMA PublishQueuesMove ==
  ASSUME QueuesInv, GrantsInv, SocksInv, NEW name, NEW size \in 1..PayloadBytes + 1, NEW passed,
         Publish(name, size, passed)
  PROVE  QueuesMove
<1> DEFINE to == {c \in passed : Receives(c, name)}
<1>1. /\ queues' = [c \in Socket |-> IF c \in to THEN Enqueued(queues[c], size) ELSE queues[c]]
      /\ tally' = [c \in Socket |->
                     IF c \notin to THEN tally[c]
                     ELSE IF TooLarge(size) THEN [tally[c] EXCEPT !.large = @ + 1]
                                            ELSE [tally[c] EXCEPT !.fit = @ + 1]]
      /\ UNCHANGED socks
  BY DEF Publish
<1>2. \A c \in to : Receives(c, name)
  OBVIOUS
<1> HIDE DEF to
<1>3. ASSUME NEW c \in Socket PROVE Served(c)
  <2>1. CASE c \notin to
    <3>1. queues'[c] = queues[c] /\ tally'[c] = tally[c] /\ socks'[c] = socks[c]
      BY <1>1, <2>1
    <3>2. QED
      BY <3>1, SameServed
  <2>2. CASE c \in to
    <3> DEFINE q == queues[c]
               t == tally[c]
               s == socks[c]
               n == Enqueued(q, size)
               u == tally'[c]
    <3>1. s.phase # "absent" /\ s.bound \in grants
      BY <1>2, <2>2 DEF Receives, Active, Attached
    <3>2. s.bound \notin revoked
      BY <3>1 DEF GrantsInv, GrantsDurable
    <3>3. ClientSound(s, q, t)
      BY SoundOf
    <3>4. queues'[c] = n /\ socks'[c] = s
      BY <1>1, <2>2
    <3>5. u = IF TooLarge(size) THEN [t EXCEPT !.large = @ + 1] ELSE [t EXCEPT !.fit = @ + 1]
      BY <1>1, <2>2
    <3> HIDE DEF q, t, s, n, u
    <3>6. /\ QueueGood(q) /\ t \in Tally /\ t.large = q.owed["payload_too_large"]
          /\ t.fit = Len(q.events) + q.owed["queue_overflow"]
      BY <3>1, <3>3 DEF ClientSound
    <3>7. /\ QueueGood(n) /\ n.scheduled = TRUE
          /\ TooLarge(size) =>
               /\ n.owed["payload_too_large"] = q.owed["payload_too_large"] + 1
               /\ n.owed["queue_overflow"] = q.owed["queue_overflow"]
               /\ Len(n.events) = Len(q.events)
          /\ ~ TooLarge(size) =>
               /\ n.owed["payload_too_large"] = q.owed["payload_too_large"]
               /\ Len(n.events) + n.owed["queue_overflow"]
                    = Len(q.events) + q.owed["queue_overflow"] + 1
      BY <3>6, EnqueuedGood DEF n
    <3>8. t.large \in Nat /\ t.fit \in Nat
      BY <3>6, TallyFields
    <3>9. /\ u \in Tally
          /\ TooLarge(size) => u.large = t.large + 1 /\ u.fit = t.fit
          /\ ~ TooLarge(size) => u.large = t.large /\ u.fit = t.fit + 1
      BY <3>5, <3>6, <3>8 DEF Tally
    <3>10. u.large = n.owed["payload_too_large"]
      BY <3>6, <3>7, <3>9
    <3>11. u.fit = Len(n.events) + n.owed["queue_overflow"]
      BY <3>6, <3>7, <3>9
    <3>12. ClientSound(s, n, u)
      BY <3>7, <3>9, <3>10, <3>11 DEF ClientSound
    <3>13. QED
      BY <3>2, <3>4, <3>12 DEF Served, s, u
  <2>3. QED
    BY <2>1, <2>2
<1>4. queues' = [c \in Socket |-> queues'[c]] /\ tally' = [c \in Socket |-> tally'[c]]
  BY <1>1
<1>5. QED
  BY <1>3, <1>4 DEF QueuesMove

\* A flush takes from the tally the events it sends and those its notices count.
LEMMA FlushServed ==
  ASSUME QueuesInv, NEW c \in Socket, Flush(c), Open(c)
  PROVE  Served(c)
<1> DEFINE q == queues[c]
           t == tally[c]
           s == socks[c]
           n == Flushed(q)
           l == t.large - q.owed["payload_too_large"]
           f == t.fit - (n + q.owed["queue_overflow"])
           m == Left(q, n)
           u == tally'[c]
<1>1. s.phase = "open" /\ ClientSound(s, q, t)
  BY SoundOf DEF Open
<1>2. /\ queues' = [queues EXCEPT ![c] = m] /\ UNCHANGED socks
      /\ tally' = [tally EXCEPT ![c].large = l, ![c].fit = f]
  BY DEF Flush
<1>3. queues \in [Socket -> Queue] /\ tally \in [Socket -> Tally]
  BY DEF QueuesInv
<1>4. queues'[c] = m /\ socks'[c] = s /\ u = [t EXCEPT !.large = l, !.fit = f]
  BY <1>2, <1>3
<1>5. /\ QueueGood(q) /\ q \in Queue /\ t \in Tally /\ t.large = q.owed["payload_too_large"]
      /\ t.fit = Len(q.events) + q.owed["queue_overflow"]
  BY <1>1 DEF ClientSound, QueueGood
<1>6. /\ q.owed["payload_too_large"] \in Nat /\ q.owed["queue_overflow"] \in Nat
      /\ Len(q.events) \in Nat
  <2>1. q.owed \in [Category -> Nat] /\ Len(q.events) \in Nat
    BY <1>5, QueueFields
  <2>2. QED
    BY <2>1 DEF Category
<1>7. n \in 0..Len(q.events)
  BY <1>5, FlushedTyped
<1> HIDE DEF q, n
<1>8. /\ QueueGood(m) /\ Len(m.events) = Len(q.events) - n
      /\ \A k \in Category : m.owed[k] = 0
      /\ m.events # <<>> => m.scheduled = TRUE
  BY <1>5, <1>7, LeftGood
<1>9. m.owed["payload_too_large"] = 0 /\ m.owed["queue_overflow"] = 0 /\ Notices(m) = {}
  BY <1>8 DEF Category, Notices
<1> HIDE DEF m, t
<1>10. l = 0 /\ f = Len(m.events) /\ f \in Nat /\ f <= t.fit /\ t.fit \in Nat /\ t.large \in Nat
  <2>1. n \in Nat /\ n <= Len(q.events)
    BY <1>6, <1>7
  <2>2. l = 0
    BY <1>5, <1>6
  <2>3. f = Len(q.events) - n
    BY <1>5, <1>6, <2>1
  <2>4. QED
    BY <1>5, <1>6, <1>8, <2>1, <2>2, <2>3
<1> HIDE DEF l, f, u, s
<1>11. u \in Tally /\ u.large = l /\ u.fit = f
  BY <1>4, <1>5, <1>10 DEF Tally
<1>12. ClientSound(s, m, u)
  BY <1>8, <1>9, <1>10, <1>11 DEF ClientSound
<1>13. ~ (Unaccounted(u) > Unaccounted(t))
  BY <1>5, <1>10, <1>11, TallyFields
<1>14. QED
  BY <1>4, <1>12, <1>13 DEF Served, u, t

LEMMA FlushQueuesMove ==
  ASSUME QueuesInv, NEW c \in Socket, Flush(c)
  PROVE  QueuesMove
<1>1. UNCHANGED socks
  BY DEF Flush
<1>2. queues \in [Socket -> Queue] /\ tally \in [Socket -> Tally]
  BY DEF QueuesInv
<1>3. /\ \A d \in Socket : d # c => queues'[d] = queues[d] /\ tally'[d] = tally[d]
      /\ queues' = [d \in Socket |-> queues'[d]] /\ tally' = [d \in Socket |-> tally'[d]]
  BY <1>2 DEF Flush
<1>4. ASSUME NEW d \in Socket, d # c PROVE Served(d)
  <2>1. queues'[d] = queues[d] /\ tally'[d] = tally[d] /\ socks'[d] = socks[d]
    BY <1>1, <1>3, <1>4
  <2>2. QED
    BY <2>1, SameServed
<1>5. CASE Open(c)
  BY <1>3, <1>4, <1>5, FlushServed DEF QueuesMove
<1>6. CASE ~ Open(c)
  <2> DEFINE q == queues[c]
             m == [q EXCEPT !.scheduled = FALSE]
             s == socks[c]
             t == tally[c]
  <2>1. queues'[c] = m /\ tally'[c] = t /\ socks'[c] = s
    BY <1>1, <1>2, <1>6 DEF Flush
  <2>2. s.phase # "open" /\ ClientSound(s, q, t)
    BY <1>6, SoundOf, NoneApart DEF Open
  <2> HIDE DEF q
  <2>3. q \in Queue /\ q.bytes = Total(q.events)
    BY <2>2 DEF ClientSound, QueueGood
  <2>4. m \in Queue /\ m.bytes = q.bytes /\ m.events = q.events /\ m.owed = q.owed
    BY <2>3 DEF Queue
  <2> HIDE DEF m, s, t
  <2>5. ClientSound(s, m, t)
    BY <2>2, <2>3, <2>4 DEF ClientSound, QueueGood
  <2>6. ~ (Unaccounted(t) > Unaccounted(t))
    BY <2>2, TallyFields DEF ClientSound
  <2>7. Served(c)
    BY <2>1, <2>5, <2>6 DEF Served, t
  <2>8. QED
    BY <1>3, <1>4, <2>7 DEF QueuesMove
<1>7. QED
  BY <1>5, <1>6

LEMMA QueuesStep ==
  ASSUME QueuesInv, SocksInv, GrantsInv, [Next]_vars
  PROVE  QueuesMove
<1>1. ASSUME UNCHANGED <<queues, tally>>, ~ \E c \in Socket : Connect(c) PROVE QueuesMove
  BY <1>1, SocksStep, QueuesStay
<1>2. ASSUME NEW c \in Socket, Connect(c) PROVE QueuesMove
  BY <1>2, ConnectQueuesMove
<1>3. ASSUME UNCHANGED <<queues, tally>> PROVE QueuesMove
  BY <1>1, <1>2, <1>3
<1>4. ASSUME NEW c \in Socket, ClientStep(c) PROVE QueuesMove
  <2>1. CASE PeerCloses(c) \/ NoticeWritten(c) \/ RefuseRevoked(c)
    BY <1>3, <2>1 DEF PeerCloses, NoticeWritten, RefuseRevoked, history
  <2>2. ASSUME NEW p \in Pairing, AskPairing(c, p) \/ Authenticate(c, p) PROVE QueuesMove
    BY <1>3, <2>2 DEF AskPairing, Authenticate, history
  <2>3. ASSUME NEW r \in Request, Begin(c, r) PROVE QueuesMove
    BY <1>3, <2>3 DEF Begin, history
  <2>4. ASSUME NEW r \in Request, NEW a \in Asset, BeginLoad(c, r, a) PROVE QueuesMove
    BY <1>3, <2>4 DEF BeginLoad, history
  <2>5. ASSUME NEW names, NEW kept, Subscribe(c, names, kept) PROVE QueuesMove
    BY <1>3, <2>5 DEF Subscribe, history
  <2>6. ASSUME NEW names, Unsubscribe(c, names) PROVE QueuesMove
    BY <1>3, <2>6 DEF Unsubscribe, history
  <2>7. CASE Disconnect(c)
    BY <2>7, DisconnectQueuesMove
  <2>8. CASE Flush(c)
    BY <2>8, FlushQueuesMove
  <2>9. QED
    BY <1>2, <1>4, <2>1, <2>2, <2>3, <2>4, <2>5, <2>6, <2>7, <2>8 DEF ClientStep
<1>5. ASSUME NEW p \in Pairing, UserStep(p) PROVE QueuesMove
  <2>1. UNCHANGED <<queues, tally>>
    BY <1>5
       DEF UserStep, ChallengeLapses, ApproveLate, ApproveBadCode, ApproveRefused, GrantUnsaved,
           Approve, Revoke, history
  <2>2. QED
    BY <1>3, <2>1
<1>6. CASE ServerStep
  <2>1. CASE Restart
    BY <2>1, RestartQueuesMove
  <2>2. CASE OpenWindow \/ CloseWindow \/ WindowLapses \/ ScheduledSave
    BY <1>3, <2>2 DEF OpenWindow, CloseWindow, WindowLapses, ScheduledSave, history
  <2>3. QED
    BY <1>6, <2>1, <2>2 DEF ServerStep
<1>7. ASSUME NEW r \in Request, NEW accepted, Finish(r, accepted) PROVE QueuesMove
  BY <1>3, <1>7 DEF Finish
<1>8. ASSUME NEW a \in Asset, NEW g \in Pairing, Issue(a, g) PROVE QueuesMove
  BY <1>3, <1>8 DEF Issue, history
<1>9. ASSUME NEW a \in Asset, Withdraw(a) PROVE QueuesMove
  BY <1>3, <1>9 DEF Withdraw, history
<1>10. ASSUME NEW name, NEW size \in 1..PayloadBytes + 1, NEW passed, Publish(name, size, passed)
       PROVE QueuesMove
  BY <1>10, PublishQueuesMove
<1>11. CASE UNCHANGED vars
  BY <1>3, <1>11 DEF vars
<1>12. QED
  BY <1>4, <1>5, <1>6, <1>7, <1>8, <1>9, <1>10, <1>11 DEF Next

-----------------------------------------------------------------------------
(* Requests and handles.                                                     *)

\* A handle the request r has: it was not spent, and is reserved for r or gone.
Has(r, h) == h.uses = 0 /\ (h.stage = "gone" \/ (h.stage = "held" /\ h.holder = r))

HandleSound(h) == h \in Handle /\ h.uses <= 1 /\ (h.uses = 1 => h.stage = "gone")

LEMMA RequestOf ==
  ASSUME LoadsInv, NEW r \in Request
  PROVE  /\ reqs[r] \in Req /\ reqs[r].asset \in Asset \cup {None}
         /\ reqs[r].asset # None => Has(r, assets[reqs[r].asset])
BY DEF LoadsInv, Req, Has

LEMMA HandleOf ==
  ASSUME LoadsInv, NEW a \in Asset
  PROVE  HandleSound(assets[a]) /\ assets[a] \in Handle /\ assets[a].uses \in {0, 1}
<1>1. assets[a] \in Handle /\ assets[a].uses <= 1 /\ (assets[a].uses = 1 => assets[a].stage = "gone")
  BY DEF LoadsInv, HandleSpentOnce
<1>2. assets[a].uses \in Nat
  BY <1>1 DEF Handle
<1>3. QED
  BY <1>1, <1>2 DEF HandleSound

\* The invariant after a step that gave no request a new handle.
LEMMA LoadsKept ==
  ASSUME LoadsInv, reqs' \in [Request -> Req],
         assets' = [a \in Asset |-> assets'[a]], \A a \in Asset : HandleSound(assets'[a]),
         \A r \in Request : reqs'[r].asset # None =>
           /\ reqs'[r].asset = reqs[r].asset
           /\ Has(r, assets'[reqs'[r].asset])
  PROVE  LoadsInv'
<1>1. \A a \in Asset : assets'[a] \in Handle
  BY DEF HandleSound
<1>2. assets' \in [Asset -> Handle]
  BY <1>1
<1>3. HandleSpentOnce'
  BY DEF HandleSound, HandleSpentOnce
<1>4. ASSUME NEW r \in Request, reqs'[r].asset # None
      PROVE  /\ Has(r, assets'[reqs'[r].asset])
             /\ \A s \in Request : reqs'[s].asset = reqs'[r].asset => s = r
  <2>1. reqs'[r].asset = reqs[r].asset /\ Has(r, assets'[reqs'[r].asset])
    BY <1>4
  <2>2. \A s \in Request : reqs'[s].asset = reqs'[r].asset => reqs[s].asset = reqs[r].asset
    BY <1>4, <2>1
  <2>3. QED
    BY <1>4, <2>1, <2>2 DEF LoadsInv
<1>5. QED
  BY <1>2, <1>3, <1>4 DEF LoadsInv, Has

LEMMA GoneSound ==
  ASSUME NEW h, HandleSound(h)
  PROVE  /\ HandleSound(Gone(h)) /\ Gone(h).uses = h.uses /\ Gone(h).stage = "gone"
<1> DEFINE g == Gone(h)
<1>1. h \in Handle /\ g = [h EXCEPT !.stage = "gone", !.grant = None, !.holder = None]
  BY DEF HandleSound, Gone
<1> HIDE DEF g
<1>2. g \in Handle /\ g.uses = h.uses /\ g.stage = "gone"
  BY <1>1 DEF Handle
<1>3. QED
  BY <1>2 DEF HandleSound, g

\* Handles that are withdrawn stay with the requests that have them.
LEMMA LoadsWithdrawn ==
  ASSUME LoadsInv, reqs' \in [Request -> Req],
         assets' = [a \in Asset |-> assets'[a]],
         \A a \in Asset : assets'[a] = assets[a] \/ assets'[a] = Gone(assets[a]),
         \A r \in Request : reqs'[r].asset # None => reqs'[r].asset = reqs[r].asset
  PROVE  LoadsInv'
<1>1. \A a \in Asset : HandleSound(assets'[a])
  BY HandleOf, GoneSound
<1>2. ASSUME NEW r \in Request, reqs'[r].asset # None
      PROVE  reqs'[r].asset = reqs[r].asset /\ Has(r, assets'[reqs'[r].asset])
  <2>1. reqs'[r].asset = reqs[r].asset
    BY <1>2
  <2>2. PICK a \in Asset : a = reqs[r].asset
    BY <1>2, <2>1, RequestOf
  <2>3. Has(r, assets[a])
    BY <1>2, <2>1, <2>2, RequestOf
  <2>4. assets'[a] = assets[a] \/ (assets'[a].uses = assets[a].uses /\ assets'[a].stage = "gone")
    BY HandleOf, GoneSound
  <2>5. Has(r, assets'[a])
    BY <2>3, <2>4 DEF Has
  <2>6. QED
    BY <2>1, <2>2, <2>5
<1>3. QED
  BY <1>1, <1>2, LoadsKept

LEMMA LoadsStay ==
  ASSUME LoadsInv, UNCHANGED <<reqs, assets>>
  PROVE  LoadsInv'
<1>1. reqs \in [Request -> Req] /\ assets \in [Asset -> Handle]
  BY DEF LoadsInv
<1>2. QED
  BY <1>1, LoadsWithdrawn

LEMMA NoRequestFields == NoRequest \in Req /\ NoRequest.asset = None
BY DEF NoRequest, Req

LEMMA DisconnectLoads ==
  ASSUME LoadsInv, NEW c \in Socket, Disconnect(c)
  PROVE  LoadsInv'
<1>1. /\ reqs' = [r \in Request |-> IF reqs[r].sock = c THEN [reqs[r] EXCEPT !.sock = None]
                                                        ELSE reqs[r]]
      /\ UNCHANGED assets
  BY DEF Disconnect
<1>2. ASSUME NEW r \in Request PROVE reqs'[r] \in Req /\ reqs'[r].asset = reqs[r].asset
  <2> DEFINE x == reqs[r]
             y == reqs'[r]
  <2>1. x \in Req /\ (y = x \/ y = [x EXCEPT !.sock = None])
    BY <1>1, RequestOf
  <2> HIDE DEF x, y
  <2>2. y \in Req /\ y.asset = x.asset
    BY <2>1 DEF Req
  <2>3. QED
    BY <2>2 DEF x, y
<1>3. reqs' \in [Request -> Req]
  BY <1>1, <1>2
<1>4. assets \in [Asset -> Handle]
  BY DEF LoadsInv
<1>5. QED
  BY <1>1, <1>2, <1>3, <1>4, LoadsWithdrawn

LEMMA RevokeLoads ==
  ASSUME LoadsInv, NEW g \in Pairing, Revoke(g)
  PROVE  LoadsInv'
<1>1. /\ reqs' = AbortRequests(g)
      /\ assets' = [a \in Asset |->
                      IF assets[a].stage = "held" /\ assets[a].grant = g
                      THEN Gone(assets[a]) ELSE assets[a]]
  BY DEF Revoke
<1>2. ASSUME NEW r \in Request
      PROVE  reqs'[r] \in Req /\ (reqs'[r].asset # None => reqs'[r].asset = reqs[r].asset)
  <2> DEFINE x == reqs[r]
             y == reqs'[r]
  <2>1. x \in Req /\ (y = x \/ y = NoRequest \/ y = [x EXCEPT !.aborted = TRUE])
    <3>1. y = CASE r \in Loads(g) -> NoRequest
                [] reqs[r].grant # g -> x
                [] OTHER -> [x EXCEPT !.aborted = TRUE]
      BY <1>1 DEF AbortRequests
    <3>2. QED
      BY <3>1, RequestOf
  <2> HIDE DEF x, y
  <2>2. y \in Req /\ (y.asset # None => y.asset = x.asset)
    BY <2>1, NoRequestFields DEF Req
  <2>3. QED
    BY <2>2 DEF x, y
<1>3. reqs' \in [Request -> Req]
  <2>1. reqs' = [r \in Request |-> reqs'[r]]
    BY <1>1 DEF AbortRequests
  <2>2. QED
    BY <1>2, <2>1
<1>4. QED
  BY <1>1, <1>2, <1>3, LoadsWithdrawn

LEMMA RestartLoads ==
  ASSUME LoadsInv, Restart
  PROVE  LoadsInv'
<1>1. /\ reqs' = [r \in Request |-> NoRequest]
      /\ assets' = [a \in Asset |-> IF assets[a].stage = "held" THEN Gone(assets[a])
                                                                ELSE assets[a]]
  BY DEF Restart
<1>2. reqs' \in [Request -> Req] /\ \A r \in Request : reqs'[r].asset = None
  BY <1>1, NoRequestFields
<1>3. QED
  BY <1>1, <1>2, LoadsWithdrawn

LEMMA WithdrawLoads ==
  ASSUME LoadsInv, NEW a \in Asset, Withdraw(a)
  PROVE  LoadsInv'
<1>1. assets' = [assets EXCEPT ![a] = Gone(assets[a])] /\ UNCHANGED reqs
  BY DEF Withdraw
<1>2. assets \in [Asset -> Handle] /\ reqs \in [Request -> Req]
  BY DEF LoadsInv
<1>3. QED
  BY <1>1, <1>2, LoadsWithdrawn

\* A handle that was not issued is with no request.
LEMMA IssueLoads ==
  ASSUME LoadsInv, NEW a \in Asset, NEW g \in Pairing, Issue(a, g)
  PROVE  LoadsInv'
<1> DEFINE x == assets[a]
           y == [x EXCEPT !.stage = "held", !.grant = g]
<1>1. x.stage = "unissued" /\ assets' = [assets EXCEPT ![a] = y] /\ UNCHANGED reqs
  BY DEF Issue
<1>2. assets \in [Asset -> Handle] /\ reqs \in [Request -> Req]
  BY DEF LoadsInv
<1>3. x \in Handle /\ x.uses = 0
  BY <1>1, HandleOf DEF HandleSound
<1>4. HandleSound(y)
  <2> HIDE DEF x
  <2>1. y \in Handle /\ y.uses = 0
    BY <1>3 DEF Handle
  <2>2. QED
    BY <2>1 DEF HandleSound
<1> HIDE DEF y
<1>5. assets'[a] = y /\ \A b \in Asset : b # a => assets'[b] = assets[b]
  BY <1>1, <1>2
<1>6. \A b \in Asset : HandleSound(assets'[b])
  BY <1>4, <1>5, HandleOf
<1>7. ASSUME NEW r \in Request, reqs[r].asset # None
      PROVE  reqs'[r].asset = reqs[r].asset /\ Has(r, assets'[reqs[r].asset])
  <2>1. PICK b \in Asset : b = reqs[r].asset
    BY <1>7, RequestOf
  <2>2. Has(r, assets[b])
    BY <1>7, <2>1, RequestOf
  <2>3. b # a
    BY <1>1, <2>2 DEF Has
  <2>4. QED
    BY <1>1, <1>5, <2>1, <2>2, <2>3
<1>8. assets' = [b \in Asset |-> assets'[b]]
  BY <1>1, <1>2
<1>9. \A r \in Request : reqs'[r].asset # None =>
        /\ reqs'[r].asset = reqs[r].asset
        /\ Has(r, assets'[reqs'[r].asset])
  BY <1>1, <1>7
<1>10. reqs' \in [Request -> Req]
  BY <1>1, <1>2
<1>11. QED
  BY <1>6, <1>8, <1>9, <1>10, LoadsKept

LEMMA BeginLoads ==
  ASSUME LoadsInv, SocksInv, NEW c \in Socket, NEW k \in Request, Begin(c, k)
  PROVE  LoadsInv'
<1> DEFINE x == reqs[k]
           g == socks[c].grant
           y == [x EXCEPT !.running = TRUE, !.sock = c, !.grant = g]
<1>1. reqs' = [reqs EXCEPT ![k] = y] /\ UNCHANGED assets
  BY DEF Begin
<1>2. reqs \in [Request -> Req] /\ assets \in [Asset -> Handle]
  BY DEF LoadsInv
<1>3. x \in Req /\ g \in Pairing \cup {None}
  BY RequestOf, SockOf
<1> HIDE DEF x, g
<1>4. y \in Req /\ y.asset = x.asset
  BY <1>3 DEF Req
<1> HIDE DEF y
<1>5. reqs' \in [Request -> Req] /\ \A r \in Request : reqs'[r].asset = reqs[r].asset
  BY <1>1, <1>2, <1>4 DEF x
<1>6. QED
  BY <1>1, <1>2, <1>5, LoadsWithdrawn

\* A handle that is free is with no request, so the one that gets it is alone.
LEMMA BeginLoadLoads ==
  ASSUME LoadsInv, SocksInv, NEW c \in Socket, NEW k \in Request, NEW b \in Asset,
         BeginLoad(c, k, b)
  PROVE  LoadsInv'
<1> DEFINE x == reqs[k]
           g == socks[c].grant
           y == [x EXCEPT !.running = TRUE, !.sock = c, !.grant = g, !.asset = b]
           h == assets[b]
           i == [h EXCEPT !.holder = k]
<1>1. /\ reqs' = [reqs EXCEPT ![k] = y] /\ assets' = [assets EXCEPT ![b] = i]
      /\ h.stage = "held" /\ h.holder = None
  BY DEF BeginLoad, MayCheckOut
<1>2. reqs \in [Request -> Req] /\ assets \in [Asset -> Handle]
  BY DEF LoadsInv
<1>3. x \in Req /\ g \in Pairing \cup {None}
  BY RequestOf, SockOf
<1>4. HandleSound(h) /\ h \in Handle /\ h.uses = 0
  BY <1>1, HandleOf DEF HandleSound
<1>5. \A r \in Request : reqs[r].asset # b
  BY <1>1, RequestOf, NoneApart DEF Has
<1> HIDE DEF x, g, h
<1>6. y \in Req /\ y.asset = b
  BY <1>3 DEF Req
<1>7. i \in Handle /\ i.uses = 0 /\ i.stage = "held" /\ i.holder = k
  BY <1>1, <1>4 DEF Handle
<1> HIDE DEF y, i
<1>8. /\ reqs'[k] = y /\ \A r \in Request : r # k => reqs'[r] = reqs[r]
      /\ assets'[b] = i /\ \A a \in Asset : a # b => assets'[a] = assets[a]
      /\ reqs' = [r \in Request |-> reqs'[r]] /\ assets' = [a \in Asset |-> assets'[a]]
  BY <1>1, <1>2
<1>9. \A r \in Request : reqs'[r] \in Req
  BY <1>6, <1>8, RequestOf
<1>10. \A a \in Asset : HandleSound(assets'[a])
  BY <1>7, <1>8, HandleOf DEF HandleSound
<1>11. ASSUME NEW r \in Request, reqs'[r].asset # None
       PROVE  /\ Has(r, assets'[reqs'[r].asset])
              /\ \A s \in Request : reqs'[s].asset = reqs'[r].asset => s = r
  <2>1. CASE r = k
    <3>1. reqs'[r].asset = b /\ Has(r, assets'[b])
      BY <1>6, <1>7, <1>8, <2>1 DEF Has
    <3>2. \A s \in Request : s # k => reqs'[s].asset # b
      BY <1>5, <1>8
    <3>3. QED
      BY <2>1, <3>1, <3>2
  <2>2. CASE r # k
    <3>1. reqs'[r].asset = reqs[r].asset /\ reqs[r].asset # b /\ reqs[r].asset # None
      BY <1>5, <1>8, <1>11, <2>2
    <3>2. PICK a \in Asset : a = reqs[r].asset /\ a # b
      BY <3>1, RequestOf
    <3>3. Has(r, assets'[a])
      BY <1>8, <3>1, <3>2, RequestOf
    <3>4. ASSUME NEW s \in Request, reqs'[s].asset = a PROVE s = r
      <4>1. s # k
        BY <1>6, <1>8, <3>2, <3>4
      <4>2. reqs[s].asset = reqs[r].asset
        BY <1>8, <3>2, <3>4, <4>1
      <4>3. QED
        BY <3>1, <4>2 DEF LoadsInv
    <3>5. QED
      BY <3>1, <3>2, <3>3, <3>4
  <2>3. QED
    BY <2>1, <2>2
<1>12. \A a \in Asset : assets'[a] \in Handle
  BY <1>10 DEF HandleSound
<1>13. reqs' \in [Request -> Req] /\ assets' \in [Asset -> Handle]
  BY <1>8, <1>9, <1>12
<1>14. HandleSpentOnce'
  BY <1>10 DEF HandleSound, HandleSpentOnce
<1>15. QED
  BY <1>11, <1>13, <1>14 DEF LoadsInv, Has

\* An accepted load leaves its handle gone and spent once.
LEMMA SettledFields ==
  ASSUME LoadsInv, NEW k \in Request, NEW b \in Asset, reqs[k].asset = b, NEW accepted \in BOOLEAN
  PROVE  LET m == Settled(b, k, accepted)
         IN m \in Handle /\ m.uses = 0 /\ (accepted => m.stage = "gone")
<1> DEFINE x == assets[b]
           m == Settled(b, k, accepted)
           y == [x EXCEPT !.holder = None]
<1>1. HandleSound(x) /\ x \in Handle /\ Has(k, x)
  BY HandleOf, RequestOf, NoneApart
<1>2. \/ m = x /\ (x.stage # "held" \/ x.holder # k)
      \/ m = Gone(x)
      \/ m = y /\ ~ accepted
  BY DEF Settled
<1> HIDE DEF x, m
<1>3. y \in Handle /\ y.uses = x.uses
  BY <1>1 DEF Handle
<1>4. Gone(x) \in Handle /\ Gone(x).uses = x.uses /\ Gone(x).stage = "gone"
  BY <1>1, GoneSound DEF HandleSound
<1> HIDE DEF y
<1>5. m \in Handle /\ m.uses = 0 /\ (accepted => m.stage = "gone")
  BY <1>1, <1>2, <1>3, <1>4 DEF Has
<1>6. QED
  BY <1>5 DEF m

LEMMA SettledSound ==
  ASSUME LoadsInv, NEW k \in Request, NEW b \in Asset, reqs[k].asset = b, NEW accepted \in BOOLEAN
  PROVE  HandleSound([Settled(b, k, accepted) EXCEPT !.uses = IF accepted THEN @ + 1 ELSE @])
<1> DEFINE m == Settled(b, k, accepted)
           u == IF accepted THEN m.uses + 1 ELSE m.uses
           h == [m EXCEPT !.uses = u]
<1>1. m \in Handle /\ m.uses = 0 /\ (accepted => m.stage = "gone")
  BY SettledFields
<1> HIDE DEF m
<1>2. u \in {0, 1} /\ u \in Nat /\ (u = 1 => accepted)
  BY <1>1
<1> HIDE DEF u
<1>3. h \in Handle /\ h.uses = u /\ h.stage = m.stage
  BY <1>1, <1>2 DEF Handle
<1> HIDE DEF h
<1>4. HandleSound(h)
  BY <1>1, <1>2, <1>3 DEF HandleSound
<1>5. QED
  BY <1>4 DEF h, u, m

LEMMA FinishLoads ==
  ASSUME LoadsInv, NEW k \in Request, NEW accepted \in BOOLEAN, Finish(k, accepted)
  PROVE  LoadsInv'
<1>1. /\ reqs' = [reqs EXCEPT ![k] = NoRequest]
      /\ assets' = [a \in Asset |->
           IF a # reqs[k].asset THEN assets[a]
           ELSE [Settled(a, k, accepted) EXCEPT !.uses = IF accepted THEN @ + 1 ELSE @]]
  BY DEF Finish
<1>2. reqs \in [Request -> Req] /\ assets \in [Asset -> Handle]
  BY DEF LoadsInv
<1>3. /\ reqs'[k] = NoRequest /\ \A r \in Request : r # k => reqs'[r] = reqs[r]
      /\ reqs' \in [Request -> Req]
  BY <1>1, <1>2, NoRequestFields
<1>4. \A a \in Asset : a # reqs[k].asset => assets'[a] = assets[a]
  BY <1>1
<1>5. ASSUME NEW a \in Asset PROVE HandleSound(assets'[a])
  <2>1. CASE a # reqs[k].asset
    BY <1>4, <2>1, HandleOf
  <2>2. CASE a = reqs[k].asset
    <3>1. assets'[a] = [Settled(a, k, accepted) EXCEPT !.uses = IF accepted THEN @ + 1 ELSE @]
      BY <1>1, <2>2
    <3>2. QED
      BY <2>2, <3>1, SettledSound
  <2>3. QED
    BY <2>1, <2>2
<1>6. ASSUME NEW r \in Request, reqs'[r].asset # None
      PROVE  reqs'[r].asset = reqs[r].asset /\ Has(r, assets'[reqs'[r].asset])
  <2>1. r # k /\ reqs'[r] = reqs[r]
    BY <1>3, <1>6, NoRequestFields
  <2>2. PICK a \in Asset : a = reqs[r].asset
    BY <1>6, <2>1, RequestOf
  <2>3. a # reqs[k].asset
    BY <1>6, <2>1, <2>2 DEF LoadsInv
  <2>4. Has(r, assets[a])
    BY <1>6, <2>1, <2>2, RequestOf
  <2>5. QED
    BY <1>4, <2>1, <2>2, <2>3, <2>4
<1>7. assets' = [a \in Asset |-> assets'[a]]
  BY <1>1
<1>8. QED
  BY <1>3, <1>5, <1>6, <1>7, LoadsKept

LEMMA LoadsStep ==
  ASSUME LoadsInv, SocksInv, [Next]_vars
  PROVE  LoadsInv'
<1> DEFINE Goal == LoadsInv'
<1> SUFFICES Goal
  OBVIOUS
<1>1. ASSUME UNCHANGED <<reqs, assets>> PROVE Goal
  BY <1>1, LoadsStay
<1> HIDE DEF Goal
<1>2. ASSUME NEW c \in Socket, ClientStep(c) PROVE Goal
  <2>1. CASE Connect(c) \/ PeerCloses(c) \/ NoticeWritten(c) \/ RefuseRevoked(c) \/ Flush(c)
    BY <1>1, <2>1 DEF Connect, PeerCloses, NoticeWritten, RefuseRevoked, Flush
  <2>2. ASSUME NEW p \in Pairing, AskPairing(c, p) \/ Authenticate(c, p) PROVE Goal
    BY <1>1, <2>2 DEF AskPairing, Authenticate
  <2>3. ASSUME NEW r \in Request, Begin(c, r) PROVE Goal
    BY <2>3, BeginLoads DEF Goal
  <2>4. ASSUME NEW r \in Request, NEW a \in Asset, BeginLoad(c, r, a) PROVE Goal
    BY <2>4, BeginLoadLoads DEF Goal
  <2>5. ASSUME NEW names, NEW kept, Subscribe(c, names, kept) PROVE Goal
    BY <1>1, <2>5 DEF Subscribe
  <2>6. ASSUME NEW names, Unsubscribe(c, names) PROVE Goal
    BY <1>1, <2>6 DEF Unsubscribe
  <2>7. CASE Disconnect(c)
    BY <2>7, DisconnectLoads DEF Goal
  <2>8. QED
    BY <1>2, <2>1, <2>2, <2>3, <2>4, <2>5, <2>6, <2>7 DEF ClientStep
<1>3. ASSUME NEW p \in Pairing, UserStep(p) PROVE Goal
  <2>1. CASE Revoke(p)
    BY <2>1, RevokeLoads DEF Goal
  <2>2. CASE ChallengeLapses(p) \/ ApproveLate(p) \/ ApproveBadCode(p) \/ ApproveRefused(p)
               \/ GrantUnsaved(p) \/ Approve(p)
    BY <1>1, <2>2
       DEF ChallengeLapses, ApproveLate, ApproveBadCode, ApproveRefused, GrantUnsaved, Approve
  <2>3. QED
    BY <1>3, <2>1, <2>2 DEF UserStep
<1>4. CASE ServerStep
  <2>1. CASE Restart
    BY <2>1, RestartLoads DEF Goal
  <2>2. CASE OpenWindow \/ CloseWindow \/ WindowLapses \/ ScheduledSave
    BY <1>1, <2>2 DEF OpenWindow, CloseWindow, WindowLapses, ScheduledSave
  <2>3. QED
    BY <1>4, <2>1, <2>2 DEF ServerStep
<1>5. ASSUME NEW r \in Request, NEW accepted \in BOOLEAN, Finish(r, accepted) PROVE Goal
  BY <1>5, FinishLoads DEF Goal
<1>6. ASSUME NEW a \in Asset, NEW g \in Pairing, Issue(a, g) PROVE Goal
  BY <1>6, IssueLoads DEF Goal
<1>7. ASSUME NEW a \in Asset, Withdraw(a) PROVE Goal
  BY <1>7, WithdrawLoads DEF Goal
<1>8. ASSUME NEW name, NEW size, NEW passed, Publish(name, size, passed) PROVE Goal
  BY <1>1, <1>8 DEF Publish
<1>9. CASE UNCHANGED vars
  BY <1>1, <1>9 DEF vars
<1>10. QED
  BY <1>2, <1>3, <1>4, <1>5, <1>6, <1>7, <1>8, <1>9 DEF Next

-----------------------------------------------------------------------------
(* The invariant and what follows.                                           *)

LEMMA ViewerInit == Init => ViewerInv
<1> SUFFICES ASSUME Init PROVE ViewerInv
  OBVIOUS
<1>1. GrantsInv
  <2>1. /\ grants = {} /\ saved = {} /\ revoked = {} /\ window = FALSE /\ saveDue = FALSE
        /\ missed = {} /\ store \in BOOLEAN
        /\ pairs = [p \in Pairing |-> NoChallenge]
    BY DEF Init
  <2>2. NoChallenge.stage # "granted"
    BY NoChallengeFields
  <2>3. pairs \in [Pairing -> Challenge] /\ \A p \in Pairing : ChallengeGood(pairs[p])
    BY <2>1, NoChallengeFields, NoChallengeGood
  <2>4. GrantsDurable
    BY <2>1, <2>2 DEF GrantsDurable
  <2>5. QED
    BY <2>1, <2>3, <2>4 DEF GrantsInv
<1>2. SocksInv
  BY NoSockFields DEF Init, SocksInv
<1>3. LoadsInv
  <2> DEFINE h == [stage |-> "unissued", grant |-> None, holder |-> None, uses |-> 0]
  <2>1. reqs = [r \in Request |-> NoRequest] /\ assets = [a \in Asset |-> h]
    BY DEF Init
  <2>2. h \in Handle /\ h.uses = 0
    BY DEF Handle
  <2> HIDE DEF h
  <2>3. \A r \in Request : reqs[r].asset = None
    BY <2>1, NoRequestFields
  <2>4. HandleSpentOnce
    BY <2>1, <2>2 DEF HandleSpentOnce
  <2>5. QED
    BY <2>1, <2>2, <2>3, <2>4, NoRequestFields DEF LoadsInv
<1>4. QueuesInv
  <2>1. /\ queues = [c \in Socket |-> EmptyQueue] /\ tally = [c \in Socket |-> NoTally]
        /\ socks = [c \in Socket |-> NoSock]
    BY DEF Init
  <2>2. NoTally \in Tally
    BY DEF NoTally, Tally
  <2>3. \A c \in Socket : Sound(c)
    BY <2>1, <2>2, EmptyQueueGood, NoSockFields DEF Sound, ClientSound
  <2>4. QED
    BY <2>1, <2>3, SoundQueues
<1>5. QED
  BY <1>1, <1>2, <1>3, <1>4 DEF ViewerInv, Init

\* A result is sent only under a grant that is there.
LEMMA LeaksStep ==
  ASSUME GrantsInv, leaks = {}, [Next]_vars
  PROVE  leaks' = {}
<1>1. ASSUME UNCHANGED leaks PROVE leaks' = {}
  BY <1>1
<1>2. ASSUME NEW c \in Socket, ClientStep(c) PROVE UNCHANGED leaks
  BY <1>2 DEF ClientStep, Connect, PeerCloses, NoticeWritten, Disconnect, RefuseRevoked, Flush,
              AskPairing, Authenticate, Begin, BeginLoad, Subscribe, Unsubscribe, history
<1>3. ASSUME NEW p \in Pairing, UserStep(p) PROVE UNCHANGED leaks
  BY <1>3 DEF UserStep, ChallengeLapses, ApproveLate, ApproveBadCode, ApproveRefused, GrantUnsaved,
              Approve, Revoke, history
<1>4. ASSUME ServerStep PROVE UNCHANGED leaks
  BY <1>4 DEF ServerStep, OpenWindow, CloseWindow, WindowLapses, ScheduledSave, Restart, history
<1>5. ASSUME NEW r \in Request, NEW accepted \in BOOLEAN, Finish(r, accepted) PROVE UNCHANGED leaks
  <2>1. ~ Stale(r) => reqs[r].grant \notin revoked
    BY DEF Stale, GrantsInv, GrantsDurable
  <2>2. QED
    BY <1>5, <2>1 DEF Finish
<1>6. ASSUME NEW a \in Asset, NEW g \in Pairing, Issue(a, g) PROVE UNCHANGED leaks
  BY <1>6 DEF Issue, history
<1>7. ASSUME NEW a \in Asset, Withdraw(a) PROVE UNCHANGED leaks
  BY <1>7 DEF Withdraw, history
<1>8. ASSUME NEW name, NEW size, NEW passed, Publish(name, size, passed) PROVE UNCHANGED leaks
  BY <1>8 DEF Publish
<1>9. ASSUME UNCHANGED vars PROVE UNCHANGED leaks
  BY <1>9 DEF vars
<1>10. QED
  BY <1>1, <1>2, <1>3, <1>4, <1>5, <1>6, <1>7, <1>8, <1>9 DEF Next

LEMMA ViewerStep == ViewerInv /\ [Next]_vars => ViewerInv'
<1> SUFFICES ASSUME ViewerInv, [Next]_vars PROVE ViewerInv'
  OBVIOUS
<1>1. GrantsInv /\ SocksInv /\ LoadsInv /\ QueuesInv /\ leaks = {}
  BY DEF ViewerInv
<1>2. GrantsInv' /\ LoadsInv' /\ leaks' = {}
  BY <1>1, GrantsStep, LoadsStep, LeaksStep
<1>3. QueuesInv'
  BY <1>1, QueuesStep, MovedQueues
<1>4. SocksInv'
  <2>1. CASE SocksMove
    BY <2>1 DEF SocksMove, SocksInv
  <2>2. ASSUME NEW c \in Socket, Connect(c) PROVE SocksInv'
    BY <1>1, <2>2, ConnectStep
  <2>3. QED
    BY <1>1, <2>1, <2>2, SocksStep
<1>5. QED
  BY <1>2, <1>3, <1>4 DEF ViewerInv

\* The grants, sockets, handles and queues of the Viewer API server stay sound.
LEMMA ViewerInvariant == Spec => []ViewerInv
BY ViewerInit, ViewerStep, PTL DEF Spec

\* Type correctness: whatever clients, users and files do, every value the
\* server keeps is of its kind; no count falls below zero, and no challenge
\* counts more bad codes than it may.
THEOREM ViewerTyped == Spec => []TypeOK
<1>1. ViewerInv => TypeOK
  BY DEF ViewerInv, GrantsInv, SocksInv, LoadsInv, QueuesInv, TypeOK
<1>2. QED
  BY <1>1, ViewerInvariant, PTL

\* Grants in memory and in the file agree, and a token that was handed out is
\* good until it is revoked, across failed saves and restarts.
THEOREM GrantsStayDurable == Spec => []GrantsDurable
<1>1. ViewerInv => GrantsDurable
  BY DEF ViewerInv, GrantsInv
<1>2. QED
  BY <1>1, ViewerInvariant, PTL

\* A picked file is loaded at most once with its handle.
THEOREM HandlesSpentOnce == Spec => []HandleSpentOnce
<1>1. ViewerInv => HandleSpentOnce
  BY DEF ViewerInv, LoadsInv
<1>2. QED
  BY <1>1, ViewerInvariant, PTL

\* Every event a connection was offered is sent, queued or counted in a notice,
\* and the byte count of its queue is that of the queued events.
THEOREM DropsAreAccounted == Spec => []DropsAccounted
<1>1. ViewerInv => DropsAccounted
  BY DEF ViewerInv, QueuesInv, DropsAccounted
<1>2. QED
  BY <1>1, ViewerInvariant, PTL

\* What waits for a connected client has its flush timer set.
THEOREM NothingIsStranded == Spec => []NothingStranded
<1>1. ViewerInv => NothingStranded
  BY DEF ViewerInv, QueuesInv
<1>2. QED
  BY <1>1, ViewerInvariant, PTL

\* Every challenge gets one final answer.
THEOREM ChallengesAnswered == Spec => ChallengeAnsweredOnce
<1> DEFINE A == \A p \in Pairing :
                  /\ pairs'[p].told <= 1
                  /\ pairs'[p].stage \in {"unused", "pending"} => pairs'[p].told = 0
                  /\ pairs'[p].stage = "granted" => pairs'[p].told = 1
                  /\ LET c == pairs[p].sock
                     IN p \in Pending /\ pairs'[p].stage = "ended" /\ Open(c) =>
                          pairs'[p].told = 1 \/ socks'[c].phase # "open"
<1>1. ViewerInv /\ [Next]_vars => A
  <2> SUFFICES ASSUME ViewerInv, [Next]_vars PROVE A
    OBVIOUS
  <2>1. GrantsInv' /\ \A p \in Pairing : Answered(p)
    BY GrantsStep DEF ViewerInv
  <2>2. \A p \in Pairing : ChallengeGood(pairs'[p])
    BY <2>1 DEF GrantsInv
  <2>3. QED
    BY <2>1, <2>2 DEF ChallengeGood, Answered
<1> HIDE DEF A
<1>2. Spec => [][A]_vars
  BY <1>1, ViewerInvariant, PTL DEF Spec
<1>3. QED
  BY <1>2 DEF ChallengeAnsweredOnce, A

\* After a confirmed revocation nothing is answered, queued or authenticated
\* under the grant.
THEOREM RevocationsFinal == Spec => RevocationIsFinal
<1> DEFINE A == /\ leaks' = {}
                /\ \A c \in Socket : Unaccounted(tally'[c]) > Unaccounted(tally[c]) =>
                                       socks[c].bound \notin revoked
                /\ \A c \in Socket : socks'[c].bound # socks[c].bound =>
                                       socks'[c].bound \notin revoked
<1>1. ViewerInv /\ [Next]_vars => A
  <2> SUFFICES ASSUME ViewerInv, [Next]_vars PROVE A
    OBVIOUS
  <2>1. GrantsInv /\ SocksInv /\ QueuesInv /\ leaks = {}
    BY DEF ViewerInv
  <2>2. leaks' = {}
    BY <2>1, LeaksStep
  <2>3. \A c \in Socket : Unaccounted(tally'[c]) > Unaccounted(tally[c]) =>
                            socks[c].bound \notin revoked
    BY <2>1, QueuesStep DEF QueuesMove, Served
  <2>4. \A c \in Socket : socks'[c].bound # socks[c].bound => socks'[c].bound \notin revoked
    <3>1. CASE SocksMove
      BY <3>1 DEF SocksMove, SockMoves
    <3>2. ASSUME NEW d \in Socket, Connect(d)
          PROVE  \A c \in Socket : socks'[c].bound # socks[c].bound =>
                                     socks'[c].bound \notin revoked
      BY <2>1, <3>2, ConnectStep
    <3>3. QED
      BY <2>1, <3>1, <3>2, SocksStep
  <2>5. QED
    BY <2>2, <2>3, <2>4
<1> HIDE DEF A
<1>2. Spec => [][A]_vars
  BY <1>1, ViewerInvariant, PTL DEF Spec
<1>3. QED
  BY <1>2 DEF RevocationIsFinal, A
=============================================================================
